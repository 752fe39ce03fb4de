------------------------------- MODULE Limits -------------------------------
(* The limit of requests of one address, src/core/rate_limit.py: a counter  *)
(* in Redis that the first request of a window gives a time to live.  All   *)
(* endpoints count on the same key, each against a limit of its own; a      *)
(* fault of Redis lets the request through.                                 *)
EXTENDS Integers, FiniteSets

CONSTANTS
  Endpoint,   \* endpoints that call check_rate_limit
  LimitOf,    \* endpoint -> limit
  Span,       \* window_sec
  LastSecond  \* bound of the clock

ASSUME LimitsAssumption ==
  /\ LimitOf \in [Endpoint -> Nat]
  /\ Span \in Nat \ {0} /\ LastSecond \in Nat

VARIABLES
  second,   \* the clock
  count,    \* the counter, 0 if the key is absent
  ttl,      \* its time to live, Forever if none was set
  call,     \* endpoint -> what INCR answered, 0 if it is not between calls
  begun,    \* when the key came to be, or got its time (observed)
  spared,   \* a counter was left without a time to live (observed)
  verdict   \* endpoint -> its last answer

limitVars == <<second, count, ttl, call, begun, spared, verdict>>

Forever == -1
MostCount == Cardinality(Endpoint) * (LastSecond + 1)
LimitsTypeOK ==
  /\ second \in 0..LastSecond
  /\ count \in Nat /\ ttl \in {Forever} \cup 0..Span
  /\ call \in [Endpoint -> Nat]
  /\ begun \in 0..LastSecond /\ spared \in BOOLEAN
  /\ verdict \in [Endpoint -> {"none", "allowed", "refused", "failed_open"}]

LimitsInit ==
  /\ second = 0 /\ count = 0 /\ ttl = Forever
  /\ call = [e \in Endpoint |-> 0]
  /\ begun = 0 /\ spared = FALSE
  /\ verdict = [e \in Endpoint |-> "none"]

\* A second passes: Redis drops a key whose time is over.
Second ==
  /\ second < LastSecond /\ second' = second + 1
  /\ count' = IF ttl = 1 THEN 0 ELSE count
  /\ ttl' = IF ttl > 1 THEN ttl - 1 ELSE Forever
  /\ UNCHANGED <<call, begun, spared, verdict>>

\* redis.incr(key)
Incr(e) ==
  /\ call[e] = 0 /\ count < MostCount
  /\ count' = count + 1
  /\ call' = [call EXCEPT ![e] = count + 1]
  /\ begun' = IF count = 0 THEN second ELSE begun
  /\ UNCHANGED <<second, ttl, spared, verdict>>

\* As if every request renewed the time to live.
EveryRequest(e) == count > 0

FirstOfWindow(e) == call[e] = 1

\* redis.expire(key) by the first, then the verdict; the key may be gone.
Judge(e) ==
  /\ call[e] > 0
  /\ ttl' = IF FirstOfWindow(e) /\ count > 0 THEN Span ELSE ttl
  /\ call' = [call EXCEPT ![e] = 0]
  /\ verdict' = [verdict EXCEPT ![e] = IF call[e] > LimitOf[e] THEN "refused" ELSE "allowed"]
  /\ begun' = IF call[e] = 1 THEN second ELSE begun
  /\ UNCHANGED <<second, count, spared>>

\* Redis fails after the increment: the request goes on, and if it was the
\* first nobody gives the counter a time to live.
FailOpen(e) ==
  /\ call[e] > 0
  /\ call' = [call EXCEPT ![e] = 0]
  /\ spared' = (spared \/ call[e] = 1)
  /\ verdict' = [verdict EXCEPT ![e] = "failed_open"]
  /\ UNCHANGED <<second, count, ttl, begun>>

LimitsNext == Second \/ \E e \in Endpoint : Incr(e) \/ Judge(e) \/ FailOpen(e)

LimitsSpec == LimitsInit /\ [][LimitsNext]_limitVars

\* CounterLives: requests are counted for no longer than a window after the
\* first of them, whichever endpoints they came to, unless the first is
\* still on its way or Redis failed it: then the address is refused for ever.
CounterLives ==
  count > 0 =>
    \/ second < begun + Span
    \/ spared
    \/ \E e \in Endpoint : call[e] = 1
=============================================================================
