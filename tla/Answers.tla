------------------------------- MODULE Answers -------------------------------
(* The assistant of the bot and of /ai/...: src/services/ai_kimi.py asks    *)
(* Gemini, then OpenRouter, then the local Ollama, and keeps the answer for *)
(* an hour; ai_limits.py counts the requests of a day and remembers them.   *)
(* cargo_antifraud.py asks the same service for every new cargo.            *)
EXTENDS Integers, Sequences, FiniteSets

CONSTANTS
  Asker,
  Question,     \* one text in one mode
  CargoText,    \* the question about a new cargo, one of them
  Call,         \* requests in flight
  HostOnUtc,    \* the date of the host changes at midnight UTC
  LastDate,     \* bound of the dates
  MostAsked,    \* bound of the requests counted on a date
  FreeLimit,    \* FREE_DAILY_LIMIT
  MaxRetries,   \* of the chat with OpenRouter
  HistoryMax,   \* _HISTORY_MAX
  HasKey        \* OPENROUTER_API_KEY is set

ASSUME AnswersAssumption ==
  /\ CargoText \in Question /\ "service" \notin Asker
  /\ LastDate \in Nat /\ MostAsked \in Nat /\ FreeLimit \in Nat
  /\ MaxRetries \in Nat /\ HistoryMax \in Nat
  /\ HostOnUtc \in BOOLEAN /\ HasKey \in BOOLEAN

VARIABLES
  date,       \* of the host
  split,      \* midnight UTC has passed on this date
  premium,    \* askers on an active plan
  used,       \* asker -> ai_limit:<user>:<date>
  remembered, \* questions with an answer kept
  noted,      \* asker -> ai_history, newest first: did the request succeed
  judged,     \* antifraud:cargo:<id> of the new cargo
  call,       \* call -> its state
  replied,    \* questions a model answered with what could be read (observed)
  served      \* asker -> requests the count let through on this date (observed)

answersVars == <<date, split, premium, used, remembered, noted, judged, call, replied, served>>

Service == "service"  \* asks for a new cargo: no user, no limit, no history
Free == [step |-> "idle", who |-> Service, ask |-> CargoText, try |-> 0, good |-> FALSE]

AnswersTypeOK ==
  /\ date \in 0..LastDate /\ split \in BOOLEAN /\ premium \subseteq Asker
  /\ used \in [Asker -> 0..MostAsked] /\ served \in [Asker -> Nat]
  /\ remembered \subseteq Question /\ replied \subseteq Question
  /\ \A u \in Asker : noted[u] \in Seq(BOOLEAN) /\ Len(noted[u]) <= HistoryMax
  /\ judged \in {"none", "given", "unknown"}
  /\ call \in [Call -> [step : {"idle", "limit", "cache", "gemini", "openrouter", "again",
                                "ollama", "read", "note"},
                        who : Asker \cup {Service}, ask : Question, try : 0..MaxRetries,
                        good : BOOLEAN]]

AnswersInit ==
  /\ date = 0 /\ split = FALSE /\ premium = {}
  /\ used = [u \in Asker |-> 0] /\ served = [u \in Asker |-> 0]
  /\ remembered = {} /\ replied = {}
  /\ noted = [u \in Asker |-> <<>>] /\ judged = "none"
  /\ call = [c \in Call |-> Free]

Step(c, step) == call' = [call EXCEPT ![c].step = step]

-----------------------------------------------------------------------------

\* The key holds the date of the host and expires at midnight UTC.
NewDate ==
  /\ date < LastDate /\ (HostOnUtc \/ split)
  /\ date' = date + 1 /\ split' = FALSE
  /\ used' = [u \in Asker |-> 0] /\ served' = [u \in Asker |-> 0]
  /\ UNCHANGED <<premium, remembered, noted, judged, call, replied>>

\* Where the date goes on, its count is lost.
MidnightUtc ==
  /\ ~HostOnUtc /\ ~split
  /\ split' = TRUE
  /\ used' = [u \in Asker |-> 0]
  /\ UNCHANGED <<date, premium, remembered, noted, judged, call, replied, served>>

SwitchPlan(u) ==
  /\ premium' = IF u \in premium THEN premium \ {u} ELSE premium \cup {u}
  /\ UNCHANGED <<date, split, used, remembered, noted, judged, call, replied, served>>

Forget(q) ==
  /\ q \in remembered /\ remembered' = remembered \ {q}
  /\ UNCHANGED <<date, split, premium, used, noted, judged, call, replied, served>>

\* is_premium_user: a user on a plan is not counted.
Ask(c, u, q) ==
  /\ call[c] = Free
  /\ call' = [call EXCEPT ![c] = [Free EXCEPT !.who = u, !.ask = q,
                                  !.step = IF u \in premium THEN "cache" ELSE "limit"]]
  /\ UNCHANGED <<date, split, premium, used, remembered, noted, judged, replied, served>>

\* run_antifraud_check of a new cargo; if nothing was kept, of the next one with
\* that text.
AskForCargo(c) ==
  /\ call[c] = Free /\ judged = "none"
  /\ \A d \in Call : call[d].who = Service => call[d] = Free
  /\ call' = [call EXCEPT ![c] = [Free EXCEPT !.step = "cache"]]
  /\ UNCHANGED <<date, split, premium, used, remembered, noted, judged, replied, served>>

Within(count) == count <= FreeLimit

\* check_and_increment
Count(c) ==
  LET u == call[c].who IN
  /\ call[c].step = "limit" /\ used[u] < MostAsked
  /\ used' = [used EXCEPT ![u] = @ + 1]
  /\ IF Within(used'[u])
     THEN /\ served' = [served EXCEPT ![u] = @ + 1]
          /\ Step(c, "cache")
     ELSE /\ call' = [call EXCEPT ![c] = Free]
          /\ UNCHANGED served
  /\ UNCHANGED <<date, split, premium, remembered, noted, judged, replied>>

\* Redis fails, before or after it counts: the request is let through.
CountFails(c) ==
  LET u == call[c].who IN
  /\ call[c].step = "limit" /\ used[u] < MostAsked
  /\ used' \in {used, [used EXCEPT ![u] = @ + 1]}
  /\ Step(c, "cache")
  /\ UNCHANGED <<date, split, premium, remembered, noted, judged, replied, served>>

\* A cached answer is returned, unless Redis fails; an entry is one that could
\* be read.
LookUp(c) ==
  /\ call[c].step = "cache"
  /\ \/ /\ call[c].ask \in remembered
        /\ call' = [call EXCEPT ![c].step = "note", ![c].good = TRUE]
     \/ Step(c, "gemini")
  /\ UNCHANGED <<date, split, premium, used, remembered, noted, judged, replied, served>>

\* The first call of chat; without a key for OpenRouter Ollama is next.
Gemini(c) ==
  /\ call[c].step = "gemini"
  /\ \/ Step(c, "read")
     \/ Step(c, IF HasKey THEN "openrouter" ELSE "ollama")
  /\ UNCHANGED <<date, split, premium, used, remembered, noted, judged, replied, served>>

Fails(c) == call' = [call EXCEPT ![c].step = "note", ![c].good = FALSE]

\* A timeout is tried again, and after the last one Gemini and Ollama; an
\* error of the service is tried again, the last one raised; another error
\* is raised at once.
OpenRouter(c) ==
  /\ call[c].step = "openrouter"
  /\ \/ Step(c, "read")
     \/ /\ call[c].try < MaxRetries
        /\ call' = [call EXCEPT ![c].try = @ + 1]
     \/ /\ call[c].try = MaxRetries /\ Step(c, "again")
     \/ /\ call[c].try = MaxRetries /\ Fails(c)
     \/ Fails(c)
  /\ UNCHANGED <<date, split, premium, used, remembered, noted, judged, replied, served>>

GeminiAgain(c) ==
  /\ call[c].step = "again"
  /\ Step(c, "read") \/ Step(c, "ollama")
  /\ UNCHANGED <<date, split, premium, used, remembered, noted, judged, replied, served>>

Ollama(c) ==
  /\ call[c].step = "ollama"
  /\ \/ Step(c, "read")
     \/ Fails(c)
  /\ UNCHANGED <<date, split, premium, used, remembered, noted, judged, replied, served>>

\* As if the answer were kept before its fields were read.
KeptUnread(c, fine) == remembered \cup {call[c].ask}

Kept(c, fine) == IF fine THEN remembered \cup {call[c].ask} ELSE remembered

\* _extract_json and the numbers in it; what cannot be read is an error and
\* is not kept.
Read(c) ==
  /\ call[c].step = "read"
  /\ \E fine \in BOOLEAN :
       /\ remembered' = Kept(c, fine)
       /\ replied' = IF fine THEN replied \cup {call[c].ask} ELSE replied
       /\ call' = [call EXCEPT ![c].step = "note", ![c].good = fine]
  /\ UNCHANGED <<date, split, premium, used, noted, judged, served>>

\* log_ai_request, or _store_result for a week whatever the result was; a fault
\* of Redis is swallowed.
Note(c) ==
  LET u == call[c].who IN
  /\ call[c].step = "note"
  /\ IF u = Service
     THEN /\ judged' \in {judged, IF call[c].good THEN "given" ELSE "unknown"}
          /\ UNCHANGED noted
     ELSE /\ LET log == <<call[c].good>> \o noted[u] IN
             noted' \in {noted, [noted EXCEPT ![u] =
               SubSeq(log, 1, IF Len(log) < HistoryMax THEN Len(log) ELSE HistoryMax)]}
          /\ UNCHANGED judged
  /\ call' = [call EXCEPT ![c] = Free]
  /\ UNCHANGED <<date, split, premium, used, remembered, replied, served>>

\* The process dies with the call; the count stays.
Lost(c) ==
  /\ call[c] # Free
  /\ call' = [call EXCEPT ![c] = Free]
  /\ UNCHANGED <<date, split, premium, used, remembered, noted, judged, replied, served>>

AnswersNext ==
  \/ NewDate \/ MidnightUtc
  \/ \E u \in Asker : SwitchPlan(u)
  \/ \E q \in Question : Forget(q)
  \/ \E c \in Call :
       \/ \E u \in Asker, q \in Question : Ask(c, u, q)
       \/ AskForCargo(c) \/ Count(c) \/ CountFails(c) \/ LookUp(c) \/ Gemini(c) \/ OpenRouter(c)
       \/ GeminiAgain(c) \/ Ollama(c) \/ Read(c) \/ Note(c) \/ Lost(c)

AnswersSpec == AnswersInit /\ [][AnswersNext]_answersVars

-----------------------------------------------------------------------------

(* Whatever fails at whichever of the providers, an error is never kept as  *)
(* the answer to the next who asks the same, and no success is noted of a   *)
(* question no model ever answered.  However many requests of a user run at *)
(* once, and whether the plan begins or ends between them, those the count  *)
(* lets through on one date are at most the free ones, twice as many where  *)
(* the date of the host does not change at midnight UTC.                    *)
AnswersAreFounded ==
  /\ remembered \subseteq replied
  /\ \A c \in Call : call[c].step = "note" /\ call[c].good => call[c].ask \in replied
  /\ judged = "given" => CargoText \in replied
  /\ \A u \in Asker :
       /\ served[u] <= (IF HostOnUtc THEN 1 ELSE 2) * FreeLimit
       /\ (\E i \in DOMAIN noted[u] : noted[u][i]) => replied # {}
=============================================================================
