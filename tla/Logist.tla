------------------------------- MODULE Logist -------------------------------
(* The AI logist of ai-engine/main.py: what it remembers of a session, the  *)
(* calls of ai-engine/llm.py with their cache and their places, the ratings *)
(* of its answers, and the answers an administrator teaches it, which       *)
(* ai-engine/knowledge.py keeps.                                            *)
EXTENDS Integers, Sequences, SequencesExt, FiniteSets

CONSTANTS
  Chatter,     \* users
  Message,
  Chat,        \* requests in flight
  CtxMessages, \* _CTX_MESSAGES
  Places,      \* maxsize of _queue
  MaxPending,  \* ids kept for review
  MostAnswers, \* bound of the rated answers
  MostRatings  \* bound of the ratings of one

ASSUME LogistAssumption ==
  /\ CtxMessages \in Nat \ {0} /\ Places \in Nat
  /\ MaxPending \in Nat \ {0} /\ MostAnswers \in Nat /\ MostRatings \in Nat
  /\ IsFiniteSet(Chat)

VARIABLES
  context,  \* chatter -> messages of nlu_context:<user>
  chats,    \* request -> its state
  places,   \* entries of _queue
  kept,     \* messages whose answer is cached
  record,   \* answer -> ai_fb:<id>: its rating, or "none"
  pending,  \* ai_feedback_queue, newest first
  known,    \* answers in the knowledge base
  rating,   \* answer -> POST /feedback in flight
  rated,    \* answer -> ratings given so far
  due,      \* chatter -> what an undisturbed session remembers (observed)
  mixed,    \* chatters whose requests overlapped or met a Redis fault (observed)
  down,     \* answers rated down (observed)
  cleared,  \* answers approved by their id, or pushed out of the list (observed)
  uttered   \* messages a model answered (observed)

logistVars == <<context, chats, places, kept, record, pending, known, rating, rated,
                due, mixed, down, cleared, uttered>>

Answer == 1..MostAnswers
Quiet == [step |-> "idle", kind |-> "ask", who |-> "none", text |-> "none", seen |-> <<>>]

LogistTypeOK ==
  /\ \A u \in Chatter : context[u] \in Seq(Message) /\ Len(context[u]) <= CtxMessages
  /\ \A r \in Chat :
       /\ chats[r].step \in {"idle", "load", "save", "cache", "status", "place", "model", "rate"}
       /\ chats[r].kind \in {"ask", "intent"}
       /\ chats[r].who \in Chatter \cup {"none"} /\ chats[r].text \in Message \cup {"none"}
  /\ places \in 0..Places /\ kept \subseteq Message /\ uttered \subseteq Message
  /\ record \in [Answer -> {"none", "open", "up", "down"}]
  /\ pending \in Seq(Answer)
  /\ known \subseteq Answer
  /\ rating \in [Answer -> {"none", "up", "down", "push", "trim"}]
  /\ rated \in [Answer -> 0..MostRatings]
  /\ mixed \subseteq Chatter /\ down \subseteq Answer /\ cleared \subseteq Answer

LogistInit ==
  /\ context = [u \in Chatter |-> <<>>] /\ chats = [r \in Chat |-> Quiet]
  /\ places = 0 /\ kept = {} /\ record = [a \in Answer |-> "none"] /\ pending = <<>>
  /\ known = {} /\ rating = [a \in Answer |-> "none"] /\ rated = [a \in Answer |-> 0]
  /\ due = [u \in Chatter |-> <<>>] /\ mixed = {} /\ down = {} /\ cleared = {}
  /\ uttered = {}

Session == <<context, due, mixed>>
Model == <<places, kept, uttered>>
Review == <<record, pending, known, rating, rated, down, cleared>>

Goes(r, step) == chats' = [chats EXCEPT ![r].step = step]

-----------------------------------------------------------------------------

Overlapping(r) == {s \in Chat \ {r} : chats[s] # Quiet /\ chats[s].who = chats[r].who}

AskLogist(r, u, m, kind) ==
  /\ chats[r] = Quiet
  /\ chats' = [chats EXCEPT ![r] = [step |-> "load", kind |-> kind, who |-> u,
                                        text |-> m, seen |-> <<>>]]
  /\ UNCHANGED <<Session, Model, Review>>

\* _load_ctx: a fault of Redis is an empty session, which is saved later.
Load(r) ==
  LET u == chats[r].who IN
  /\ chats[r].step = "load"
  /\ \E works \in BOOLEAN :
       /\ chats' = [chats EXCEPT ![r].seen = IF works THEN context[u] ELSE <<>>,
            ![r].step = IF chats[r].kind = "ask" THEN "save" ELSE "status"]
       /\ mixed' = IF works /\ Overlapping(r) = {} THEN mixed ELSE mixed \cup {u}
  /\ UNCHANGED <<context, due, Model, Review>>

\* As if the first messages were kept.
Oldest(s) == SubSeq(s, 1, IF Len(s) < CtxMessages THEN Len(s) ELSE CtxMessages)
\* As if the conversation were stored as it is.
Whole(s) == s

Newest(s) == IF Len(s) <= CtxMessages THEN s ELSE SubSeq(s, Len(s) - CtxMessages + 1, Len(s))

\* _save_ctx, before the model is asked by /ask_logist and after it by
\* /parse_intent; a fault is swallowed.
SaveContext(r) ==
  LET u == chats[r].who
      said == due[u] \o <<chats[r].text>> IN
  /\ chats[r].step = "save"
  /\ \/ /\ context' = [context EXCEPT ![u] = Newest(chats[r].seen \o <<chats[r].text>>)]
        /\ due' = [due EXCEPT ![u] =
             SubSeq(said, IF Len(said) > CtxMessages THEN Len(said) - CtxMessages + 1 ELSE 1,
                    Len(said))]
     \/ UNCHANGED <<context, due>>
  /\ chats' = IF chats[r].kind = "ask" THEN [chats EXCEPT ![r].step = "cache"]
                ELSE [chats EXCEPT ![r] = Quiet]
  /\ UNCHANGED <<mixed, Model, Review>>

\* Ten minutes after the last message was stored; a request in flight may bring
\* back what it has read.
ExpireSession(u) ==
  /\ context[u] # <<>>
  /\ context' = [context EXCEPT ![u] = <<>>] /\ due' = [due EXCEPT ![u] = <<>>]
  /\ mixed' = IF \E r \in Chat : chats[r].who = u THEN mixed \cup {u} ELSE mixed \ {u}
  /\ UNCHANGED <<chats, Model, Review>>

-----------------------------------------------------------------------------

\* chat: the cache, the health of the model, a place in the queue.
AnswerKept(r) ==
  /\ chats[r].step = "cache" /\ chats[r].text \in kept
  /\ Goes(r, "rate")
  /\ UNCHANGED <<Session, Model, Review>>

CacheMiss(r) ==
  /\ chats[r].step = "cache"
  /\ Goes(r, "status")
  /\ UNCHANGED <<Session, Model, Review>>

\* What a request does with a text that is no answer: /ask_logist passes it
\* on, /parse_intent finds no JSON in it and forgets the message.
WithoutAnswer(r) ==
  chats' = IF chats[r].kind = "ask" THEN [chats EXCEPT ![r].step = "rate"]
             ELSE [chats EXCEPT ![r] = Quiet]

ModelUp(r) ==
  /\ chats[r].step = "status"
  /\ Goes(r, "place")
  /\ UNCHANGED <<Session, Model, Review>>

ModelDown(r) ==
  /\ chats[r].step = "status"
  /\ WithoutAnswer(r)
  /\ UNCHANGED <<Session, Model, Review>>

TakePlace(r) ==
  /\ chats[r].step = "place"
  /\ IF places < Places
     THEN places' = places + 1 /\ Goes(r, "model")
     ELSE UNCHANGED places /\ WithoutAnswer(r)
  /\ UNCHANGED <<kept, uttered, Session, Review>>

\* The answer of the model is cached for /ask_logist; the place is given back.
ModelAnswers(r) ==
  /\ chats[r].step = "model"
  /\ places' = places - 1
  /\ uttered' = uttered \cup {chats[r].text}
  /\ IF chats[r].kind = "ask"
     THEN kept' = kept \cup {chats[r].text} /\ Goes(r, "rate")
     ELSE UNCHANGED kept /\ Goes(r, "save")
  /\ UNCHANGED <<Session, Review>>

\* A timeout or an error, or a text without JSON.
ModelFails(r) ==
  /\ chats[r].step = "model"
  /\ places' = places - 1
  /\ WithoutAnswer(r)
  /\ UNCHANGED <<kept, uttered, Session, Review>>

Uncache(m) ==
  /\ m \in kept /\ kept' = kept \ {m}
  /\ UNCHANGED <<chats, places, uttered, Session, Review>>

-----------------------------------------------------------------------------

\* The answer, whichever it is, may be rated for a week.
OpenRating(r) ==
  /\ chats[r].step = "rate"
  /\ \/ \E a \in Answer :
          /\ record[a] = "none" /\ rated[a] = 0
          /\ \A b \in 1..(a - 1) : rated[b] > 0 \/ record[b] # "none"
          /\ record' = [record EXCEPT ![a] = "open"]
     \/ UNCHANGED record
  /\ chats' = [chats EXCEPT ![r] = Quiet]
  /\ UNCHANGED <<pending, known, rating, rated, down, cleared, Session, Model>>

\* post_feedback: the record is read, written back with the rating ...
Rate(a, value) ==
  /\ record[a] # "none" /\ rating[a] = "none" /\ rated[a] < MostRatings
  /\ rating' = [rating EXCEPT ![a] = value]
  /\ rated' = [rated EXCEPT ![a] = @ + 1]
  /\ UNCHANGED <<record, pending, known, down, cleared, chats, Session, Model>>

WriteRating(a) ==
  /\ rating[a] \in {"up", "down"}
  /\ record' = [record EXCEPT ![a] = rating[a]]
  /\ rating' = [rating EXCEPT ![a] = IF @ = "down" THEN "push" ELSE "none"]
  /\ UNCHANGED <<pending, known, rated, down, cleared, chats, Session, Model>>

\* ... and if it is down put on the list, which is cut.
PushForReview(a) ==
  /\ rating[a] = "push"
  /\ pending' = <<a>> \o pending
  /\ down' = down \cup {a} /\ cleared' = cleared \ {a}
  /\ rating' = [rating EXCEPT ![a] = "trim"]
  /\ UNCHANGED <<record, known, rated, chats, Session, Model>>

CutList(a) ==
  /\ rating[a] = "trim"
  /\ pending' = SubSeq(pending, 1, IF Len(pending) < MaxPending THEN Len(pending) ELSE MaxPending)
  /\ cleared' = cleared \cup (ToSet(pending) \ ToSet(pending'))
  /\ rating' = [rating EXCEPT ![a] = "none"]
  /\ UNCHANGED <<record, known, rated, down, chats, Session, Model>>

\* Redis fails: what is written so far stays.
RatingFails(a) ==
  /\ rating[a] # "none" /\ rating' = [rating EXCEPT ![a] = "none"]
  /\ UNCHANGED <<record, pending, known, rated, down, cleared, chats, Session, Model>>

ExpireRecord(a) ==
  /\ record[a] # "none" /\ rating[a] = "none"
  /\ record' = [record EXCEPT ![a] = "none"]
  /\ UNCHANGED <<pending, known, rating, rated, down, cleared, chats, Session, Model>>

\* LREM of an id, however often it is on the list.
Without(s, a) ==
  LET keep[i \in 0..Len(s)] ==
        IF i = 0 THEN <<>> ELSE IF s[i] = a THEN keep[i - 1] ELSE Append(keep[i - 1], s[i])
  IN keep[Len(s)]

\* review_approve with the id of the answer: the list is cleared of it after
\* the knowledge base has it; a fault in between leaves it on the list.
Approve(a) ==
  /\ \E i \in DOMAIN pending : pending[i] = a
  /\ known' = known \cup {a}
  /\ \/ /\ pending' = Without(pending, a)
        /\ cleared' = cleared \cup {a}
     \/ UNCHANGED <<pending, cleared>>
  /\ UNCHANGED <<record, rating, rated, down, chats, Session, Model>>

\* knowledge_add, or an approval without the id, adds an entry of its own and
\* leaves the list alone; knowledge_delete takes an entry out.
Unlearn(a) ==
  /\ a \in known /\ known' = known \ {a}
  /\ UNCHANGED <<record, pending, rating, rated, down, cleared, chats, Session, Model>>

LogistNext ==
  \/ \E r \in Chat :
       \/ \E u \in Chatter, m \in Message, kind \in {"ask", "intent"} : AskLogist(r, u, m, kind)
       \/ Load(r) \/ SaveContext(r) \/ AnswerKept(r) \/ CacheMiss(r) \/ ModelUp(r) \/ ModelDown(r)
       \/ TakePlace(r) \/ ModelAnswers(r) \/ ModelFails(r) \/ OpenRating(r)
  \/ \E u \in Chatter : ExpireSession(u)
  \/ \E m \in Message : Uncache(m)
  \/ \E a \in Answer :
       \/ Rate(a, "up") \/ Rate(a, "down") \/ WriteRating(a) \/ PushForReview(a)
       \/ CutList(a) \/ RatingFails(a) \/ ExpireRecord(a) \/ Approve(a) \/ Unlearn(a)

LogistSpec == LogistInit /\ [][LogistNext]_logistVars

-----------------------------------------------------------------------------

(* A session remembers the last messages in their order unless two requests *)
(* of the user overlapped, it ran out under one, or Redis failed; only what *)
(* a model said is kept for the next who asks; every place taken is given   *)
(* back; and an answer that was put on the list of those rated down waits   *)
(* for the administrator until it is approved or pushed out by newer ones.  *)
LogistKeepsTrack ==
  /\ \A u \in Chatter : u \notin mixed => context[u] = due[u]
  /\ kept \subseteq uttered
  /\ places = Cardinality({r \in Chat : chats[r].step = "model"})
  /\ \A a \in down \ cleared : \E i \in DOMAIN pending : pending[i] = a
=============================================================================
