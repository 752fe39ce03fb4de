------------------------------- MODULE WsFeed -------------------------------
(* The live feed: src/api/ws_feed.py.  Every connected client has a loop of *)
(* its own that asks the shared broadcaster to poll; whichever polls pushes *)
(* to all.  Polls of several clients overlap at their awaits, and the set   *)
(* of clients may change while one of them walks through it.                *)
EXTENDS Integers, FiniteSets

CONSTANTS
  Client,
  LastEvent, \* bound of the ids of parser_ingest_events
  MaxBatch   \* _MAX_BATCH

ASSUME WsAssumption ==
  LastEvent \in Nat /\ MaxBatch \in Nat \ {0} /\ IsFiniteSet(Client)

VARIABLES
  stored,   \* ids that exist
  synced,   \* those with status "synced"
  clients,  \* _clients
  lastId,   \* _last_id, Unset before the first poll
  poll,     \* client -> poll_and_push of its loop
  pushed,   \* events sent to every client there was (observed)
  skipped,  \* events that were synced too late for some poll's query (observed)
  cut       \* events of a poll that a change of the set broke off (observed)

wsVars == <<stored, synced, clients, lastId, poll, pushed, skipped, cut>>

Event == 1..LastEvent
Unset == -1
Resting == [step |-> "rest", batch |-> {}, size |-> 0]

WsTypeOK ==
  /\ synced \subseteq stored /\ stored \subseteq Event
  /\ clients \subseteq Client
  /\ lastId \in {Unset} \cup 0..LastEvent
  /\ poll \in [Client -> [step : {"rest", "first", "found", "push"}, batch : SUBSET Event,
                          size : 0..Cardinality(Client)]]
  /\ pushed \subseteq Event /\ skipped \subseteq Event /\ cut \subseteq Event

WsInit ==
  /\ stored = {} /\ synced = {} /\ clients = {} /\ lastId = Unset
  /\ poll = [c \in Client |-> Resting]
  /\ pushed = {} /\ skipped = {} /\ cut = {}

-----------------------------------------------------------------------------

\* The worker inserts an event; ids are drawn in order, but rows may become
\* visible, and events synced, in any.
Insert(e) ==
  /\ e \notin stored /\ stored' = stored \cup {e}
  /\ UNCHANGED <<synced, clients, lastId, poll, pushed, skipped, cut>>

Sync(e) ==
  /\ e \in stored \ synced
  /\ synced' = synced \cup {e}
  /\ skipped' = IF e <= lastId
                   \/ \E c \in Client : poll[c].step = "found" /\ \E b \in poll[c].batch : e <= b
                  THEN skipped \cup {e} ELSE skipped
  /\ UNCHANGED <<stored, clients, lastId, poll, pushed, cut>>

Connect(c) ==
  /\ c \notin clients /\ poll[c] = Resting
  /\ clients' = clients \cup {c}
  /\ UNCHANGED <<stored, synced, lastId, poll, pushed, skipped, cut>>

\* The socket closes: its loop ends at its next await and is taken out.
Disconnect(c) ==
  /\ c \in clients /\ poll[c] = Resting
  /\ clients' = clients \ {c}
  /\ UNCHANGED <<stored, synced, lastId, poll, pushed, skipped, cut>>

HighestOf(S) == CHOOSE e \in S : \A x \in S : x <= e

\* The first poll of the process starts at what there is; more than one may
\* ask before the first is answered.
AskHighest(c) ==
  /\ c \in clients /\ poll[c] = Resting /\ lastId = Unset
  /\ poll' = [poll EXCEPT ![c].step = "first",
                          ![c].batch = IF stored = {} THEN {} ELSE {HighestOf(stored)}]
  /\ UNCHANGED <<stored, synced, clients, lastId, pushed, skipped, cut>>

FirstPoll(c) ==
  /\ poll[c].step = "first"
  /\ lastId' = IF poll[c].batch = {} THEN 0 ELSE HighestOf(poll[c].batch)
  /\ skipped' = skipped \cup (1..lastId')
  /\ poll' = [poll EXCEPT ![c] = Resting]
  /\ UNCHANGED <<stored, synced, clients, pushed, cut>>

Newer(last) == {e \in synced : e > last}

\* The query: the oldest of the newer ones, up to the batch.
Batches(last) ==
  {B \in SUBSET Newer(last) :
     /\ \A b \in B, e \in Newer(last) \ B : b < e
     /\ \/ B = Newer(last) /\ Cardinality(B) <= MaxBatch
        \/ B # Newer(last) /\ Cardinality(B) = MaxBatch}

Query(c) ==
  /\ c \in clients /\ poll[c] = Resting /\ lastId # Unset /\ Newer(lastId) # {}
  /\ \E B \in Batches(lastId) :
       poll' = [poll EXCEPT ![c] = [step |-> "found", batch |-> B, size |-> 0]]
  /\ UNCHANGED <<stored, synced, clients, lastId, pushed, skipped, cut>>

\* As if the newest event that exists were taken for the last one pushed.
ToTheNewest(c) == HighestOf(stored)

LastOf(c) == HighestOf(poll[c].batch)

\* The session is closed and the answer here: _last_id moves, also backwards
\* if another poll was faster.
Advance(c) ==
  /\ poll[c].step = "found"
  /\ lastId' = LastOf(c)
  /\ poll' = [poll EXCEPT ![c].step = "push", ![c].size = Cardinality(clients)]
  /\ UNCHANGED <<stored, synced, clients, pushed, skipped, cut>>

\* One event to every client, in one walk over the set.
Broadcast(c) ==
  LET e == CHOOSE x \in poll[c].batch : \A y \in poll[c].batch : x <= y IN
  /\ poll[c].step = "push" /\ Cardinality(clients) = poll[c].size
  /\ pushed' = pushed \cup {e}
  /\ poll' = [poll EXCEPT ![c] = IF poll[c].batch = {e} THEN Resting
                                 ELSE [poll[c] EXCEPT !.batch = @ \ {e}]]
  /\ UNCHANGED <<stored, synced, clients, lastId, skipped, cut>>

\* Between two events the walk begins anew, so a change does no harm ...
Recount(c) ==
  /\ poll[c].step = "push" /\ Cardinality(clients) # poll[c].size
  /\ poll' = [poll EXCEPT ![c].size = Cardinality(clients)]
  /\ UNCHANGED <<stored, synced, clients, lastId, pushed, skipped, cut>>

\* ... within a walk it raises "set changed size": some clients have the
\* event, the rest of the batch is lost, and the client whose loop polled is
\* disconnected.
Broken(c) ==
  /\ poll[c].step = "push" /\ Cardinality(clients) # poll[c].size
  /\ cut' = cut \cup poll[c].batch
  /\ poll' = [poll EXCEPT ![c] = Resting]
  /\ clients' = clients \ {c}
  /\ UNCHANGED <<stored, synced, lastId, pushed, skipped>>

WsNext ==
  \/ \E e \in Event : Insert(e) \/ Sync(e)
  \/ \E c \in Client :
       \/ Connect(c) \/ Disconnect(c) \/ AskHighest(c) \/ FirstPoll(c) \/ Query(c) \/ Advance(c)
       \/ Broadcast(c) \/ Recount(c) \/ Broken(c)

WsSpec == WsInit /\ [][WsNext]_wsVars

-----------------------------------------------------------------------------

Pushing == UNION {poll[c].batch : c \in {d \in Client : poll[d].step = "push"}}

(* What the broadcaster has gone past was pushed, or is being pushed: only  *)
(* an event that was synced after a poll had looked (a post published by an *)
(* administrator, a slower worker), or one of a batch that a change of the  *)
(* set of clients broke off, is passed over without anybody hearing of it,  *)
(* however the polls of several clients overlap.                            *)
PassedWasPushed ==
  \A e \in synced : e <= lastId =>
    e \in pushed \cup Pushing \cup skipped \cup cut
=============================================================================
