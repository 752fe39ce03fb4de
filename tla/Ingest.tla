------------------------------- MODULE Ingest -------------------------------
(***************************************************************************)
(* The ingest pipeline: producers append posts to a Redis stream            *)
(* (src/parser_bot/stream.py), the workers of one consumer group read       *)
(* them, drop what was seen before by keys they set in Redis, push the      *)
(* rest to the sync targets and record the outcome in the table             *)
(* parser_ingest_events (src/parser_bot/worker.py).                         *)
(*                                                                          *)
(* A worker is one `run` loop.  Every await of _process_message is a step,  *)
(* and another worker, a failure or a key's expiry may come before it.      *)
(***************************************************************************)
EXTENDS Integers, Sequences, FiniteSetsExt, Functions

CONSTANTS
  Post,        \* the messages the producers see
  TruckPost,   \* those from a source of _TRUCK_SOURCES
  Key,         \* dedupe keys: phone and route, content, external URL
  KeysOf,      \* the keys of a post, in the order the worker sets them
  Screened,    \* what screening may make of a post: a status, or "cargo"
  Spam,        \* the posts whose INN score is too low
  Target,      \* sync targets: 1..Target, pushed in this order
  Worker,      \* instances of parser-worker
  Batch,       \* settings.parser_stream_batch
  MaxRetries,  \* settings.parser_worker_max_retries
  SlowWorkers, \* an entry a live worker holds may look stale to another one
  TargetsFail, \* a push may be refused, or its answer be lost
  TableFails,  \* the INSERT of an outcome may be refused by the database
  MaxCopies,   \* bound: times a producer appends one post
  MaxFaults    \* bound: crashes, lost connections and unexpected exceptions

ASSUME IngestAssumption ==
  /\ TruckPost \subseteq Post
  /\ KeysOf \in [Post -> Seq(Key) \ {<<>>}]
  /\ \A p \in Post : IsInjective(KeysOf[p])
  /\ Screened \in [Post -> SUBSET {"empty", "ignored", "manual_review", "cargo"}]
  /\ Spam \subseteq Post
  /\ Target \in Nat \ {0}
  /\ Batch \in Nat \ {0}
  /\ MaxRetries \in Nat
  /\ {SlowWorkers, TargetsFail, TableFails} \subseteq BOOLEAN
  /\ MaxCopies \in Nat
  /\ MaxFaults \in Nat

VARIABLES
  stream,   \* the Redis stream: an entry's id is its position
  group,    \* the consumer group: made, its first and its last-delivered id
  pending,  \* the group's pending entries: delivered and not acknowledged
  keys,     \* the dedupe keys that exist in Redis
  worker,   \* each worker's loop
  rows,     \* table parser_ingest_events: the status saved for each entry
  trucks,   \* table available_trucks: the posts it was filled from
  accepted, \* external: which target has accepted which post
  faults

vars == <<stream, group, pending, keys, worker, rows, trucks, accepted, faults>>

-----------------------------------------------------------------------------
Entry == [post : Post, retry : 0..MaxRetries]
Fresh(p) == [post |-> p, retry |-> 0]
EntryId == DOMAIN stream

Outcome == {"empty", "ignored", "manual_review", "duplicate", "spam_filtered",
            "synced", "retry_queued", "sync_failed"}

\* batch: entries read and not yet dealt with, the first being processed;
\* set, deleted: how many of its keys (dedupe_key, content_key,
\* url_dedupe_key) were set and deleted, each time from the first on;
\* reached: targets that took it; status: the outcome to be saved.
Loop == [step : {"idle", "screen", "truck", "keys", "push", "undo", "requeue",
                 "save", "ack"},
         batch : Seq(Nat \ {0}), set : Nat, deleted : Nat, reached : 0..Target,
         status : Outcome \cup {"none"}]

Resting == [step |-> "idle", batch |-> <<>>, set |-> 0, deleted |-> 0,
            reached |-> 0, status |-> "none"]

Current(w) == Head(worker[w].batch)
Message(w) == stream[Current(w)]
KeysInTurn(w) == KeysOf[Message(w).post]
Keys(w) == Range(KeysInTurn(w))
Held(w) == {KeysInTurn(w)[i] : i \in (worker[w].deleted + 1)..worker[w].set}
At(w, step) == worker[w].step = step
Moves(w, loop) == worker' = [worker EXCEPT ![w] = loop]

\* Done with the current entry; the for loop goes on with the next one.
Forward(w) ==
  LET rest == Tail(worker[w].batch)
  IN  IF rest = <<>> THEN Resting ELSE [Resting EXCEPT !.step = "screen", !.batch = rest]

Save(w, status) == [worker[w] EXCEPT !.step = "save", !.status = status]

\* mutant: stale entries are never claimed
NothingClaimable(w) == {}

\* Entries other workers still hold are not idle for claim_idle_ms, unless
\* those workers are slow.
Claimable(w) ==
  IF SlowWorkers THEN pending
  ELSE pending \ UNION {Range(worker[v].batch) : v \in Worker \ {w}}

-----------------------------------------------------------------------------
Init == /\ stream = <<>>
        /\ group = [made |-> FALSE, first |-> 0, last |-> 0]
        /\ pending = {}
        /\ keys = {}
        /\ worker = [w \in Worker |-> Resting]
        /\ rows = <<>>
        /\ trucks = {}
        /\ accepted = {}
        /\ faults = 0

\* A producer's add_raw_message.  A restarted ingestor reads the last posts of
\* its chats again, and Avito is scraped again and again.
Publish(p) ==
  /\ Cardinality({e \in EntryId : stream[e] = Fresh(p)}) < MaxCopies
  /\ stream' = Append(stream, Fresh(p))
  /\ rows' = Append(rows, "none")
  /\ UNCHANGED <<group, pending, keys, worker, trucks, accepted, faults>>

\* ensure_group starts the group at "$": what is in the stream already is
\* never delivered.
EnsureGroup ==
  /\ ~group.made
  /\ group' = [made |-> TRUE, first |-> Len(stream), last |-> Len(stream)]
  /\ UNCHANGED <<stream, pending, keys, worker, rows, trucks, accepted, faults>>

Take(w, es) == /\ Moves(w, [Resting EXCEPT !.step = "screen", !.batch = es])
               /\ pending' = pending \cup Range(es)

\* xreadgroup ">".
Read(w) ==
  /\ At(w, "idle") /\ group.made /\ group.last < Len(stream)
  /\ LET last == Min({Len(stream), group.last + Batch})
     IN  /\ Take(w, [i \in 1..(last - group.last) |-> group.last + i])
         /\ group' = [group EXCEPT !.last = last]
  /\ UNCHANGED <<stream, keys, rows, trucks, accepted, faults>>

\* xautoclaim, when there is nothing new to read.
Claim(w) ==
  /\ At(w, "idle") /\ group.made /\ group.last = Len(stream)
  /\ \E n \in 1..Batch : \E es \in [1..n -> Claimable(w)] :
       /\ \A i, j \in 1..n : i < j => es[i] < es[j]
       /\ Take(w, es)
  /\ UNCHANGED <<stream, group, keys, rows, trucks, accepted, faults>>

\* Extraction, geography, required fields and rates: everything that is
\* decided before the first dedupe key is set.
Screen(w) ==
  /\ At(w, "screen")
  /\ IF Message(w).post \in TruckPost
     THEN Moves(w, [worker[w] EXCEPT !.step = "truck"])
     ELSE \E verdict \in Screened[Message(w).post] :
            Moves(w, IF verdict = "cargo" THEN [worker[w] EXCEPT !.step = "keys"]
                     ELSE Save(w, verdict))
  /\ UNCHANGED <<stream, group, pending, keys, rows, trucks, accepted, faults>>

\* _process_truck_message: the upsert of available_trucks.  A refusal of the
\* database is only logged.
SaveTruck(w) ==
  /\ At(w, "truck")
  /\ \/ trucks' = trucks \cup {Message(w).post}
     \/ TableFails /\ UNCHANGED trucks
  /\ Moves(w, [worker[w] EXCEPT !.step = "ack"])
  /\ UNCHANGED <<stream, group, pending, keys, rows, accepted, faults>>

\* mutant: only the first key is set with NX
FirstTaken(w, k) == k \in keys /\ worker[w].set = 0

\* SET k NX tells whether the key was there.
Taken(w, k) == k \in keys

\* The keys are set one after the other.  A key that exists makes the entry a
\* duplicate; the keys set before it stay.
SetKey(w) ==
  LET n == worker[w].set + 1
      key == KeysInTurn(w)[n]
  IN  /\ At(w, "keys")
      /\ IF Taken(w, key)
         THEN Moves(w, Save(w, "duplicate")) /\ UNCHANGED keys
         ELSE /\ keys' = keys \cup {key}
              /\ Moves(w, [IF n < Len(KeysInTurn(w)) THEN worker[w]
                           ELSE IF Message(w).post \in Spam THEN Save(w, "spam_filtered")
                           ELSE [worker[w] EXCEPT !.step = "push"] EXCEPT !.set = n])
      /\ UNCHANGED <<stream, group, pending, rows, trucks, accepted, faults>>

\* mutant: one target is enough
AnyReached(n) == n > 0

AllReached(n) == n = Target

\* _push_to_targets: the next target takes the post and answers.
Push(w) ==
  LET n == worker[w].reached + 1
      took == [worker[w] EXCEPT !.reached = n]
  IN  /\ At(w, "push")
      /\ accepted' = accepted \cup {<<n, Message(w).post>>}
      /\ Moves(w, IF AllReached(n) THEN [took EXCEPT !.step = "save", !.status = "synced"]
                  ELSE took)
      /\ UNCHANGED <<stream, group, pending, keys, rows, trucks, faults>>

\* mutant: a retry that is only recorded
OnlyRecorded(w) == IF Message(w).retry < MaxRetries
                   THEN Save(w, "retry_queued") ELSE Save(w, "sync_failed")

\* When the keys are deleted: another try, or the end.
Undone(w) == IF Message(w).retry < MaxRetries
             THEN [worker[w] EXCEPT !.step = "requeue"] ELSE Save(w, "sync_failed")

\* mutant: a failed push leaves its keys set
KeepsKeys(w) == Undone(w)

Undoing(w) == [worker[w] EXCEPT !.step = "undo"]

\* A target refuses the post, or takes it and its answer is lost.
PushFails(w) ==
  /\ At(w, "push") /\ TargetsFail
  /\ accepted' \in {accepted, accepted \cup {<<worker[w].reached + 1, Message(w).post>>}}
  /\ Moves(w, Undoing(w))
  /\ UNCHANGED <<stream, group, pending, keys, rows, trucks, faults>>

\* The keys of a post that was not pushed are deleted one by one.
DeleteKey(w) ==
  LET n == worker[w].deleted + 1
  IN  /\ At(w, "undo")
      /\ keys' = keys \ {KeysInTurn(w)[n]}
      /\ Moves(w, [IF n = Len(KeysInTurn(w)) THEN Undone(w) ELSE worker[w]
                   EXCEPT !.deleted = n])
      /\ UNCHANGED <<stream, group, pending, rows, trucks, accepted, faults>>

\* The post goes to the end of the stream for another try.
Requeue(w) ==
  /\ At(w, "requeue")
  /\ stream' = Append(stream, [Message(w) EXCEPT !.retry = @ + 1])
  /\ rows' = Append(rows, "none")
  /\ Moves(w, Save(w, "retry_queued"))
  /\ UNCHANGED <<group, pending, keys, trucks, accepted, faults>>

\* _save_ingest_event: the first row of an entry stays, a second INSERT is
\* refused by the unique stream_entry_id and only logged.
SaveRow(w) ==
  /\ At(w, "save")
  /\ \/ rows' = [rows EXCEPT ![Current(w)] = IF @ = "none" THEN worker[w].status ELSE @]
     \/ TableFails /\ UNCHANGED rows
  /\ Moves(w, [worker[w] EXCEPT !.step = "ack"])
  /\ UNCHANGED <<stream, group, pending, keys, trucks, accepted, faults>>

Ack(w) ==
  /\ At(w, "ack")
  /\ pending' = pending \ {Current(w)}
  /\ Moves(w, Forward(w))
  /\ UNCHANGED <<stream, group, keys, rows, trucks, accepted, faults>>

Faulty == faults < MaxFaults /\ faults' = faults + 1

\* mutant: the entry of an exception is acknowledged
LeftAcked(w) == pending \ {Current(w)}

Left(w) == pending

\* An unexpected exception: the entry stays pending, its keys stay set, and
\* the loop goes on.  Saving "synced" is part of the push: it is undone.
Stumble(w) ==
  /\ Faulty
  /\ \/ At(w, "screen") \/ At(w, "truck") \/ At(w, "save")
     \/ At(w, "push") /\ worker[w].reached = 0
  /\ IF worker[w].status = "synced"
     THEN Moves(w, Undoing(w)) /\ UNCHANGED pending
     ELSE Moves(w, Forward(w)) /\ pending' = Left(w)
  /\ UNCHANGED <<stream, group, keys, rows, trucks, accepted>>

\* The process is restarted, or its Redis connection is lost: the rest of
\* the batch stays pending.
Crash(w) ==
  /\ Faulty
  /\ ~At(w, "idle")
  /\ Moves(w, Resting)
  /\ UNCHANGED <<stream, group, pending, keys, rows, trucks, accepted>>

\* The TTL of a key is far longer than the processing of an entry.
Expire(k) ==
  /\ k \in keys
  /\ \A w \in Worker : k \notin Held(w)
  /\ keys' = keys \ {k}
  /\ UNCHANGED <<stream, group, pending, worker, rows, trucks, accepted, faults>>

Work(w) ==
  \/ Read(w)
  \/ Claim(w)
  \/ Screen(w)
  \/ SaveTruck(w)
  \/ SetKey(w)
  \/ Push(w)
  \/ PushFails(w)
  \/ DeleteKey(w)
  \/ Requeue(w)
  \/ SaveRow(w)
  \/ Ack(w)

Next ==
  \/ \E p \in Post : Publish(p)
  \/ EnsureGroup
  \/ \E w \in Worker : Work(w) \/ Stumble(w) \/ Crash(w)
  \/ \E k \in Key : Expire(k)

Spec == Init /\ [][Next]_vars

-----------------------------------------------------------------------------
(* Properties.                                                              *)

\* The stream, the Redis keys, the loops and the tables have their types; a
\* post is retried at most MaxRetries times.
TypeOK ==
  /\ stream \in Seq(Entry)
  /\ group \in [made : BOOLEAN, first : Nat, last : Nat]
  /\ pending \subseteq EntryId
  /\ keys \subseteq Key
  /\ worker \in [Worker -> Loop]
  /\ rows \in Seq(Outcome \cup {"none"}) /\ Len(rows) = Len(stream)
  /\ trucks \subseteq TruckPost
  /\ accepted \subseteq (1..Target) \X Post
  /\ faults \in 0..MaxFaults

Delivered(e) == group.first < e /\ e <= group.last

\* No entry vanishes: one that was acknowledged has left a row with its
\* outcome, or a truck.
AckedLeftTrace ==
  \A e \in EntryId : Delivered(e) /\ e \notin pending =>
    rows[e] # "none" \/ stream[e].post \in trucks

\* An entry is recorded as synced only when every target has its post.
SyncedReachedAll ==
  \A e \in EntryId : rows[e] = "synced" =>
    \A t \in 1..Target : <<t, stream[e].post>> \in accepted

\* What became of a post is on record, and true (_save_ingest_event, run).
OutcomesAreTrue == AckedLeftTrace /\ SyncedReachedAll

\* An entry recorded as queued for a retry has been queued.
RetryHasSuccessor ==
  \A e \in EntryId : rows[e] = "retry_queued" =>
    \E f \in EntryId : stream[f] = [stream[e] EXCEPT !.retry = @ + 1]

\* Two workers never push two posts that share a key at the same time: the
\* keys are a lock, also while they are set or deleted one by one and after
\* crashes.
PushIsExclusive ==
  \A v, w \in Worker : v # w /\ At(v, "push") /\ At(w, "push") =>
    Keys(v) \cap Keys(w) = {}

SharesKey(p, q) == Range(KeysOf[p]) \cap Range(KeysOf[q]) # {}

\* p and q are linked by a chain of posts of which each two share a key: every
\* set that has p, and with a post all that share a key with it, has q.
Linked ==
  {pq \in Post \X Post : \A S \in SUBSET Post :
     pq[1] \in S /\ (\A r \in S, o \in Post : SharesKey(r, o) => o \in S) => pq[2] \in S}

Sent(p) == \A t \in 1..Target : <<t, p>> \in accepted

\* Entry e has a predecessor, of a post linked to its own, that was sent or was spam.
HasLink(e) ==
  \E f \in 1..(e - 1) :
    LET q == stream[f].post
    IN  <<stream[e].post, q>> \in Linked /\ (Sent(q) \/ q \in Spam)

\* A duplicate has a link (DuplicateIsLinked in MCSettles).
DuplicatesHaveLinks == \A e \in EntryId : rows[e] = "duplicate" => HasLink(e)

\* The group can see entry e; e is dealt with.
Visible(e) == e \in EntryId /\ group.made /\ e > group.first
Settled(e) == Delivered(e) /\ e \notin pending

(* What the repository says of the pipeline, and the code does not do.      *)

\* build_content_dedupe_key catches the same cargo posted by different
\* dispatchers or across multiple chats: a duplicate has a twin
\* (_process_message).
DuplicateHasTwin ==
  \A e \in EntryId : rows[e] = "duplicate" =>
    \E f \in EntryId : stream[f].post # stream[e].post
                       /\ SharesKey(stream[f].post, stream[e].post)
=============================================================================
