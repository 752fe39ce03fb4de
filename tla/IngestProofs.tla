---------------------------- MODULE IngestProofs ----------------------------
(***************************************************************************)
(* Theorems of Ingest, for any number of posts, keys, targets, workers,     *)
(* retries and faults: the types, that the dedupe keys are a lock on the    *)
(* push, and that the rows and the entries say what became of every post.   *)
(*                                                                          *)
(* PushIsExclusive is not inductive: it says nothing of a worker that has   *)
(* set some of its keys, or deleted some.  The strengthening follows every  *)
(* key a worker set and has not deleted since (Held): it exists in Redis,   *)
(* and no other worker holds it.  A worker that pushes holds all its keys.  *)
(*                                                                          *)
(* That an outcome is on record needs what a worker remembers of the push   *)
(* it has just made (TraceInv): a status it is about to save is already     *)
(* true of the sites, an entry it is about to acknowledge has its row or    *)
(* its successor, and no later step takes either away.                      *)
(*                                                                          *)
(* That a duplicate is linked to a post that was sent is true of one worker *)
(* alone, and needs of every key in Redis which entry left it (LinkInv).    *)
(***************************************************************************)
EXTENDS MCSettles, SequenceTheorems, TLAPS

\* The message a loop is at in the stream s, its keys, and those it holds.
MessageAt(l, s) == s[Head(l.batch)]
KeysAt(l, s) == KeysOf[MessageAt(l, s).post]
HeldAt(l, s) == {KeysAt(l, s)[i] : i \in (l.deleted + 1)..l.set}

\* What the steps of a loop know of its locals.
LoopOK(l, s) ==
  /\ \A i \in 1..Len(l.batch) : l.batch[i] \in 1..Len(s)
  /\ l.step = "idle" => l.set = 0
  /\ l.step # "idle" => l.batch # <<>> /\ l.set <= Len(KeysAt(l, s))
  /\ l.step \in {"screen", "truck"} => l.set = 0
  /\ l.step = "keys" => l.set < Len(KeysAt(l, s))
  /\ l.step \in {"push", "undo"} => l.set = Len(KeysAt(l, s))
  /\ l.step = "undo" => l.deleted < l.set
  /\ l.step # "undo" /\ l.deleted # 0 =>
       l.step \in {"requeue", "save", "ack"} /\ l.deleted = l.set
  /\ l.step \in {"screen", "truck", "keys"} => l.reached = 0
  /\ l.step = "push" => l.reached < Target
  /\ l.step = "truck" => MessageAt(l, s).post \in TruckPost
  /\ l.step = "requeue" => MessageAt(l, s).retry < MaxRetries
  /\ l.step \in {"screen", "truck", "keys", "push"} => l.status = "none"
  /\ l.step = "save" /\ l.status = "synced" =>
       l.deleted = 0 /\ l.set = Len(KeysAt(l, s))

LoopsOK == \A w \in Worker : LoopOK(worker[w], stream)

GroupInStream == group.last <= Len(stream)

HeldAreSet == \A w \in Worker : HeldAt(worker[w], stream) \subseteq keys

HeldByOne == \A v, w \in Worker : v # w =>
               HeldAt(worker[v], stream) \cap HeldAt(worker[w], stream) = {}

IInv == TypeOK /\ LoopsOK /\ GroupInStream /\ HeldAreSet /\ HeldByOne

-----------------------------------------------------------------------------
(* Loops and the stream.                                                    *)

\* The entry a busy loop is at is in the stream; its post has keys.
LEMMA EntryOfLoop ==
  ASSUME IngestAssumption, NEW s \in Seq(Entry), NEW l \in Loop, LoopOK(l, s),
         l.step # "idle"
  PROVE  /\ Len(l.batch) >= 1 /\ Head(l.batch) = l.batch[1]
         /\ Head(l.batch) \in 1..Len(s)
         /\ MessageAt(l, s) \in Entry
         /\ KeysAt(l, s) \in Seq(Key) /\ Len(KeysAt(l, s)) >= 1
         /\ \A i, j \in 1..Len(KeysAt(l, s)) :
              KeysAt(l, s)[i] = KeysAt(l, s)[j] => i = j
<1>1. l.batch \in Seq(Nat \ {0}) /\ l.batch # <<>>
  BY DEF Loop, LoopOK
<1>2. Len(l.batch) >= 1 /\ Head(l.batch) = l.batch[1]
  BY <1>1
<1>3. Head(l.batch) \in 1..Len(s)
  BY <1>1, <1>2 DEF LoopOK
<1>4. MessageAt(l, s) \in Entry
  BY <1>3 DEF MessageAt
<1>5. MessageAt(l, s).post \in Post
  BY <1>4 DEF Entry
<1>6. KeysAt(l, s) \in Seq(Key) /\ KeysAt(l, s) # <<>> /\ IsInjective(KeysAt(l, s))
  BY <1>5 DEF KeysAt, IngestAssumption
<1>7. DOMAIN KeysAt(l, s) = 1..Len(KeysAt(l, s)) /\ Len(KeysAt(l, s)) >= 1
  BY <1>6
<1>8. \A i, j \in 1..Len(KeysAt(l, s)) :
        KeysAt(l, s)[i] = KeysAt(l, s)[j] => i = j
  BY <1>6, <1>7 DEF IsInjective
<1> QED BY <1>2, <1>3, <1>4, <1>6, <1>7, <1>8

\* A resting loop holds nothing, in any stream.
LEMMA RestHoldsNothing ==
  ASSUME NEW s, NEW l \in Loop, LoopOK(l, s), l.step = "idle", NEW t
  PROVE  HeldAt(l, t) = {}
<1>1. l.set = 0 /\ l.deleted = 0
  BY DEF LoopOK, Loop
<1> QED BY <1>1 DEF HeldAt

\* Appending to the stream changes nothing for a loop.
LEMMA AppendKeepsLoop ==
  ASSUME IngestAssumption, NEW s \in Seq(Entry), NEW x \in Entry, NEW l \in Loop,
         LoopOK(l, s)
  PROVE  LoopOK(l, Append(s, x)) /\ HeldAt(l, Append(s, x)) = HeldAt(l, s)
<1> DEFINE t == Append(s, x)
<1>1. t \in Seq(Entry) /\ Len(t) = Len(s) + 1 /\ \A i \in 1..Len(s) : t[i] = s[i]
  OBVIOUS
<1> HIDE DEF t
<1>2. \A i \in 1..Len(l.batch) : l.batch[i] \in 1..Len(t)
  BY <1>1 DEF LoopOK
<1>3. CASE l.step = "idle"
  <2>1. LoopOK(l, t)
    BY <1>2, <1>3 DEF LoopOK
  <2> QED BY <1>3, <2>1, RestHoldsNothing DEF t
<1>4. CASE l.step # "idle"
  <2>1. MessageAt(l, t) = MessageAt(l, s)
    BY <1>1, <1>4, EntryOfLoop DEF MessageAt
  <2>2. KeysAt(l, t) = KeysAt(l, s)
    BY <2>1 DEF KeysAt
  <2>3. HeldAt(l, t) = HeldAt(l, s)
    BY <2>2 DEF HeldAt
  <2>4. LoopOK(l, t)
    BY <1>2, <2>1, <2>2 DEF LoopOK
  <2> QED BY <2>3, <2>4 DEF t
<1> QED BY <1>3, <1>4

\* What a step of one worker does to the loops, the keys and the stream is
\* good if it sets only keys that did not exist, deletes only keys the worker
\* held, and leaves its own loop in order.
LEMMA OneLoopMoves ==
  ASSUME IngestAssumption, IInv, NEW w \in Worker, NEW l \in Loop,
         worker' = [worker EXCEPT ![w] = l], LoopOK(l, stream'),
         stream' = stream \/ \E x \in Entry : stream' = Append(stream, x),
         NEW Made, NEW Lost, Made \cap keys = {},
         Lost \subseteq HeldAt(worker[w], stream),
         keys' = (keys \cup Made) \ Lost,
         HeldAt(l, stream') \subseteq (HeldAt(worker[w], stream) \cup Made) \ Lost
  PROVE  LoopsOK' /\ HeldAreSet' /\ HeldByOne'
<1>1. stream \in Seq(Entry) /\ worker \in [Worker -> Loop]
  BY DEF IInv, TypeOK
<1>2. worker'[w] = l /\ \A v \in Worker : v # w => worker'[v] = worker[v]
  BY <1>1
<1>3. \A v \in Worker : v # w =>
        /\ LoopOK(worker'[v], stream')
        /\ HeldAt(worker'[v], stream') = HeldAt(worker[v], stream)
  <2> SUFFICES ASSUME NEW v \in Worker, v # w
               PROVE  /\ LoopOK(worker[v], stream')
                      /\ HeldAt(worker[v], stream') = HeldAt(worker[v], stream)
    BY <1>2
  <2>1. LoopOK(worker[v], stream) /\ worker[v] \in Loop
    BY <1>1 DEF IInv, LoopsOK
  <2>2. CASE stream' = stream
    BY <2>1, <2>2
  <2>3. CASE \E x \in Entry : stream' = Append(stream, x)
    <3>1. PICK x \in Entry : stream' = Append(stream, x)
      BY <2>3
    <3> QED BY <1>1, <2>1, <3>1, AppendKeepsLoop
  <2> QED BY <2>2, <2>3
<1>4. LoopsOK'
  BY <1>2, <1>3 DEF LoopsOK
<1>5. HeldAreSet /\ HeldByOne
  BY DEF IInv
<1>6. HeldAreSet'
  <2> SUFFICES ASSUME NEW v \in Worker PROVE HeldAt(worker'[v], stream') \subseteq keys'
    BY DEF HeldAreSet
  <2>1. CASE v = w
    BY <1>2, <1>5, <2>1 DEF HeldAreSet
  <2>2. CASE v # w
    BY <1>3, <1>5, <2>2 DEF HeldAreSet, HeldByOne
  <2> QED BY <2>1, <2>2
<1>7. HeldByOne'
  <2> SUFFICES ASSUME NEW u \in Worker, NEW v \in Worker, u # v
               PROVE  HeldAt(worker'[u], stream') \cap HeldAt(worker'[v], stream') = {}
    BY DEF HeldByOne
  <2>1. CASE u # w /\ v # w
    BY <1>3, <1>5, <2>1 DEF HeldByOne
  <2>2. CASE u = w
    BY <1>2, <1>3, <1>5, <2>2 DEF HeldByOne, HeldAreSet
  <2>3. CASE v = w
    BY <1>2, <1>3, <1>5, <2>3 DEF HeldByOne, HeldAreSet
  <2> QED BY <2>1, <2>2, <2>3
<1> QED BY <1>4, <1>6, <1>7

\* A step that touches no key, and after which the loop holds no more than before.
LEMMA QuietStep ==
  ASSUME IngestAssumption, IInv, NEW w \in Worker, NEW l \in Loop,
         worker' = [worker EXCEPT ![w] = l], LoopOK(l, stream'),
         stream' = stream \/ \E x \in Entry : stream' = Append(stream, x),
         keys' = keys, HeldAt(l, stream') \subseteq HeldAt(worker[w], stream)
  PROVE  LoopsOK' /\ HeldAreSet' /\ HeldByOne'
<1>1. keys' = (keys \cup {}) \ {} /\ {} \cap keys = {}
  OBVIOUS
<1>2. HeldAt(l, stream') \subseteq (HeldAt(worker[w], stream) \cup {}) \ {}
  OBVIOUS
<1>3. {} \subseteq HeldAt(worker[w], stream)
  OBVIOUS
<1> QED BY <1>1, <1>2, <1>3, OneLoopMoves

\* Two loops with one batch are at one message.
LEMMA SameBatch ==
  ASSUME NEW s, NEW l, NEW m, l.batch = m.batch
  PROVE  /\ MessageAt(l, s) = MessageAt(m, s) /\ KeysAt(l, s) = KeysAt(m, s)
         /\ l.set = m.set /\ l.deleted = m.deleted => HeldAt(l, s) = HeldAt(m, s)
BY DEF MessageAt, KeysAt, HeldAt

\* A loop that has just taken entries of the stream.
LEMMA TakenBatch ==
  ASSUME IngestAssumption, NEW s \in Seq(Entry), NEW es \in Seq(Nat \ {0}), es # <<>>,
         \A i \in 1..Len(es) : es[i] \in 1..Len(s),
         NEW l, l = [Resting EXCEPT !.step = "screen", !.batch = es]
  PROVE  l \in Loop /\ LoopOK(l, s) /\ \A t : HeldAt(l, t) = {}
<1>1. l = [step |-> "screen", batch |-> es, set |-> 0, deleted |-> 0,
           reached |-> 0, status |-> "none"]
  BY DEF Resting
<1>2. l \in Loop
  BY <1>1 DEF Loop, IngestAssumption
<1>3. MessageAt(l, s) \in Entry
  <2>1. Len(es) >= 1 /\ Head(es) = es[1]
    OBVIOUS
  <2>2. Head(l.batch) \in 1..Len(s)
    BY <1>1, <2>1
  <2> QED BY <2>2 DEF MessageAt
<1>4. Len(KeysAt(l, s)) \in Nat
  BY <1>3 DEF KeysAt, Entry, IngestAssumption
<1>5. LoopOK(l, s)
  <2>1. l.step = "screen" /\ l.batch = es /\ l.set = 0 /\ l.deleted = 0
        /\ l.reached = 0 /\ l.status = "none"
    BY DEF Resting
  <2> QED BY <1>4, <2>1 DEF LoopOK
<1>6. \A t : HeldAt(l, t) = {}
  <2>1. (l.deleted + 1)..l.set = {}
    BY DEF Resting
  <2> QED BY <2>1 DEF HeldAt
<1> QED BY <1>2, <1>5, <1>6

\* Resting is in order whatever the stream.
LEMMA RestIsOK ==
  ASSUME IngestAssumption, NEW s
  PROVE  Resting \in Loop /\ LoopOK(Resting, s) /\ HeldAt(Resting, s) = {}
<1>1. Resting \in Loop
  <2>1. <<>> \in Seq(Nat \ {0})
    OBVIOUS
  <2> QED BY <2>1 DEF Resting, Loop, IngestAssumption
<1>2. LoopOK(Resting, s)
  <2>1. Len(Resting.batch) = 0
    BY DEF Resting
  <2> QED BY <2>1 DEF LoopOK, Resting
<1>3. Resting.step = "idle"
  BY DEF Resting
<1> QED BY <1>1, <1>2, <1>3, RestHoldsNothing

\* Going forward leaves a loop in order that holds nothing.
LEMMA ForwardIsOK ==
  ASSUME IngestAssumption, IInv, NEW w \in Worker, worker[w].step # "idle"
  PROVE  /\ Forward(w) \in Loop /\ LoopOK(Forward(w), stream)
         /\ HeldAt(Forward(w), stream) = {}
<1>1. stream \in Seq(Entry) /\ worker[w] \in Loop /\ LoopOK(worker[w], stream)
  BY DEF IInv, TypeOK, LoopsOK
<1> DEFINE all == worker[w].batch
           rest == Tail(all)
<1>2. all \in Seq(Nat \ {0}) /\ all # <<>>
  BY <1>1 DEF Loop, LoopOK
<1>3. rest \in Seq(Nat \ {0}) /\ Len(rest) = Len(all) - 1
      /\ \A i \in 1..Len(rest) : rest[i] = all[i + 1]
  BY <1>2
<1>4. \A i \in 1..Len(rest) : rest[i] \in 1..Len(stream)
  BY <1>1, <1>2, <1>3 DEF LoopOK
<1>5. CASE rest = <<>>
  BY <1>5, RestIsOK DEF Forward
<1>6. CASE rest # <<>>
  <2>1. Forward(w) = [Resting EXCEPT !.step = "screen", !.batch = rest]
    BY <1>6 DEF Forward
  <2> HIDE DEF rest
  <2> QED BY <1>1, <1>3, <1>4, <1>6, <2>1, TakenBatch
<1> QED BY <1>5, <1>6

\* Where a busy worker is, in the words of the model.
LEMMA WhereBusy ==
  ASSUME IngestAssumption, IInv, NEW w \in Worker
  PROVE  /\ Message(w) = MessageAt(worker[w], stream)
         /\ KeysInTurn(w) = KeysAt(worker[w], stream)
         /\ Held(w) = HeldAt(worker[w], stream)
         /\ worker[w].step # "idle" => Current(w) \in EntryId /\ Message(w) \in Entry
<1>1. Message(w) = MessageAt(worker[w], stream)
  BY DEF Message, MessageAt, Current
<1>2. KeysInTurn(w) = KeysAt(worker[w], stream)
  BY <1>1 DEF KeysInTurn, KeysAt
<1>3. Held(w) = HeldAt(worker[w], stream)
  BY <1>2 DEF Held, HeldAt
<1>4. ASSUME worker[w].step # "idle" PROVE Current(w) \in EntryId /\ Message(w) \in Entry
  <2>1. stream \in Seq(Entry) /\ worker[w] \in Loop /\ LoopOK(worker[w], stream)
    BY DEF IInv, TypeOK, LoopsOK
  <2> QED BY <1>1, <1>4, <2>1, EntryOfLoop DEF Current, EntryId
<1> QED BY <1>1, <1>2, <1>3, <1>4

-----------------------------------------------------------------------------
(* The steps outside the loops.                                             *)

\* A producer's append keeps the invariant.
LEMMA PublishStep ==
  ASSUME IngestAssumption, IInv, NEW p \in Post, Publish(p)
  PROVE  IInv'
<1>1. stream \in Seq(Entry) /\ worker \in [Worker -> Loop] /\ LoopsOK
      /\ HeldAreSet /\ HeldByOne
  BY DEF IInv, TypeOK
<1>2. Fresh(p) \in Entry
  BY DEF Fresh, Entry, IngestAssumption
<1>3. stream' = Append(stream, Fresh(p)) /\ Len(stream') = Len(stream) + 1
      /\ stream' \in Seq(Entry)
  BY <1>1, <1>2 DEF Publish
<1>4. \A w \in Worker : LoopOK(worker[w], stream')
                       /\ HeldAt(worker[w], stream') = HeldAt(worker[w], stream)
  BY <1>1, <1>2, <1>3, AppendKeepsLoop DEF LoopsOK
<1>5. LoopsOK' /\ HeldAreSet' /\ HeldByOne'
  BY <1>1, <1>4 DEF Publish, LoopsOK, HeldAreSet, HeldByOne
<1>6. GroupInStream'
  BY <1>1, <1>3 DEF IInv, TypeOK, GroupInStream, Publish
<1>7. TypeOK'
  <2>1. pending' \subseteq EntryId'
    BY <1>1, <1>3 DEF IInv, TypeOK, EntryId, Publish
  <2>2. rows' \in Seq(Outcome \cup {"none"}) /\ Len(rows') = Len(stream')
    BY <1>3 DEF IInv, TypeOK, Publish
  <2> QED BY <1>3, <2>1, <2>2 DEF IInv, TypeOK, Publish
<1> QED BY <1>5, <1>6, <1>7 DEF IInv

\* Making the group keeps the invariant.
LEMMA EnsureGroupStep ==
  ASSUME IngestAssumption, IInv, EnsureGroup
  PROVE  IInv'
<1>1. Len(stream) \in Nat
  BY DEF IInv, TypeOK
<1>2. TypeOK'
  BY <1>1 DEF IInv, TypeOK, EnsureGroup, EntryId
<1>3. GroupInStream'
  BY <1>1 DEF GroupInStream, EnsureGroup
<1>4. LoopsOK' /\ HeldAreSet' /\ HeldByOne'
  BY DEF IInv, EnsureGroup, LoopsOK, HeldAreSet, HeldByOne
<1> QED BY <1>2, <1>3, <1>4 DEF IInv

\* A key that expires is held by nobody.
LEMMA ExpireStep ==
  ASSUME IngestAssumption, IInv, NEW k \in Key, Expire(k)
  PROVE  IInv'
<1>1. \A w \in Worker : k \notin HeldAt(worker[w], stream)
  BY WhereBusy DEF Expire
<1>2. TypeOK'
  BY DEF IInv, TypeOK, Expire, EntryId
<1>3. GroupInStream' /\ LoopsOK' /\ HeldByOne'
  BY DEF IInv, Expire, GroupInStream, LoopsOK, HeldByOne
<1>4. HeldAreSet'
  BY <1>1 DEF IInv, Expire, HeldAreSet
<1> QED BY <1>2, <1>3, <1>4 DEF IInv

-----------------------------------------------------------------------------
(* The steps of a loop.                                                     *)

\* A worker that rests takes entries the group has delivered.
LEMMA TakeEntries ==
  ASSUME IngestAssumption, IInv, NEW w \in Worker, NEW es \in Seq(Nat \ {0}),
         es # <<>>, \A i \in 1..Len(es) : es[i] \in 1..Len(stream), Take(w, es),
         UNCHANGED <<stream, keys>>
  PROVE  /\ LoopsOK' /\ HeldAreSet' /\ HeldByOne'
         /\ worker' \in [Worker -> Loop] /\ pending' \subseteq EntryId'
<1> DEFINE l == [Resting EXCEPT !.step = "screen", !.batch = es]
<1>1. stream \in Seq(Entry) /\ worker \in [Worker -> Loop] /\ pending \subseteq EntryId
  BY DEF IInv, TypeOK
<1>2. l \in Loop /\ LoopOK(l, stream) /\ HeldAt(l, stream) = {}
  BY <1>1, TakenBatch
<1>3. worker' = [worker EXCEPT ![w] = l] /\ pending' = pending \cup Range(es)
  BY DEF Take, Moves
<1>4. Range(es) \subseteq 1..Len(stream)
  BY DEF Range
<1> HIDE DEF l
<1>5. LoopsOK' /\ HeldAreSet' /\ HeldByOne'
  BY <1>2, <1>3, QuietStep
<1>6. worker' \in [Worker -> Loop]
  BY <1>1, <1>2, <1>3
<1>7. pending' \subseteq EntryId'
  BY <1>1, <1>3, <1>4 DEF EntryId
<1> QED BY <1>5, <1>6, <1>7

\* Reading new entries keeps the invariant.
LEMMA ReadStep ==
  ASSUME IngestAssumption, IInv, NEW w \in Worker, Read(w)
  PROVE  IInv'
<1> DEFINE last == Min({Len(stream), group.last + Batch})
           n == last - group.last
           es == [i \in 1..n |-> group.last + i]
<1>1. Len(stream) \in Nat /\ group.last \in Nat /\ Batch \in Nat \ {0}
      /\ group.last < Len(stream)
  BY DEF IInv, TypeOK, IngestAssumption, Read
<1>2. last \in {Len(stream), group.last + Batch} /\ last <= Len(stream)
  <2> DEFINE S == {Len(stream), group.last + Batch}
  <2>1. \E x \in S : \A y \in S : x =< y
    BY <1>1
  <2> QED BY <2>1 DEF Min
<1>3. last \in Nat /\ n \in Nat \ {0}
  BY <1>1, <1>2
<1>4. /\ Take(w, es)
      /\ group' = [group EXCEPT !.last = last]
      /\ UNCHANGED <<stream, keys, rows, trucks, accepted, faults>>
  BY DEF Read
<1> HIDE DEF last
<1>5. es \in Seq(Nat \ {0}) /\ Len(es) = n /\ es # <<>>
  <2>1. \A i \in 1..n : group.last + i \in Nat \ {0}
    BY <1>1
  <2> HIDE DEF n
  <2>2. es \in [1..n -> Nat \ {0}]
    BY <2>1
  <2> HIDE DEF es
  <2>3. es \in Seq(Nat \ {0}) /\ DOMAIN es = 1..n
    BY <1>3, <2>2
  <2> QED BY <1>3, <2>3
<1>6. \A i \in 1..Len(es) : es[i] \in 1..Len(stream)
  <2>1. \A i \in 1..n : es[i] = group.last + i
    OBVIOUS
  <2> HIDE DEF es
  <2>2. group.last + n = last
    BY <1>1, <1>3
  <2> HIDE DEF n
  <2>3. \A i \in 1..n : group.last + i \in 1..last
    BY <1>1, <1>3, <2>2
  <2>4. last \in Nat /\ Len(stream) \in Nat /\ last <= Len(stream)
    BY <1>1, <1>2, <1>3
  <2>5. \A i \in 1..n : group.last + i \in 1..Len(stream)
    BY <2>3, <2>4
  <2> QED BY <1>5, <2>1, <2>5
<1> HIDE DEF es
<1>7. /\ LoopsOK' /\ HeldAreSet' /\ HeldByOne'
      /\ worker' \in [Worker -> Loop] /\ pending' \subseteq EntryId'
  BY <1>4, <1>5, <1>6, TakeEntries
<1>8. TypeOK'
  BY <1>3, <1>4, <1>7 DEF IInv, TypeOK
<1>9. GroupInStream'
  BY <1>2, <1>4 DEF IInv, TypeOK, GroupInStream
<1> QED BY <1>7, <1>8, <1>9 DEF IInv

\* Claiming stale entries keeps the invariant.
LEMMA ClaimStep ==
  ASSUME IngestAssumption, IInv, NEW w \in Worker, Claim(w)
  PROVE  IInv'
<1>1. PICK n \in 1..Batch : \E es \in [1..n -> Claimable(w)] : Take(w, es)
  BY DEF Claim
<1>2. PICK es \in [1..n -> Claimable(w)] : Take(w, es)
  BY <1>1
<1>3. Claimable(w) \subseteq 1..Len(stream) /\ Len(stream) \in Nat
  BY DEF Claimable, IInv, TypeOK, EntryId
<1>4. n \in Nat \ {0}
  BY DEF IngestAssumption
<1>5. es \in Seq(Nat \ {0}) /\ Len(es) = n /\ es # <<>>
  BY <1>3, <1>4
<1>6. \A i \in 1..Len(es) : es[i] \in 1..Len(stream)
  BY <1>3, <1>5
<1>7. UNCHANGED <<stream, group, keys, rows, trucks, accepted, faults>>
  BY DEF Claim
<1>8. /\ LoopsOK' /\ HeldAreSet' /\ HeldByOne'
      /\ worker' \in [Worker -> Loop] /\ pending' \subseteq EntryId'
  BY <1>2, <1>5, <1>6, <1>7, TakeEntries
<1>9. TypeOK' /\ GroupInStream'
  BY <1>7, <1>8 DEF IInv, TypeOK, GroupInStream
<1> QED BY <1>8, <1>9 DEF IInv

\* What a busy worker's loop looks like before any of its steps.
LEMMA BusyLoop ==
  ASSUME IngestAssumption, IInv, NEW w \in Worker
  PROVE  /\ stream \in Seq(Entry) /\ worker \in [Worker -> Loop]
         /\ worker[w] \in Loop /\ LoopOK(worker[w], stream)
         /\ worker[w].step # "idle" => Len(KeysAt(worker[w], stream)) \in Nat \ {0}
BY EntryOfLoop DEF IInv, TypeOK, LoopsOK

\* A step of one worker that leaves the stream and the keys alone.
LEMMA QuietMove ==
  ASSUME IngestAssumption, IInv, NEW w \in Worker, NEW l \in Loop, Moves(w, l),
         LoopOK(l, stream), UNCHANGED <<stream, keys>>,
         \/ HeldAt(l, stream) = {}
         \/ l.batch = worker[w].batch /\ l.set = worker[w].set
            /\ l.deleted = worker[w].deleted
  PROVE  LoopsOK' /\ HeldAreSet' /\ HeldByOne' /\ worker' \in [Worker -> Loop]
<1>1. HeldAt(l, stream) \subseteq HeldAt(worker[w], stream)
  BY SameBatch
<1>2. worker' = [worker EXCEPT ![w] = l]
  BY DEF Moves
<1>3. LoopsOK' /\ HeldAreSet' /\ HeldByOne'
  BY <1>1, <1>2, QuietStep
<1>4. worker' \in [Worker -> Loop]
  BY <1>2, BusyLoop
<1> QED BY <1>3, <1>4

\* Saving an outcome other than "synced" is in order wherever the keys are
\* all deleted or none is.
LEMMA SaveIsOK ==
  ASSUME IngestAssumption, IInv, NEW w \in Worker, NEW status \in Outcome,
         worker[w].step # "idle", status # "synced",
         worker[w].deleted = 0 \/ worker[w].deleted = worker[w].set
  PROVE  Save(w, status) \in Loop /\ LoopOK(Save(w, status), stream)
<1>1. worker[w] \in Loop /\ LoopOK(worker[w], stream)
  BY BusyLoop
<1> DEFINE l == Save(w, status)
<1>2. l \in Loop /\ l.step = "save" /\ l.status = status /\ l.batch = worker[w].batch
      /\ l.set = worker[w].set /\ l.deleted = worker[w].deleted
  BY <1>1 DEF Save, Loop
<1>3. MessageAt(l, stream) = MessageAt(worker[w], stream)
      /\ KeysAt(l, stream) = KeysAt(worker[w], stream)
  BY <1>2, SameBatch
<1> HIDE DEF l
<1>4. LoopOK(l, stream)
  BY <1>1, <1>2, <1>3 DEF LoopOK, Loop
<1> QED BY <1>2, <1>4 DEF l

\* A loop that has set one more key.
LEMMA CountsSet ==
  ASSUME NEW m \in Loop, NEW n \in Nat, NEW l, l = [m EXCEPT !.set = n]
  PROVE  /\ l \in Loop /\ l.set = n /\ l.deleted = m.deleted /\ l.step = m.step
         /\ l.batch = m.batch /\ l.reached = m.reached /\ l.status = m.status
BY DEF Loop

\* A loop whose post one more target has taken.
LEMMA CountsReached ==
  ASSUME NEW m \in Loop, NEW n \in 0..Target, NEW l, l = [m EXCEPT !.reached = n]
  PROVE  /\ l \in Loop /\ l.reached = n /\ l.set = m.set /\ l.step = m.step
         /\ l.batch = m.batch /\ l.deleted = m.deleted /\ l.status = m.status
BY DEF Loop

\* A loop that has deleted one more key.
LEMMA CountsDeleted ==
  ASSUME NEW m \in Loop, NEW n \in Nat, NEW l, l = [m EXCEPT !.deleted = n]
  PROVE  /\ l \in Loop /\ l.deleted = n /\ l.set = m.set /\ l.step = m.step
         /\ l.batch = m.batch /\ l.reached = m.reached /\ l.status = m.status
BY DEF Loop

\* Screening keeps the invariant.
LEMMA ScreenStep ==
  ASSUME IngestAssumption, IInv, NEW w \in Worker, Screen(w)
  PROVE  IInv'
<1>1. /\ worker[w].step = "screen"
      /\ UNCHANGED <<stream, group, pending, keys, rows, trucks, accepted, faults>>
  BY DEF Screen, At
<1>2. /\ worker[w] \in Loop /\ LoopOK(worker[w], stream)
      /\ Len(KeysAt(worker[w], stream)) \in Nat \ {0}
      /\ Message(w) \in Entry
  BY <1>1, BusyLoop, WhereBusy
<1>3. /\ worker[w].set = 0 /\ worker[w].deleted = 0 /\ worker[w].reached = 0
      /\ worker[w].status = "none"
  BY <1>1, <1>2 DEF LoopOK, Loop
<1> DEFINE to(step) == [worker[w] EXCEPT !.step = step]
<1>4. \A step \in {"truck", "keys"} :
        (step = "truck" => Message(w).post \in TruckPost) =>
          to(step) \in Loop /\ LoopOK(to(step), stream)
  <2> SUFFICES ASSUME NEW step \in {"truck", "keys"},
                      step = "truck" => Message(w).post \in TruckPost
               PROVE  to(step) \in Loop /\ LoopOK(to(step), stream)
    OBVIOUS
  <2> DEFINE l == to(step)
  <2>1. l \in Loop /\ l.step = step /\ l.batch = worker[w].batch /\ l.set = 0
        /\ l.deleted = 0 /\ l.reached = 0 /\ l.status = "none"
    BY <1>2, <1>3 DEF Loop
  <2>2. KeysAt(l, stream) = KeysAt(worker[w], stream)
        /\ MessageAt(l, stream) = Message(w)
    BY <2>1, SameBatch, WhereBusy
  <2> HIDE DEF l
  <2>3. LoopOK(l, stream)
    BY <1>1, <1>2, <2>1, <2>2 DEF LoopOK
  <2> QED BY <2>1, <2>3 DEF l
<1>5. PICK l \in Loop : /\ Moves(w, l) /\ LoopOK(l, stream) /\ l.batch = worker[w].batch
                       /\ l.set = worker[w].set /\ l.deleted = worker[w].deleted
  <2>1. CASE Message(w).post \in TruckPost
    <3>1. Moves(w, to("truck"))
      BY <2>1 DEF Screen
    <3>2. to("truck") \in Loop /\ LoopOK(to("truck"), stream)
      BY <1>4, <2>1
    <3> QED BY <1>2, <3>1, <3>2 DEF Loop
  <2>2. CASE Message(w).post \notin TruckPost
    <3>1. PICK verdict \in Screened[Message(w).post] :
            Moves(w, IF verdict = "cargo" THEN to("keys") ELSE Save(w, verdict))
      BY <2>2 DEF Screen
    <3>2. verdict \in {"empty", "ignored", "manual_review", "cargo"}
      BY <1>2, <3>1 DEF IngestAssumption, Entry
    <3>3. CASE verdict = "cargo"
      <4>1. to("keys") \in Loop /\ LoopOK(to("keys"), stream)
        BY <1>4
      <4> QED BY <1>2, <3>1, <3>3, <4>1 DEF Loop
    <3>4. CASE verdict # "cargo"
      <4>1. Save(w, verdict) \in Loop /\ LoopOK(Save(w, verdict), stream)
        BY <1>1, <1>3, <3>2, <3>4, SaveIsOK DEF Outcome
      <4> QED BY <1>2, <3>1, <3>4, <4>1 DEF Loop, Save
    <3> QED BY <3>3, <3>4
  <2> QED BY <2>1, <2>2
<1>6. LoopsOK' /\ HeldAreSet' /\ HeldByOne' /\ worker' \in [Worker -> Loop]
  BY <1>1, <1>5, QuietMove
<1>7. TypeOK' /\ GroupInStream'
  BY <1>1, <1>6 DEF IInv, TypeOK, GroupInStream, EntryId
<1> QED BY <1>6, <1>7 DEF IInv

\* Saving a truck keeps the invariant.
LEMMA SaveTruckStep ==
  ASSUME IngestAssumption, IInv, NEW w \in Worker, SaveTruck(w)
  PROVE  IInv'
<1> DEFINE l == [worker[w] EXCEPT !.step = "ack"]
<1>1. /\ worker[w].step = "truck" /\ Moves(w, l)
      /\ trucks' \subseteq trucks \cup {Message(w).post}
      /\ UNCHANGED <<stream, group, pending, keys, rows, accepted, faults>>
  BY DEF SaveTruck, At
<1>2. worker[w] \in Loop /\ LoopOK(worker[w], stream) /\ Message(w).post \in TruckPost
  BY <1>1, BusyLoop, WhereBusy DEF LoopOK
<1>3. /\ l \in Loop /\ l.step = "ack" /\ l.batch = worker[w].batch
      /\ l.set = worker[w].set /\ l.deleted = worker[w].deleted
  BY <1>2 DEF Loop
<1>4. KeysAt(l, stream) = KeysAt(worker[w], stream)
  BY <1>3, SameBatch
<1> HIDE DEF l
<1>5. LoopOK(l, stream)
  BY <1>1, <1>2, <1>3, <1>4 DEF LoopOK
<1>6. LoopsOK' /\ HeldAreSet' /\ HeldByOne' /\ worker' \in [Worker -> Loop]
  BY <1>1, <1>3, <1>5, QuietMove
<1>7. TypeOK' /\ GroupInStream'
  BY <1>1, <1>2, <1>6 DEF IInv, TypeOK, GroupInStream, EntryId
<1> QED BY <1>6, <1>7 DEF IInv

\* A worker that sets its next key holds one key more, which nobody held.
LEMMA SetKeyStep ==
  ASSUME IngestAssumption, IInv, NEW w \in Worker, SetKey(w)
  PROVE  IInv'
<1> DEFINE old == worker[w]
           n == old.set + 1
           ks == KeysAt(old, stream)
<1>1. /\ old.step = "keys" /\ KeysInTurn(w) = ks
      /\ UNCHANGED <<stream, group, pending, rows, trucks, accepted, faults>>
  BY WhereBusy DEF SetKey, At
<1>2. /\ old \in Loop /\ LoopOK(old, stream) /\ stream \in Seq(Entry)
      /\ worker \in [Worker -> Loop]
  BY BusyLoop
<1>3. /\ old.set \in Nat /\ old.set < Len(ks) /\ old.deleted = 0 /\ old.reached = 0
      /\ old.status = "none"
  BY <1>1, <1>2 DEF LoopOK, Loop
<1>4. ks \in Seq(Key) /\ Len(ks) \in Nat /\ n = old.set + 1 /\ n \in 1..Len(ks)
      /\ ks[n] \in Key /\ ks = KeysAt(old, stream)
  BY <1>1, <1>2, <1>3, EntryOfLoop
<1>5. CASE Taken(w, ks[n])
  <2>1. Moves(w, Save(w, "duplicate")) /\ UNCHANGED keys
    BY <1>1, <1>5 DEF SetKey
  <2>2. Save(w, "duplicate") \in Loop /\ LoopOK(Save(w, "duplicate"), stream)
    BY <1>1, <1>3, SaveIsOK DEF Outcome
  <2>3. /\ Save(w, "duplicate").batch = old.batch /\ Save(w, "duplicate").set = old.set
        /\ Save(w, "duplicate").deleted = old.deleted
    BY <1>2 DEF Save, Loop
  <2>4. LoopsOK' /\ HeldAreSet' /\ HeldByOne' /\ worker' \in [Worker -> Loop]
    BY <1>1, <2>1, <2>2, <2>3, QuietMove
  <2>5. TypeOK' /\ GroupInStream'
    BY <1>1, <2>1, <2>4 DEF IInv, TypeOK, GroupInStream, EntryId
  <2> QED BY <2>4, <2>5 DEF IInv
<1>6. CASE ~Taken(w, ks[n])
  <2> DEFINE m == IF n < Len(ks) THEN old
                  ELSE IF Message(w).post \in Spam THEN Save(w, "spam_filtered")
                  ELSE [old EXCEPT !.step = "push"]
  <2>1. keys' = keys \cup {ks[n]} /\ Moves(w, [m EXCEPT !.set = n])
    BY <1>1, <1>6 DEF SetKey
  <2> HIDE DEF n, ks
  <2>2. /\ m \in Loop /\ m.batch = old.batch /\ m.deleted = 0 /\ m.reached = 0
        /\ \/ n < Len(ks) /\ m.step = "keys" /\ m.status = "none"
           \/ n = Len(ks) /\ m.step = "push" /\ m.status = "none"
           \/ n = Len(ks) /\ m.step = "save" /\ m.status = "spam_filtered"
    <3>1. CASE n < Len(ks)
      BY <1>1, <1>2, <1>3, <3>1
    <3>2. CASE ~(n < Len(ks)) /\ Message(w).post \in Spam
      <4>1. m = Save(w, "spam_filtered")
        BY <3>2
      <4>2. n = Len(ks)
        BY <1>4, <3>2
      <4> HIDE DEF m
      <4> QED BY <1>2, <1>3, <4>1, <4>2 DEF Loop, Save, Outcome
    <3>3. CASE ~(n < Len(ks)) /\ Message(w).post \notin Spam
      <4>1. m = [old EXCEPT !.step = "push"]
        BY <3>3
      <4>2. n = Len(ks)
        BY <1>4, <3>3
      <4> HIDE DEF m
      <4> QED BY <1>2, <1>3, <4>1, <4>2 DEF Loop
    <3> QED BY <3>1, <3>2, <3>3
  <2> HIDE DEF m
  <2> DEFINE l == [m EXCEPT !.set = n]
  <2>3. n \in Nat
    BY <1>4
  <2>4. /\ l \in Loop /\ l.batch = old.batch /\ l.set = n /\ l.deleted = 0
         /\ l.reached = 0 /\ l.step = m.step /\ l.status = m.status /\ Moves(w, l)
    <3>1. l \in Loop /\ l.set = n /\ l.deleted = m.deleted /\ l.step = m.step
          /\ l.batch = m.batch /\ l.reached = m.reached /\ l.status = m.status
      BY <2>2, <2>3, CountsSet
    <3>2. Moves(w, l)
      BY <2>1
    <3> HIDE DEF l
    <3> QED BY <2>2, <3>1, <3>2
  <2> HIDE DEF l
  <2>5. KeysAt(l, stream) = ks
    BY <1>4, <2>4, SameBatch
  <2>6. LoopOK(l, stream)
    BY <1>1, <1>2, <1>3, <1>4, <2>2, <2>4, <2>5 DEF LoopOK, IngestAssumption
  <2>7. HeldAt(l, stream) \subseteq (HeldAt(old, stream) \cup {ks[n]}) \ {}
    <3>1. \A i \in (l.deleted + 1)..l.set : i = n \/ i \in (old.deleted + 1)..old.set
      BY <1>3, <1>4, <2>4
    <3> QED BY <1>4, <2>4, <2>5, <3>1 DEF HeldAt
  <2>8. {ks[n]} \cap keys = {} /\ {} \subseteq HeldAt(old, stream)
        /\ keys' = (keys \cup {ks[n]}) \ {}
    BY <1>6, <2>1 DEF Taken
  <2>9. worker' = [worker EXCEPT ![w] = l] /\ stream' = stream
    BY <1>1, <2>4 DEF Moves
  <2>10. LoopsOK' /\ HeldAreSet' /\ HeldByOne'
    <3> DEFINE made == {ks[n]}
               gone == {}
    <3> HIDE DEF made, gone
    <3>1. /\ made \cap keys = {} /\ gone \subseteq HeldAt(worker[w], stream)
          /\ keys' = (keys \cup made) \ gone
          /\ HeldAt(l, stream') \subseteq (HeldAt(worker[w], stream) \cup made) \ gone
      BY <2>7, <2>8, <2>9 DEF made, gone
    <3> QED BY <2>4, <2>6, <2>9, <3>1, OneLoopMoves
  <2>11. TypeOK' /\ GroupInStream'
    BY <1>1, <1>2, <1>4, <2>1, <2>4, <2>9 DEF IInv, TypeOK, GroupInStream, EntryId
  <2> QED BY <2>10, <2>11 DEF IInv
<1> QED BY <1>5, <1>6

\* A push moves no key.
LEMMA PushStep ==
  ASSUME IngestAssumption, IInv, NEW w \in Worker, Push(w)
  PROVE  IInv'
<1> DEFINE old == worker[w]
           n == old.reached + 1
           l == IF AllReached(n) THEN [[old EXCEPT !.reached = n]
                                       EXCEPT !.step = "save", !.status = "synced"]
                ELSE [old EXCEPT !.reached = n]
<1>1. /\ old.step = "push" /\ Moves(w, l)
      /\ accepted' = accepted \cup {<<n, Message(w).post>>}
      /\ UNCHANGED <<stream, group, pending, keys, rows, trucks, faults>>
  BY DEF Push, At
<1>2. /\ old \in Loop /\ LoopOK(old, stream) /\ Message(w).post \in Post
      /\ Len(KeysAt(old, stream)) \in Nat
  BY <1>1, BusyLoop, WhereBusy DEF Entry
<1>3. /\ old.deleted = 0 /\ old.set = Len(KeysAt(old, stream)) /\ old.status = "none"
      /\ n \in 1..Target
  BY <1>1, <1>2 DEF LoopOK, Loop, IngestAssumption
<1>4. /\ l \in Loop /\ l.batch = old.batch /\ l.set = old.set /\ l.deleted = old.deleted
      /\ \/ l.step = "save"
         \/ l.step = "push" /\ l.status = "none" /\ l.reached < Target
  <2> DEFINE took == [old EXCEPT !.reached = n]
  <2>1. n \in 0..Target
    BY <1>3
  <2>2. /\ took \in Loop /\ took.reached = n /\ took.set = old.set /\ took.step = "push"
        /\ took.batch = old.batch /\ took.deleted = old.deleted /\ took.status = "none"
    <3> HIDE DEF n
    <3> QED BY <1>1, <1>2, <1>3, <2>1, CountsReached
  <2>3. CASE AllReached(n)
    <3>1. l = [took EXCEPT !.step = "save", !.status = "synced"]
      BY <2>3
    <3> HIDE DEF l, took
    <3> QED BY <2>2, <3>1 DEF Loop, Outcome
  <2>4. CASE ~AllReached(n)
    <3>1. l = took /\ n < Target
      BY <1>3, <2>4 DEF AllReached, IngestAssumption
    <3> HIDE DEF l, took
    <3> QED BY <2>2, <3>1
  <2> QED BY <2>3, <2>4
<1> HIDE DEF l
<1>5. KeysAt(l, stream) = KeysAt(old, stream)
  BY <1>4, SameBatch
<1>6. LoopOK(l, stream)
  BY <1>1, <1>2, <1>3, <1>4, <1>5 DEF LoopOK
<1>7. LoopsOK' /\ HeldAreSet' /\ HeldByOne' /\ worker' \in [Worker -> Loop]
  BY <1>1, <1>4, <1>6, QuietMove
<1>8. TypeOK' /\ GroupInStream'
  BY <1>1, <1>2, <1>3, <1>7 DEF IInv, TypeOK, GroupInStream, EntryId
<1> QED BY <1>7, <1>8 DEF IInv

\* Undoing is in order for a loop that holds all its keys.
LEMMA UndoingIsOK ==
  ASSUME IngestAssumption, IInv, NEW w \in Worker, worker[w].step # "idle",
         worker[w].deleted = 0, worker[w].set = Len(KeysAt(worker[w], stream))
  PROVE  /\ Undoing(w) \in Loop /\ LoopOK(Undoing(w), stream)
         /\ Undoing(w).batch = worker[w].batch /\ Undoing(w).set = worker[w].set
         /\ Undoing(w).deleted = worker[w].deleted
<1> DEFINE l == Undoing(w)
<1>1. /\ worker[w] \in Loop /\ LoopOK(worker[w], stream)
      /\ Len(KeysAt(worker[w], stream)) \in Nat \ {0}
  BY BusyLoop
<1>2. /\ l \in Loop /\ l.step = "undo" /\ l.batch = worker[w].batch
      /\ l.set = worker[w].set /\ l.deleted = worker[w].deleted
  BY <1>1 DEF Loop, Undoing
<1>3. KeysAt(l, stream) = KeysAt(worker[w], stream)
  BY <1>2, SameBatch
<1> HIDE DEF l
<1>4. LoopOK(l, stream)
  BY <1>1, <1>2, <1>3 DEF LoopOK
<1> QED BY <1>2, <1>4 DEF l

\* A failed push goes on to undo.
LEMMA PushFailsStep ==
  ASSUME IngestAssumption, IInv, NEW w \in Worker, PushFails(w)
  PROVE  IInv'
<1>1. /\ worker[w].step = "push" /\ Moves(w, Undoing(w))
      /\ accepted' \subseteq accepted \cup {<<worker[w].reached + 1, Message(w).post>>}
      /\ UNCHANGED <<stream, group, pending, keys, rows, trucks, faults>>
  BY DEF PushFails, At
<1>2. worker[w] \in Loop /\ LoopOK(worker[w], stream) /\ Message(w).post \in Post
  BY <1>1, BusyLoop, WhereBusy DEF Entry
<1>3. /\ worker[w].deleted = 0 /\ worker[w].set = Len(KeysAt(worker[w], stream))
      /\ worker[w].reached + 1 \in 1..Target
  BY <1>1, <1>2 DEF LoopOK, Loop, IngestAssumption
<1>4. LoopsOK' /\ HeldAreSet' /\ HeldByOne' /\ worker' \in [Worker -> Loop]
  BY <1>1, <1>3, UndoingIsOK, QuietMove
<1>5. TypeOK' /\ GroupInStream'
  BY <1>1, <1>2, <1>3, <1>4 DEF IInv, TypeOK, GroupInStream, EntryId
<1> QED BY <1>4, <1>5 DEF IInv

\* A worker deletes only a key it holds, and no longer holds it.
LEMMA DeleteKeyStep ==
  ASSUME IngestAssumption, IInv, NEW w \in Worker, DeleteKey(w)
  PROVE  IInv'
<1> DEFINE old == worker[w]
           n == old.deleted + 1
           ks == KeysAt(old, stream)
           m == IF n = Len(ks) THEN Undone(w) ELSE old
           l == [m EXCEPT !.deleted = n]
           gone == {ks[n]}
           made == {}
<1>1. /\ old.step = "undo" /\ keys' = keys \ gone /\ Moves(w, l)
      /\ UNCHANGED <<stream, group, pending, rows, trucks, accepted, faults>>
      /\ Message(w) = MessageAt(old, stream)
  BY WhereBusy DEF DeleteKey, At
<1>2. /\ old \in Loop /\ LoopOK(old, stream) /\ stream \in Seq(Entry)
      /\ worker \in [Worker -> Loop]
  BY BusyLoop
<1>3. /\ old.set = Len(ks) /\ old.deleted \in Nat /\ old.deleted < Len(ks)
      /\ Len(ks) \in Nat
  BY <1>1, <1>2, BusyLoop DEF LoopOK, Loop
<1>4. /\ n \in 1..Len(ks) /\ n = old.deleted + 1 /\ n \in Nat
      /\ \A i \in 1..Len(ks) : ks[i] = ks[n] => i = n
  <2>1. n \in 1..Len(ks) /\ n = old.deleted + 1 /\ n \in Nat
    BY <1>3
  <2>2. \A i, j \in 1..Len(ks) : ks[i] = ks[j] => i = j
    BY <1>1, <1>2, EntryOfLoop
  <2> HIDE DEF n, ks
  <2> QED BY <2>1, <2>2
<1>5. /\ m \in Loop /\ m.batch = old.batch /\ m.set = old.set
      /\ \/ m.step = "undo" /\ n < Len(ks)
         \/ m.step = "requeue" /\ n = Len(ks) /\ Message(w).retry < MaxRetries
         \/ m.step = "save" /\ n = Len(ks) /\ m.status = "sync_failed"
  <2>1. CASE n # Len(ks)
    <3>1. m = old /\ n < Len(ks)
      BY <1>4, <2>1
    <3> HIDE DEF m, ks
    <3> QED BY <1>1, <1>2, <3>1
  <2>2. CASE n = Len(ks)
    <3>1. m = Undone(w)
      BY <2>2
    <3> HIDE DEF m, ks
    <3> QED BY <1>2, <2>2, <3>1 DEF Undone, Save, Loop, Outcome
  <2> QED BY <2>1, <2>2
<1> HIDE DEF m
<1>6. /\ l \in Loop /\ l.deleted = n /\ l.set = old.set /\ l.step = m.step
      /\ l.batch = old.batch /\ l.status = m.status
  <2> HIDE DEF n
  <2> QED BY <1>4, <1>5, CountsDeleted
<1> HIDE DEF l
<1>7. KeysAt(l, stream) = ks /\ MessageAt(l, stream) = Message(w)
  BY <1>1, <1>6, SameBatch
<1>8. LoopOK(l, stream)
  <2>1. l.batch # <<>> /\ \A i \in 1..Len(l.batch) : l.batch[i] \in 1..Len(stream)
    BY <1>1, <1>2, <1>6 DEF LoopOK
  <2>2. /\ l.set = Len(KeysAt(l, stream)) /\ l.deleted = n /\ n \in 1..l.set
        /\ Len(KeysAt(l, stream)) \in Nat /\ MessageAt(l, stream) = Message(w)
    BY <1>3, <1>4, <1>6, <1>7
  <2> HIDE DEF n, ks
  <2>3. CASE l.step = "undo" /\ n < Len(ks)
    <3>1. l.deleted < l.set
      BY <1>3, <1>6, <2>3
    <3> QED BY <2>1, <2>2, <2>3, <3>1 DEF LoopOK
  <2>4. CASE l.step = "requeue" /\ n = Len(ks) /\ Message(w).retry < MaxRetries
    <3>1. l.deleted = l.set
      BY <1>3, <1>6, <2>4
    <3> QED BY <2>1, <2>2, <2>4, <3>1 DEF LoopOK
  <2>5. CASE l.step = "save" /\ n = Len(ks) /\ l.status = "sync_failed"
    <3>1. l.deleted = l.set
      BY <1>3, <1>6, <2>5
    <3> QED BY <2>1, <2>2, <2>5, <3>1 DEF LoopOK
  <2> QED BY <1>5, <1>6, <2>3, <2>4, <2>5
<1>9. gone \subseteq HeldAt(old, stream)
  BY <1>3, <1>4, SMTT(30) DEF HeldAt
<1>10. HeldAt(l, stream) \subseteq HeldAt(old, stream) \ gone
  <2>1. \A i \in (l.deleted + 1)..l.set :
          i \in (old.deleted + 1)..old.set /\ i \in 1..Len(ks) /\ i # n
    BY <1>3, <1>4, <1>6
  <2> QED BY <1>4, <1>7, <2>1 DEF HeldAt
<1> HIDE DEF gone, ks, n
<1>11. LoopsOK' /\ HeldAreSet' /\ HeldByOne'
  <2>1. worker' = [worker EXCEPT ![w] = l] /\ stream' = stream
    BY <1>1 DEF Moves
  <2>2. made \cap keys = {} /\ keys' = (keys \cup made) \ gone
    BY <1>1
  <2>3. HeldAt(l, stream') \subseteq (HeldAt(worker[w], stream) \cup made) \ gone
    BY <1>10, <2>1
  <2> HIDE DEF made
  <2> QED BY <1>6, <1>8, <1>9, <2>1, <2>2, <2>3, OneLoopMoves
<1>12. TypeOK' /\ GroupInStream'
  BY <1>1, <1>2, <1>6 DEF IInv, TypeOK, GroupInStream, EntryId, Moves
<1> QED BY <1>11, <1>12 DEF IInv

\* Queueing a post again keeps the invariant.
LEMMA RequeueStep ==
  ASSUME IngestAssumption, IInv, NEW w \in Worker, Requeue(w)
  PROVE  IInv'
<1> DEFINE old == worker[w]
           x == [Message(w) EXCEPT !.retry = @ + 1]
           l == Save(w, "retry_queued")
<1>1. /\ old.step = "requeue" /\ stream' = Append(stream, x)
      /\ rows' = Append(rows, "none") /\ Moves(w, l)
      /\ UNCHANGED <<group, pending, keys, trucks, accepted, faults>>
  BY DEF Requeue, At
<1>2. /\ old \in Loop /\ LoopOK(old, stream) /\ stream \in Seq(Entry)
      /\ worker \in [Worker -> Loop] /\ Message(w) \in Entry
      /\ Message(w) = MessageAt(old, stream)
  BY <1>1, BusyLoop, WhereBusy
<1>3. old.deleted = 0 \/ old.deleted = old.set
  BY <1>1, <1>2 DEF LoopOK
<1>4. Message(w).retry < MaxRetries
  BY <1>1, <1>2 DEF LoopOK
<1>5. x \in Entry
  <2>1. Message(w).retry \in 0..MaxRetries /\ Message(w).post \in Post
    BY <1>2 DEF Entry
  <2>2. Message(w).retry + 1 \in 0..MaxRetries
    BY <1>4, <2>1 DEF IngestAssumption
  <2> QED BY <1>2, <2>1, <2>2 DEF Entry
<1>6. l \in Loop /\ LoopOK(l, stream)
  BY <1>1, <1>3, SaveIsOK DEF Outcome
<1>7. l.batch = old.batch /\ l.set = old.set /\ l.deleted = old.deleted
  BY <1>2 DEF Save, Loop
<1> HIDE DEF l, x
<1>8. LoopOK(l, stream') /\ HeldAt(l, stream') = HeldAt(l, stream)
  BY <1>1, <1>2, <1>5, <1>6, AppendKeepsLoop
<1>9. HeldAt(l, stream') \subseteq HeldAt(old, stream)
  BY <1>7, <1>8, SameBatch
<1>10. worker' = [worker EXCEPT ![w] = l]
  BY <1>1 DEF Moves
<1>11. LoopsOK' /\ HeldAreSet' /\ HeldByOne'
  BY <1>1, <1>5, <1>6, <1>8, <1>9, <1>10, QuietStep
<1>12. stream' \in Seq(Entry) /\ Len(stream') = Len(stream) + 1
  BY <1>1, <1>2, <1>5
<1>13. TypeOK'
  <2>1. pending' \subseteq EntryId'
    BY <1>1, <1>2, <1>12 DEF IInv, TypeOK, EntryId
  <2>2. rows' \in Seq(Outcome \cup {"none"}) /\ Len(rows') = Len(stream')
    BY <1>1, <1>12 DEF IInv, TypeOK
  <2>3. worker' \in [Worker -> Loop]
    BY <1>2, <1>6, <1>10
  <2> QED BY <1>1, <1>12, <2>1, <2>2, <2>3 DEF IInv, TypeOK
<1>14. GroupInStream'
  BY <1>1, <1>2, <1>12 DEF IInv, TypeOK, GroupInStream
<1> QED BY <1>11, <1>13, <1>14 DEF IInv

\* Saving an outcome keeps the invariant.
LEMMA SaveRowStep ==
  ASSUME IngestAssumption, IInv, NEW w \in Worker, SaveRow(w)
  PROVE  IInv'
<1> DEFINE l == [worker[w] EXCEPT !.step = "ack"]
           row == IF rows[Current(w)] = "none" THEN worker[w].status ELSE rows[Current(w)]
<1>1. /\ worker[w].step = "save" /\ Moves(w, l)
      /\ UNCHANGED <<stream, group, pending, keys, trucks, accepted, faults>>
      /\ rows' = [rows EXCEPT ![Current(w)] = row] \/ rows' = rows
  BY DEF SaveRow, At
<1>2. /\ worker[w] \in Loop /\ LoopOK(worker[w], stream) /\ Current(w) \in EntryId
      /\ rows \in Seq(Outcome \cup {"none"}) /\ Len(rows) = Len(stream)
      /\ stream \in Seq(Entry)
  BY <1>1, BusyLoop, WhereBusy DEF IInv, TypeOK
<1>3. /\ l \in Loop /\ l.step = "ack" /\ l.batch = worker[w].batch
      /\ l.set = worker[w].set /\ l.deleted = worker[w].deleted
  BY <1>2 DEF Loop
<1>4. KeysAt(l, stream) = KeysAt(worker[w], stream)
  BY <1>3, SameBatch
<1> HIDE DEF l
<1>5. LoopOK(l, stream)
  BY <1>1, <1>2, <1>3, <1>4 DEF LoopOK
<1>6. LoopsOK' /\ HeldAreSet' /\ HeldByOne' /\ worker' \in [Worker -> Loop]
  BY <1>1, <1>3, <1>5, QuietMove
<1>7. rows' \in Seq(Outcome \cup {"none"}) /\ Len(rows') = Len(stream)
  <2>1. row \in Outcome \cup {"none"} /\ Current(w) \in 1..Len(rows)
    BY <1>2 DEF Loop, EntryId
  <2> HIDE DEF row
  <2> QED BY <1>1, <1>2, <2>1
<1>8. TypeOK' /\ GroupInStream'
  BY <1>1, <1>6, <1>7 DEF IInv, TypeOK, GroupInStream, EntryId
<1> QED BY <1>6, <1>8 DEF IInv

\* Acknowledging keeps the invariant.
LEMMA AckStep ==
  ASSUME IngestAssumption, IInv, NEW w \in Worker, Ack(w)
  PROVE  IInv'
<1>1. /\ worker[w].step # "idle" /\ Moves(w, Forward(w)) /\ pending' \subseteq pending
      /\ UNCHANGED <<stream, group, keys, rows, trucks, accepted, faults>>
  BY DEF Ack, At
<1>2. LoopsOK' /\ HeldAreSet' /\ HeldByOne' /\ worker' \in [Worker -> Loop]
  BY <1>1, ForwardIsOK, QuietMove
<1>3. TypeOK' /\ GroupInStream'
  BY <1>1, <1>2 DEF IInv, TypeOK, GroupInStream, EntryId
<1> QED BY <1>2, <1>3 DEF IInv

\* An exception keeps the invariant: undone pushes hold their keys, any
\* other loop forgets them.
LEMMA StumbleStep ==
  ASSUME IngestAssumption, IInv, NEW w \in Worker, Stumble(w)
  PROVE  IInv'
<1>1. /\ worker[w].step \in {"screen", "truck", "save", "push"}
      /\ pending' = pending /\ faults < MaxFaults /\ faults' = faults + 1
      /\ UNCHANGED <<stream, group, keys, rows, trucks, accepted>>
  BY DEF Stumble, At, Faulty, Left
<1>2. LoopOK(worker[w], stream)
  BY BusyLoop
<1>3. PICK l \in Loop :
        /\ Moves(w, l) /\ LoopOK(l, stream)
        /\ \/ HeldAt(l, stream) = {}
           \/ l.batch = worker[w].batch /\ l.set = worker[w].set
              /\ l.deleted = worker[w].deleted
  <2>1. CASE worker[w].status = "synced"
    <3>1. worker[w].deleted = 0 /\ worker[w].set = Len(KeysAt(worker[w], stream))
      BY <1>1, <1>2, <2>1 DEF LoopOK
    <3>2. Moves(w, Undoing(w))
      BY <2>1 DEF Stumble
    <3> QED BY <1>1, <3>1, <3>2, UndoingIsOK
  <2>2. CASE worker[w].status # "synced"
    <3>1. Moves(w, Forward(w))
      BY <2>2 DEF Stumble
    <3> QED BY <1>1, <3>1, ForwardIsOK
  <2> QED BY <2>1, <2>2
<1>4. LoopsOK' /\ HeldAreSet' /\ HeldByOne' /\ worker' \in [Worker -> Loop]
  BY <1>1, <1>3, QuietMove
<1>5. TypeOK' /\ GroupInStream'
  BY <1>1, <1>4 DEF IInv, TypeOK, GroupInStream, EntryId, IngestAssumption
<1> QED BY <1>4, <1>5 DEF IInv

\* A crash keeps the invariant: the keys of the entry stay in Redis, but
\* nobody holds them.
LEMMA CrashStep ==
  ASSUME IngestAssumption, IInv, NEW w \in Worker, Crash(w)
  PROVE  IInv'
<1>1. /\ Moves(w, Resting) /\ faults < MaxFaults /\ faults' = faults + 1
      /\ UNCHANGED <<stream, group, pending, keys, rows, trucks, accepted>>
  BY DEF Crash, Faulty
<1>2. LoopsOK' /\ HeldAreSet' /\ HeldByOne' /\ worker' \in [Worker -> Loop]
  BY <1>1, RestIsOK, QuietMove
<1>3. TypeOK' /\ GroupInStream'
  BY <1>1, <1>2 DEF IInv, TypeOK, GroupInStream, EntryId, IngestAssumption
<1> QED BY <1>2, <1>3 DEF IInv

-----------------------------------------------------------------------------
(* The invariant and the theorems.                                          *)

\* The invariant holds at first.
LEMMA InitIInv == ASSUME IngestAssumption, Init PROVE IInv
<1>1. TypeOK
  <2>1. <<>> \in Seq(Entry) /\ <<>> \in Seq(Outcome \cup {"none"}) /\ Len(<<>>) = 0
    OBVIOUS
  <2>2. Resting \in Loop
    BY RestIsOK
  <2> QED BY <2>1, <2>2 DEF Init, TypeOK, EntryId, IngestAssumption
<1>2. \A w \in Worker : worker[w] = Resting
  BY DEF Init
<1>3. LoopsOK /\ HeldAreSet /\ HeldByOne
  BY <1>2, RestIsOK DEF LoopsOK, HeldAreSet, HeldByOne
<1>4. GroupInStream
  BY DEF Init, GroupInStream
<1> QED BY <1>1, <1>3, <1>4 DEF IInv

\* Every step keeps the invariant.
LEMMA NextIInv == ASSUME IngestAssumption, IInv, [Next]_vars PROVE IInv'
<1>1. ASSUME NEW p \in Post, Publish(p) PROVE IInv'
  BY <1>1, PublishStep
<1>2. CASE EnsureGroup
  BY <1>2, EnsureGroupStep
<1>3. ASSUME NEW k \in Key, Expire(k) PROVE IInv'
  BY <1>3, ExpireStep
<1>4. ASSUME NEW w \in Worker, Work(w) PROVE IInv'
  <2>1. CASE Read(w) \/ Claim(w)
    BY <2>1, ReadStep, ClaimStep
  <2>2. CASE Screen(w) \/ SaveTruck(w) \/ SetKey(w)
    BY <2>2, ScreenStep, SaveTruckStep, SetKeyStep
  <2>3. CASE Push(w) \/ PushFails(w) \/ DeleteKey(w) \/ Requeue(w)
    BY <2>3, PushStep, PushFailsStep, DeleteKeyStep, RequeueStep
  <2>4. CASE SaveRow(w) \/ Ack(w)
    BY <2>4, SaveRowStep, AckStep
  <2> QED BY <1>4, <2>1, <2>2, <2>3, <2>4 DEF Work
<1>5. ASSUME NEW w \in Worker, Stumble(w) \/ Crash(w) PROVE IInv'
  BY <1>5, StumbleStep, CrashStep
<1>6. CASE UNCHANGED vars
  BY <1>6 DEF vars, IInv, TypeOK, LoopsOK, GroupInStream, HeldAreSet, HeldByOne, EntryId
<1> QED BY <1>1, <1>2, <1>3, <1>4, <1>5, <1>6 DEF Next

\* The invariant of every behaviour.
LEMMA Invariance == ASSUME IngestAssumption PROVE Spec => []IInv
<1>1. Init => IInv
  BY InitIInv
<1>2. IInv /\ [Next]_vars => IInv'
  BY NextIInv
<1> QED BY <1>1, <1>2, PTL DEF Spec

\* The stream, the keys, the loops and the tables keep their types, and no
\* post is retried more than MaxRetries times.
THEOREM TypeCorrect == Spec => []TypeOK
<1>1. IInv => TypeOK
  BY DEF IInv
<1> QED BY <1>1, Invariance, IngestAssumption, PTL

\* No two workers are ever in _push_to_targets with posts that share a key.
THEOREM KeysAreLocks == Spec => []PushIsExclusive
<1>1. IInv => PushIsExclusive
  <2> SUFFICES ASSUME IInv, NEW v \in Worker, NEW w \in Worker, v # w,
                      At(v, "push"), At(w, "push")
               PROVE  Keys(v) \cap Keys(w) = {}
    BY DEF PushIsExclusive
  <2>1. \A u \in {v, w} : Keys(u) \subseteq HeldAt(worker[u], stream)
    <3> SUFFICES ASSUME NEW u \in {v, w}
                 PROVE  Keys(u) \subseteq HeldAt(worker[u], stream)
      OBVIOUS
    <3> DEFINE ks == KeysAt(worker[u], stream)
    <3>1. worker[u].step = "push" /\ LoopOK(worker[u], stream) /\ worker[u] \in Loop
          /\ stream \in Seq(Entry)
      BY IngestAssumption, BusyLoop DEF At
    <3>2. worker[u].deleted = 0 /\ worker[u].set = Len(ks)
      BY <3>1 DEF LoopOK
    <3>3. ks \in Seq(Key)
      BY <3>1, IngestAssumption, EntryOfLoop
    <3>4. Keys(u) = Range(ks)
      BY IngestAssumption, WhereBusy DEF Keys
    <3> HIDE DEF ks
    <3>5. Range(ks) = {ks[i] : i \in 1..Len(ks)}
      BY <3>3 DEF Range
    <3> QED BY <3>2, <3>4, <3>5 DEF HeldAt, ks
  <2>2. HeldAt(worker[v], stream) \cap HeldAt(worker[w], stream) = {}
    BY DEF IInv, HeldByOne
  <2> QED BY <2>1, <2>2
<1> QED BY <1>1, Invariance, IngestAssumption, PTL
-----------------------------------------------------------------------------
(* What became of an entry.  OutcomesAreTrue and RetryHasSuccessor speak of  *)
(* rows alone; the strengthening says of a loop what its local `status` and  *)
(* `reached` stand for, so that the row it saves is true.                    *)

HasTrace(e) == rows[e] # "none" \/ stream[e].post \in trucks

Queued(e) == \E f \in EntryId : stream[f] = [stream[e] EXCEPT !.retry = @ + 1]

\* An outcome that may be recorded for entry e.
TrueOf(e, status) ==
  /\ status = "synced" => Sent(stream[e].post)
  /\ status = "retry_queued" => Queued(e)

\* The targets that took the post, the status to be saved, and before the
\* entry is acknowledged its trace, unless the table may refuse it.
LoopTrue(w) ==
  /\ At(w, "push") =>
       \A t \in 1..worker[w].reached : <<t, Message(w).post>> \in accepted
  /\ At(w, "save") => worker[w].status # "none" /\ TrueOf(Current(w), worker[w].status)
  /\ At(w, "ack") => TableFails \/ HasTrace(Current(w))

LoopsTrue == \A w \in Worker : LoopTrue(w)

RowsTrue == \A e \in EntryId : TrueOf(e, rows[e])

SettledTraced == \A e \in EntryId : Settled(e) => TableFails \/ HasTrace(e)

TraceInv == LoopsTrue /\ RowsTrue /\ SettledTraced

\* What every step does to the stream and the tables: entries stay, a row is
\* written once and by who knows what became of the entry, what was accepted or
\* saved stays; what is settled from now on has its trace.
Grows ==
  /\ EntryId \subseteq EntryId'
  /\ \A e \in EntryId : stream'[e] = stream[e]
  /\ \A e \in EntryId : \/ rows'[e] = rows[e]
                        \/ rows[e] = "none" /\ rows'[e] # "none" /\ TrueOf(e, rows'[e])
  /\ \A e \in EntryId' \ EntryId : rows'[e] = "none"
  /\ accepted \subseteq accepted' /\ trucks \subseteq trucks'
  /\ \A e \in EntryId' : Settled(e)' =>
       e \in EntryId /\ (Settled(e) \/ TableFails \/ HasTrace(e))

\* What was true of an entry stays true.
LEMMA StaysTrue ==
  ASSUME Grows, NEW e \in EntryId
  PROVE  /\ HasTrace(e) => HasTrace(e)'
         /\ \A status : TrueOf(e, status) => TrueOf(e, status)'
<1>1. stream'[e] = stream[e] /\ e \in EntryId'
  BY DEF Grows
<1>2. HasTrace(e) => HasTrace(e)'
  BY <1>1 DEF Grows, HasTrace
<1>3. Sent(stream[e].post) => Sent(stream[e].post)'
  BY <1>1 DEF Grows, Sent
<1>4. Queued(e) => Queued(e)'
  BY <1>1 DEF Grows, Queued
<1> QED BY <1>1, <1>2, <1>3, <1>4 DEF TrueOf

\* A step that changes no more than Grows says keeps the invariant, if what it
\* does to a loop leaves the loop true.
LEMMA TraceStep ==
  ASSUME IngestAssumption, IInv, TraceInv, Grows,
         \A w \in Worker : worker'[w] = worker[w] \/ LoopTrue(w)'
  PROVE  TraceInv'
<1>1. ASSUME NEW w \in Worker, worker'[w] = worker[w] PROVE LoopTrue(w)'
  <2>1. LoopTrue(w) /\ At(w, "idle")' = At(w, "idle")
    BY <1>1 DEF TraceInv, LoopsTrue, At
  <2>2. CASE At(w, "idle")
    BY <1>1, <2>2 DEF LoopTrue, At
  <2>3. CASE ~At(w, "idle")
    <3>1. PICK e \in EntryId : e = Current(w)
      BY <2>3, WhereBusy DEF At
    <3>2. e = Current(w)' /\ e \in EntryId'
      BY <1>1, <3>1 DEF Current, Grows
    <3>3. Message(w)' = Message(w)
      BY <3>1, <3>2 DEF Message, Grows
    <3>4. At(w, "push")' =>
            \A t \in 1..worker'[w].reached : <<t, Message(w)'.post>> \in accepted'
      BY <1>1, <2>1, <3>3 DEF LoopTrue, At, Grows
    <3>5. At(w, "save")' => worker'[w].status # "none" /\ TrueOf(e, worker[w].status)'
      <4>1. PICK status : status = worker[w].status
        OBVIOUS
      <4>2. TrueOf(e, status) => TrueOf(e, status)'
        BY StaysTrue
      <4> QED BY <1>1, <2>1, <3>1, <4>1, <4>2 DEF LoopTrue, At
    <3>6. At(w, "ack")' => TableFails \/ HasTrace(e)'
      BY <1>1, <2>1, <3>1, StaysTrue DEF LoopTrue, At
    <3> QED BY <3>2, <3>4, <3>5, <3>6 DEF LoopTrue
  <2> QED BY <2>2, <2>3
<1>2. LoopsTrue'
  BY <1>1 DEF LoopsTrue
<1>3. ASSUME NEW e \in EntryId' PROVE TrueOf(e, rows[e])'
  <2>1. CASE e \in EntryId
    <3>1. PICK status : status = rows'[e]
      OBVIOUS
    <3>2. TrueOf(e, status)
      BY <2>1, <3>1 DEF Grows, TraceInv, RowsTrue
    <3>3. TrueOf(e, status)'
      BY <2>1, <3>2, StaysTrue
    <3> QED BY <3>1, <3>3 DEF TrueOf
  <2>2. CASE e \notin EntryId
    BY <2>2 DEF Grows, TrueOf
  <2> QED BY <2>1, <2>2
<1>4. ASSUME NEW e \in EntryId', Settled(e)' PROVE TableFails \/ HasTrace(e)'
  <2>1. e \in EntryId /\ (Settled(e) \/ TableFails \/ HasTrace(e))
    BY <1>4 DEF Grows
  <2> QED BY <2>1, StaysTrue DEF TraceInv, SettledTraced
<1> QED BY <1>2, <1>3, <1>4 DEF TraceInv, RowsTrue, SettledTraced

\* Appending an entry, without a row: it is not delivered yet.
LEMMA AppendGrows ==
  ASSUME IngestAssumption, IInv, NEW x \in Entry,
         stream' = Append(stream, x), rows' = Append(rows, "none"),
         UNCHANGED <<group, pending, trucks, accepted>>
  PROVE  Grows
<1>1. /\ stream \in Seq(Entry) /\ Len(rows) = Len(stream) /\ Len(stream) \in Nat
      /\ rows \in Seq(Outcome \cup {"none"})
      /\ group.last <= Len(stream) /\ group.last \in Nat
  BY DEF IInv, TypeOK, GroupInStream
<1>2. EntryId = 1..Len(stream) /\ EntryId' = 1..(Len(stream) + 1)
  BY <1>1 DEF EntryId
<1>3. \A e \in EntryId : stream'[e] = stream[e] /\ rows'[e] = rows[e]
  BY <1>1, <1>2
<1>4. \A e \in EntryId' \ EntryId : rows'[e] = "none"
  BY <1>1, <1>2
<1>5. \A e \in EntryId' : Settled(e)' => e \in EntryId /\ Settled(e)
  BY <1>1, <1>2 DEF Settled, Delivered
<1>6. EntryId \subseteq EntryId'
  BY <1>1, <1>2
<1> QED BY <1>3, <1>4, <1>5, <1>6 DEF Grows

\* A step that leaves the stream, the rows and the group alone, and takes
\* nothing back.
LEMMA TablesGrow ==
  ASSUME UNCHANGED <<stream, rows, group>>, pending \subseteq pending',
         accepted \subseteq accepted', trucks \subseteq trucks'
  PROVE  Grows
BY DEF Grows, EntryId, Settled, Delivered

\* A loop that moves to l: the other ones stay where they are.
LEMMA OneLoop ==
  ASSUME IngestAssumption, IInv, NEW w \in Worker, NEW l, Moves(w, l)
  PROVE  worker'[w] = l /\ \A v \in Worker : v # w => worker'[v] = worker[v]
BY DEF Moves, IInv, TypeOK

\* Where there is nothing to say of the loop.
LEMMA LoopAtRest ==
  ASSUME NEW w \in Worker, worker'[w].step \notin {"push", "save", "ack"}
  PROVE  LoopTrue(w)'
BY DEF LoopTrue, At

\* A worker's step that moves nothing else.
LEMMA OnlyLoopMoves ==
  ASSUME IngestAssumption, IInv, TraceInv, NEW w \in Worker, NEW l, Moves(w, l),
         UNCHANGED <<stream, rows, group>>, pending \subseteq pending',
         accepted \subseteq accepted', trucks \subseteq trucks',
         LoopTrue(w)' \/ l.step \notin {"push", "save", "ack"}
  PROVE  TraceInv'
<1>1. worker'[w] = l /\ \A v \in Worker : v # w => worker'[v] = worker[v]
  BY OneLoop
<1>2. LoopTrue(w)'
  BY <1>1, LoopAtRest
<1> QED BY <1>1, <1>2, TablesGrow, TraceStep

\* The steps outside the loops say nothing of an entry.
LEMMA OutsideTrace ==
  ASSUME IngestAssumption, IInv, TraceInv,
         \/ \E p \in Post : Publish(p)
         \/ EnsureGroup
         \/ \E k \in Key : Expire(k)
         \/ UNCHANGED vars
  PROVE  TraceInv'
<1>1. worker' = worker
  BY DEF Publish, EnsureGroup, Expire, vars
<1>2. CASE \E p \in Post : Publish(p)
  <2>1. PICK p \in Post : Publish(p)
    BY <1>2
  <2>2. stream \in Seq(Entry) /\ Len(rows) = Len(stream) /\ rows \in Seq(Outcome \cup {"none"})
        /\ group.last <= Len(stream) /\ group.last \in Nat /\ Fresh(p) \in Entry
    BY DEF IInv, TypeOK, GroupInStream, Fresh, Entry, IngestAssumption
  <2>3. stream' = Append(stream, Fresh(p)) /\ rows' = Append(rows, "none")
        /\ UNCHANGED <<group, pending, trucks, accepted>>
    BY <2>1 DEF Publish
  <2>4. Grows
    BY <2>2, <2>3, AppendGrows
  <2> QED BY <1>1, <2>4, TraceStep
<1>3. CASE EnsureGroup
  <2>1. \A e \in EntryId' : ~Settled(e)'
    BY <1>3 DEF EnsureGroup, Settled, Delivered, EntryId, IInv, TypeOK
  <2>2. EntryId' = EntryId /\ UNCHANGED <<stream, rows, accepted, trucks>>
    BY <1>3 DEF EnsureGroup, EntryId
  <2>3. Grows
    BY <2>1, <2>2 DEF Grows
  <2> QED BY <1>1, <2>3, TraceStep
<1>4. CASE (\E k \in Key : Expire(k)) \/ UNCHANGED vars
  <2>1. Grows
    BY <1>4, TablesGrow DEF Expire, vars
  <2> QED BY <1>1, <2>1, TraceStep
<1> QED BY <1>2, <1>3, <1>4

\* Taking entries: what is delivered is pending.
LEMMA TakeTrace ==
  ASSUME IngestAssumption, IInv, TraceInv, NEW w \in Worker, Read(w) \/ Claim(w)
  PROVE  TraceInv'
<1>1. PICK es : Take(w, es)
  BY DEF Read, Claim
<1> DEFINE l == [Resting EXCEPT !.step = "screen", !.batch = es]
<1>2. worker'[w].step = "screen" /\ \A v \in Worker : v # w => worker'[v] = worker[v]
  <2>1. Moves(w, l) /\ l.step = "screen"
    BY <1>1 DEF Take, Resting
  <2> QED BY <2>1, OneLoop
<1>3. \A e \in EntryId : Settled(e)' => Settled(e)
  <2>1. CASE Claim(w)
    BY <2>1 DEF Claim, Take, Settled, Delivered
  <2>2. CASE Read(w)
    <3> DEFINE last == Min({Len(stream), group.last + Batch})
               fs == [i \in 1..(last - group.last) |-> group.last + i]
    <3>1. Take(w, fs) /\ group' = [group EXCEPT !.last = last]
      BY <2>2 DEF Read
    <3>2. Len(stream) \in Nat /\ group.last \in Nat /\ Batch \in Nat \ {0}
          /\ group.last < Len(stream)
      BY <2>2 DEF IInv, TypeOK, IngestAssumption, Read
    <3>3. last \in Nat
      <4> DEFINE S == {Len(stream), group.last + Batch}
      <4>1. \E x \in S : \A y \in S : x =< y
        BY <3>2
      <4> QED BY <3>2, <4>1 DEF Min
    <3> HIDE DEF last
    <3>4. group'.last = last /\ group'.first = group.first
      BY <3>1 DEF IInv, TypeOK
    <3>5. pending' = pending \cup Range(fs)
      BY <3>1 DEF Take
    <3>6. ASSUME NEW e \in EntryId, Settled(e)' PROVE Settled(e)
      <4>1. e \in Nat /\ group.first < e /\ e <= last /\ e \notin pending /\ e \notin Range(fs)
        BY <3>4, <3>5, <3>6 DEF Settled, Delivered, EntryId, IInv, TypeOK
      <4>2. CASE e <= group.last
        BY <4>1, <4>2 DEF Settled, Delivered
      <4>3. CASE group.last < e
        <5>1. e - group.last \in 1..(last - group.last)
          BY <3>2, <3>3, <4>1, <4>3
        <5>2. fs[e - group.last] = e
          BY <3>2, <4>1, <5>1
        <5>3. DOMAIN fs = 1..(last - group.last)
          OBVIOUS
        <5> HIDE DEF fs
        <5> QED BY <4>1, <5>1, <5>2, <5>3 DEF Range
      <4> QED BY <3>2, <4>1, <4>2, <4>3
    <3> QED BY <3>6
  <2> QED BY <2>1, <2>2
<1>4. Grows
  BY <1>3 DEF Grows, EntryId, Read, Claim
<1> QED BY <1>2, <1>4, LoopAtRest, TraceStep

\* Saving an outcome that may be recorded.
LEMMA SaveTrue ==
  ASSUME NEW w \in Worker, NEW status, status # "none", TrueOf(Current(w), status)',
         worker'[w].status = status, worker'[w].step = "save"
  PROVE  LoopTrue(w)'
<1>1. worker'[w].status # "none" /\ TrueOf(Current(w), worker[w].status)'
  BY DEF TrueOf
<1> QED BY <1>1 DEF LoopTrue, At

\* Screening: what it makes of a post was neither sent nor queued.
LEMMA ScreenTrace ==
  ASSUME IngestAssumption, IInv, TraceInv, NEW w \in Worker, Screen(w)
  PROVE  TraceInv'
<1>1. /\ worker[w].step = "screen" /\ worker[w] \in Loop
      /\ Message(w) \in Entry
      /\ UNCHANGED <<stream, group, pending, rows, trucks, accepted>>
  BY WhereBusy DEF Screen, At, IInv, TypeOK
<1>2. CASE \E step \in {"truck", "keys"} : Moves(w, [worker[w] EXCEPT !.step = step])
  <2>1. PICK step \in {"truck", "keys"} : Moves(w, [worker[w] EXCEPT !.step = step])
    BY <1>2
  <2>2. [worker[w] EXCEPT !.step = step].step = step
    BY <1>1 DEF Loop
  <2> QED BY <1>1, <2>1, <2>2, OnlyLoopMoves
<1>3. CASE \E verdict \in {"empty", "ignored", "manual_review"} : Moves(w, Save(w, verdict))
  <2>1. PICK verdict \in {"empty", "ignored", "manual_review"} : Moves(w, Save(w, verdict))
    BY <1>3
  <2>2. Save(w, verdict).step = "save" /\ Save(w, verdict).status = verdict
    BY <1>1 DEF Save, Loop
  <2>3. LoopTrue(w)'
    <3>1. worker'[w] = Save(w, verdict)
      BY <2>1, OneLoop
    <3>2. TrueOf(Current(w), verdict)'
      BY DEF TrueOf
    <3> QED BY <2>2, <3>1, <3>2, SaveTrue
  <2> QED BY <1>1, <2>1, <2>3, OnlyLoopMoves
<1>4. \A verdict \in Screened[Message(w).post] :
        verdict \in {"empty", "ignored", "manual_review", "cargo"}
  BY <1>1 DEF IngestAssumption, Entry
<1> QED BY <1>2, <1>3, <1>4 DEF Screen

\* A truck that was saved is the trace; one that was refused needs none.
LEMMA SaveTruckTrace ==
  ASSUME IngestAssumption, IInv, TraceInv, NEW w \in Worker, SaveTruck(w)
  PROVE  TraceInv'
<1> DEFINE l == [worker[w] EXCEPT !.step = "ack"]
<1>1. /\ worker[w].step = "truck" /\ worker[w] \in Loop /\ Moves(w, l)
      /\ UNCHANGED <<stream, group, pending, rows, accepted>>
      /\ trucks' = trucks \cup {Message(w).post} \/ (TableFails /\ trucks' = trucks)
  BY DEF SaveTruck, At, IInv, TypeOK
<1>2. worker'[w] = l /\ l.step = "ack" /\ l.batch = worker[w].batch
  BY <1>1, OneLoop DEF Loop
<1>3. Current(w)' = Current(w) /\ stream'[Current(w)'].post = Message(w).post
  BY <1>1, <1>2 DEF Current, Message
<1>4. TableFails \/ HasTrace(Current(w))'
  BY <1>1, <1>3 DEF HasTrace
<1>5. LoopTrue(w)'
  BY <1>2, <1>4 DEF LoopTrue, At
<1> QED BY <1>1, <1>5, OnlyLoopMoves

\* Setting a key: a duplicate, spam, or on to the push, with nothing reached.
LEMMA SetKeyTrace ==
  ASSUME IngestAssumption, IInv, TraceInv, NEW w \in Worker, SetKey(w)
  PROVE  TraceInv'
<1> DEFINE n == worker[w].set + 1
<1>1. /\ worker[w].step = "keys" /\ worker[w] \in Loop /\ worker[w].reached = 0
      /\ n \in Nat
      /\ UNCHANGED <<stream, group, pending, rows, trucks, accepted>>
  BY SMTT(30) DEF SetKey, At, IInv, TypeOK, LoopsOK, LoopOK, Loop
<1>2. PICK m \in {Save(w, "duplicate"), worker[w], Save(w, "spam_filtered"),
                 [worker[w] EXCEPT !.step = "push"]} :
        (Moves(w, m) /\ m = Save(w, "duplicate")) \/ Moves(w, [m EXCEPT !.set = n])
  BY DEF SetKey
<1>3. m \in Loop /\ m.step \in {"save", "keys", "push"} /\ m.reached = 0
      /\ (m.step = "save" => m.status \in {"duplicate", "spam_filtered"})
  BY <1>1, <1>2 DEF Save, Loop, Outcome
<1>4. PICK l \in Loop : /\ Moves(w, l) /\ l.step = m.step /\ l.reached = m.reached
                       /\ l.status = m.status
  BY <1>1, <1>2, <1>3, CountsSet
<1>5. worker'[w] = l
  BY <1>4, OneLoop
<1>6. LoopTrue(w)'
  <2>1. CASE l.step = "save"
    <3>1. PICK status \in {"duplicate", "spam_filtered"} : status = l.status
      BY <1>3, <1>4, <2>1
    <3>2. TrueOf(Current(w), status)'
      BY DEF TrueOf
    <3> QED BY <1>5, <2>1, <3>1, <3>2, SaveTrue
  <2>2. CASE l.step = "push"
    <3>1. 1..l.reached = {}
      BY <1>3, <1>4
    <3> QED BY <1>5, <2>2, <3>1 DEF LoopTrue, At
  <2>3. CASE l.step = "keys"
    BY <1>5, <2>3, LoopAtRest
  <2> QED BY <1>3, <1>4, <2>1, <2>2, <2>3
<1> QED BY <1>1, <1>4, <1>6, OnlyLoopMoves

\* One more target has taken the post; when all have, it was sent.
LEMMA PushTrace ==
  ASSUME IngestAssumption, IInv, TraceInv, NEW w \in Worker, Push(w)
  PROVE  TraceInv'
<1> DEFINE n == worker[w].reached + 1
           p == Message(w).post
<1>1. /\ worker[w].step = "push" /\ worker[w] \in Loop /\ worker[w].reached < Target
      /\ n \in 1..Target /\ Target \in Nat
      /\ accepted' = accepted \cup {<<n, p>>}
      /\ UNCHANGED <<stream, group, pending, rows, trucks>>
  BY SMTT(30) DEF Push, At, IInv, TypeOK, LoopsOK, LoopOK, Loop, IngestAssumption
<1>2. PICK l : /\ Moves(w, l) /\ l.reached = n /\ l.batch = worker[w].batch
              /\ \/ l.step = "push" /\ n # Target
                 \/ l.step = "save" /\ l.status = "synced" /\ n = Target
  <2> DEFINE took == [worker[w] EXCEPT !.reached = n]
  <2>1. took \in Loop /\ took.reached = n /\ took.step = "push" /\ took.batch = worker[w].batch
    <3>1. n \in 0..Target
      BY <1>1
    <3> QED BY <1>1, <3>1, CountsReached
  <2>2. Moves(w, IF n = Target THEN [took EXCEPT !.step = "save", !.status = "synced"]
                 ELSE took)
    BY DEF Push, AllReached
  <2> HIDE DEF took, n
  <2>3. CASE n = Target
    <3> DEFINE l == [took EXCEPT !.step = "save", !.status = "synced"]
    <3>1. l.reached = n /\ l.batch = worker[w].batch /\ l.step = "save" /\ l.status = "synced"
      BY <2>1 DEF Loop
    <3> QED BY <2>2, <2>3, <3>1
  <2>4. CASE n # Target
    BY <2>1, <2>2, <2>4
  <2> QED BY <2>3, <2>4
<1>3. worker'[w] = l /\ \A v \in Worker : v # w => worker'[v] = worker[v]
  BY <1>2, OneLoop
<1>4. Message(w)' = Message(w) /\ stream'[Current(w)'] = Message(w)
  BY <1>1, <1>2, <1>3 DEF Message, Current
<1>5. \A t \in 1..n : <<t, p>> \in accepted'
  <2>1. \A t \in 1..worker[w].reached : <<t, p>> \in accepted
    BY <1>1 DEF TraceInv, LoopsTrue, LoopTrue, At
  <2>2. \A t \in 1..n : t = n \/ t \in 1..worker[w].reached
    BY <1>1 DEF Loop
  <2> QED BY <1>1, <2>1, <2>2
<1>6. LoopTrue(w)'
  <2>1. CASE l.step = "push"
    BY <1>2, <1>3, <1>4, <1>5, <2>1 DEF LoopTrue, At
  <2>2. CASE l.step = "save"
    <3>1. l.status = "synced" /\ n = Target
      BY <1>2, <2>2
    <3>2. Sent(p)'
      BY <1>4, <1>5, <3>1 DEF Sent
    <3>3. TrueOf(Current(w), "synced")'
      BY <1>4, <3>2 DEF TrueOf
    <3> QED BY <1>3, <2>2, <3>1, <3>3, SaveTrue
  <2> QED BY <1>2, <2>1, <2>2
<1> QED BY <1>1, <1>2, <1>6, OnlyLoopMoves

\* Where a push was refused, and how far its keys are deleted, is not recorded.
LEMMA UndoTrace ==
  ASSUME IngestAssumption, IInv, TraceInv, NEW w \in Worker, PushFails(w) \/ DeleteKey(w)
  PROVE  TraceInv'
<1>1. /\ worker[w] \in Loop
      /\ accepted \subseteq accepted'
      /\ UNCHANGED <<stream, group, pending, rows, trucks>>
  BY DEF PushFails, DeleteKey, IInv, TypeOK
<1>2. CASE PushFails(w)
  <2>1. Moves(w, Undoing(w)) /\ Undoing(w).step = "undo"
    BY <1>1, <1>2 DEF PushFails, Undoing, Loop
  <2> QED BY <1>1, <2>1, OnlyLoopMoves
<1>3. CASE DeleteKey(w)
  <2> DEFINE n == worker[w].deleted + 1
  <2>1. /\ worker[w].step = "undo" /\ n \in Nat
        /\ Moves(w, [IF n = Len(KeysInTurn(w)) THEN Undone(w) ELSE worker[w]
                     EXCEPT !.deleted = n])
    BY <1>1, <1>3 DEF DeleteKey, At, Loop
  <2>2. PICK m \in {worker[w], [worker[w] EXCEPT !.step = "requeue"], Save(w, "sync_failed")} :
          Moves(w, [m EXCEPT !.deleted = n])
    BY <2>1 DEF Undone
  <2>3. m \in Loop /\ m.step \in {"undo", "requeue", "save"}
        /\ (m.step = "save" => m.status = "sync_failed")
    BY <1>1, <2>1, <2>2 DEF Save, Loop, Outcome
  <2>4. PICK l \in Loop : Moves(w, l) /\ l.step = m.step /\ l.status = m.status
    BY <2>1, <2>2, <2>3, CountsDeleted
  <2>5. worker'[w] = l
    BY <2>4, OneLoop
  <2>6. LoopTrue(w)'
    <3>1. TrueOf(Current(w), "sync_failed")'
      BY DEF TrueOf
    <3>2. CASE l.step = "save"
      BY <2>3, <2>4, <2>5, <3>1, <3>2, SaveTrue
    <3>3. CASE l.step # "save"
      BY <2>3, <2>4, <2>5, <3>3, LoopAtRest
    <3> QED BY <3>2, <3>3
  <2> QED BY <1>1, <2>4, <2>6, OnlyLoopMoves
<1> QED BY <1>2, <1>3

\* A post that goes to the end of the stream is queued.
LEMMA RequeueTrace ==
  ASSUME IngestAssumption, IInv, TraceInv, NEW w \in Worker, Requeue(w), IInv'
  PROVE  TraceInv'
<1> DEFINE x == [Message(w) EXCEPT !.retry = @ + 1]
           l == Save(w, "retry_queued")
<1>1. /\ worker[w].step = "requeue" /\ stream' = Append(stream, x)
      /\ rows' = Append(rows, "none") /\ Moves(w, l)
      /\ UNCHANGED <<group, pending, trucks, accepted>>
  BY DEF Requeue, At
<1>2. /\ worker[w] \in Loop /\ stream \in Seq(Entry) /\ stream' \in Seq(Entry)
      /\ Current(w) \in EntryId /\ Message(w) \in Entry
  BY <1>1, WhereBusy DEF IInv, TypeOK
<1>3. stream'[Len(stream) + 1] = x /\ Len(stream) + 1 \in EntryId'
  BY <1>1, <1>2 DEF EntryId
<1>4. x \in Entry
  <2>1. DOMAIN stream' = 1..Len(stream') /\ Len(stream) + 1 \in 1..Len(stream')
    BY <1>2, <1>3 DEF EntryId
  <2> QED BY <1>2, <1>3, <2>1
<1>5. Grows
  <2> HIDE DEF x
  <2> QED BY <1>1, <1>4, AppendGrows
<1>6. l.step = "save" /\ l.status = "retry_queued" /\ l.batch = worker[w].batch
  BY <1>2 DEF Save, Loop
<1>7. worker'[w] = l /\ \A v \in Worker : v # w => worker'[v] = worker[v]
  BY <1>1, OneLoop
<1>8. Current(w)' = Current(w) /\ stream'[Current(w)] = Message(w)
  BY <1>2, <1>5, <1>6, <1>7 DEF Current, Message, Grows
<1>9. TrueOf(Current(w), "retry_queued")'
  BY <1>3, <1>8 DEF TrueOf, Queued
<1>10. LoopTrue(w)'
  BY <1>6, <1>7, <1>9, SaveTrue
<1> QED BY <1>5, <1>7, <1>10, TraceStep

\* The row that is saved is true; without a refusal the entry has one now.
LEMMA SaveRowTrace ==
  ASSUME IngestAssumption, IInv, TraceInv, NEW w \in Worker, SaveRow(w)
  PROVE  TraceInv'
<1> DEFINE l == [worker[w] EXCEPT !.step = "ack"]
<1>1. PICK c \in EntryId : c = Current(w)
  BY WhereBusy DEF SaveRow, At
<1>2. PICK status \in Outcome : status = worker[w].status
  BY DEF SaveRow, TraceInv, LoopsTrue, LoopTrue, IInv, TypeOK, Loop
<1>3. /\ worker[w].step = "save" /\ worker[w] \in Loop /\ Moves(w, l)
      /\ rows \in Seq(Outcome \cup {"none"}) /\ EntryId = DOMAIN rows
      /\ UNCHANGED <<stream, group, pending, trucks, accepted>>
      /\ \/ rows' = [rows EXCEPT ![c] = IF @ = "none" THEN status ELSE @]
         \/ TableFails /\ rows' = rows
  BY <1>1, <1>2 DEF SaveRow, At, IInv, TypeOK, EntryId
<1>4. TrueOf(c, status)
  BY <1>1, <1>2, <1>3 DEF TraceInv, LoopsTrue, LoopTrue, At
<1>5. status # "none"
  BY DEF Outcome
<1>6. /\ \A e \in EntryId : e # c => rows'[e] = rows[e]
      /\ rows'[c] = rows[c] \/ (rows[c] = "none" /\ rows'[c] = status)
      /\ TableFails \/ rows'[c] # "none"
  BY <1>1, <1>3, <1>5
<1>7. Grows
  <2>1. \A e \in EntryId : \/ rows'[e] = rows[e]
                           \/ rows[e] = "none" /\ rows'[e] # "none" /\ TrueOf(e, rows'[e])
    BY <1>4, <1>5, <1>6
  <2>2. EntryId' = EntryId
    BY <1>3 DEF EntryId
  <2> QED BY <1>3, <2>1, <2>2 DEF Grows, Settled, Delivered
<1>8. worker'[w] = l /\ \A v \in Worker : v # w => worker'[v] = worker[v]
  BY <1>3, OneLoop
<1>9. l.step = "ack" /\ Current(w)' = c
  BY <1>1, <1>3, <1>8 DEF Loop, Current
<1>10. LoopTrue(w)'
  BY <1>6, <1>8, <1>9 DEF LoopTrue, At, HasTrace
<1> QED BY <1>7, <1>8, <1>10, TraceStep

\* What is left of a batch begins with screening, or there is nothing left.
LEMMA ForwardAtRest ==
  ASSUME NEW w \in Worker
  PROVE  Forward(w).step \notin {"push", "save", "ack"}
BY DEF Forward, Resting

\* Who acknowledges an entry has seen to its trace.
LEMMA AckTrace ==
  ASSUME IngestAssumption, IInv, TraceInv, NEW w \in Worker, Ack(w)
  PROVE  TraceInv'
<1>1. /\ worker[w].step = "ack" /\ pending' = pending \ {Current(w)} /\ Moves(w, Forward(w))
      /\ UNCHANGED <<stream, group, rows, trucks, accepted>>
  BY DEF Ack, At
<1>2. TableFails \/ HasTrace(Current(w))
  BY <1>1 DEF TraceInv, LoopsTrue, LoopTrue, At
<1>3. Grows
  BY <1>1, <1>2 DEF Grows, EntryId, Settled, Delivered
<1>4. worker'[w] = Forward(w) /\ \A v \in Worker : v # w => worker'[v] = worker[v]
  BY <1>1, OneLoop
<1>5. LoopTrue(w)'
  BY <1>4, ForwardAtRest, LoopAtRest
<1> QED BY <1>3, <1>4, <1>5, TraceStep

\* After an exception or a crash the entry is still pending.
LEMMA FaultTrace ==
  ASSUME IngestAssumption, IInv, TraceInv, NEW w \in Worker, Stumble(w) \/ Crash(w)
  PROVE  TraceInv'
<1>1. UNCHANGED <<stream, group, pending, rows, trucks, accepted>>
  BY DEF Stumble, Crash, Left
<1>2. PICK l \in {Undoing(w), Forward(w), Resting} : Moves(w, l)
  BY DEF Stumble, Crash
<1>3. l.step \notin {"push", "save", "ack"}
  <2>1. worker[w] \in Loop
    BY DEF IInv, TypeOK
  <2>2. Undoing(w).step = "undo" /\ Resting.step = "idle"
    BY <2>1 DEF Undoing, Loop, Resting
  <2> QED BY <2>2, ForwardAtRest
<1> QED BY <1>1, <1>2, <1>3, OnlyLoopMoves

\* Nothing is on record at first.
LEMMA InitTrace == ASSUME Init PROVE TraceInv
<1>1. EntryId = {} /\ \A w \in Worker : worker[w].step = "idle"
  BY DEF Init, EntryId, Resting
<1> QED BY <1>1 DEF TraceInv, LoopsTrue, LoopTrue, At, RowsTrue, SettledTraced

\* Every step keeps what is said of the loops and the rows true.
LEMMA NextTrace ==
  ASSUME IngestAssumption, IInv, IInv', TraceInv, [Next]_vars
  PROVE  TraceInv'
<1>1. ASSUME NEW w \in Worker, Work(w) PROVE TraceInv'
  <2>1. CASE Read(w) \/ Claim(w)
    BY <2>1, TakeTrace
  <2>2. CASE Screen(w) \/ SaveTruck(w) \/ SetKey(w)
    BY <2>2, ScreenTrace, SaveTruckTrace, SetKeyTrace
  <2>3. CASE Push(w) \/ PushFails(w) \/ DeleteKey(w) \/ Requeue(w)
    BY <2>3, PushTrace, UndoTrace, RequeueTrace
  <2>4. CASE SaveRow(w) \/ Ack(w)
    BY <2>4, SaveRowTrace, AckTrace
  <2> QED BY <1>1, <2>1, <2>2, <2>3, <2>4 DEF Work
<1>2. ASSUME NEW w \in Worker, Stumble(w) \/ Crash(w) PROVE TraceInv'
  BY <1>2, FaultTrace
<1> QED BY <1>1, <1>2, OutsideTrace DEF Next

\* The second invariant of every behaviour.
LEMMA TraceInvariance == ASSUME IngestAssumption PROVE Spec => []TraceInv
<1>1. Init => TraceInv
  BY InitTrace
<1>2. IInv /\ IInv' /\ TraceInv /\ [Next]_vars => TraceInv'
  BY NextTrace
<1> QED BY <1>1, <1>2, Invariance, PTL DEF Spec

\* As long as the table takes what it is given, an entry that was acknowledged
\* has left a row with its outcome, or a truck, and one recorded as synced has
\* reached every target: whatever workers, retries, faults and stale claims
\* (_save_ingest_event, run).
THEOREM OutcomesOnRecord == ASSUME ~TableFails PROVE Spec => []OutcomesAreTrue
<1>1. TraceInv => OutcomesAreTrue
  <2> SUFFICES ASSUME TraceInv PROVE AckedLeftTrace /\ SyncedReachedAll
    BY DEF OutcomesAreTrue
  <2>1. AckedLeftTrace
    BY DEF TraceInv, SettledTraced, AckedLeftTrace, Settled, HasTrace
  <2>2. SyncedReachedAll
    BY DEF TraceInv, RowsTrue, TrueOf, SyncedReachedAll, Sent
  <2> QED BY <2>1, <2>2
<1> QED BY <1>1, TraceInvariance, IngestAssumption, PTL

\* Refusing tables and faults or not: an entry recorded as synced has reached
\* every target.
THEOREM SyncedIsTrue == Spec => []SyncedReachedAll
<1>1. TraceInv => SyncedReachedAll
  BY DEF TraceInv, RowsTrue, TrueOf, SyncedReachedAll, Sent
<1> QED BY <1>1, TraceInvariance, IngestAssumption, PTL

\* An entry recorded as queued for a retry is in the stream once more, with one
\* try less to go (_process_message).
THEOREM RetriesAreQueued == Spec => []RetryHasSuccessor
<1>1. TraceInv => RetryHasSuccessor
  BY DEF TraceInv, RowsTrue, TrueOf, RetryHasSuccessor, Queued
<1> QED BY <1>1, TraceInvariance, IngestAssumption, PTL

-----------------------------------------------------------------------------
(* One worker alone.  DuplicateIsLinked speaks of the rows; the              *)
(* strengthening says of every key in Redis that the worker does not hold    *)
(* which entry before left it, and that this entry is linked to one that was *)
(* sent or was spam.                                                         *)

\* Entry e is linked to one not after it that was sent or was spam.
Backed(e) ==
  \E f \in 1..e :
    LET q == stream[f].post
    IN  <<stream[e].post, q>> \in Linked /\ (Sent(q) \/ q \in Spam)

KeysAlong(l) == KeysOf[stream[Head(l.batch)].post]
HeldAlong(l) == {KeysAlong(l)[i] : i \in (l.deleted + 1)..l.set}

\* What the loop l has in hand was delivered, and is in order.
InOrder(l) ==
  /\ l.step = "idle" => l.batch = <<>> /\ l.set = 0
  /\ l.step # "idle" => l.batch # <<>>
  /\ \A i \in 1..Len(l.batch) : l.batch[i] <= group.last
  /\ \A i, j \in 1..Len(l.batch) : i < j => l.batch[i] < l.batch[j]

\* What it has made of its entry.
MadeOf(l) ==
  /\ l.step \in {"screen", "truck"} => l.set = 0
  /\ l.step \in {"screen", "truck", "keys", "push"} => l.deleted = 0
  /\ l.step = "keys" => l.set < Len(KeysAlong(l))
  /\ l.step \in {"push", "undo"} => l.set = Len(KeysAlong(l))
  /\ l.step = "undo" => l.deleted < l.set
  /\ l.step = "requeue" => l.deleted = l.set /\ stream[Head(l.batch)].retry < MaxRetries
  /\ l.step \in {"screen", "truck", "keys"} => l.reached = 0
  /\ l.step = "push" => l.reached < Target
  /\ l.step = "push" => \A t \in 1..l.reached : <<t, stream[Head(l.batch)].post>> \in accepted
  /\ l.step = "save" /\ l.status = "duplicate" => HasLink(Head(l.batch))
  /\ l.step \in {"save", "ack"} /\ l.deleted < l.set =>
       Backed(Head(l.batch)) /\ l.set <= Len(KeysAlong(l))

Standing(l) == l \in Loop /\ InOrder(l) /\ MadeOf(l)

\* Entry f was dealt with before all that the loop l has in hand.
Before(f, l) == f \in 1..group.last /\ \A i \in 1..Len(l.batch) : f < l.batch[i]

KeysAreBacked(l) ==
  \A k \in keys \ HeldAlong(l) :
    \E f \in 1..Len(stream) :
      Before(f, l) /\ k \in Range(KeysOf[stream[f].post]) /\ Backed(f)

\* Everyone but w is gone, and there are no more faults.
Only(w) ==
  /\ worker = [v \in Worker |-> worker[v]] /\ faults = MaxFaults
  /\ \A v \in Worker \ {w} : worker[v].step = "gone"

Tables ==
  /\ stream \in Seq(Entry) /\ rows \in Seq(Outcome \cup {"none"}) /\ Len(rows) = Len(stream)
  /\ group \in [made : BOOLEAN, first : Nat, last : Nat] /\ group.last <= Len(stream)

LinkInv(w) ==
  /\ Only(w) /\ Tables /\ DuplicatesHaveLinks
  /\ \A l \in {worker[w]} :
       Standing(l) /\ pending \subseteq Range(l.batch) /\ KeysAreBacked(l)

-----------------------------------------------------------------------------
(* Links.                                                                   *)

LEMMA LinkIsSelf ==
  ASSUME NEW p \in Post
  PROVE  <<p, p>> \in Linked
BY DEF Linked

LEMMA LinkGoesOn ==
  ASSUME NEW p \in Post, NEW q \in Post, NEW r \in Post, SharesKey(p, q), <<q, r>> \in Linked
  PROVE  <<p, r>> \in Linked
<1>1. ASSUME NEW S \in SUBSET Post, p \in S,
             \A s \in S, o \in Post : SharesKey(s, o) => o \in S
      PROVE  r \in S
  <2>1. q \in S
    BY <1>1
  <2> QED BY <1>1, <2>1 DEF Linked
<1> QED BY <1>1 DEF Linked

-----------------------------------------------------------------------------
(* What a step leaves as it was.                                            *)

\* Entries stay, and what a target took.
Keeps ==
  /\ Len(stream) <= Len(stream') /\ \A e \in 1..Len(stream) : stream'[e] = stream[e]
  /\ accepted \subseteq accepted'

LEMMA BackingStays ==
  ASSUME Tables, Keeps, NEW e \in 1..Len(stream)
  PROVE  (Backed(e) => Backed(e)') /\ (HasLink(e) => HasLink(e)')
<1>1. \A f \in 1..e : stream'[f] = stream[f]
  BY DEF Tables, Keeps
<1>2. \A f \in 1..(e - 1) : stream'[f] = stream[f]
  BY DEF Tables, Keeps
<1>3. \A q : Sent(q) => Sent(q)'
  BY DEF Sent, Keeps
<1>4. stream'[e] = stream[e]
  BY DEF Keeps
<1>5. Backed(e) => Backed(e)'
  BY <1>1, <1>3, <1>4 DEF Backed
<1>6. HasLink(e) => HasLink(e)'
  BY <1>2, <1>3, <1>4 DEF HasLink
<1> QED BY <1>5, <1>6

\* The entry in hand is in the stream.
LEMMA HandIsThere ==
  ASSUME Tables, NEW l, Standing(l), l.batch # <<>>
  PROVE  /\ Head(l.batch) = l.batch[1] /\ Head(l.batch) \in 1..Len(stream)
         /\ Head(l.batch) <= group.last /\ Len(l.batch) \in Nat \ {0}
         /\ Tail(l.batch) \in Seq(Nat \ {0}) /\ Len(Tail(l.batch)) = Len(l.batch) - 1
         /\ \A i \in 1..Len(Tail(l.batch)) : Tail(l.batch)[i] = l.batch[i + 1]
         /\ stream[Head(l.batch)] \in Entry
<1>1. l.batch \in Seq(Nat \ {0}) /\ \A i \in 1..Len(l.batch) : l.batch[i] <= group.last
  BY DEF Standing, InOrder, Loop
<1>2. Head(l.batch) = l.batch[1] /\ Len(l.batch) \in Nat \ {0} /\ l.batch[1] \in Nat \ {0}
  BY <1>1
<1>3. Head(l.batch) <= group.last
  BY <1>1, <1>2
<1>4. Head(l.batch) \in 1..Len(stream)
  BY <1>2, <1>3 DEF Tables
<1>5. stream[Head(l.batch)] \in Entry
  BY <1>4 DEF Tables
<1>6. Tail(l.batch) \in Seq(Nat \ {0}) /\ Len(Tail(l.batch)) = Len(l.batch) - 1
      /\ \A i \in 1..Len(Tail(l.batch)) : Tail(l.batch)[i] = l.batch[i + 1]
  BY <1>1, <1>2
<1> QED BY <1>2, <1>3, <1>4, <1>5, <1>6

LEMMA StandingStays ==
  ASSUME Tables, Tables', Keeps, group.last <= group.last', NEW l, Standing(l)
  PROVE  Standing(l)' /\ HeldAlong(l)' = HeldAlong(l)
<1>1. CASE l.batch = <<>>
  <2>1. l.set = 0 /\ l.step = "idle" /\ l.deleted \in Nat
    BY <1>1 DEF Standing, InOrder, Loop
  <2>2. HeldAlong(l)' = {} /\ HeldAlong(l) = {}
    BY <2>1 DEF HeldAlong
  <2>3. Len(l.batch) = 0
    BY <1>1
  <2> QED BY <1>1, <2>1, <2>2, <2>3 DEF Standing, InOrder, MadeOf
<1>2. CASE l.batch # <<>>
  <2>1. Head(l.batch) \in 1..Len(stream)
    BY <1>2, HandIsThere
  <2>2. stream'[Head(l.batch)] = stream[Head(l.batch)]
    BY <2>1 DEF Keeps
  <2>3. KeysAlong(l)' = KeysAlong(l)
    BY <2>2 DEF KeysAlong
  <2>4. \A i \in 1..Len(l.batch) : l.batch[i] <= group'.last
    <3>1. \A i \in 1..Len(l.batch) : l.batch[i] \in Nat /\ l.batch[i] <= group.last
      BY DEF Standing, InOrder, Loop
    <3>2. group.last \in Nat /\ group'.last \in Nat
      BY DEF Tables
    <3> QED BY <3>1, <3>2
  <2>5. (HasLink(Head(l.batch)) => HasLink(Head(l.batch))')
        /\ (Backed(Head(l.batch)) => Backed(Head(l.batch))')
    BY <2>1, BackingStays
  <2>6. HeldAlong(l)' = HeldAlong(l)
    BY <2>3 DEF HeldAlong
  <2> QED BY <2>2, <2>3, <2>4, <2>5, <2>6 DEF Standing, InOrder, MadeOf, Keeps
<1> QED BY <1>1, <1>2

\* A key once backed stays so, if it still was before all in hand.
LEMMA KeysStayBacked ==
  ASSUME Tables, Keeps, NEW l, NEW m, KeysAreBacked(l),
         \A k \in keys' \ HeldAlong(m)' : k \in keys \ HeldAlong(l),
         \A f \in 1..Len(stream) : Before(f, l) => Before(f, m)'
  PROVE  KeysAreBacked(m)'
<1>1. ASSUME NEW k \in keys' \ HeldAlong(m)'
      PROVE  \E f \in 1..Len(stream') :
               Before(f, m)' /\ k \in Range(KeysOf[stream'[f].post]) /\ Backed(f)'
  <2>1. PICK f \in 1..Len(stream) :
               Before(f, l) /\ k \in Range(KeysOf[stream[f].post]) /\ Backed(f)
    BY <1>1 DEF KeysAreBacked
  <2>2. f \in 1..Len(stream') /\ stream'[f] = stream[f]
    BY DEF Keeps, Tables
  <2>3. Backed(f)'
    BY <2>1, BackingStays
  <2> QED BY <2>1, <2>2, <2>3
<1> QED BY <1>1 DEF KeysAreBacked

\* Rows that stay, and entries without a row.
LEMMA LinksStay ==
  ASSUME Tables, Keeps, DuplicatesHaveLinks, rows' = rows \/ rows' = Append(rows, "none"),
         Len(stream') = Len(rows'), Tables'
  PROVE  DuplicatesHaveLinks'
<1>1. ASSUME NEW e \in DOMAIN stream', rows'[e] = "duplicate" PROVE HasLink(e)'
  <2>1. Len(rows) = Len(stream) /\ rows \in Seq(Outcome \cup {"none"}) /\ DOMAIN stream' = 1..Len(stream')
        /\ DOMAIN stream = 1..Len(stream)
    BY DEF Tables
  <2>0. ASSUME e \in 1..Len(stream), rows[e] = "duplicate" PROVE HasLink(e)'
    <3>1. HasLink(e)
      BY <2>0, <2>1 DEF DuplicatesHaveLinks, EntryId
    <3> QED BY <2>0, <3>1, BackingStays, SMTT(30)
  <2>2. CASE rows' = rows
    BY <1>1, <2>0, <2>1, <2>2
  <2>3. CASE rows' = Append(rows, "none")
    <3>1. /\ Len(rows') = Len(rows) + 1 /\ rows'[Len(rows) + 1] = "none"
          /\ \A i \in 1..Len(rows) : rows'[i] = rows[i]
      BY <2>1, <2>3
    <3>2. e # Len(rows) + 1 /\ e \in 1..(Len(rows) + 1)
      BY <1>1, <2>1, <3>1
    <3>3. e \in 1..Len(stream) /\ rows[e] = "duplicate"
      BY <1>1, <2>1, <3>1, <3>2
    <3> QED BY <2>0, <3>3
  <2> QED BY <2>2, <2>3
<1> QED BY <1>1 DEF DuplicatesHaveLinks, EntryId

\* A step outside the loops.
LEMMA OutsideLinks ==
  ASSUME NEW w \in Worker, LinkInv(w), worker' = worker, faults' = faults, pending' = pending,
         Tables', Keeps, rows' = rows \/ rows' = Append(rows, "none"),
         group.last <= group.last', keys' \subseteq keys
  PROVE  LinkInv(w)'
<1>1. PICK l : l = worker[w]
  OBVIOUS
<1>2. Tables /\ Standing(l) /\ KeysAreBacked(l) /\ DuplicatesHaveLinks
      /\ pending \subseteq Range(l.batch)
  BY <1>1 DEF LinkInv
<1>3. Standing(l)' /\ HeldAlong(l)' = HeldAlong(l)
  BY <1>2, StandingStays
<1>4. \A f \in 1..Len(stream) : Before(f, l) => Before(f, l)'
  BY <1>2 DEF Before, Tables
<1>5. KeysAreBacked(l)'
  BY <1>2, <1>3, <1>4, KeysStayBacked
<1>6. DuplicatesHaveLinks'
  BY <1>2, LinksStay DEF Tables
<1>7. Only(w)'
  BY DEF LinkInv, Only
<1> QED BY <1>1, <1>2, <1>3, <1>5, <1>6, <1>7 DEF LinkInv

\* A step of the loop at an entry it keeps in hand.
LEMMA InHand ==
  ASSUME NEW w \in Worker, LinkInv(w), NEW l, Moves(w, l), faults' = faults, Tables', Keeps,
         group' = group, pending' = pending, l.batch = worker[w].batch, Standing(l)',
         DuplicatesHaveLinks',
         \A k \in keys' \ HeldAlong(l)' : k \in keys \ HeldAlong(worker[w])
  PROVE  LinkInv(w)'
<1>1. /\ worker' = [v \in Worker |-> worker'[v]] /\ worker'[w] = l
      /\ \A v \in Worker \ {w} : worker'[v] = worker[v]
  BY DEF LinkInv, Only, Moves
<1>2. Only(w)'
  BY <1>1 DEF LinkInv, Only
<1>3. PICK m : m = worker[w]
  OBVIOUS
<1>4. Tables /\ KeysAreBacked(m) /\ pending \subseteq Range(m.batch)
  BY <1>3 DEF LinkInv
<1>5. \A f \in 1..Len(stream) : Before(f, m) => Before(f, l)'
  BY <1>3 DEF Before
<1>6. KeysAreBacked(l)'
  BY <1>3, <1>4, <1>5, KeysStayBacked
<1>7. pending' \subseteq Range(l.batch)
  BY <1>3, <1>4
<1> QED BY <1>1, <1>2, <1>6, <1>7 DEF LinkInv

-----------------------------------------------------------------------------
(* The worker's steps.                                                      *)

\* A step that writes neither stream nor rows.
LEMMA QuietHand ==
  ASSUME NEW w \in Worker, LinkInv(w), UNCHANGED <<stream, rows, group, faults, pending>>,
         accepted \subseteq accepted', NEW l \in Loop, Moves(w, l),
         l.batch = worker[w].batch, worker[w].step # "idle", l.step # "idle", MadeOf(l)',
         \A k \in keys' \ HeldAlong(l)' : k \in keys \ HeldAlong(worker[w])
  PROVE  LinkInv(w)'
<1>1. Tables' /\ Keeps
  <2>1. Tables' = Tables
    BY DEF Tables
  <2> QED BY <2>1 DEF LinkInv, Tables, Keeps
<1>2. DuplicatesHaveLinks'
  BY <1>1, LinksStay DEF LinkInv, Tables
<1>3. InOrder(l)'
  BY DEF LinkInv, Standing, InOrder
<1> QED BY <1>1, <1>2, <1>3, InHand DEF Standing

\* The loop of w at work.
LEMMA AtWork ==
  ASSUME IngestAssumption, NEW w \in Worker, LinkInv(w), worker[w].step # "idle"
  PROVE  /\ worker[w] \in Loop /\ MadeOf(worker[w]) /\ Tables
         /\ Head(worker[w].batch) = Current(w) /\ Current(w) \in 1..Len(stream)
         /\ KeysAlong(worker[w]) = KeysInTurn(w)
         /\ KeysInTurn(w) \in Seq(Key) /\ Len(KeysInTurn(w)) \in Nat \ {0}
         /\ \A i, j \in 1..Len(KeysInTurn(w)) : KeysInTurn(w)[i] = KeysInTurn(w)[j] => i = j
         /\ Message(w) \in Entry /\ Message(w).post \in Post
<1>1. Tables /\ Standing(worker[w])
  BY DEF LinkInv
<1>2. worker[w] \in Loop /\ MadeOf(worker[w]) /\ worker[w].batch # <<>>
  BY <1>1 DEF Standing, InOrder
<1>3. Head(worker[w].batch) = Current(w) /\ Current(w) \in 1..Len(stream)
      /\ Message(w) \in Entry
  BY <1>1, <1>2, HandIsThere DEF Current, Message
<1>4. KeysAlong(worker[w]) = KeysInTurn(w) /\ Message(w).post \in Post
  BY <1>3 DEF KeysAlong, KeysInTurn, Message, Current, Entry
<1>5. KeysInTurn(w) \in Seq(Key) \ {<<>>} /\ IsInjective(KeysInTurn(w))
  BY <1>4 DEF KeysInTurn, IngestAssumption
<1>6. Len(KeysInTurn(w)) \in Nat \ {0} /\ DOMAIN KeysInTurn(w) = 1..Len(KeysInTurn(w))
  BY <1>5
<1> QED BY <1>1, <1>2, <1>3, <1>4, <1>5, <1>6 DEF IsInjective

LEMMA ScreenLinks ==
  ASSUME IngestAssumption, NEW w \in Worker, LinkInv(w), Screen(w)
  PROVE  LinkInv(w)'
<1>1. worker[w].step = "screen" /\ worker[w].set = 0 /\ worker[w].deleted = 0
      /\ worker[w].reached = 0 /\ worker[w] \in Loop
  BY AtWork DEF Screen, At, MadeOf
<1>2. PICK l : /\ Moves(w, l) /\ l \in Loop /\ l.batch = worker[w].batch /\ l.set = 0
               /\ l.deleted = 0 /\ l.reached = 0 /\ l.step \in {"truck", "keys", "save"}
               /\ l.step = "save" => l.status # "duplicate"
  <2>1. CASE Message(w).post \in TruckPost
    <3> DEFINE m == [worker[w] EXCEPT !.step = "truck"]
    <3>1. Moves(w, m)
      BY <2>1 DEF Screen
    <3>2. /\ m \in Loop /\ m.batch = worker[w].batch /\ m.set = 0 /\ m.deleted = 0
          /\ m.reached = 0 /\ m.step = "truck"
      BY <1>1 DEF Loop
    <3> HIDE DEF m
    <3> QED BY <3>1, <3>2
  <2>2. CASE Message(w).post \notin TruckPost
    <3>1. PICK v \in Screened[Message(w).post] :
            Moves(w, IF v = "cargo" THEN [worker[w] EXCEPT !.step = "keys"] ELSE Save(w, v))
      BY <2>2 DEF Screen
    <3>2. v \in {"empty", "ignored", "manual_review", "cargo"}
      BY <1>1, <3>1, AtWork DEF IngestAssumption
    <3> DEFINE m == IF v = "cargo" THEN [worker[w] EXCEPT !.step = "keys"] ELSE Save(w, v)
    <3>3. /\ m \in Loop /\ m.batch = worker[w].batch /\ m.set = 0 /\ m.deleted = 0
          /\ m.reached = 0 /\ m.step \in {"keys", "save"}
          /\ m.step = "save" => m.status # "duplicate"
      <4>1. CASE v = "cargo"
        BY <1>1, <4>1 DEF Loop
      <4>2. CASE v # "cargo"
        BY <1>1, <3>2, <4>2, Zenon DEF Loop, Save, Outcome
      <4> QED BY <4>1, <4>2
    <3> HIDE DEF m
    <3> QED BY <3>1, <3>3 DEF m
  <2> QED BY <2>1, <2>2
<1>3. KeysAlong(l)' = KeysInTurn(w) /\ Len(KeysInTurn(w)) \in Nat \ {0}
  BY <1>1, <1>2, AtWork DEF Screen, KeysAlong, KeysInTurn, Message, Current
<1>4. MadeOf(l)'
  BY <1>2, <1>3 DEF MadeOf
<1>5. HeldAlong(l)' = {} /\ HeldAlong(worker[w]) = {}
  BY <1>1, <1>2 DEF HeldAlong
<1> QED BY <1>1, <1>2, <1>4, <1>5, QuietHand DEF Screen

LEMMA SaveTruckLinks ==
  ASSUME IngestAssumption, NEW w \in Worker, LinkInv(w), SaveTruck(w)
  PROVE  LinkInv(w)'
<1>1. worker[w].step = "truck" /\ worker[w].set = 0 /\ worker[w].deleted = 0
      /\ worker[w] \in Loop
  BY AtWork DEF SaveTruck, At, MadeOf
<1>2. PICK l : /\ Moves(w, l) /\ l \in Loop /\ l.batch = worker[w].batch /\ l.set = 0
               /\ l.deleted = 0 /\ l.step = "ack"
  <2> DEFINE m == [worker[w] EXCEPT !.step = "ack"]
  <2>1. Moves(w, m)
    BY DEF SaveTruck
  <2>2. m \in Loop /\ m.batch = worker[w].batch /\ m.set = 0 /\ m.deleted = 0 /\ m.step = "ack"
    BY <1>1 DEF Loop
  <2> HIDE DEF m
  <2> QED BY <2>1, <2>2
<1>3. MadeOf(l)'
  BY <1>2 DEF MadeOf
<1>4. HeldAlong(l)' = {} /\ HeldAlong(worker[w]) = {}
  BY <1>1, <1>2 DEF HeldAlong
<1> QED BY <1>1, <1>2, <1>3, <1>4, QuietHand DEF SaveTruck

LEMMA SetKeyLinks ==
  ASSUME IngestAssumption, NEW w \in Worker, LinkInv(w), SetKey(w)
  PROVE  LinkInv(w)'
<1> DEFINE old == worker[w]
           n == old.set + 1
           ks == KeysInTurn(w)
<1>0. PICK e : e = Current(w)
  OBVIOUS
<1>1. /\ old.step = "keys" /\ old.deleted = 0 /\ old \in Loop /\ old.set \in Nat
      /\ old.set < Len(ks) /\ old.reached = 0
  BY AtWork DEF SetKey, At, MadeOf, Loop
<1>2. /\ Len(ks) \in Nat \ {0} /\ ks \in Seq(Key) /\ n \in 1..Len(ks)
      /\ \A i, j \in 1..Len(ks) : ks[i] = ks[j] => i = j
      /\ KeysAlong(old) = ks /\ e \in 1..Len(stream) /\ Head(old.batch) = e
      /\ Message(w).post \in Post
  BY <1>0, <1>1, AtWork
<1>3. HeldAlong(old) = {ks[i] : i \in 1..old.set}
  BY <1>1, <1>2 DEF HeldAlong
<1>4. \A l : l.batch = old.batch => KeysAlong(l)' = ks
  BY <1>2 DEF SetKey, KeysAlong, KeysInTurn, Message
<1>5. CASE ks[n] \in keys
  <2>1. Moves(w, Save(w, "duplicate")) /\ UNCHANGED keys
    BY <1>5 DEF SetKey, Taken
  <2>2. PICK l : /\ Moves(w, l) /\ l \in Loop /\ l.batch = old.batch /\ l.set = old.set
                 /\ l.deleted = 0 /\ l.step = "save" /\ l.status = "duplicate"
    <3> DEFINE m == Save(w, "duplicate")
    <3>1. /\ m \in Loop /\ m.batch = old.batch /\ m.set = old.set /\ m.deleted = 0
          /\ m.step = "save" /\ m.status = "duplicate"
      BY <1>1 DEF Loop, Save, Outcome
    <3> HIDE DEF m
    <3> QED BY <2>1, <3>1 DEF m
  <2>3. ks[n] \notin HeldAlong(old)
    BY <1>1, <1>2, <1>3
  <2>4. PICK f \in 1..Len(stream) :
          Before(f, old) /\ ks[n] \in Range(KeysOf[stream[f].post]) /\ Backed(f)
    BY <1>5, <2>3 DEF LinkInv, KeysAreBacked
  <2>5. f \in 1..(e - 1)
    <3>1. old.batch \in Seq(Nat \ {0}) /\ old.batch # <<>>
      BY <1>1 DEF LinkInv, Standing, InOrder, Loop
    <3>2. Len(old.batch) >= 1 /\ old.batch[1] = e
      BY <1>2, <3>1
    <3>3. f < e
      BY <2>4, <3>1, <3>2 DEF Before
    <3> QED BY <1>2, <2>4, <3>3
  <2>6. SharesKey(stream[e].post, stream[f].post)
    <3>1. ks = KeysOf[stream[e].post] /\ DOMAIN ks = 1..Len(ks)
      BY <1>0, <1>2 DEF KeysInTurn, Message
    <3>2. ks[n] \in Range(KeysOf[stream[e].post])
      BY <1>2, <3>1 DEF Range
    <3> QED BY <2>4, <3>2 DEF SharesKey
  <2>7. PICK g \in 1..f : /\ <<stream[f].post, stream[g].post>> \in Linked
                          /\ Sent(stream[g].post) \/ stream[g].post \in Spam
    BY <2>4 DEF Backed
  <2>8. \A i \in 1..Len(stream) : stream[i].post \in Post
    <3>1. \A i \in 1..Len(stream) : stream[i] \in Entry
      BY DEF LinkInv, Tables
    <3> QED BY <3>1 DEF Entry
  <2>9. <<stream[e].post, stream[g].post>> \in Linked /\ g \in 1..(e - 1) /\ g \in 1..e
    <3>1. g \in 1..Len(stream)
      BY <2>4, <2>7
    <3>2. <<stream[e].post, stream[g].post>> \in Linked
      BY <1>2, <2>6, <2>7, <2>8, <3>1, LinkGoesOn
    <3> QED BY <1>2, <2>5, <2>7, <3>2
  <2>10. HasLink(e) /\ Backed(e)
    BY <2>7, <2>9 DEF HasLink, Backed
  <2>11. Tables /\ Keeps
    BY DEF LinkInv, Keeps, SetKey, Tables
  <2>12. HasLink(e)' /\ Backed(e)'
    BY <1>2, <2>10, <2>11, BackingStays
  <2>13. MadeOf(l)'
    BY <1>1, <1>2, <1>4, <2>2, <2>12 DEF MadeOf
  <2>14. HeldAlong(l)' = HeldAlong(old)
    <3>1. KeysAlong(l)' = ks /\ l.set = old.set /\ l.deleted = 0
      BY <1>4, <2>2
    <3>2. HeldAlong(l)' = {ks[i] : i \in 1..old.set}
      BY <3>1 DEF HeldAlong
    <3> QED BY <1>3, <3>2
  <2> QED BY <1>1, <2>1, <2>2, <2>13, <2>14, QuietHand DEF SetKey
<1>6. CASE ks[n] \notin keys
  <2> DEFINE next == IF n < Len(ks) THEN old
                     ELSE IF Message(w).post \in Spam THEN Save(w, "spam_filtered")
                     ELSE [old EXCEPT !.step = "push"]
  <2>1. keys' = keys \cup {ks[n]} /\ Moves(w, [next EXCEPT !.set = n])
    BY <1>6 DEF SetKey, Taken
  <2>2. PICK l : /\ Moves(w, l) /\ l \in Loop /\ l.batch = old.batch /\ l.set = n
                 /\ l.deleted = 0 /\ l.reached = 0
                 /\ \/ n < Len(ks) /\ l.step = "keys"
                    \/ n = Len(ks) /\ l.step = "push"
                    \/ Message(w).post \in Spam /\ l.step = "save" /\ l.status = "spam_filtered"
    <3> DEFINE m == [next EXCEPT !.set = n]
    <3>1. /\ next \in Loop /\ next.batch = old.batch /\ next.deleted = 0 /\ next.reached = 0
          /\ \/ n < Len(ks) /\ next.step = "keys"
             \/ n = Len(ks) /\ next.step = "push"
             \/ Message(w).post \in Spam /\ next.step = "save" /\ next.status = "spam_filtered"
      <4>1. CASE n < Len(ks)
        BY <1>1, <4>1
      <4>2. CASE ~(n < Len(ks)) /\ Message(w).post \in Spam
        BY <1>1, <4>2 DEF Loop, Save, Outcome
      <4>3. CASE ~(n < Len(ks)) /\ Message(w).post \notin Spam
        <5>1. n = Len(ks)
          BY <1>1, <1>2, <4>3
        <5> QED BY <1>1, <4>3, <5>1 DEF Loop
      <4> QED BY <4>1, <4>2, <4>3
    <3> HIDE DEF next
    <3>2. /\ m \in Loop /\ m.batch = old.batch /\ m.set = n /\ m.deleted = 0 /\ m.reached = 0
          /\ m.step = next.step /\ m.status = next.status
      <4>1. n \in Nat
        BY <1>1
      <4> HIDE DEF n
      <4>2. next \in Loop /\ next.deleted = 0 /\ next.reached = 0 /\ next.batch = old.batch
        BY <3>1
      <4> HIDE DEF old
      <4> QED BY <4>1, <4>2 DEF Loop
    <3> HIDE DEF m
    <3> QED BY <2>1, <3>1, <3>2 DEF m
  <2>3. KeysAlong(l)' = ks
    BY <1>4, <2>2
  <2>4. HeldAlong(l)' = {ks[i] : i \in 1..n}
    BY <2>2, <2>3 DEF HeldAlong
  <2>5. \A k \in keys' \ HeldAlong(l)' : k \in keys \ HeldAlong(old)
    <3>1. n \in 1..n /\ \A i \in 1..old.set : i \in 1..n
      BY <1>1
    <3> QED BY <1>3, <2>1, <2>4, <3>1
  <2>6. ASSUME Message(w).post \in Spam, l.step = "save", l.status = "spam_filtered"
        PROVE  MadeOf(l)'
    <3>1. Backed(e)
      BY <1>0, <1>2, <2>6, LinkIsSelf DEF Backed, Message
    <3>2. Tables /\ Keeps
      BY DEF LinkInv, Keeps, SetKey, Tables
    <3>3. Backed(e)'
      BY <1>2, <3>1, <3>2, BackingStays
    <3> QED BY <1>2, <2>2, <2>3, <2>6, <3>3 DEF MadeOf
  <2>7. ASSUME n < Len(ks), l.step = "keys" PROVE MadeOf(l)'
    BY <2>2, <2>3, <2>7 DEF MadeOf
  <2>8. ASSUME n = Len(ks), l.step = "push" PROVE MadeOf(l)'
    <3>1. 1..l.reached = {}
      BY <2>2
    <3>2. l.reached < Target
      BY <2>2 DEF IngestAssumption
    <3> QED BY <2>2, <2>3, <2>8, <3>1, <3>2 DEF MadeOf
  <2>9. MadeOf(l)'
    BY <2>2, <2>6, <2>7, <2>8
  <2> QED BY <1>1, <2>2, <2>5, <2>9, QuietHand DEF SetKey
<1> QED BY <1>5, <1>6

\* A step that keeps the keys in hand, the entry and the keys of Redis.
LEMMA SameKeys ==
  ASSUME IngestAssumption, NEW w \in Worker, LinkInv(w), worker[w].step # "idle",
         stream' = stream, NEW l, l.batch = worker[w].batch, l.set = worker[w].set,
         l.deleted = worker[w].deleted
  PROVE  KeysAlong(l)' = KeysInTurn(w) /\ HeldAlong(l)' = HeldAlong(worker[w])
<1>1. KeysAlong(l)' = KeysInTurn(w) /\ KeysAlong(worker[w]) = KeysInTurn(w)
  BY AtWork DEF KeysAlong
<1> QED BY <1>1 DEF HeldAlong

LEMMA PushLinks ==
  ASSUME IngestAssumption, NEW w \in Worker, LinkInv(w), Push(w)
  PROVE  LinkInv(w)'
<1> DEFINE old == worker[w]
           n == old.reached + 1
<1>0. PICK e : e = Current(w)
  OBVIOUS
<1>1. /\ old.step = "push" /\ old.deleted = 0 /\ old \in Loop /\ old.set = Len(KeysInTurn(w))
      /\ old.reached \in 0..Target /\ e \in 1..Len(stream) /\ Head(old.batch) = e
      /\ Message(w) = stream[e] /\ stream[e].post \in Post /\ n \in 1..Target
      /\ \A t \in 1..old.reached : <<t, stream[e].post>> \in accepted
  <2>1. old.step = "push" /\ MadeOf(old) /\ old \in Loop /\ e \in 1..Len(stream)
        /\ Head(old.batch) = e /\ Message(w) = stream[e] /\ Message(w).post \in Post
        /\ KeysAlong(old) = KeysInTurn(w)
    BY <1>0, AtWork DEF Push, At, Message
  <2>2. old.reached \in 0..Target /\ Target \in Nat
    BY <2>1 DEF Loop, IngestAssumption
  <2> QED BY <2>1, <2>2 DEF MadeOf
<1>2. PICK l : /\ Moves(w, l) /\ l \in Loop /\ l.batch = old.batch /\ l.set = old.set
               /\ l.deleted = 0
               /\ \/ l.step = "push" /\ l.reached = n /\ n # Target
                  \/ l.step = "save" /\ l.status = "synced" /\ n = Target
  <2> DEFINE took == [old EXCEPT !.reached = n]
             m == IF AllReached(n) THEN [took EXCEPT !.step = "save", !.status = "synced"]
                  ELSE took
  <2>1. Moves(w, m)
    BY DEF Push
  <2>2. n \in 0..Target
    BY <1>1 DEF IngestAssumption
  <2>3. took \in Loop /\ took.batch = old.batch /\ took.set = old.set /\ took.deleted = 0
        /\ took.step = "push" /\ took.reached = n
    BY <1>1, <2>2 DEF Loop
  <2> HIDE DEF took, n
  <2>4. /\ m \in Loop /\ m.batch = old.batch /\ m.set = old.set /\ m.deleted = 0
        /\ \/ m.step = "push" /\ m.reached = n /\ n # Target
           \/ m.step = "save" /\ m.status = "synced" /\ n = Target
    BY <2>3 DEF Loop, AllReached, Outcome
  <2> QED BY <2>1, <2>4
<1>3. KeysAlong(l)' = KeysInTurn(w) /\ HeldAlong(l)' = HeldAlong(old)
  BY <1>1, <1>2, SameKeys DEF Push
<1>4. \A t \in 1..n : <<t, stream[e].post>> \in accepted'
  <2>1. accepted' = accepted \cup {<<n, stream[e].post>>}
    BY <1>1 DEF Push
  <2>2. \A t \in 1..n : t = n \/ t \in 1..old.reached
    BY <1>1
  <2> QED BY <1>1, <2>1, <2>2
<1>5. ASSUME l.step = "push", l.reached = n, n # Target PROVE MadeOf(l)'
  <2>1. n < Target
    BY <1>1, <1>5 DEF IngestAssumption
  <2> QED BY <1>1, <1>2, <1>3, <1>4, <1>5, <2>1 DEF MadeOf, Push
<1>6. ASSUME l.step = "save", l.status = "synced", n = Target PROVE MadeOf(l)'
  <2>1. \A t \in 1..Target : <<t, stream[e].post>> \in accepted'
    BY <1>4, <1>6
  <2>2. <<stream[e].post, stream[e].post>> \in Linked
    BY <1>1, LinkIsSelf
  <2>3. stream' = stream /\ e \in 1..e
    BY <1>1 DEF Push, LinkInv, Tables
  <2>4. Backed(e)'
    BY <2>1, <2>2, <2>3 DEF Backed, Sent
  <2> QED BY <1>1, <1>2, <1>3, <1>6, <2>4 DEF MadeOf, Loop
<1> QED BY <1>1, <1>2, <1>3, <1>5, <1>6, QuietHand DEF Push

LEMMA PushFailsLinks ==
  ASSUME IngestAssumption, NEW w \in Worker, LinkInv(w), PushFails(w)
  PROVE  LinkInv(w)'
<1> DEFINE old == worker[w]
<1>1. /\ old.step = "push" /\ old.deleted = 0 /\ old \in Loop /\ old.set = Len(KeysInTurn(w))
      /\ Len(KeysInTurn(w)) \in Nat \ {0}
  BY AtWork DEF PushFails, At, MadeOf
<1>2. PICK l : /\ Moves(w, l) /\ l \in Loop /\ l.batch = old.batch /\ l.set = old.set
               /\ l.deleted = 0 /\ l.step = "undo"
  <2> DEFINE m == Undoing(w)
  <2>1. Moves(w, m)
    BY DEF PushFails
  <2>2. m \in Loop /\ m.batch = old.batch /\ m.set = old.set /\ m.deleted = 0 /\ m.step = "undo"
    BY <1>1 DEF Loop, Undoing
  <2> HIDE DEF m
  <2> QED BY <2>1, <2>2
<1>3. KeysAlong(l)' = KeysInTurn(w) /\ HeldAlong(l)' = HeldAlong(old)
  BY <1>1, <1>2, SameKeys DEF PushFails
<1>4. MadeOf(l)'
  BY <1>1, <1>2, <1>3 DEF MadeOf
<1>5. accepted \subseteq accepted'
  BY DEF PushFails
<1> QED BY <1>1, <1>2, <1>3, <1>4, <1>5, QuietHand DEF PushFails

LEMMA DeleteKeyLinks ==
  ASSUME IngestAssumption, NEW w \in Worker, LinkInv(w), DeleteKey(w)
  PROVE  LinkInv(w)'
<1> DEFINE old == worker[w]
           n == old.deleted + 1
           ks == KeysInTurn(w)
<1>1. /\ old.step = "undo" /\ old \in Loop /\ old.set = Len(ks) /\ old.deleted \in Nat
      /\ old.deleted < old.set /\ Len(ks) \in Nat \ {0} /\ KeysAlong(old) = ks
  BY AtWork DEF DeleteKey, At, MadeOf, Loop
<1>2. PICK l : /\ Moves(w, l) /\ l \in Loop /\ l.batch = old.batch /\ l.set = old.set
               /\ l.deleted = n
               /\ \/ l.step = "undo" /\ n # Len(ks)
                  \/ l.step = "requeue" /\ n = Len(ks) /\ Message(w).retry < MaxRetries
                  \/ l.step = "save" /\ n = Len(ks) /\ l.status = "sync_failed"
  <2> DEFINE next == IF n = Len(ks) THEN Undone(w) ELSE old
             m == [next EXCEPT !.deleted = n]
  <2>1. Moves(w, m)
    BY DEF DeleteKey
  <2>2. /\ next \in Loop /\ next.batch = old.batch /\ next.set = old.set
        /\ \/ next.step = "undo" /\ n # Len(ks)
           \/ next.step = "requeue" /\ n = Len(ks) /\ Message(w).retry < MaxRetries
           \/ next.step = "save" /\ n = Len(ks) /\ next.status = "sync_failed"
    <3>1. CASE n # Len(ks)
      BY <1>1, <3>1
    <3>2. CASE n = Len(ks) /\ Message(w).retry < MaxRetries
      BY <1>1, <3>2 DEF Loop, Undone
    <3>3. CASE n = Len(ks) /\ ~(Message(w).retry < MaxRetries)
      BY <1>1, <3>3 DEF Loop, Undone, Save, Outcome
    <3> QED BY <3>1, <3>2, <3>3
  <2>3. n \in Nat
    BY <1>1
  <2> HIDE DEF next, n
  <2>4. /\ m \in Loop /\ m.batch = next.batch /\ m.set = next.set /\ m.deleted = n
        /\ m.step = next.step /\ m.status = next.status
    BY <2>2, <2>3 DEF Loop
  <2> HIDE DEF m
  <2> QED BY <2>1, <2>2, <2>4
<1>3. KeysAlong(l)' = ks
  BY <1>1, <1>2 DEF DeleteKey, KeysAlong
<1>4. HeldAlong(l)' = {ks[i] : i \in (n + 1)..old.set}
  BY <1>2, <1>3 DEF HeldAlong
<1>5. HeldAlong(old) = {ks[i] : i \in n..old.set}
  BY <1>1 DEF HeldAlong
<1>6. \A k \in keys' \ HeldAlong(l)' : k \in keys \ HeldAlong(old)
  <2>1. \A i \in n..old.set : i = n \/ i \in (n + 1)..old.set
    BY <1>1
  <2>2. keys' = keys \ {ks[n]}
    BY DEF DeleteKey
  <2> QED BY <1>4, <1>5, <2>1, <2>2
<1>7. stream'[Head(l.batch)] = Message(w)
  BY <1>2 DEF DeleteKey, Message, Current
<1>8. MadeOf(l)'
  BY <1>1, <1>2, <1>3, <1>7 DEF MadeOf
<1> QED BY <1>1, <1>2, <1>6, <1>8, QuietHand DEF DeleteKey

\* An entry with more tries to go is appended, without a row.
LEMMA AppendKeeps ==
  ASSUME Tables, NEW x \in Entry, stream' = Append(stream, x), rows' = Append(rows, "none"),
         UNCHANGED <<group, accepted>>
  PROVE  Tables' /\ Keeps
<1>1. /\ stream \in Seq(Entry) /\ rows \in Seq(Outcome \cup {"none"}) /\ Len(rows) = Len(stream)
      /\ group.last \in Nat /\ group.last <= Len(stream)
  BY DEF Tables
<1>2. stream' \in Seq(Entry) /\ Len(stream') = Len(stream) + 1
      /\ \A e \in 1..Len(stream) : stream'[e] = stream[e]
  BY <1>1
<1>3. rows' \in Seq(Outcome \cup {"none"}) /\ Len(rows') = Len(rows) + 1
  BY <1>1
<1> QED BY <1>1, <1>2, <1>3 DEF Tables, Keeps

LEMMA RequeueLinks ==
  ASSUME IngestAssumption, NEW w \in Worker, LinkInv(w), Requeue(w)
  PROVE  LinkInv(w)'
<1> DEFINE old == worker[w]
           x == [Message(w) EXCEPT !.retry = @ + 1]
<1>1. old.step = "requeue" /\ old \in Loop /\ old.deleted = old.set /\ Message(w) \in Entry
      /\ Tables
  BY AtWork DEF Requeue, At, MadeOf
<1>2. Message(w).retry < MaxRetries
  BY <1>1, AtWork DEF MadeOf, Message
<1>3. x \in Entry
  <2>1. PICK q \in Entry : q = Message(w)
    BY <1>1
  <2>2. q.retry + 1 \in 0..MaxRetries
    BY <1>2, <2>1 DEF Entry, IngestAssumption
  <2>3. [q EXCEPT !.retry = q.retry + 1] \in Entry
    BY <2>2 DEF Entry
  <2> QED BY <2>1, <2>3
<1> HIDE DEF x
<1>4. Tables' /\ Keeps
  BY <1>1, <1>3, AppendKeeps DEF Requeue, x
<1>5. PICK l : /\ Moves(w, l) /\ l \in Loop /\ l.batch = old.batch /\ l.set = old.set
               /\ l.deleted = old.set /\ l.step = "save" /\ l.status = "retry_queued"
  <2> DEFINE m == Save(w, "retry_queued")
  <2>1. Moves(w, m)
    BY DEF Requeue
  <2>2. /\ m \in Loop /\ m.batch = old.batch /\ m.set = old.set /\ m.deleted = old.set
        /\ m.step = "save" /\ m.status = "retry_queued"
    BY <1>1 DEF Loop, Save, Outcome
  <2> HIDE DEF m
  <2> QED BY <2>1, <2>2
<1>6. l.set \in Nat /\ l.deleted = l.set
  BY <1>5 DEF Loop
<1>7. HeldAlong(l)' = {}
  BY <1>6 DEF HeldAlong
<1>8. MadeOf(l)'
  BY <1>5, <1>6 DEF MadeOf
<1>9. InOrder(l)'
  BY <1>1, <1>5 DEF LinkInv, Standing, InOrder, Requeue
<1>10. DuplicatesHaveLinks'
  BY <1>4, LinksStay DEF LinkInv, Requeue, Tables
<1>11. HeldAlong(old) = {}
  BY <1>1 DEF HeldAlong, Loop
<1> QED BY <1>4, <1>5, <1>7, <1>8, <1>9, <1>10, <1>11, InHand DEF Requeue, Standing

LEMMA SaveRowLinks ==
  ASSUME IngestAssumption, NEW w \in Worker, LinkInv(w), SaveRow(w)
  PROVE  LinkInv(w)'
<1> DEFINE old == worker[w]
<1>0. PICK e : e = Current(w)
  OBVIOUS
<1>1. /\ old.step = "save" /\ old \in Loop /\ MadeOf(old) /\ e \in 1..Len(stream)
      /\ Head(old.batch) = e /\ Tables
  BY <1>0, AtWork DEF SaveRow, At
<1>2. PICK l : /\ Moves(w, l) /\ l \in Loop /\ l.batch = old.batch /\ l.set = old.set
               /\ l.deleted = old.deleted /\ l.step = "ack"
  <2> DEFINE m == [old EXCEPT !.step = "ack"]
  <2>1. Moves(w, m)
    BY DEF SaveRow
  <2>2. /\ m \in Loop /\ m.batch = old.batch /\ m.set = old.set /\ m.deleted = old.deleted
        /\ m.step = "ack"
    BY <1>1 DEF Loop
  <2> HIDE DEF m
  <2> QED BY <2>1, <2>2
<1>3. /\ rows' \in Seq(Outcome \cup {"none"}) /\ Len(rows') = Len(rows)
      /\ \A f \in 1..Len(rows) : rows'[f] = rows[f] \/ (f = e /\ rows'[f] = old.status)
  <2>1. rows \in Seq(Outcome \cup {"none"}) /\ Len(rows) = Len(stream)
        /\ old.status \in Outcome \cup {"none"}
    BY <1>1 DEF Tables, Loop
  <2>2. CASE rows' = rows
    BY <2>1, <2>2
  <2>3. CASE rows' = [rows EXCEPT ![e] = IF @ = "none" THEN old.status ELSE @]
    BY <1>1, <2>1, <2>3
  <2> QED BY <1>0, <2>2, <2>3 DEF SaveRow
<1>4. Tables' /\ Keeps
  BY <1>1, <1>3 DEF Tables, Keeps, SaveRow
<1>5. ASSUME NEW f \in DOMAIN stream', rows'[f] = "duplicate" PROVE HasLink(f)'
  <2>1. f \in 1..Len(stream) /\ f \in 1..Len(rows) /\ f \in DOMAIN stream
    BY <1>1, <1>5 DEF SaveRow, Tables
  <2>2. HasLink(f)
    <3>1. CASE rows'[f] = rows[f]
      BY <1>5, <2>1, <3>1 DEF LinkInv, DuplicatesHaveLinks, EntryId
    <3>2. CASE f = e /\ rows'[f] = old.status
      BY <1>1, <1>5, <3>2 DEF MadeOf
    <3> QED BY <1>3, <2>1, <3>1, <3>2
  <2> QED BY <1>1, <1>4, <2>1, <2>2, BackingStays
<1>6. DuplicatesHaveLinks'
  BY <1>5 DEF DuplicatesHaveLinks, EntryId
<1>7. old.deleted < old.set => Backed(e)' /\ old.set <= Len(KeysAlong(old))
  BY <1>1, <1>4, BackingStays DEF MadeOf
<1>9. KeysAlong(l)' = KeysInTurn(w) /\ HeldAlong(l)' = HeldAlong(old) /\ KeysAlong(old) = KeysInTurn(w)
  BY <1>1, <1>2, SameKeys, AtWork DEF SaveRow
<1>8. MadeOf(l)'
  BY <1>1, <1>2, <1>7, <1>9 DEF MadeOf
<1>10. InOrder(l)'
  BY <1>1, <1>2 DEF LinkInv, Standing, InOrder, SaveRow
<1> QED BY <1>2, <1>4, <1>6, <1>8, <1>9, <1>10, InHand DEF SaveRow, Standing

\* Done with an entry: what it left in Redis is backed by the entry itself.
LEMMA AckLinks ==
  ASSUME IngestAssumption, NEW w \in Worker, LinkInv(w), Ack(w)
  PROVE  LinkInv(w)'
<1> DEFINE old == worker[w]
<1>0. PICK e : e = Current(w)
  OBVIOUS
<1>1. /\ old.step = "ack" /\ old \in Loop /\ MadeOf(old) /\ e \in 1..Len(stream)
      /\ Head(old.batch) = e /\ Tables /\ Standing(old) /\ KeysAlong(old) = KeysInTurn(w)
      /\ old.deleted \in Nat
  BY <1>0, AtWork DEF Ack, At, LinkInv, Loop
<1>2. /\ old.batch \in Seq(Nat \ {0}) /\ old.batch # <<>> /\ InOrder(old) /\ old.batch[1] = e
      /\ Len(old.batch) \in Nat \ {0} /\ Len(Tail(old.batch)) = Len(old.batch) - 1
      /\ Tail(old.batch) \in Seq(Nat \ {0}) /\ e <= group.last
      /\ \A i \in 1..Len(Tail(old.batch)) : Tail(old.batch)[i] = old.batch[i + 1]
  BY <1>1, HandIsThere DEF Standing, InOrder, Loop
<1>3. PICK l : /\ Moves(w, l) /\ l \in Loop /\ l.batch = Tail(old.batch) /\ l.set = 0 /\ l.deleted = 0
               /\ l.reached = 0
               /\ \/ l.step = "idle" /\ l.batch = <<>>
                  \/ l.step = "screen" /\ l.batch # <<>>
  <2> DEFINE m == Forward(w)
  <2>1. Moves(w, m)
    BY DEF Ack
  <2>2. /\ m \in Loop /\ m.batch = Tail(old.batch) /\ m.set = 0 /\ m.deleted = 0 /\ m.reached = 0
        /\ \/ m.step = "idle" /\ m.batch = <<>>
           \/ m.step = "screen" /\ m.batch # <<>>
    <3>1. CASE Tail(old.batch) = <<>>
      <4>1. m = Resting
        BY <3>1 DEF Forward
      <4> HIDE DEF m
      <4> QED BY <3>1, <4>1 DEF Resting, Loop, IngestAssumption
    <3>2. CASE Tail(old.batch) # <<>>
      <4>1. m = [Resting EXCEPT !.step = "screen", !.batch = Tail(old.batch)]
        BY <3>2 DEF Forward
      <4> HIDE DEF m
      <4>2. PICK t \in Seq(Nat \ {0}) : t = Tail(old.batch)
        BY <1>2
      <4>3. m = [Resting EXCEPT !.step = "screen", !.batch = t]
        BY <4>1, <4>2
      <4>4. m = [step |-> "screen", batch |-> t, set |-> 0, deleted |-> 0,
                 reached |-> 0, status |-> "none"]
        BY <4>3 DEF Resting
      <4>5. /\ m \in Loop /\ m.batch = t /\ m.set = 0 /\ m.deleted = 0 /\ m.reached = 0
            /\ m.step = "screen"
        BY <4>4 DEF Loop, IngestAssumption
      <4> QED BY <3>2, <4>2, <4>5
    <3> QED BY <3>1, <3>2
  <2> HIDE DEF m
  <2> QED BY <2>1, <2>2
<1>4. Tables' /\ Keeps
  <2>1. Tables' = Tables
    BY DEF Tables, Ack
  <2> QED BY <1>1, <2>1 DEF Tables, Keeps, Ack
<1>5. DuplicatesHaveLinks'
  BY <1>1, <1>4, LinksStay DEF LinkInv, Tables, Ack
<1>6. InOrder(l)'
  <2>1. \A i \in 1..Len(l.batch) : l.batch[i] = old.batch[i + 1] /\ i + 1 \in 1..Len(old.batch)
    BY <1>2, <1>3
  <2>2. \A i \in 1..Len(l.batch) : l.batch[i] <= group.last
    BY <1>2, <2>1 DEF InOrder
  <2>3. \A i, j \in 1..Len(l.batch) : i < j => l.batch[i] < l.batch[j]
    <3>1. \A i, j \in 1..Len(l.batch) : i < j => i + 1 < j + 1
      OBVIOUS
    <3> QED BY <1>2, <2>1, <3>1 DEF InOrder
  <2>4. group' = group
    BY DEF Ack
  <2> QED BY <1>3, <2>2, <2>3, <2>4 DEF InOrder
<1>7. MadeOf(l)'
  BY <1>3 DEF MadeOf
<1>8. HeldAlong(l)' = {}
  BY <1>3 DEF HeldAlong
<1>9. Before(e, l)'
  <2>1. \A i \in 1..Len(l.batch) : l.batch[i] = old.batch[i + 1] /\ i + 1 \in 1..Len(old.batch)
                                  /\ 1 < i + 1
    BY <1>2, <1>3
  <2>2. \A i \in 1..Len(l.batch) : e < l.batch[i]
    <3>1. 1 \in 1..Len(old.batch)
      BY <1>2
    <3>2. \A j \in 1..Len(old.batch) : 1 < j => old.batch[1] < old.batch[j]
      BY <1>2, <3>1 DEF InOrder
    <3> QED BY <1>2, <2>1, <3>2
  <2>3. e \in 1..group'.last
    BY <1>1, <1>2 DEF Ack, Tables
  <2> QED BY <2>2, <2>3 DEF Before
<1>10. \A f : Before(f, old) => Before(f, l)'
  <2>1. \A i \in 1..Len(l.batch) : l.batch[i] = old.batch[i + 1] /\ i + 1 \in 1..Len(old.batch)
    BY <1>2, <1>3
  <2>2. group' = group
    BY DEF Ack
  <2> QED BY <2>1, <2>2 DEF Before
<1>11. KeysAreBacked(l)'
  <2>1. ASSUME NEW k \in keys'
        PROVE  \E f \in 1..Len(stream') :
                 Before(f, l)' /\ k \in Range(KeysOf[stream'[f].post]) /\ Backed(f)'
    <3>1. keys' = keys /\ stream' = stream
      BY DEF Ack
    <3>2. CASE k \in HeldAlong(old)
      <4>1. PICK i \in (old.deleted + 1)..old.set : k = KeysInTurn(w)[i]
        BY <1>1, <3>2 DEF HeldAlong
      <4>2. old.deleted < old.set
        BY <1>1, <4>1 DEF Loop
      <4>3. Backed(e)'
        BY <1>1, <1>4, <4>2, BackingStays DEF MadeOf
      <4>4. k \in Range(KeysOf[stream[e].post])
        <5>1. i \in 1..Len(KeysInTurn(w)) /\ KeysInTurn(w) \in Seq(Key)
          BY <1>1, <4>1, <4>2, AtWork DEF MadeOf, Loop
        <5>2. KeysInTurn(w) = KeysOf[stream[e].post] /\ DOMAIN KeysInTurn(w) = 1..Len(KeysInTurn(w))
          BY <1>0, <5>1 DEF KeysInTurn, Message
        <5> QED BY <4>1, <5>1, <5>2 DEF Range
      <4> QED BY <1>1, <1>9, <3>1, <4>3, <4>4
    <3>3. CASE k \notin HeldAlong(old)
      <4>1. PICK f \in 1..Len(stream) :
              Before(f, old) /\ k \in Range(KeysOf[stream[f].post]) /\ Backed(f)
        BY <2>1, <3>1, <3>3 DEF LinkInv, KeysAreBacked
      <4>2. Backed(f)' /\ Before(f, l)'
        BY <1>1, <1>4, <1>10, <4>1, BackingStays
      <4> QED BY <3>1, <4>1, <4>2
    <3> QED BY <3>2, <3>3
  <2> QED BY <1>8, <2>1 DEF KeysAreBacked
<1>12. pending' \subseteq Range(l.batch)
  <2>1. ASSUME NEW d \in pending' PROVE d \in Range(l.batch)
    <3>1. d \in Range(old.batch) /\ d # e
      BY <1>0, <2>1 DEF Ack, LinkInv
    <3>2. PICK i \in 1..Len(old.batch) : d = old.batch[i]
      BY <1>2, <3>1, SMTT(30) DEF Range
    <3>3. i # 1 /\ i - 1 \in 1..Len(l.batch)
      BY <1>2, <1>3, <3>1, <3>2
    <3>4. l.batch[i - 1] = d /\ DOMAIN l.batch = 1..Len(l.batch)
      <4>1. Tail(old.batch)[i - 1] = old.batch[(i - 1) + 1]
        BY <1>2, <1>3, <3>3
      <4>2. (i - 1) + 1 = i
        BY <3>2
      <4>3. DOMAIN l.batch = 1..Len(l.batch)
        BY <1>2, <1>3
      <4> QED BY <1>3, <3>2, <4>1, <4>2, <4>3
    <3> QED BY <3>3, <3>4 DEF Range
  <2> QED BY <2>1
<1>13. /\ worker' = [v \in Worker |-> worker'[v]] /\ worker'[w] = l
       /\ \A v \in Worker \ {w} : worker'[v] = worker[v]
  BY <1>3 DEF LinkInv, Only, Moves
<1>14. Only(w)'
  BY <1>13 DEF LinkInv, Only, Ack
<1> QED BY <1>3, <1>4, <1>5, <1>6, <1>7, <1>11, <1>12, <1>13, <1>14 DEF LinkInv, Standing


\* Only at rest are there new entries to read, and then nothing is pending.
LEMMA AtRest ==
  ASSUME NEW w \in Worker, LinkInv(w), At(w, "idle")
  PROVE  /\ worker[w].batch = <<>> /\ worker[w].set = 0 /\ pending = {}
         /\ HeldAlong(worker[w]) = {} /\ Tables
<1>1. Standing(worker[w]) /\ pending \subseteq Range(worker[w].batch) /\ Tables
  BY DEF LinkInv
<1>2. worker[w].batch = <<>> /\ worker[w].set = 0 /\ worker[w].deleted \in Nat
  BY <1>1 DEF At, Standing, InOrder, Loop
<1>3. pending = {}
  BY <1>1, <1>2 DEF Range
<1> QED BY <1>1, <1>2, <1>3 DEF HeldAlong

\* What is read comes after all that left its keys.
LEMMA ReadLinks ==
  ASSUME IngestAssumption, NEW w \in Worker, LinkInv(w), Read(w)
  PROVE  LinkInv(w)'
<1> DEFINE last == Min({Len(stream), group.last + Batch})
           n == last - group.last
           es == [i \in 1..n |-> group.last + i]
<1>0. PICK old : old = worker[w]
  OBVIOUS
<1>1. /\ Tables /\ pending = {} /\ old.batch = <<>> /\ HeldAlong(old) = {}
      /\ Len(stream) \in Nat /\ group.last \in Nat /\ Batch \in Nat \ {0}
      /\ group.last < Len(stream)
  <2>1. /\ worker[w].batch = <<>> /\ pending = {} /\ HeldAlong(worker[w]) = {} /\ Tables
        /\ group.last < Len(stream)
    BY AtRest DEF Read
  <2>2. Len(stream) \in Nat /\ group.last \in Nat /\ Batch \in Nat \ {0}
    BY <2>1 DEF Tables, IngestAssumption
  <2> QED BY <1>0, <2>1, <2>2
<1>2. last \in Nat /\ last <= Len(stream) /\ group.last < last /\ n \in Nat \ {0}
  <2> DEFINE S == {Len(stream), group.last + Batch}
  <2>1. \E x \in S : \A y \in S : x =< y
    BY <1>1
  <2>2. last \in S /\ last <= Len(stream)
    BY <2>1 DEF Min
  <2> QED BY <1>1, <2>2
<1>3. /\ Take(w, es) /\ group' = [group EXCEPT !.last = last]
      /\ UNCHANGED <<stream, keys, rows, trucks, accepted, faults>>
  BY DEF Read
<1> HIDE DEF last
<1>4. es \in Seq(Nat \ {0}) /\ Len(es) = n /\ es # <<>> /\ DOMAIN es = 1..n
      /\ \A i \in 1..n : es[i] = group.last + i
  <2>1. \A i \in 1..n : group.last + i \in Nat \ {0}
    BY <1>1
  <2>2. \A i \in 1..n : es[i] = group.last + i
    OBVIOUS
  <2> HIDE DEF n
  <2>3. es \in [1..n -> Nat \ {0}]
    BY <2>1
  <2> HIDE DEF es
  <2>4. es \in Seq(Nat \ {0}) /\ DOMAIN es = 1..n
    BY <1>2, <2>3
  <2> QED BY <1>2, <2>2, <2>4
<1> HIDE DEF es
<1>5. PICK l : /\ l = [Resting EXCEPT !.step = "screen", !.batch = es]
               /\ Moves(w, l) /\ pending' = pending \cup Range(es)
  BY <1>3 DEF Take
<1>6. l = [step |-> "screen", batch |-> es, set |-> 0, deleted |-> 0,
           reached |-> 0, status |-> "none"]
  BY <1>5 DEF Resting
<1>7. l \in Loop
  BY <1>4, <1>6 DEF Loop, IngestAssumption
<1>8. group \in [made : BOOLEAN, first : Nat, last : Nat] /\ group'.last = last
  BY <1>1, <1>3 DEF Tables
<1>9. Tables' /\ Keeps
  <2>1. group' \in [made : BOOLEAN, first : Nat, last : Nat]
    BY <1>2, <1>3, <1>8
  <2>2. group'.last <= Len(stream)
    BY <1>2, <1>8
  <2> QED BY <1>1, <1>3, <2>1, <2>2 DEF Tables, Keeps
<1>10. \A i \in 1..n : es[i] <= last /\ group.last < es[i]
  BY <1>1, <1>2, <1>4
<1>11. InOrder(l)'
  <2>1. \A i, j \in 1..n : i < j => es[i] < es[j]
    BY <1>1, <1>4
  <2> QED BY <1>4, <1>6, <1>8, <1>10, <2>1 DEF InOrder
<1>12. MadeOf(l)'
  BY <1>6 DEF MadeOf
<1>13. \A f \in 1..Len(stream) : Before(f, old) => Before(f, l)'
  <2>1. SUFFICES ASSUME NEW f \in 1..group.last PROVE Before(f, l)'
    BY DEF Before
  <2>2. f \in 1..group'.last
    BY <1>1, <1>2, <1>8
  <2>3. \A i \in 1..n : f < es[i]
    BY <1>1, <1>2, <1>4, <1>10
  <2> QED BY <1>4, <1>6, <2>2, <2>3 DEF Before
<1>14. KeysAreBacked(l)'
  BY <1>0, <1>1, <1>3, <1>9, <1>13, KeysStayBacked DEF LinkInv
<1>15. DuplicatesHaveLinks'
  BY <1>1, <1>3, <1>9, LinksStay DEF LinkInv, Tables
<1>16. /\ worker' = [v \in Worker |-> worker'[v]] /\ worker'[w] = l
       /\ \A v \in Worker \ {w} : worker'[v] = worker[v]
  BY <1>5 DEF LinkInv, Only, Moves
<1>17. Only(w)'
  BY <1>3, <1>16 DEF LinkInv, Only
<1>18. pending' \subseteq Range(l.batch)
  BY <1>1, <1>5, <1>6
<1> QED BY <1>7, <1>9, <1>11, <1>12, <1>14, <1>15, <1>16, <1>17, <1>18 DEF LinkInv, Standing

\* With nobody else, nothing is left to be claimed.
LEMMA ClaimLinks ==
  ASSUME IngestAssumption, NEW w \in Worker, LinkInv(w), Claim(w)
  PROVE  FALSE
<1>1. pending = {}
  BY AtRest DEF Claim
<1>2. Claimable(w) = {}
  BY <1>1 DEF Claimable
<1>3. PICK n \in 1..Batch : \E es \in [1..n -> Claimable(w)] : Take(w, es)
  BY DEF Claim
<1>4. PICK es \in [1..n -> Claimable(w)] : Take(w, es)
  BY <1>3
<1>5. 1 \in 1..n
  BY <1>3 DEF IngestAssumption
<1> QED BY <1>2, <1>4, <1>5

\* New entries, the group, and keys that run out.
LEMMA OthersLinks ==
  ASSUME IngestAssumption, NEW w \in Worker, LinkInv(w),
         \/ \E p \in Post : Publish(p)
         \/ EnsureGroup
         \/ \E k \in Key : Expire(k)
  PROVE  LinkInv(w)'
<1>0. Tables
  BY DEF LinkInv
<1>1. CASE \E p \in Post : Publish(p)
  <2>1. PICK p \in Post : Publish(p)
    BY <1>1
  <2>2. Fresh(p) \in Entry
    BY DEF Fresh, Entry, IngestAssumption
  <2>3. Tables' /\ Keeps
    BY <1>0, <2>1, <2>2, AppendKeeps DEF Publish
  <2> QED BY <1>0, <2>1, <2>3, OutsideLinks DEF Publish, Tables
<1>2. CASE EnsureGroup
  <2>1. Tables' /\ Keeps /\ group.last <= group.last'
    BY <1>0, <1>2 DEF EnsureGroup, Tables, Keeps
  <2> QED BY <1>2, <2>1, OutsideLinks DEF EnsureGroup
<1>3. CASE \E k \in Key : Expire(k)
  <2>1. PICK k \in Key : Expire(k)
    BY <1>3
  <2>2. Tables' = Tables
    BY <2>1 DEF Expire, Tables
  <2>3. Tables' /\ Keeps
    BY <1>0, <2>1, <2>2 DEF Expire, Tables, Keeps
  <2> QED BY <1>0, <2>1, <2>3, OutsideLinks DEF Expire, Tables
<1> QED BY <1>1, <1>2, <1>3

\* Every step of the model, while w is alone and there are no more faults.
LEMMA NextLinks ==
  ASSUME IngestAssumption, NEW w \in Worker, LinkInv(w), [Next]_vars
  PROVE  LinkInv(w)'
<1>0. /\ faults = MaxFaults /\ MaxFaults \in Nat
      /\ \A v \in Worker \ {w} : worker[v].step = "gone"
  BY DEF LinkInv, Only, IngestAssumption
<1>1. ASSUME NEW v \in Worker, Work(v) PROVE LinkInv(w)'
  <2>1. v = w
    BY <1>0, <1>1 DEF Work, Read, Claim, Screen, SaveTruck, SetKey, Push, PushFails,
                      DeleteKey, Requeue, SaveRow, Ack, At
  <2>2. CASE Read(w) \/ Claim(w)
    BY <2>2, ReadLinks, ClaimLinks
  <2>3. CASE Screen(w) \/ SaveTruck(w) \/ SetKey(w)
    BY <2>3, ScreenLinks, SaveTruckLinks, SetKeyLinks
  <2>4. CASE Push(w) \/ PushFails(w) \/ DeleteKey(w) \/ Requeue(w)
    BY <2>4, PushLinks, PushFailsLinks, DeleteKeyLinks, RequeueLinks
  <2>5. CASE SaveRow(w) \/ Ack(w)
    BY <2>5, SaveRowLinks, AckLinks
  <2> QED BY <1>1, <2>1, <2>2, <2>3, <2>4, <2>5 DEF Work
<1>2. ASSUME NEW v \in Worker, Stumble(v) \/ Crash(v) PROVE FALSE
  BY <1>0, <1>2 DEF Stumble, Crash, Faulty
<1>3. CASE UNCHANGED vars
  <2>1. Tables' /\ Keeps
    <3>1. Tables' = Tables
      BY <1>3 DEF vars, Tables
    <3> QED BY <1>3, <3>1 DEF vars, LinkInv, Tables, Keeps
  <2>2. group.last <= group.last'
    BY <1>3, <2>1 DEF vars, Tables
  <2> QED BY <1>3, <2>1, <2>2, OutsideLinks DEF vars
<1> QED BY <1>1, <1>2, <1>3, OthersLinks DEF Next


\* One loop at rest, the others gone, before anything was delivered.
LEMMA BeginLinks ==
  ASSUME IngestAssumption, NEW w \in Worker, Tables, faults = MaxFaults,
         pending = {}, keys = {}, DuplicatesHaveLinks,
         worker = [v \in Worker |-> IF v = w THEN Resting ELSE Gone]
  PROVE  LinkInv(w)
<1>1. worker[w] = Resting /\ \A v \in Worker \ {w} : worker[v] = Gone
  OBVIOUS
<1>2. Gone.step = "gone"
  BY DEF Gone, Resting
<1>3. Only(w)
  BY <1>1, <1>2 DEF Only
<1>4. Resting \in Loop /\ Resting.batch = <<>> /\ Resting.set = 0 /\ Resting.step = "idle"
  BY RestIsOK DEF Resting
<1>5. Len(Resting.batch) = 0
  BY <1>4
<1>6. Standing(Resting)
  BY <1>4, <1>5 DEF Standing, InOrder, MadeOf
<1>7. KeysAreBacked(Resting)
  BY DEF KeysAreBacked
<1> QED BY <1>1, <1>3, <1>6, <1>7 DEF LinkInv

\* One worker alone, and nothing that fails but the targets and the table: a
\* post is dropped as a duplicate only when an earlier entry, of a post linked to
\* it, was sent or was spam (_process_message).
THEOREM AloneDuplicatesHaveLinks ==
  ASSUME NEW w, Worker = {w}, MaxFaults = 0
  PROVE  Spec => []DuplicatesHaveLinks
<1>1. Init => LinkInv(w)
  <2> SUFFICES ASSUME Init PROVE LinkInv(w)
    OBVIOUS
  <2>1. <<>> \in Seq(Entry) /\ <<>> \in Seq(Outcome \cup {"none"}) /\ Len(<<>>) = 0
    OBVIOUS
  <2>2. Tables /\ DuplicatesHaveLinks
    BY <2>1 DEF Init, Tables, DuplicatesHaveLinks, EntryId
  <2>3. worker = [v \in Worker |-> IF v = w THEN Resting ELSE Gone]
    BY DEF Init
  <2> QED BY <2>2, <2>3, BeginLinks, IngestAssumption DEF Init
<1>2. LinkInv(w) /\ [Next]_vars => LinkInv(w)'
  BY NextLinks, IngestAssumption
<1>3. LinkInv(w) => DuplicatesHaveLinks
  BY DEF LinkInv
<1> QED BY <1>1, <1>2, <1>3, PTL DEF Spec

\* The posts before the group was made.
LEMMA BeforeTables ==
  ASSUME IngestAssumption, NEW before \in Seq(Post), NEW workers, NEW used,
         Begin(before, workers, used)
  PROVE  Tables /\ DuplicatesHaveLinks
<1>1. DOMAIN before = 1..Len(before) /\ Len(before) \in Nat
      /\ \A i \in 1..Len(before) : before[i] \in Post
  OBVIOUS
<1>2. \A i \in 1..Len(before) : Fresh(before[i]) \in Entry
  BY <1>1 DEF Fresh, Entry, IngestAssumption
<1>3. stream \in Seq(Entry) /\ Len(stream) = Len(before)
  <2>1. stream = [i \in 1..Len(before) |-> Fresh(before[i])]
    BY <1>1 DEF Begin
  <2>2. stream \in [1..Len(before) -> Entry]
    BY <1>2, <2>1
  <2>3. stream \in Seq(Entry)
    <3>1. PICK n \in Nat : n = Len(before)
      BY <1>1, Zenon
    <3>2. stream \in [1..n -> Entry]
      BY <2>2, <3>1
    <3> QED BY <3>2, SMTT(30)
  <2>4. DOMAIN stream = 1..Len(before)
    BY <2>1
  <2> QED BY <1>1, <2>3, <2>4
<1>4. rows \in Seq(Outcome \cup {"none"}) /\ Len(rows) = Len(before)
      /\ \A i \in 1..Len(before) : rows[i] = "none"
  <2>1. rows = [i \in 1..Len(before) |-> "none"]
    BY <1>1 DEF Begin
  <2>2. rows \in [1..Len(before) -> Outcome \cup {"none"}]
    BY <2>1
  <2> QED BY <1>1, <2>1, <2>2
<1>5. group.last <= Len(stream) /\ group \in [made : BOOLEAN, first : Nat, last : Nat]
  BY <1>1, <1>3 DEF Begin
<1>6. DuplicatesHaveLinks
  BY <1>3, <1>4 DEF DuplicatesHaveLinks, EntryId
<1> QED BY <1>3, <1>4, <1>5, <1>6 DEF Tables

\* The same from each of the beginnings of the run, with a second worker in one
\* of them (_process_message).
THEOREM DuplicatesAreLinked ==
  ASSUME {a20, b20, b10, truck} \subseteq Post, w1 # w2, Worker = {w1, w2}
  PROVE  SettlesSpec => []DuplicateIsLinked
<1> DEFINE J == LinkInv(w1) \/ IInv
<1>1. SettlesInit => J
  <2> SUFFICES ASSUME SettlesInit PROVE J
    OBVIOUS
  <2>1. Others \in Seq(Post) /\ <<truck>> \in Seq(Post) /\ <<a20, b20, b10>> \in Seq(Post)
    BY DEF Others
  <2>2. ASSUME NEW before \in Seq(Post), Begin(before, {w1}, MaxFaults) PROVE J
    <3>1. worker = [v \in Worker |-> IF v = w1 THEN Resting ELSE Gone]
      BY <2>2 DEF Begin
    <3> QED BY <2>2, <3>1, BeforeTables, BeginLinks, IngestAssumption DEF Begin
  <2>3. ASSUME Begin(Others, {w1, w2}, 0) PROVE J
    <3>1. Tables
      BY <2>1, <2>3, BeforeTables, IngestAssumption
    <3>2. worker = [v \in Worker |-> Resting]
      BY <2>3 DEF Begin
    <3>3. Resting \in Loop
      BY RestIsOK, IngestAssumption
    <3>4. worker \in [Worker -> Loop]
      BY <3>2, <3>3
    <3>5. TypeOK
      BY <2>3, <3>1, <3>4, IngestAssumption DEF TypeOK, Tables, Begin, IngestAssumption
    <3>6. LoopsOK /\ HeldAreSet /\ HeldByOne
      BY <3>2, RestIsOK, IngestAssumption DEF LoopsOK, HeldAreSet, HeldByOne
    <3>7. GroupInStream
      BY <3>1 DEF Tables, GroupInStream
    <3> QED BY <3>5, <3>6, <3>7 DEF IInv
  <2> QED BY <2>1, <2>2, <2>3 DEF SettlesInit
<1>2. J /\ [Next]_vars => J'
  BY NextLinks, NextIInv, IngestAssumption
<1>3. J => DuplicateIsLinked
  <2>1. LinkInv(w1) => DuplicateIsLinked
    BY DEF LinkInv, DuplicateIsLinked
  <2>2. IInv => worker[w2] # Gone
    <3>1. IInv => worker[w2].step # "gone"
      BY DEF IInv, TypeOK, Loop
    <3> QED BY <3>1 DEF Gone, Resting
  <2> QED BY <2>1, <2>2 DEF DuplicateIsLinked, Alone
<1> QED BY <1>1, <1>2, <1>3, PTL DEF SettlesSpec
=============================================================================
