-------------------------- MODULE CargoDealProofs --------------------------
(***************************************************************************)
(* Theorems of CargoDeal for any number of cargos, carriers and handlers.   *)
(* The types hold however many handlers a user has in flight; the others    *)
(* assume OneAtATime, because the code has nothing else to keep two         *)
(* handlers of one user from passing the same check.                        *)
(*                                                                          *)
(* AcceptedIsCarrier is not inductive: an accept in flight has passed its   *)
(* check already.  The strengthening says what the check found and nobody   *)
(* else can undo: the cargo of an accept in flight has no carrier           *)
(* (NotTaken), a NEW cargo has none (NewIsFree), the response an accept or  *)
(* a reject is about is in the table (RowIsThere), and the carrier of a     *)
(* response in flight has no row in it yet (NotResponded).                  *)
(*                                                                          *)
(* What the feed shows of a cargo follows from FeedInv: every event but the *)
(* last is replaced, a cargo whose last event was taken down is not on      *)
(* offer, and what an owner's handler found of cargo and events before its  *)
(* two commits is still so, because no other handler of the owner runs.     *)
(***************************************************************************)
EXTENDS CargoDeal, FiniteSetTheorems, SequenceTheorems, TLAPS

OneAtATime == \A g, h \in Hands : UserOf[g] = UserOf[h] => g = h

NewIsFree ==
    \A c \in Cargos : cargo[c].status \in {"absent", "new"} => cargo[c].carrier = None

NotTaken ==
    \A h \in Hands : hand[h].op = "accept" =>
        /\ Owns(h)
        /\ hand[h].resp \in Responses
        /\ cargo[hand[h].resp.cargo].carrier = None

RowIsThere ==
    \A h \in Hands : hand[h].op \in {"accept", "reject"} =>
        hand[h].resp \in Responses /\ verdict[hand[h].resp] # "absent"

NotResponded ==
    \A h \in Hands : hand[h].op = "respond" =>
        /\ UserOf[h] \in Carriers
        /\ \A c \in hand[h].on : RowsOf(c, UserOf[h]) = {}

IInv == TypeOK /\ NewIsFree /\ NotTaken /\ RowIsThere /\ NotResponded
        /\ AcceptedIsCarrier /\ OneResponseEach

-----------------------------------------------------------------------------
(* Types.                                                                   *)

\* A record of a handler has its type.
LEMMA HandlerType ==
    ASSUME NEW op \in Ops, NEW on \in SUBSET Cargos, NEW r \in Responses \cup {None},
           NEW seen \in Statuses \cup Verdicts, NEW event \in 0 .. MaxEvents,
           op \in {"accept", "reject"} => r \in Responses
    PROVE  Handler(op, on, r, seen, event) \in Handlers
BY DEF Handler, Handlers

\* An idle hand is a handler.
LEMMA IdleType == Idle \in Handlers
BY HandlerType, BoundAssumption DEF Idle, Ops, Statuses, BoundAssumption

\* A handler that only reads keeps the types.
LEMMA HoldsType ==
    ASSUME TypeOK, NEW h \in Hands, NEW op \in Ops, NEW on \in SUBSET Cargos,
           NEW r \in Responses \cup {None}, NEW seen \in Statuses \cup Verdicts,
           NEW event \in 0 .. MaxEvents, Holds(h, op, on, r, seen, event),
           op \in {"accept", "reject"} => r \in Responses
    PROVE  TypeOK'
<1> DEFINE held == Handler(op, on, r, seen, event)
<1>1. held \in Handlers
    BY HandlerType
<1>2. hand' = [hand EXCEPT ![h] = held]
    BY DEF Holds
<1> HIDE DEF held
<1>3. hand' \in [Hands -> Handlers]
    BY <1>1, <1>2 DEF TypeOK
<1> QED BY <1>3 DEF Holds, TypeOK

\* So does one that reads a single cargo and finds its latest event, or none.
LEMMA TakesType ==
    ASSUME TypeOK, BoundAssumption, NEW h \in Hands, NEW c \in Cargos,
           NEW op \in Ops \ {"accept", "reject"},
           NEW event \in {0, Len(feed[c])},
           NEW seen \in Statuses, Takes(h, op, c, seen, event)
    PROVE  TypeOK'
<1>1. Len(feed[c]) \in 0 .. MaxEvents
    BY LenProperties DEF TypeOK, BoundAssumption
<1>2. event \in 0 .. MaxEvents
    BY <1>1 DEF BoundAssumption
<1> QED BY <1>2, HoldsType DEF Takes

\* The status a cargo is read with.
LEMMA StatusRead == ASSUME TypeOK, NEW c \in Cargos PROVE cargo[c].status \in Statuses
BY DEF TypeOK

\* A handler that ends is idle.
LEMMA EndsType ==
    ASSUME TypeOK, NEW h \in Hands, Ends(h) PROVE hand' \in [Hands -> Handlers]
BY IdleType DEF Ends, TypeOK

\* Replacing an element of a sequence keeps its length; so does naming an
\* element it does not have.
LEMMA MarkedSeq ==
    ASSUME NEW s \in Seq(EventStatuses), NEW e, NEW st \in EventStatuses
    PROVE  [s EXCEPT ![e] = st] \in Seq(EventStatuses) /\ Len([s EXCEPT ![e] = st]) = Len(s)
<1>1. CASE e \in 1 .. Len(s)
    BY <1>1, ExceptSeq
<1>2. CASE e \notin 1 .. Len(s)
    <2>1. DOMAIN s = 1 .. Len(s)
        BY LenProperties
    <2>2. [s EXCEPT ![e] = st] = s
        BY <1>2, <2>1
    <2> QED BY <2>2
<1> QED BY <1>1, <1>2

\* Marking an event keeps the number of events and their type.
LEMMA MarkedType ==
    ASSUME TypeOK, NEW c \in Cargos, NEW e, NEW st \in EventStatuses
    PROVE  /\ Marked(c, e, st) \in [Cargos -> Seq(EventStatuses)]
           /\ \A d \in Cargos : Len(Marked(c, e, st)[d]) <= MaxEvents
<1> DEFINE marked == [feed[c] EXCEPT ![e] = st]
<1>1. feed[c] \in Seq(EventStatuses) /\ Len(feed[c]) <= MaxEvents
    BY DEF TypeOK
<1>2. marked \in Seq(EventStatuses) /\ Len(marked) = Len(feed[c])
    BY <1>1, MarkedSeq
<1>3. Marked(c, e, st) = IF e = 0 THEN feed ELSE [feed EXCEPT ![c] = marked]
    BY DEF Marked, TypeOK
<1> HIDE DEF marked
<1> QED BY <1>1, <1>2, <1>3 DEF TypeOK

\* Marking an event of a cargo leaves it as many events as it had.
LEMMA MarkedLength ==
    ASSUME TypeOK, NEW c \in Cargos, NEW e, NEW st \in EventStatuses
    PROVE  /\ Marked(c, e, st)[c] \in Seq(EventStatuses)
           /\ Len(Marked(c, e, st)[c]) = Len(feed[c])
<1>1. feed \in [Cargos -> Seq(EventStatuses)]
    BY DEF TypeOK
<1>2. Marked(c, e, st)[c] = IF e = 0 THEN feed[c] ELSE [feed[c] EXCEPT ![e] = st]
    BY <1>1 DEF Marked
<1>3. [feed[c] EXCEPT ![e] = st] \in Seq(EventStatuses)
      /\ Len([feed[c] EXCEPT ![e] = st]) = Len(feed[c])
    BY <1>1, MarkedSeq
<1> QED BY <1>1, <1>2, <1>3

\* Changing the status of a cargo keeps its type.
LEMMA UpdatedType ==
    ASSUME TypeOK, NEW c \in Cargos, NEW st \in Statuses
    PROVE  Updated(c, st) \in [Cargos -> [status : Statuses, carrier : Carriers \cup {None}]]
BY DEF Updated, TypeOK

\* The reading half of every handler keeps the types.
LEMMA ReadsType ==
    ASSUME HandsAssumption, BoundAssumption, TypeOK, NEW h \in Hands, Reads(h)
    PROVE  TypeOK'
<1> USE BoundAssumption
<1>0. \A c \in Cargos : cargo[c].status \in Statuses
    BY StatusRead
<1>1. ASSUME NEW c \in Cargos, RespondInWebapp(h, c) \/ RespondInBot(h, c) PROVE TypeOK'
    BY <1>1, TakesType DEF RespondInWebapp, RespondInBot, Ops, Statuses
<1>2. ASSUME NEW c \in Cargos, ReadForComplete(h, c) \/ ReadForCancel(h, c) PROVE TypeOK'
    BY <1>0, <1>2, TakesType DEF ReadForComplete, ReadForCancel, Ops
<1>3. ASSUME NEW c \in Cargos, ReadForArchive(h, c) \/ ReadForRestore(h, c) PROVE TypeOK'
    BY <1>0, <1>3, TakesType DEF ReadForArchive, ReadForRestore, Ops
<1>4. ASSUME NEW c \in Cargos, ReadForDelete(h, c) \/ ReadForBump(h, c) PROVE TypeOK'
    BY <1>0, <1>4, TakesType DEF ReadForDelete, ReadForBump, Ops, Statuses
<1>5. ASSUME NEW c \in Cargos, CreateInWebapp(h, c) PROVE TypeOK'
    <2>1. <<"synced">> \in Seq(EventStatuses) /\ Len(<<"synced">>) = 1
        BY DEF EventStatuses
    <2>2. MaxEvents >= 1
        BY <1>5 DEF CreateInWebapp, BoundAssumption
    <2>3. cargo' \in [Cargos -> [status : Statuses, carrier : Carriers \cup {None}]]
        BY <1>5 DEF CreateInWebapp, Born, TypeOK, Statuses
    <2> QED BY <1>5, <2>1, <2>2, <2>3 DEF CreateInWebapp, TypeOK
<1>6. ASSUME NEW c \in Cargos, CreateInBot(h, c) PROVE TypeOK'
    <2>1. Handler("sync", {c}, None, "absent", 0) \in Handlers
        BY HandlerType DEF Ops, Statuses, BoundAssumption
    <2>2. hand' \in [Hands -> Handlers]
        BY <1>6, <2>1 DEF CreateInBot, TypeOK
    <2>3. cargo' \in [Cargos -> [status : Statuses, carrier : Carriers \cup {None}]]
        BY <1>6 DEF CreateInBot, Born, TypeOK, Statuses
    <2> QED BY <1>6, <2>2, <2>3 DEF CreateInBot, TypeOK
<1>7. ASSUME NEW r \in Responses, ReadForAccept(h, r) \/ RefuseAccept(h, r) PROVE TypeOK'
    <2>1. r.cargo \in Cargos /\ {r.cargo} \in SUBSET Cargos
        BY DEF Responses
    <2> QED BY <1>0, <1>7, <2>1, HoldsType DEF ReadForAccept, RefuseAccept, Ops, BoundAssumption
<1>8. ASSUME NEW r \in Responses, ReadForReject(h, r) PROVE TypeOK'
    <2>1. r.cargo \in Cargos /\ {r.cargo} \in SUBSET Cargos /\ verdict[r] \in Verdicts
        BY DEF Responses, TypeOK
    <2> QED BY <1>8, <2>1, HoldsType DEF ReadForReject, Ops, BoundAssumption
<1>9. CASE ReadForSync(h)
    <2>1. PICK c \in hand[h].on :
              hand' = [hand EXCEPT ![h].event = Len(feed[c]),
                          ![h].op = IF hand[h].op = "sync" THEN "refresh" ELSE "republish"]
        BY <1>9 DEF ReadForSync
    <2>2. hand[h] \in Handlers
        BY DEF TypeOK
    <2>3. c \in Cargos /\ Len(feed[c]) \in 0 .. MaxEvents
        BY <2>2, LenProperties DEF Handlers, TypeOK, BoundAssumption
    <2>4. hand' \in [Hands -> Handlers]
        BY <2>1, <2>2, <2>3 DEF TypeOK, Handlers, Ops
    <2> QED BY <1>9, <2>4 DEF ReadForSync, TypeOK
<1>10. CASE ReadForSweep(h)
    <2>1. PICK old \in SUBSET Cargos : Holds(h, "sweep", old, None, "new", 0)
        BY <1>10 DEF ReadForSweep
    <2> QED BY <2>1, HoldsType DEF Ops, Statuses, BoundAssumption
<1> QED BY <1>1, <1>2, <1>3, <1>4, <1>5, <1>6, <1>7, <1>8, <1>9, <1>10 DEF Reads

\* So does the writing half.
LEMMA CommitsType ==
    ASSUME HandsAssumption, BoundAssumption, TypeOK, NEW h \in Hands, Commits(h)
    PROVE  TypeOK'
<1>0. hand[h] \in Handlers
    BY DEF TypeOK
<1>1. CASE InsertResponse(h)
    <2>1. verdict' \in [Responses -> Verdicts]
        BY <1>1 DEF InsertResponse, TypeOK, Verdicts
    <2> QED BY <1>1, <2>1, EndsType DEF InsertResponse, TypeOK
<1>2. CASE CommitAccept(h)
    <2> DEFINE r == hand[h].resp
    <2>0. r \in Responses
        BY <1>0, <1>2 DEF CommitAccept, Handlers
    <2>1. Started(r) \in [Cargos -> [status : Statuses, carrier : Carriers \cup {None}]]
        BY <2>0 DEF Started, TypeOK, Responses, Statuses
    <2>2. Judged(r) \in [Responses -> Verdicts]
        BY DEF Judged, TypeOK, Verdicts
    <2> QED BY <1>2, <2>1, <2>2, EndsType DEF CommitAccept, TypeOK
<1>3. CASE CommitReject(h)
    <2>1. verdict' \in [Responses -> Verdicts]
        BY <1>3 DEF CommitReject, TypeOK, Verdicts
    <2> QED BY <1>3, <2>1, EndsType DEF CommitReject, TypeOK
<1>4. CASE CommitStatus(h)
    <2>1. PICK c \in hand[h].on :
             /\ cargo' = IF hand[h].seen = Target(hand[h].op) THEN cargo
                         ELSE Updated(c, Target(hand[h].op))
             /\ feed' = CASE hand[h].op = "archive" -> Marked(c, hand[h].event, "ignored")
                          [] hand[h].op = "restore" -> Marked(c, hand[h].event, "synced")
                          [] OTHER -> feed
        BY <1>4 DEF CommitStatus
    <2>2. c \in Cargos
        BY <1>0 DEF Handlers
    <2>3. Target(hand[h].op) \in Statuses
        BY <1>4 DEF CommitStatus, Target, Statuses
    <2>4. cargo' \in [Cargos -> [status : Statuses, carrier : Carriers \cup {None}]]
        BY <2>1, <2>2, <2>3, UpdatedType DEF TypeOK
    <2>5. \/ feed' = Marked(c, hand[h].event, "ignored")
          \/ feed' = Marked(c, hand[h].event, "synced")
          \/ feed' = feed
        BY <2>1, <1>4 DEF CommitStatus
    <2>6. /\ feed' \in [Cargos -> Seq(EventStatuses)]
          /\ \A d \in Cargos : Len(feed'[d]) <= MaxEvents
        BY <2>2, <2>5, MarkedType DEF EventStatuses, TypeOK
    <2> QED BY <1>4, <2>4, <2>6, EndsType DEF CommitStatus, TypeOK
<1>5. CASE CommitDelete(h)
    <2>1. PICK c \in hand[h].on : cargo' = Updated(c, "deleted")
        BY <1>5 DEF CommitDelete
    <2>2. c \in Cargos /\ "deleted" \in Statuses
        BY <1>0 DEF Handlers, Statuses
    <2>3. cargo' \in [Cargos -> [status : Statuses, carrier : Carriers \cup {None}]]
        BY <2>1, <2>2, UpdatedType
    <2> QED BY <1>5, <2>3, EndsType DEF CommitDelete, TypeOK
<1>6. CASE CommitSync(h)
    <2>1. PICK c \in hand[h].on :
             IF hand[h].op = "refresh" /\ hand[h].event # 0
             THEN feed' = Marked(c, hand[h].event, "synced")
             ELSE /\ Len(feed[c]) < MaxEvents
                  /\ feed' = [feed EXCEPT ![c] =
                                 Append(Marked(c, hand[h].event, "replaced")[c], "synced")]
        BY <1>6 DEF CommitSync
    <2>2. c \in Cargos
        BY <1>0 DEF Handlers
    <2>3. /\ feed' \in [Cargos -> Seq(EventStatuses)]
          /\ \A d \in Cargos : Len(feed'[d]) <= MaxEvents
        <3>1. CASE hand[h].op = "refresh" /\ hand[h].event # 0
            BY <2>1, <2>2, <3>1, MarkedType DEF EventStatuses
        <3>2. CASE ~(hand[h].op = "refresh" /\ hand[h].event # 0)
            <4> DEFINE marked == Marked(c, hand[h].event, "replaced")[c]
            <4>1. marked \in Seq(EventStatuses) /\ Len(marked) = Len(feed[c])
                BY <2>2, MarkedLength DEF EventStatuses
            <4>2. feed' = [feed EXCEPT ![c] = Append(marked, "synced")]
                  /\ Len(feed[c]) < MaxEvents
                BY <2>1, <3>2
            <4> HIDE DEF marked
            <4>3. "synced" \in EventStatuses
                BY DEF EventStatuses
            <4>4. /\ Append(marked, "synced") \in Seq(EventStatuses)
                  /\ Len(Append(marked, "synced")) = Len(feed[c]) + 1
                BY <4>1, <4>3, AppendProperties
            <4>5. Len(feed[c]) \in Nat
                BY <2>2, LenProperties DEF TypeOK
            <4> QED BY <2>2, <4>2, <4>4, <4>5, BoundAssumption DEF TypeOK, BoundAssumption
        <3> QED BY <3>1, <3>2
    <2> QED BY <1>6, <2>3, EndsType DEF CommitSync, TypeOK
<1>7. CASE CommitSweep(h)
    <2>1. cargo' \in [Cargos -> [status : Statuses, carrier : Carriers \cup {None}]]
        BY <1>7 DEF CommitSweep, TypeOK, Statuses
    <2> QED BY <1>7, <2>1, EndsType DEF CommitSweep, TypeOK
<1> QED BY <1>1, <1>2, <1>3, <1>4, <1>5, <1>6, <1>7 DEF Commits

\* Every step keeps the types.
LEMMA NextType ==
    ASSUME HandsAssumption, BoundAssumption, TypeOK, [Next]_vars PROVE TypeOK'
<1>1. ASSUME NEW h \in Hands, RollBack(h) PROVE TypeOK'
    BY <1>1, EndsType DEF RollBack, TypeOK
<1>2. CASE UNCHANGED vars
    BY <1>2 DEF vars, TypeOK
<1> QED BY <1>1, <1>2, ReadsType, CommitsType DEF Next

\* The empty tables have their types.
LEMMA InitType == ASSUME BoundAssumption, Init PROVE TypeOK
<1>1. Idle \in Handlers
    BY IdleType
<1>2. <<>> \in Seq(EventStatuses) /\ Len(<<>>) = 0
    OBVIOUS
<1> QED BY <1>1, <1>2 DEF Init, TypeOK, Statuses, Verdicts, BoundAssumption

\* Cargos, responses, feed events and handlers keep their types, however many
\* handlers run at once.
THEOREM TypeCorrect == Spec => []TypeOK
<1>1. Init => TypeOK
    BY InitType, BoundAssumption
<1>2. TypeOK /\ [Next]_vars => TypeOK'
    BY NextType, HandsAssumption, BoundAssumption
<1> QED BY <1>1, <1>2, PTL DEF Spec

-----------------------------------------------------------------------------
(* One carrier.                                                             *)

\* Most steps write neither a carrier nor a verdict and bring no accept, reject
\* or response into flight: they keep the invariant.
LEMMA QuietStep ==
    ASSUME IInv, TypeOK', NEW h \in Hands,
           verdict' = verdict,
           \A c \in Cargos : cargo'[c].carrier = cargo[c].carrier,
           \A c \in Cargos : cargo'[c].status \in {"absent", "new"}
                                => cargo[c].status \in {"absent", "new"},
           \A g \in Hands : \/ hand'[g] = hand[g]
                            \/ (g = h /\ hand'[h].op \notin {"accept", "reject", "respond"})
    PROVE  IInv'
<1>1. NewIsFree'
    BY DEF IInv, NewIsFree
<1>2. NotTaken'
    <2> SUFFICES ASSUME NEW g \in Hands, hand'[g].op = "accept"
                 PROVE  /\ Owns(g)
                        /\ hand'[g].resp \in Responses
                        /\ cargo'[hand'[g].resp.cargo].carrier = None
        BY DEF NotTaken, Owns
    <2>1. hand'[g] = hand[g]
        OBVIOUS
    <2>2. hand[g].resp.cargo \in Cargos
        BY <2>1 DEF IInv, NotTaken, Responses
    <2> QED BY <2>1, <2>2 DEF IInv, NotTaken
<1>3. NotResponded'
    BY DEF IInv, NotResponded, RowsOf
<1>6. RowIsThere'
    BY DEF IInv, RowIsThere
<1>4. AcceptedIsCarrier'
    BY DEF IInv, AcceptedIsCarrier, Responses
<1>5. OneResponseEach'
    BY DEF IInv, OneResponseEach, RowsOf
<1> QED BY <1>1, <1>2, <1>3, <1>4, <1>5, <1>6 DEF IInv

\* A handler that ends leaves the others where they are.
LEMMA EndsAlone ==
    ASSUME TypeOK, NEW h \in Hands, Ends(h)
    PROVE  \A g \in Hands : \/ hand'[g] = hand[g]
                            \/ (g = h /\ hand'[h].op \notin {"accept", "reject", "respond"})
BY DEF Ends, TypeOK, Idle, Handler

\* So does one that only reads.
LEMMA HoldsAlone ==
    ASSUME TypeOK, NEW h \in Hands, NEW op, NEW on, NEW r, NEW seen, NEW event,
           Holds(h, op, on, r, seen, event)
    PROVE  /\ hand'[h] = Handler(op, on, r, seen, event)
           /\ \A g \in Hands \ {h} : hand'[g] = hand[g]
           /\ cargo' = cargo /\ verdict' = verdict
BY DEF Holds, TypeOK

\* Reading for anything but an accept, a reject or a response.
LEMMA HoldsQuiet ==
    ASSUME IInv, TypeOK', NEW h \in Hands, NEW op, NEW on, NEW r, NEW seen, NEW event,
           op \notin {"accept", "reject", "respond"}, Holds(h, op, on, r, seen, event)
    PROVE  IInv'
<1>1. /\ hand'[h] = Handler(op, on, r, seen, event)
      /\ \A g \in Hands \ {h} : hand'[g] = hand[g]
      /\ cargo' = cargo /\ verdict' = verdict
    BY HoldsAlone DEF IInv
<1>2. hand'[h].op = op
    BY <1>1 DEF Handler
<1> QED BY <1>1, <1>2, QuietStep

\* A cargo is born from a row that was not there, hence without a carrier.
LEMMA BornQuiet ==
    ASSUME IInv, NEW c \in Cargos, cargo[c].status = "absent", cargo' = Born(c)
    PROVE  /\ \A d \in Cargos : cargo'[d].carrier = cargo[d].carrier
           /\ \A d \in Cargos : cargo'[d].status \in {"absent", "new"}
                                   => cargo[d].status \in {"absent", "new"}
BY DEF Born, IInv, NewIsFree, TypeOK

\* The reading half of every handler keeps the invariant.
LEMMA ReadsIInv ==
    ASSUME IInv, TypeOK', NEW h \in Hands, Reads(h) PROVE IInv'
<1>1. ASSUME NEW c \in Cargos, RespondInWebapp(h, c) \/ RespondInBot(h, c) PROVE IInv'
    <2>1. /\ UserOf[h] \in Carriers
          /\ RowsOf(c, UserOf[h]) = {}
          /\ Holds(h, "respond", {c}, None, "absent", 0)
        BY <1>1 DEF RespondInWebapp, RespondInBot, NoneYet, Takes
    <2>2. /\ hand'[h] = Handler("respond", {c}, None, "absent", 0)
          /\ \A g \in Hands \ {h} : hand'[g] = hand[g]
          /\ cargo' = cargo /\ verdict' = verdict
        BY <2>1, HoldsAlone DEF IInv
    <2>3. hand'[h].op = "respond" /\ hand'[h].on = {c}
        BY <2>2 DEF Handler
    <2>4. NotResponded'
        <3> SUFFICES ASSUME NEW g \in Hands, hand'[g].op = "respond"
                     PROVE  /\ UserOf[g] \in Carriers
                            /\ \A d \in hand'[g].on : RowsOf(d, UserOf[g])' = {}
            BY DEF NotResponded
        <3>1. \A d, k : RowsOf(d, k)' = RowsOf(d, k)
            BY <2>2 DEF RowsOf
        <3>2. CASE g = h
            BY <2>1, <2>3, <3>1, <3>2
        <3>3. CASE g # h
            BY <2>2, <3>1, <3>3 DEF IInv, NotResponded
        <3> QED BY <3>2, <3>3
    <2>5. NotTaken'
        BY <2>2, <2>3 DEF IInv, NotTaken, Owns
    <2>6. RowIsThere'
        BY <2>2, <2>3 DEF IInv, RowIsThere
    <2> QED BY <2>2, <2>4, <2>5, <2>6
         DEF IInv, NewIsFree, AcceptedIsCarrier, OneResponseEach, RowsOf
<1>2. ASSUME NEW r \in Responses, ReadForAccept(h, r) PROVE IInv'
    <2>1. /\ Owns(h) /\ cargo[r.cargo].status = "new" /\ r.cargo \in Cargos
          /\ Holds(h, "accept", {r.cargo}, r, cargo[r.cargo].status, 0)
        BY <1>2 DEF ReadForAccept, AcceptGuard, Responses
    <2>2. /\ hand'[h] = Handler("accept", {r.cargo}, r, cargo[r.cargo].status, 0)
          /\ \A g \in Hands \ {h} : hand'[g] = hand[g]
          /\ cargo' = cargo /\ verdict' = verdict
        BY <2>1, HoldsAlone DEF IInv
    <2>3. hand'[h].op = "accept" /\ hand'[h].resp = r
        BY <2>2 DEF Handler
    <2>4. cargo[r.cargo].carrier = None
        BY <2>1 DEF IInv, NewIsFree
    <2>5. NotTaken'
        BY <2>1, <2>2, <2>3, <2>4 DEF IInv, NotTaken, Owns
    <2>6. NotResponded'
        BY <2>2, <2>3 DEF IInv, NotResponded, RowsOf
    <2>7. RowIsThere'
        BY <1>2, <2>2, <2>3 DEF IInv, RowIsThere, ReadForAccept
    <2> QED BY <2>2, <2>5, <2>6, <2>7
         DEF IInv, NewIsFree, AcceptedIsCarrier, OneResponseEach, RowsOf
<1>3. ASSUME NEW r \in Responses, RefuseAccept(h, r) PROVE IInv'
    BY <1>3, HoldsQuiet DEF RefuseAccept
<1>9. ASSUME NEW r \in Responses, ReadForReject(h, r) PROVE IInv'
    <2>1. verdict[r] # "absent" /\ Holds(h, "reject", {r.cargo}, r, verdict[r], 0)
        BY <1>9 DEF ReadForReject
    <2>2. /\ hand'[h] = Handler("reject", {r.cargo}, r, verdict[r], 0)
          /\ \A g \in Hands \ {h} : hand'[g] = hand[g]
          /\ cargo' = cargo /\ verdict' = verdict
        BY <2>1, HoldsAlone DEF IInv
    <2>3. hand'[h].op = "reject" /\ hand'[h].resp = r
        BY <2>2 DEF Handler
    <2>4. NotTaken'
        BY <2>2, <2>3 DEF IInv, NotTaken, Owns
    <2>5. NotResponded'
        BY <2>2, <2>3 DEF IInv, NotResponded, RowsOf
    <2>6. RowIsThere'
        BY <2>1, <2>2, <2>3 DEF IInv, RowIsThere
    <2> QED BY <2>2, <2>4, <2>5, <2>6
         DEF IInv, NewIsFree, AcceptedIsCarrier, OneResponseEach, RowsOf
<1>4. ASSUME NEW c \in Cargos,
             \/ ReadForComplete(h, c) \/ ReadForCancel(h, c) \/ ReadForDelete(h, c)
             \/ ReadForArchive(h, c) \/ ReadForRestore(h, c) \/ ReadForBump(h, c)
      PROVE  IInv'
    BY <1>4, HoldsQuiet DEF ReadForComplete, ReadForCancel, ReadForDelete, ReadForArchive,
                            ReadForRestore, ReadForBump, Takes
<1>5. ASSUME NEW c \in Cargos, CreateInWebapp(h, c) PROVE IInv'
    <2>1. cargo[c].status = "absent" /\ cargo' = Born(c) /\ hand' = hand /\ verdict' = verdict
        BY <1>5 DEF CreateInWebapp
    <2> QED BY <2>1, BornQuiet, QuietStep
<1>6. ASSUME NEW c \in Cargos, CreateInBot(h, c) PROVE IInv'
    <2>1. /\ cargo[c].status = "absent" /\ cargo' = Born(c) /\ verdict' = verdict
          /\ hand' = [hand EXCEPT ![h] = Handler("sync", {c}, None, "absent", 0)]
        BY <1>6 DEF CreateInBot
    <2>2. hand'[h].op = "sync" /\ \A g \in Hands \ {h} : hand'[g] = hand[g]
        BY <2>1 DEF Handler, IInv, TypeOK
    <2> QED BY <2>1, <2>2, BornQuiet, QuietStep
<1>7. CASE ReadForSync(h)
    <2>1. PICK c \in hand[h].on :
              hand' = [hand EXCEPT ![h].event = Len(feed[c]),
                          ![h].op = IF hand[h].op = "sync" THEN "refresh" ELSE "republish"]
        BY <1>7 DEF ReadForSync
    <2>2. hand[h] \in Handlers
        BY DEF IInv, TypeOK
    <2>3. hand'[h].op \in {"refresh", "republish"}
        BY <2>1, <2>2 DEF IInv, TypeOK, Handlers
    <2>4. \A g \in Hands \ {h} : hand'[g] = hand[g]
        BY <2>1 DEF IInv, TypeOK
    <2>5. cargo' = cargo /\ verdict' = verdict
        BY <1>7 DEF ReadForSync
    <2> QED BY <2>3, <2>4, <2>5, QuietStep
<1>8. CASE ReadForSweep(h)
    BY <1>8, HoldsQuiet DEF ReadForSweep
<1> QED BY <1>1, <1>2, <1>3, <1>4, <1>5, <1>6, <1>7, <1>8, <1>9 DEF Reads

\* A response is inserted: the carrier had none, and no other handler of this
\* carrier is in flight.
LEMMA InsertIInv ==
    ASSUME HandsAssumption, OneAtATime, IInv, TypeOK', NEW h \in Hands, InsertResponse(h)
    PROVE  IInv'
<1>1. PICK r \in Responses :
          /\ hand[h].on = {r.cargo} /\ r.carrier = UserOf[h]
          /\ verdict' = [verdict EXCEPT ![r] = "pending"]
    BY DEF InsertResponse
<1>2. cargo' = cargo /\ hand[h].op = "respond" /\ hand' = [hand EXCEPT ![h] = Idle]
    BY DEF InsertResponse, Ends
<1>3. RowsOf(r.cargo, r.carrier) = {}
    BY <1>1, <1>2 DEF IInv, NotResponded
<1>4. hand'[h].op = "idle" /\ \A g \in Hands \ {h} : hand'[g] = hand[g]
    BY <1>2 DEF IInv, TypeOK, Idle, Handler
<1>5. \A q \in Responses : q # r => verdict'[q] = verdict[q]
    BY <1>1 DEF IInv, TypeOK
<1>6. verdict'[r] = "pending"
    BY <1>1 DEF IInv, TypeOK
<1>7. NotTaken'
    BY <1>2, <1>4 DEF IInv, NotTaken, Owns
<1>11. RowIsThere'
    BY <1>4, <1>5, <1>6 DEF IInv, RowIsThere
<1>8. NotResponded'
    <2> SUFFICES ASSUME NEW g \in Hands, hand'[g].op = "respond"
                 PROVE  /\ UserOf[g] \in Carriers
                        /\ \A c \in hand'[g].on : RowsOf(c, UserOf[g])' = {}
        BY DEF NotResponded
    <2>1. g # h /\ hand'[g] = hand[g]
        BY <1>4
    <2>2. UserOf[g] \in Carriers /\ \A c \in hand[g].on : RowsOf(c, UserOf[g]) = {}
        BY <2>1 DEF IInv, NotResponded
    <2>3. UserOf[g] # r.carrier
        BY <1>1, <2>1 DEF OneAtATime
    <2>4. ASSUME NEW c \in hand[g].on PROVE RowsOf(c, UserOf[g])' = {}
        BY <1>5, <2>2, <2>3 DEF RowsOf
    <2> QED BY <2>1, <2>2, <2>4
<1>9. AcceptedIsCarrier'
    BY <1>2, <1>5, <1>6 DEF IInv, AcceptedIsCarrier
<1>10. OneResponseEach'
    <2> SUFFICES ASSUME NEW c \in Cargos, NEW k \in Carriers
                 PROVE  Cardinality(RowsOf(c, k)') <= 1
        BY DEF OneResponseEach
    <2>1. CASE c = r.cargo /\ k = r.carrier
        <3>1. RowsOf(c, k)' = {r}
            BY <1>3, <1>5, <1>6, <2>1 DEF RowsOf
        <3> QED BY <3>1, FS_Singleton
    <2>2. CASE ~(c = r.cargo /\ k = r.carrier)
        <3>1. RowsOf(c, k)' = RowsOf(c, k)
            BY <1>5, <1>6, <2>2 DEF RowsOf
        <3> QED BY <3>1 DEF IInv, OneResponseEach
    <2> QED BY <2>1, <2>2
<1> QED BY <1>2, <1>7, <1>8, <1>9, <1>10, <1>11 DEF IInv, NewIsFree

\* An accept is committed: the cargo had no carrier, so no response to it was
\* accepted, and no other accept is in flight.
LEMMA AcceptIInv ==
    ASSUME HandsAssumption, OneAtATime, IInv, TypeOK', NEW h \in Hands, CommitAccept(h)
    PROVE  IInv'
<1> DEFINE r == hand[h].resp
<1>1. /\ hand[h].op = "accept" /\ hand' = [hand EXCEPT ![h] = Idle]
      /\ cargo' = Started(r) /\ verdict' = Judged(r)
    BY DEF CommitAccept, Ends
<1>2. Owns(h) /\ r \in Responses /\ cargo[r.cargo].carrier = None
    BY <1>1 DEF IInv, NotTaken
<1> HIDE DEF r
<1>3. r.cargo \in Cargos /\ r.carrier \in Carriers /\ r.carrier # None
    BY <1>2, HandsAssumption DEF Responses, HandsAssumption
<1>4. \A q \in Responses : q.cargo = r.cargo => verdict[q] # "yes"
    <2> SUFFICES ASSUME NEW q \in Responses, q.cargo = r.cargo, verdict[q] = "yes"
                 PROVE  FALSE
        OBVIOUS
    <2>1. cargo[r.cargo].carrier = q.carrier
        BY DEF IInv, AcceptedIsCarrier
    <2> QED BY <1>2, <2>1, HandsAssumption DEF Responses, HandsAssumption
<1>5. hand'[h].op = "idle" /\ \A g \in Hands \ {h} : hand'[g] = hand[g]
    BY <1>1 DEF IInv, TypeOK, Idle, Handler
<1>6. /\ cargo'[r.cargo].status = "in_progress" /\ cargo'[r.cargo].carrier = r.carrier
      /\ \A c \in Cargos \ {r.cargo} : cargo'[c] = cargo[c]
    BY <1>1, <1>3 DEF Started, IInv, TypeOK
<1>7. NewIsFree'
    BY <1>6 DEF IInv, NewIsFree
<1>8. NotTaken'
    <2> SUFFICES ASSUME NEW g \in Hands, hand'[g].op = "accept" PROVE FALSE
        BY DEF NotTaken
    <2>1. g # h /\ hand[g].op = "accept"
        BY <1>5
    <2>2. Owns(g)
        BY <2>1 DEF IInv, NotTaken
    <2> QED BY <1>2, <2>1, <2>2 DEF OneAtATime, Owns
<1>9. \A q \in Responses : (verdict'[q] = "absent") <=> (verdict[q] = "absent")
    <2> SUFFICES ASSUME NEW q \in Responses
                 PROVE  (verdict'[q] = "absent") <=> (verdict[q] = "absent")
        OBVIOUS
    <2>1. verdict[r] # "absent"
        BY <1>1 DEF IInv, RowIsThere, r
    <2> QED BY <1>1, <2>1 DEF Judged
<1>10. \A c, k : RowsOf(c, k)' = RowsOf(c, k)
    BY <1>9 DEF RowsOf
<1>11. RowIsThere'
    BY <1>5, <1>9 DEF IInv, RowIsThere
<1>12. NotResponded'
    BY <1>5, <1>10 DEF IInv, NotResponded
<1>13. OneResponseEach'
    BY <1>10 DEF IInv, OneResponseEach
<1>14. AcceptedIsCarrier'
    <2> SUFFICES ASSUME NEW q \in Responses, verdict'[q] = "yes"
                 PROVE  cargo'[q.cargo].carrier = q.carrier
        BY DEF AcceptedIsCarrier
    <2>1. CASE q = r
        BY <1>6, <2>1
    <2>2. CASE q # r
        <3>1. verdict[q] = "yes"
            BY <1>1, <2>2 DEF Judged
        <3>2. q.cargo \in Cargos /\ q.cargo # r.cargo
            BY <1>4, <3>1 DEF Responses
        <3> QED BY <1>6, <3>1, <3>2 DEF IInv, AcceptedIsCarrier
    <2> QED BY <2>1, <2>2
<1> QED BY <1>7, <1>8, <1>11, <1>12, <1>13, <1>14 DEF IInv

\* A reject only takes an acceptance away.
LEMMA RejectIInv ==
    ASSUME IInv, TypeOK', NEW h \in Hands, CommitReject(h) PROVE IInv'
<1> DEFINE r == hand[h].resp
<1>1. /\ hand[h].op = "reject" /\ hand' = [hand EXCEPT ![h] = Idle] /\ cargo' = cargo
      /\ verdict' \in {verdict, [verdict EXCEPT ![r] = "no"]}
    BY DEF CommitReject, Ends
<1>2. r \in Responses /\ verdict[r] # "absent"
    BY <1>1 DEF IInv, RowIsThere
<1> HIDE DEF r
<1>3. hand'[h].op = "idle" /\ \A g \in Hands \ {h} : hand'[g] = hand[g]
    BY <1>1 DEF IInv, TypeOK, Idle, Handler
<1>4. \A q \in Responses : \/ verdict'[q] = verdict[q]
                            \/ (verdict'[q] = "no" /\ verdict[q] # "absent")
    BY <1>1, <1>2 DEF IInv, TypeOK
<1>5. \A c, k : RowsOf(c, k)' = RowsOf(c, k)
    BY <1>4 DEF RowsOf
<1>6. NotTaken'
    BY <1>1, <1>3 DEF IInv, NotTaken, Owns
<1>7. RowIsThere'
    BY <1>3, <1>4 DEF IInv, RowIsThere
<1>8. NotResponded'
    BY <1>3, <1>5 DEF IInv, NotResponded
<1>9. OneResponseEach'
    BY <1>5 DEF IInv, OneResponseEach
<1>10. AcceptedIsCarrier'
    BY <1>1, <1>4 DEF IInv, AcceptedIsCarrier
<1> QED BY <1>1, <1>6, <1>7, <1>8, <1>9, <1>10 DEF IInv, NewIsFree

\* The writing half of every handler keeps the invariant.
LEMMA CommitsIInv ==
    ASSUME HandsAssumption, OneAtATime, IInv, TypeOK', NEW h \in Hands, Commits(h)
    PROVE  IInv'
<1>1. CASE InsertResponse(h) \/ CommitAccept(h) \/ CommitReject(h)
    BY <1>1, InsertIInv, AcceptIInv, RejectIInv
<1>2. ASSUME NEW c \in Cargos, NEW st \in Statuses \ {"absent", "new"},
             cargo' = Updated(c, st), verdict' = verdict, Ends(h)
      PROVE  IInv'
    <2>1. /\ \A d \in Cargos : cargo'[d].carrier = cargo[d].carrier
          /\ \A d \in Cargos : cargo'[d].status \in {"absent", "new"}
                                  => cargo[d].status \in {"absent", "new"}
        BY <1>2 DEF Updated, IInv, TypeOK
    <2> QED BY <1>2, <2>1, EndsAlone, QuietStep DEF IInv
<1>3. ASSUME cargo' = cargo, verdict' = verdict, Ends(h) PROVE IInv'
    BY <1>3, EndsAlone, QuietStep DEF IInv
<1>4. hand[h].on \subseteq Cargos
    BY DEF IInv, TypeOK, Handlers
<1>5. CASE CommitStatus(h)
    <2>1. PICK c \in hand[h].on : cargo' = cargo \/ cargo' = Updated(c, Target(hand[h].op))
        BY <1>5 DEF CommitStatus
    <2>2. Target(hand[h].op) \in Statuses \ {"absent", "new"}
        BY <1>5 DEF CommitStatus, Target, Statuses
    <2>3. verdict' = verdict /\ Ends(h)
        BY <1>5 DEF CommitStatus
    <2> QED BY <1>2, <1>3, <1>4, <2>1, <2>2, <2>3
<1>6. CASE CommitDelete(h)
    <2>1. "deleted" \in Statuses \ {"absent", "new"}
        BY DEF Statuses
    <2> QED BY <1>2, <1>4, <1>6, <2>1 DEF CommitDelete
<1>7. CASE CommitSync(h)
    BY <1>3, <1>7 DEF CommitSync
<1>8. CASE CommitSweep(h)
    <2>1. /\ \A d \in Cargos : cargo'[d].carrier = cargo[d].carrier
          /\ \A d \in Cargos : cargo'[d].status \in {"absent", "new"}
                                  => cargo[d].status \in {"absent", "new"}
        BY <1>8 DEF CommitSweep, IInv, TypeOK
    <2> QED BY <1>8, <2>1, EndsAlone, QuietStep DEF CommitSweep, IInv
<1> QED BY <1>1, <1>5, <1>6, <1>7, <1>8 DEF Commits

\* Every step keeps the invariant.
LEMMA NextIInv ==
    ASSUME HandsAssumption, BoundAssumption, OneAtATime, IInv, [Next]_vars PROVE IInv'
<1>1. TypeOK'
    BY NextType DEF IInv
<1>2. ASSUME NEW h \in Hands, RollBack(h) PROVE IInv'
    BY <1>1, <1>2, EndsAlone, QuietStep DEF RollBack, IInv
<1>3. CASE UNCHANGED vars
    BY <1>1, <1>3 DEF vars, IInv, NewIsFree, NotTaken, RowIsThere, NotResponded, RowsOf,
                      AcceptedIsCarrier, OneResponseEach, Owns
<1> QED BY <1>1, <1>2, <1>3, ReadsIInv, CommitsIInv DEF Next

\* It holds of the empty tables.
LEMMA InitIInv == ASSUME BoundAssumption, Init PROVE IInv
<1>1. \A c, k : RowsOf(c, k) = {}
    BY DEF Init, RowsOf
<1>2. OneResponseEach
    BY <1>1, FS_EmptySet DEF OneResponseEach
<1> QED BY <1>2, InitType
     DEF Init, IInv, NewIsFree, NotTaken, RowIsThere, NotResponded, AcceptedIsCarrier,
         Idle, Handler, Responses

\* The invariant of every behaviour in which users do one thing at a time.
LEMMA Invariance == ASSUME OneAtATime PROVE Spec => []IInv
<1>1. Init => IInv
    BY InitIInv, BoundAssumption
<1>2. IInv /\ [Next]_vars => IInv'
    BY NextIInv, HandsAssumption, BoundAssumption
<1> QED BY <1>1, <1>2, PTL DEF Spec

\* The accepted response is that of the cargo's carrier: accept_response_cb
\* never leaves two carriers accepted, whatever runs beside it.
THEOREM OneCarrier == ASSUME OneAtATime PROVE Spec => []AcceptedIsCarrier
<1>1. IInv => AcceptedIsCarrier
    BY DEF IInv
<1> QED BY <1>1, Invariance, PTL

\* respond_cargo and webapp_respond never leave a carrier two rows.
THEOREM ResponsesAreSingle == ASSUME OneAtATime PROVE Spec => []OneResponseEach
<1>1. IInv => OneResponseEach
    BY DEF IInv
<1> QED BY <1>1, Invariance, PTL

\* No step changes the carrier of a cargo that has one.
LEMMA CarrierStep ==
    ASSUME IInv, [Next]_vars, NEW c \in Cargos, cargo[c].carrier # None
    PROVE  cargo'[c].carrier = cargo[c].carrier
<1>0. cargo \in [Cargos -> [status : Statuses, carrier : Carriers \cup {None}]]
    BY DEF IInv, TypeOK
<1>1. CASE cargo' = cargo
    BY <1>1
<1>2. ASSUME NEW d \in Cargos, cargo[d].status = "absent", cargo' = Born(d)
      PROVE  cargo'[c].carrier = cargo[c].carrier
    BY <1>2, BornQuiet
<1>3. ASSUME NEW d \in Cargos, NEW st, cargo' = Updated(d, st)
      PROVE  cargo'[c].carrier = cargo[c].carrier
    BY <1>0, <1>3 DEF Updated
<1>4. ASSUME NEW h \in Hands, Reads(h) PROVE cargo'[c].carrier = cargo[c].carrier
    <2>1. \/ cargo' = cargo
          \/ \E d \in Cargos : CreateInWebapp(h, d) \/ CreateInBot(h, d)
        BY <1>4 DEF Reads, RespondInWebapp, RespondInBot, ReadForComplete, ReadForCancel,
                    ReadForDelete, ReadForArchive, ReadForRestore, ReadForBump, ReadForAccept,
                    RefuseAccept, ReadForReject, ReadForSync, ReadForSweep, Takes, Holds
    <2> QED BY <1>1, <1>2, <2>1 DEF CreateInWebapp, CreateInBot
<1>5. ASSUME NEW h \in Hands, Commits(h) PROVE cargo'[c].carrier = cargo[c].carrier
    <2>0. hand[h].on \subseteq Cargos
        BY <1>5 DEF IInv, TypeOK, Handlers
    <2>1. CASE CommitAccept(h)
        <3>1. cargo' = Started(hand[h].resp) /\ hand[h].op = "accept"
            BY <2>1 DEF CommitAccept
        <3>2. hand[h].resp.cargo # c
            BY <3>1 DEF IInv, NotTaken
        <3> QED BY <1>0, <3>1, <3>2 DEF Started
    <2>2. CASE CommitStatus(h) \/ CommitDelete(h)
        <3>1. \/ cargo' = cargo
              \/ \E d \in Cargos, st \in Statuses \cup {Target(hand[h].op)} :
                    cargo' = Updated(d, st)
            BY <2>0, <2>2 DEF CommitStatus, CommitDelete, Statuses
        <3> QED BY <1>1, <1>3, <3>1
    <2>3. CASE CommitSweep(h)
        BY <1>0, <2>3 DEF CommitSweep
    <2> QED BY <1>1, <1>5, <2>1, <2>2, <2>3
         DEF Commits, InsertResponse, CommitReject, CommitSync
<1> QED BY <1>1, <1>4, <1>5 DEF Next, RollBack, vars

\* A carrier who was accepted is never displaced: not by archiving and
\* restoring the cargo, nor by an accept that began before another ended.
THEOREM CarrierStays == ASSUME OneAtATime PROVE Spec => CarrierIsFinal
<1>1. IInv /\ [Next]_vars =>
        [\A c \in Cargos : cargo[c].carrier # None
                              => cargo'[c].carrier = cargo[c].carrier]_vars
    BY CarrierStep
<1> QED BY <1>1, Invariance, PTL DEF Spec, CarrierIsFinal


-----------------------------------------------------------------------------
(* The feed.  ShownOnce and TakenDownStaysDown need what an owner's handler  *)
(* in flight found: the latest event, which nobody else touches, and a cargo *)
(* that is still on offer, archived or bare of events.                       *)

\* What the owner's handlers are doing between their two steps.
OwnerOps == {"complete", "cancel", "delete", "archive", "restore", "sync", "bump", "refresh",
             "republish"}

LastIs(c, st) == feed[c] # <<>> /\ feed[c][Len(feed[c])] = st

OnlyLastShown ==
    \A c \in Cargos : \A i \in 1 .. Len(feed[c]) : i # Len(feed[c]) => feed[c][i] = "replaced"

UnbornIsBare == \A c \in Cargos : cargo[c].status = "absent" => feed[c] = <<>>

DownIsNotOffered ==
    \A c \in Cargos : LastIs(c, "ignored") => cargo[c].status \notin {"absent", "new", "active"}

\* What handler h found of cargo c, and still finds.
Found(h, c) ==
    /\ hand[h].op \in {"archive", "restore", "refresh", "republish"}
          => hand[h].event = Len(feed[c])
    /\ hand[h].op = "archive" /\ hand[h].seen = "archived" => cargo[c].status = "archived"
    /\ hand[h].op = "restore" => hand[h].seen = "archived" /\ cargo[c].status = "archived"
    /\ hand[h].op \in {"sync", "refresh"} => feed[c] = <<>>
    /\ hand[h].op \in {"bump", "republish"} => ~LastIs(c, "ignored")
    /\ hand[h].op \in {"sync", "bump", "refresh", "republish"} => cargo[c].status # "absent"

HandTrue(h) == Owns(h) /\ \E c \in Cargos : hand[h].on = {c} /\ Found(h, c)

HandsTrue == \A h \in Hands : hand[h].op \in OwnerOps => HandTrue(h)

FeedInv == OnlyLastShown /\ UnbornIsBare /\ DownIsNotOffered /\ HandsTrue

\* Of two handlers only one is the owner's.
LEMMA OneOwnerHand ==
    ASSUME OneAtATime, NEW g \in Hands, NEW h \in Hands, g # h, Owns(h)
    PROVE  ~Owns(g)
BY DEF OneAtATime, Owns

\* A step that leaves the feed alone, and of the cargos' statuses changes no
\* more than the job does, or the owner's handler to one that is not on offer.
LEMMA FeedQuiet ==
    ASSUME OneAtATime, FeedInv, NEW h \in Hands, feed' = feed,
           \A g \in Hands \ {h} : hand'[g] = hand[g],
           hand'[h].op \in OwnerOps => HandTrue(h)',
           \A c \in Cargos : \/ cargo'[c].status = cargo[c].status
                             \/ cargo'[c].status = "archived"
                             \/ Owns(h) /\ cargo'[c].status \notin {"absent", "new", "active"}
    PROVE  FeedInv'
<1>1. OnlyLastShown'
    BY DEF FeedInv, OnlyLastShown
<1>2. UnbornIsBare'
    BY DEF FeedInv, UnbornIsBare
<1>3. DownIsNotOffered'
    BY DEF FeedInv, DownIsNotOffered, LastIs
<1>4. HandsTrue'
    <2> SUFFICES ASSUME NEW g \in Hands, hand'[g].op \in OwnerOps PROVE HandTrue(g)'
        BY DEF HandsTrue
    <2>1. CASE g = h
        BY <2>1
    <2>2. CASE g # h
        <3>1. hand'[g] = hand[g] /\ HandTrue(g)
            BY <2>2 DEF FeedInv, HandsTrue
        <3>2. PICK c \in Cargos : hand[g].on = {c} /\ Found(g, c)
            BY <3>1 DEF HandTrue
        <3>3. ~Owns(h)
            BY <2>2, <3>1, OneOwnerHand DEF HandTrue
        <3>4. Found(g, c)'
            BY <3>1, <3>2, <3>3 DEF Found, LastIs
        <3> QED BY <3>1, <3>2, <3>4 DEF HandTrue, Owns
    <2> QED BY <2>1, <2>2
<1> QED BY <1>1, <1>2, <1>3, <1>4 DEF FeedInv

\* A handler that only reads, and whose findings are true.
LEMMA FeedReads ==
    ASSUME OneAtATime, IInv, FeedInv, NEW h \in Hands, NEW op, NEW on, NEW r, NEW seen, NEW event,
           Holds(h, op, on, r, seen, event), op \in OwnerOps => HandTrue(h)'
    PROVE  FeedInv'
<1>1. /\ hand'[h] = Handler(op, on, r, seen, event)
      /\ \A g \in Hands \ {h} : hand'[g] = hand[g]
      /\ cargo' = cargo
    BY HoldsAlone DEF IInv
<1>2. hand'[h].op = op
    BY <1>1 DEF Handler
<1>3. feed' = feed
    BY DEF Holds
<1> QED BY <1>1, <1>2, <1>3, FeedQuiet

\* The same of the owner's handler about one cargo.
LEMMA FeedTakes ==
    ASSUME OneAtATime, IInv, FeedInv, NEW h \in Hands, Owns(h), NEW c \in Cargos,
           NEW op, NEW seen, NEW event, Takes(h, op, c, seen, event),
           op \in {"archive", "restore", "refresh", "republish"} => event = Len(feed[c]),
           op = "archive" /\ seen = "archived" => cargo[c].status = "archived",
           op = "restore" => seen = "archived" /\ cargo[c].status = "archived",
           op \in {"sync", "refresh"} => feed[c] = <<>>,
           op \in {"bump", "republish"} => ~LastIs(c, "ignored"),
           op \in {"sync", "bump", "refresh", "republish"} => cargo[c].status # "absent"
    PROVE  FeedInv'
<1>1. Holds(h, op, {c}, None, seen, event)
    BY DEF Takes
<1>2. hand'[h] = Handler(op, {c}, None, seen, event) /\ cargo' = cargo
    BY <1>1, HoldsAlone DEF IInv
<1>3. feed' = feed
    BY <1>1 DEF Holds
<1>4. /\ hand'[h].op = op /\ hand'[h].on = {c} /\ hand'[h].seen = seen
      /\ hand'[h].event = event
    BY <1>2 DEF Handler
<1>5. Found(h, c)'
    BY <1>2, <1>3, <1>4 DEF Found, LastIs
<1>6. HandTrue(h)'
    BY <1>4, <1>5 DEF HandTrue, Owns
<1> QED BY <1>1, <1>6, FeedReads

\* While the owner's hand is idle, nobody is at work on the feed.
LEMMA NobodyElse ==
    ASSUME OneAtATime, FeedInv, NEW h \in Hands, Owns(h), NEW g \in Hands, g # h
    PROVE  hand[g].op \notin OwnerOps
BY OneOwnerHand DEF FeedInv, HandsTrue, HandTrue

\* Publishing in the Mini App: the cargo and its only event.
LEMMA CreateWebFeed ==
    ASSUME OneAtATime, IInv, FeedInv, NEW h \in Hands, NEW c \in Cargos, CreateInWebapp(h, c)
    PROVE  FeedInv'
<1>1. /\ Owns(h) /\ hand' = hand /\ hand[h] = Idle /\ cargo' = Born(c)
      /\ feed' = [feed EXCEPT ![c] = <<"synced">>]
    BY DEF CreateInWebapp
<1>2. /\ cargo'[c].status = "new" /\ feed'[c] = <<"synced">>
      /\ \A d \in Cargos \ {c} : cargo'[d] = cargo[d] /\ feed'[d] = feed[d]
    BY <1>1 DEF Born, IInv, TypeOK
<1>3. OnlyLastShown'
    <2> SUFFICES ASSUME NEW d \in Cargos, NEW i \in 1 .. Len(feed'[d]), i # Len(feed'[d])
                 PROVE  feed'[d][i] = "replaced"
        BY DEF OnlyLastShown
    <2>1. CASE d = c
        <3>1. Len(feed'[d]) = 1
            BY <1>2, <2>1
        <3> QED BY <3>1
    <2>2. CASE d # c
        BY <1>2, <2>2 DEF FeedInv, OnlyLastShown
    <2> QED BY <2>1, <2>2
<1>4. UnbornIsBare'
    BY <1>2 DEF FeedInv, UnbornIsBare
<1>5. DownIsNotOffered'
    <2> SUFFICES ASSUME NEW d \in Cargos, LastIs(d, "ignored")'
                 PROVE  cargo'[d].status \notin {"absent", "new", "active"}
        BY DEF DownIsNotOffered
    <2>1. CASE d = c
        <3>1. Len(feed'[d]) = 1 /\ feed'[d][1] = "synced"
            BY <1>2, <2>1
        <3> QED BY <3>1 DEF LastIs
    <2>2. CASE d # c
        BY <1>2, <2>2 DEF FeedInv, DownIsNotOffered, LastIs
    <2> QED BY <2>1, <2>2
<1>6. HandsTrue'
    <2>1. \A g \in Hands : hand'[g].op \notin OwnerOps
        BY <1>1, NobodyElse DEF Idle, Handler, OwnerOps
    <2> QED BY <2>1 DEF HandsTrue
<1> QED BY <1>3, <1>4, <1>5, <1>6 DEF FeedInv

\* Publishing in the bot: a cargo that is bare of events yet.
LEMMA CreateBotFeed ==
    ASSUME OneAtATime, IInv, FeedInv, NEW h \in Hands, NEW c \in Cargos, CreateInBot(h, c)
    PROVE  FeedInv'
<1>1. /\ Owns(h) /\ cargo' = Born(c) /\ feed' = feed /\ cargo[c].status = "absent"
      /\ hand' = [hand EXCEPT ![h] = Handler("sync", {c}, None, "absent", 0)]
    BY DEF CreateInBot
<1>2. /\ cargo'[c].status = "new"
      /\ \A d \in Cargos \ {c} : cargo'[d] = cargo[d]
    BY <1>1 DEF Born, IInv, TypeOK
<1>3. hand'[h].op = "sync" /\ hand'[h].on = {c} /\ \A g \in Hands \ {h} : hand'[g] = hand[g]
    BY <1>1 DEF Handler, IInv, TypeOK
<1>4. feed[c] = <<>>
    BY <1>1 DEF FeedInv, UnbornIsBare
<1>5. OnlyLastShown' /\ UnbornIsBare'
    BY <1>1, <1>2 DEF FeedInv, OnlyLastShown, UnbornIsBare
<1>6. DownIsNotOffered'
    BY <1>1, <1>2, <1>4 DEF FeedInv, DownIsNotOffered, LastIs
<1>7. Found(h, c)'
    BY <1>1, <1>2, <1>3, <1>4 DEF Found
<1>8. HandsTrue'
    BY <1>1, <1>3, <1>7, NobodyElse DEF HandsTrue, HandTrue, Owns
<1> QED BY <1>5, <1>6, <1>8 DEF FeedInv

\* Reading the cargo again.
LEMMA ReadSyncFeed ==
    ASSUME OneAtATime, IInv, FeedInv, NEW h \in Hands, ReadForSync(h)
    PROVE  FeedInv'
<1>1. PICK c \in hand[h].on :
          hand' = [hand EXCEPT ![h].event = Len(feed[c]),
                      ![h].op = IF hand[h].op = "sync" THEN "refresh" ELSE "republish"]
    BY DEF ReadForSync
<1>2. hand[h].op \in {"sync", "bump"} /\ cargo' = cargo /\ feed' = feed
    BY DEF ReadForSync
<1>3. PICK d \in Cargos : Owns(h) /\ hand[h].on = {d} /\ Found(h, d)
    BY <1>2 DEF FeedInv, HandsTrue, HandTrue, OwnerOps
<1>4. d = c
    BY <1>1, <1>3
<1>5. hand \in [Hands -> Handlers]
    BY DEF IInv, TypeOK
<1>6. /\ \A g \in Hands \ {h} : hand'[g] = hand[g]
      /\ hand'[h].event = Len(feed[d]) /\ hand'[h].on = {d}
      /\ hand'[h].op = IF hand[h].op = "sync" THEN "refresh" ELSE "republish"
    BY <1>1, <1>3, <1>4, <1>5 DEF Handlers
<1>7. Found(h, d)'
    BY <1>2, <1>3, <1>6 DEF Found, LastIs
<1>8. HandTrue(h)'
    BY <1>3, <1>6, <1>7 DEF HandTrue, Owns
<1> QED BY <1>2, <1>6, <1>8, FeedQuiet

\* The reading half of every handler keeps what is known of the feed.
LEMMA ReadsFeed ==
    ASSUME OneAtATime, IInv, FeedInv, NEW h \in Hands, Reads(h)
    PROVE  FeedInv'
<1>1. ASSUME NEW c \in Cargos, RespondInWebapp(h, c) \/ RespondInBot(h, c) PROVE FeedInv'
    BY <1>1, FeedReads DEF RespondInWebapp, RespondInBot, Takes, OwnerOps
<1>2. ASSUME NEW c \in Cargos,
             ReadForComplete(h, c) \/ ReadForCancel(h, c) \/ ReadForDelete(h, c)
      PROVE  FeedInv'
    BY <1>2, FeedTakes DEF ReadForComplete, ReadForCancel, ReadForDelete
<1>3. ASSUME NEW c \in Cargos, ReadForArchive(h, c) \/ ReadForRestore(h, c) PROVE FeedInv'
    BY <1>3, FeedTakes DEF ReadForArchive, ReadForRestore
<1>4. ASSUME NEW c \in Cargos, ReadForBump(h, c) PROVE FeedInv'
    <2>1. ~LastIs(c, "ignored")
        BY <1>4 DEF ReadForBump, CanBump, FeedInv, DownIsNotOffered
    <2> QED BY <1>4, <2>1, FeedTakes DEF ReadForBump, CanBump
<1>5. ASSUME NEW c \in Cargos, CreateInWebapp(h, c) \/ CreateInBot(h, c) PROVE FeedInv'
    BY <1>5, CreateWebFeed, CreateBotFeed
<1>6. ASSUME NEW r \in Responses, ReadForAccept(h, r) \/ RefuseAccept(h, r) \/ ReadForReject(h, r)
      PROVE  FeedInv'
    BY <1>6, FeedReads DEF ReadForAccept, RefuseAccept, ReadForReject, OwnerOps
<1>7. CASE ReadForSync(h)
    BY <1>7, ReadSyncFeed
<1>8. CASE ReadForSweep(h)
    BY <1>8, FeedReads DEF ReadForSweep, OwnerOps
<1> QED BY <1>1, <1>2, <1>3, <1>4, <1>5, <1>6, <1>7, <1>8 DEF Reads

\* Marking the latest event of a cargo, if it has one.
LEMMA MarkedLast ==
    ASSUME TypeOK, NEW c \in Cargos, NEW st \in EventStatuses, NEW e, e = Len(feed[c])
    PROVE  /\ \A d \in Cargos \ {c} : Marked(c, e, st)[d] = feed[d]
           /\ Len(Marked(c, e, st)[c]) = Len(feed[c])
           /\ \A i \in 1 .. Len(feed[c]) :
                Marked(c, e, st)[c][i] = IF i = Len(feed[c]) THEN st ELSE feed[c][i]
<1>1. feed \in [Cargos -> Seq(EventStatuses)] /\ feed[c] \in Seq(EventStatuses)
    BY DEF TypeOK
<1>2. Len(Marked(c, e, st)[c]) = Len(feed[c])
    BY MarkedLength
<1>3. \A d \in Cargos \ {c} : Marked(c, e, st)[d] = feed[d]
    BY <1>1 DEF Marked
<1>4. Marked(c, e, st)[c] = IF e = 0 THEN feed[c] ELSE [feed[c] EXCEPT ![e] = st]
    BY <1>1 DEF Marked
<1>5. \A i \in 1 .. Len(feed[c]) :
         Marked(c, e, st)[c][i] = IF i = Len(feed[c]) THEN st ELSE feed[c][i]
    BY <1>1, <1>4
<1> QED BY <1>2, <1>3, <1>5

\* A handler of the owner that ends, after it wrote one cargo and its feed.
LEMMA FeedWritten ==
    ASSUME OneAtATime, IInv, FeedInv, NEW h \in Hands, Owns(h), Ends(h), NEW c \in Cargos,
           \A d \in Cargos \ {c} : cargo'[d] = cargo[d] /\ feed'[d] = feed[d],
           \A i \in 1 .. Len(feed'[c]) : i # Len(feed'[c]) => feed'[c][i] = "replaced",
           cargo'[c].status = "absent" => feed'[c] = <<>>,
           LastIs(c, "ignored")' => cargo'[c].status \notin {"absent", "new", "active"}
    PROVE  FeedInv'
<1>1. OnlyLastShown'
    BY DEF FeedInv, OnlyLastShown
<1>2. UnbornIsBare'
    BY DEF FeedInv, UnbornIsBare
<1>3. DownIsNotOffered'
    <2> SUFFICES ASSUME NEW d \in Cargos, LastIs(d, "ignored")'
                 PROVE  cargo'[d].status \notin {"absent", "new", "active"}
        BY DEF DownIsNotOffered
    <2>1. d # c => LastIs(d, "ignored")
        BY DEF LastIs
    <2> QED BY <2>1 DEF FeedInv, DownIsNotOffered
<1>4. hand'[h] = Idle /\ \A g \in Hands \ {h} : hand'[g] = hand[g]
    BY DEF Ends, IInv, TypeOK
<1>5. \A g \in Hands : hand'[g].op \notin OwnerOps
    BY <1>4, NobodyElse DEF Idle, Handler, OwnerOps
<1> QED BY <1>1, <1>2, <1>3, <1>5 DEF FeedInv, HandsTrue

\* What a handler of the owner is about, and has found.
LEMMA OwnerAtWork ==
    ASSUME IInv, FeedInv, NEW h \in Hands, hand[h].op \in OwnerOps
    PROVE  /\ Owns(h)
           /\ \E c \in Cargos : hand[h].on = {c} /\ Found(h, c)
           /\ \A c \in hand[h].on : c \in Cargos /\ Found(h, c)
BY DEF FeedInv, HandsTrue, HandTrue

\* A new status of one cargo.
LEMMA UpdatedStatus ==
    ASSUME TypeOK, NEW c \in Cargos, NEW st
    PROVE  /\ Updated(c, st)[c].status = st
           /\ \A d \in Cargos \ {c} : Updated(c, st)[d] = cargo[d]
BY DEF Updated, TypeOK

\* Archiving in the Mini App: the cargo and its latest event go down together.
LEMMA ArchiveFeed ==
    ASSUME OneAtATime, IInv, FeedInv, NEW h \in Hands, CommitStatus(h), hand[h].op = "archive"
    PROVE  /\ FeedInv'
           /\ \A c \in Cargos : LastIs(c, "ignored") => feed'[c] = feed[c]
<1>1. PICK c \in hand[h].on :
          /\ cargo' = IF hand[h].seen = "archived" THEN cargo ELSE Updated(c, "archived")
          /\ feed' = Marked(c, hand[h].event, "ignored")
    BY DEF CommitStatus, Target
<1>2. Owns(h) /\ c \in Cargos /\ Found(h, c) /\ Ends(h) /\ TypeOK /\ TypeOK'
    BY <1>1, OwnerAtWork, CommitsType, HandsAssumption, BoundAssumption
       DEF OwnerOps, CommitStatus, IInv, Commits
<1>3. hand[h].event = Len(feed[c])
      /\ (hand[h].seen = "archived" => cargo[c].status = "archived")
    BY <1>2 DEF Found
<1>4. cargo'[c].status = "archived" /\ \A d \in Cargos \ {c} : cargo'[d] = cargo[d]
    BY <1>1, <1>2, <1>3, UpdatedStatus
<1>5. /\ \A d \in Cargos \ {c} : feed'[d] = feed[d]
      /\ Len(feed'[c]) = Len(feed[c])
      /\ \A i \in 1 .. Len(feed[c]) :
           feed'[c][i] = IF i = Len(feed[c]) THEN "ignored" ELSE feed[c][i]
    BY <1>1, <1>2, <1>3, MarkedLast DEF EventStatuses
<1>6. \A i \in 1 .. Len(feed'[c]) : i # Len(feed'[c]) => feed'[c][i] = "replaced"
    BY <1>2, <1>5 DEF FeedInv, OnlyLastShown
<1>7. FeedInv'
    BY <1>2, <1>4, <1>5, <1>6, FeedWritten
<1>8. ASSUME LastIs(c, "ignored") PROVE feed'[c] = feed[c]
    <2>1. feed[c] \in Seq(EventStatuses) /\ feed'[c] \in Seq(EventStatuses)
        BY <1>2 DEF TypeOK
    <2>2. \A i \in 1 .. Len(feed[c]) : feed'[c][i] = feed[c][i]
        BY <1>5, <1>8 DEF LastIs
    <2> QED BY <1>5, <2>1, <2>2
<1> QED BY <1>5, <1>7, <1>8

\* Restoring: the cargo is still archived, and goes up with its latest event.
LEMMA RestoreFeed ==
    ASSUME OneAtATime, IInv, FeedInv, NEW h \in Hands, CommitStatus(h), hand[h].op = "restore"
    PROVE  /\ FeedInv'
           /\ \A c \in Cargos : feed'[c] # feed[c] =>
                cargo[c].status = "archived" /\ cargo'[c].status = "active"
<1>1. PICK c \in hand[h].on :
          /\ cargo' = IF hand[h].seen = "active" THEN cargo ELSE Updated(c, "active")
          /\ feed' = Marked(c, hand[h].event, "synced")
    BY DEF CommitStatus, Target
<1>2. Owns(h) /\ c \in Cargos /\ Found(h, c) /\ Ends(h) /\ TypeOK
    BY <1>1, OwnerAtWork DEF OwnerOps, CommitStatus, IInv
<1>3. /\ hand[h].event = Len(feed[c]) /\ hand[h].seen = "archived"
      /\ cargo[c].status = "archived"
    BY <1>2 DEF Found
<1>4. cargo'[c].status = "active" /\ \A d \in Cargos \ {c} : cargo'[d] = cargo[d]
    BY <1>1, <1>2, <1>3, UpdatedStatus
<1>5. /\ \A d \in Cargos \ {c} : feed'[d] = feed[d]
      /\ Len(feed'[c]) = Len(feed[c])
      /\ \A i \in 1 .. Len(feed[c]) :
           feed'[c][i] = IF i = Len(feed[c]) THEN "synced" ELSE feed[c][i]
    BY <1>1, <1>2, <1>3, MarkedLast DEF EventStatuses
<1>6. \A i \in 1 .. Len(feed'[c]) : i # Len(feed'[c]) => feed'[c][i] = "replaced"
    BY <1>2, <1>5 DEF FeedInv, OnlyLastShown
<1>7. ~LastIs(c, "ignored")'
    <2>1. feed[c] \in Seq(EventStatuses)
        BY <1>2 DEF TypeOK
    <2>2. CASE Len(feed[c]) = 0
        <3>1. feed' = feed
            BY <1>1, <1>3, <2>2 DEF Marked
        <3> QED BY <2>1, <2>2, <3>1 DEF LastIs
    <2>3. CASE Len(feed[c]) # 0
        <3>1. Len(feed[c]) \in 1 .. Len(feed[c])
            BY <2>1, <2>3
        <3> QED BY <1>5, <3>1 DEF LastIs
    <2> QED BY <2>2, <2>3
<1>8. FeedInv'
    BY <1>2, <1>4, <1>5, <1>6, <1>7, FeedWritten
<1> QED BY <1>3, <1>4, <1>5, <1>8

\* The tails: the event found is still the latest, and was not taken down.
LEMMA SyncFeed ==
    ASSUME OneAtATime, IInv, FeedInv, NEW h \in Hands, CommitSync(h)
    PROVE  /\ FeedInv'
           /\ \A c \in Cargos : LastIs(c, "ignored") => feed'[c] = feed[c]
<1>1. PICK c \in hand[h].on :
          IF hand[h].op = "refresh" /\ hand[h].event # 0
          THEN feed' = Marked(c, hand[h].event, "synced")
          ELSE feed' = [feed EXCEPT ![c] =
                           Append(Marked(c, hand[h].event, "replaced")[c], "synced")]
    BY DEF CommitSync
<1>2. /\ hand[h].op \in {"refresh", "republish"} /\ cargo' = cargo /\ Ends(h)
      /\ Owns(h) /\ c \in Cargos /\ Found(h, c) /\ TypeOK
    BY <1>1, OwnerAtWork DEF OwnerOps, CommitSync, IInv
<1>3. hand[h].event = Len(feed[c]) /\ ~LastIs(c, "ignored")
    BY <1>2 DEF Found, LastIs
<1>4. ~(hand[h].op = "refresh" /\ hand[h].event # 0)
    BY <1>2, <1>3 DEF Found
<1> DEFINE marked == Marked(c, hand[h].event, "replaced")[c]
<1>5. /\ marked \in Seq(EventStatuses)
      /\ \A i \in 1 .. Len(marked) : marked[i] = "replaced"
    <2>1. marked \in Seq(EventStatuses) /\ Len(marked) = Len(feed[c])
        BY <1>2, MarkedLength DEF EventStatuses
    <2>2. \A i \in 1 .. Len(feed[c]) :
             marked[i] = IF i = Len(feed[c]) THEN "replaced" ELSE feed[c][i]
        BY <1>2, <1>3, MarkedLast DEF EventStatuses
    <2> QED BY <1>2, <2>1, <2>2 DEF FeedInv, OnlyLastShown
<1>6. feed' = [feed EXCEPT ![c] = Append(marked, "synced")]
    BY <1>1, <1>4
<1> HIDE DEF marked
<1>7. /\ \A d \in Cargos \ {c} : feed'[d] = feed[d]
      /\ feed'[c] = Append(marked, "synced")
    BY <1>2, <1>6 DEF TypeOK
<1>8. /\ Len(feed'[c]) = Len(marked) + 1 /\ Len(marked) \in Nat
      /\ feed'[c][Len(marked) + 1] = "synced"
      /\ \A i \in 1 .. Len(marked) : feed'[c][i] = "replaced"
    BY <1>5, <1>7 DEF EventStatuses
<1>9. \A i \in 1 .. Len(feed'[c]) : i # Len(feed'[c]) => feed'[c][i] = "replaced"
    BY <1>8
<1>10. ~LastIs(c, "ignored")'
    BY <1>8 DEF LastIs
<1>11. cargo[c].status # "absent"
    BY <1>2 DEF Found
<1> QED BY <1>2, <1>3, <1>7, <1>9, <1>10, <1>11, FeedWritten

\* The writing half: what each does to the feed of a cargo that was taken down.
LEMMA CommitsFeed ==
    ASSUME OneAtATime, IInv, FeedInv, NEW h \in Hands, Commits(h)
    PROVE  /\ FeedInv'
           /\ \A c \in Cargos : LastIs(c, "ignored") /\ feed'[c] # feed[c] =>
                cargo[c].status = "archived" /\ cargo'[c].status = "active"
<1>1. CASE feed' = feed
    <2>1. Ends(h)
        BY DEF Commits, InsertResponse, CommitAccept, CommitReject, CommitStatus, CommitDelete,
               CommitSync, CommitSweep
    <2>2. hand'[h] = Idle /\ \A g \in Hands \ {h} : hand'[g] = hand[g]
        BY <2>1 DEF Ends, IInv, TypeOK
    <2>3. hand'[h].op \notin OwnerOps
        BY <2>2 DEF Idle, Handler, OwnerOps
    <2>4. CASE CommitSync(h)
        BY <1>1, <2>4, SyncFeed
    <2>5. CASE CommitStatus(h) /\ hand[h].op \in {"archive", "restore"}
        BY <1>1, <2>5, ArchiveFeed, RestoreFeed
    <2>6. ASSUME ~CommitSync(h), ~(CommitStatus(h) /\ hand[h].op \in {"archive", "restore"}),
                 NEW c \in Cargos
          PROVE  \/ cargo'[c].status = cargo[c].status
                 \/ cargo'[c].status = "archived"
                 \/ Owns(h) /\ cargo'[c].status \notin {"absent", "new", "active"}
        <3>0. cargo \in [Cargos -> [status : Statuses, carrier : Carriers \cup {None}]]
            BY DEF IInv, TypeOK
        <3>1. CASE InsertResponse(h) \/ CommitReject(h)
            BY <3>1 DEF InsertResponse, CommitReject
        <3>2. CASE CommitAccept(h)
            <4>1. cargo' = Started(hand[h].resp) /\ Owns(h)
                BY <3>2 DEF CommitAccept, IInv, NotTaken
            <4> QED BY <3>0, <4>1 DEF Started
        <3>3. CASE CommitStatus(h) \/ CommitDelete(h)
            <4>1. Owns(h) /\ hand[h].on \subseteq Cargos
                BY <3>3, OwnerAtWork DEF CommitStatus, CommitDelete, OwnerOps
            <4>2. \E d \in hand[h].on : \E st \in {"completed", "cancelled", "deleted"} :
                     cargo' = cargo \/ cargo' = Updated(d, st)
                BY <2>6, <3>3 DEF CommitStatus, CommitDelete, Target
            <4> QED BY <3>0, <4>1, <4>2 DEF Updated
        <3>4. CASE CommitSweep(h)
            BY <3>0, <3>4 DEF CommitSweep
        <3> QED BY <2>6, <3>1, <3>2, <3>3, <3>4 DEF Commits
    <2> QED BY <1>1, <2>2, <2>3, <2>4, <2>5, <2>6, FeedQuiet
<1>2. CASE feed' # feed
    <2>1. CommitSync(h) \/ (CommitStatus(h) /\ hand[h].op \in {"archive", "restore"})
        BY <1>2 DEF Commits, InsertResponse, CommitAccept, CommitReject, CommitStatus,
                    CommitDelete, CommitSweep
    <2> QED BY <2>1, SyncFeed, ArchiveFeed, RestoreFeed
<1> QED BY <1>1, <1>2

\* The reading half changes the feed only where there was none.
LEMMA ReadsNoFeed ==
    ASSUME FeedInv, NEW h \in Hands, Reads(h), NEW c \in Cargos, LastIs(c, "ignored"),
           feed \in [Cargos -> Seq(EventStatuses)]
    PROVE  feed'[c] = feed[c]
<1>1. \A d \in Cargos : CreateInWebapp(h, d) => d # c
    BY DEF CreateInWebapp, FeedInv, DownIsNotOffered
<1>2. \/ feed' = feed
      \/ \E d \in Cargos : CreateInWebapp(h, d)
    BY DEF Reads, RespondInWebapp, RespondInBot, ReadForComplete, ReadForCancel,
           ReadForDelete, ReadForArchive, ReadForRestore, ReadForBump, ReadForAccept,
           RefuseAccept, ReadForReject, ReadForSync, ReadForSweep, Takes, Holds, CreateInBot
<1> QED BY <1>1, <1>2 DEF CreateInWebapp

\* Every step keeps what is known of the feed.
LEMMA NextFeed ==
    ASSUME OneAtATime, IInv, FeedInv, [Next]_vars
    PROVE  FeedInv'
<1>1. ASSUME NEW h \in Hands, RollBack(h) PROVE FeedInv'
    <2>1. hand'[h] = Idle /\ \A g \in Hands \ {h} : hand'[g] = hand[g]
        BY <1>1 DEF RollBack, Ends, IInv, TypeOK
    <2>2. hand'[h].op \notin OwnerOps /\ cargo' = cargo /\ feed' = feed
        BY <1>1, <2>1 DEF RollBack, Idle, Handler, OwnerOps
    <2> QED BY <2>1, <2>2, FeedQuiet
<1>2. CASE UNCHANGED vars
    BY <1>2 DEF vars, FeedInv, OnlyLastShown, UnbornIsBare, DownIsNotOffered, LastIs, HandsTrue,
                HandTrue, Found, Owns
<1> QED BY <1>1, <1>2, ReadsFeed, CommitsFeed DEF Next

\* It holds of the empty feed.
LEMMA InitFeed == ASSUME Init PROVE FeedInv
<1>1. \A h \in Hands : hand[h].op \notin OwnerOps
    BY DEF Init, Idle, Handler, OwnerOps
<1>2. \A c \in Cargos : feed[c] = <<>>
    BY DEF Init
<1> QED BY <1>1, <1>2
     DEF FeedInv, OnlyLastShown, UnbornIsBare, DownIsNotOffered, LastIs, HandsTrue

\* The invariant of the feed in every behaviour in which users do one thing at
\* a time.
LEMMA FeedInvariance == ASSUME OneAtATime PROVE Spec => []FeedInv
<1>1. Init => FeedInv
    BY InitFeed
<1>2. IInv /\ FeedInv /\ [Next]_vars => FeedInv'
    BY NextFeed
<1> QED BY <1>1, <1>2, Invariance, PTL DEF Spec

\* The feed shows no cargo twice, however often it was bumped, restored or
\* synced (_sync_manual_feed_event).
THEOREM ShownAtMostOnce == ASSUME OneAtATime PROVE Spec => []ShownOnce
<1>1. FeedInv => ShownOnce
    <2> SUFFICES ASSUME FeedInv, NEW c \in Cargos PROVE Cardinality(Live(c)) <= 1
        BY DEF ShownOnce
    <2>1. \A i, j \in Live(c) : i = j
        <3>1. \A i \in Live(c) : i \in DOMAIN feed[c] /\ feed[c][i] = "synced"
            BY DEF Live
        <3> QED BY <3>1 DEF FeedInv, OnlyLastShown
    <2>2. CASE Live(c) = {}
        BY <2>2, FS_EmptySet
    <2>3. CASE Live(c) # {}
        <3>1. PICK i : Live(c) = {i}
            BY <2>1, <2>3
        <3> QED BY <3>1, FS_Singleton
    <2> QED BY <2>2, <2>3
<1> QED BY <1>1, FeedInvariance, PTL

\* Only a restore brings back what its owner took down (archive_my_cargo,
\* restore_my_cargo, bump_cargo): no tail of a creation or of a bump that began
\* before does.
THEOREM TakenDownIsLeft == ASSUME OneAtATime PROVE Spec => TakenDownStaysDown
<1>1. ASSUME OneAtATime, IInv, FeedInv, [Next]_vars, NEW c \in Cargos,
             feed[c] # <<>>, Last(feed[c]) = "ignored", feed'[c] # feed[c]
      PROVE  cargo[c].status = "archived" /\ cargo'[c].status = "active"
    <2>1. LastIs(c, "ignored")
        BY <1>1 DEF LastIs, Last
    <2>2. feed \in [Cargos -> Seq(EventStatuses)]
        BY <1>1 DEF IInv, TypeOK
    <2>3. PICK h \in Hands : Commits(h)
        BY <1>1, <2>1, <2>2, ReadsNoFeed DEF Next, RollBack, vars
    <2> QED BY <1>1, <2>1, <2>3, CommitsFeed
<1>2. IInv /\ FeedInv /\ [Next]_vars =>
        [\A c \in Cargos :
           feed[c] # <<>> /\ Last(feed[c]) = "ignored" /\ feed'[c] # feed[c]
             => cargo[c].status = "archived" /\ cargo'[c].status = "active"]_vars
    BY <1>1
<1> QED BY <1>2, Invariance, FeedInvariance, PTL DEF Spec, TakenDownStaysDown
=============================================================================
