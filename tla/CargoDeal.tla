----------------------------- MODULE CargoDeal -----------------------------
(***************************************************************************)
(* The life of a cargo offer: carriers respond to it, its owner picks one   *)
(* of them, completes, cancels, archives, deletes or restores it, and the   *)
(* hourly job archives what has grown old.  Every handler is a database     *)
(* session that reads, checks and only then writes (READ COMMITTED, an      *)
(* UPDATE names the row and the changed columns, never the value that was   *)
(* checked), so a handler is two steps here: one reads and decides, the     *)
(* other commits.  Other handlers run in between.                           *)
(*                                                                          *)
(* The feed shows a cargo through ingest events of its own: `feed' keeps    *)
(* the statuses of a cargo's events in the order of their ids, and the      *)
(* feed shows those that are "synced", whatever the cargo's status is.      *)
(***************************************************************************)
EXTENDS Naturals, FiniteSets, Sequences, SequencesExt

CONSTANTS
    Cargos,     \* rows of table cargos; all of them belong to one owner
    Carriers,   \* users who may respond
    Copies,     \* 1..n: rows one carrier may come to have for one cargo
    Owner,      \* the owner of the cargos
    Job,        \* the scheduler, as the user of its session
    Hands,      \* handlers that can be in flight at once
    UserOf,     \* whose each handler is: [Hands -> Carriers \cup {Owner, Job}]
    MaxEvents,  \* bound on the feed events of one cargo
    None

ASSUME HandsAssumption ==
    /\ UserOf \in [Hands -> Carriers \cup {Owner, Job}]
    /\ Owner \notin Carriers /\ Job \notin Carriers /\ Owner # Job
    /\ None \notin Carriers

ASSUME BoundAssumption == Copies \subseteq Nat /\ MaxEvents \in Nat

VARIABLES
    cargo,      \* the row: its status and its carrier_id
    verdict,    \* is_accepted of each response row; "absent" before the row
    feed,       \* the statuses of each cargo's feed events, oldest first
    hand        \* what each handler has read and is about to write

vars == <<cargo, verdict, feed, hand>>

\* "absent": the row is not there yet; "deleted": it is not there any more.
Statuses == {"absent", "new", "active", "in_progress", "completed",
             "cancelled", "archived", "deleted"}
Verdicts == {"absent", "pending", "yes", "no"}
EventStatuses == {"synced", "ignored", "replaced"}
Responses == [cargo : Cargos, carrier : Carriers, copy : Copies]

Ops == {"idle", "respond", "accept", "refused", "reject", "complete",
        "cancel", "archive", "restore", "delete", "sync", "bump", "refresh",
        "republish", "sweep"}

\* A handler in flight: the cargos and the response it is about, the value it
\* read of the column it writes, and the feed event it found (0: none).
Handlers ==
    {j \in [op : Ops, on : SUBSET Cargos, resp : Responses \cup {None},
            seen : Statuses \cup Verdicts, event : 0 .. MaxEvents] :
        j.op \in {"accept", "reject"} => j.resp \in Responses}

Handler(op, on, r, seen, event) ==
    [op |-> op, on |-> on, resp |-> r, seen |-> seen, event |-> event]

Idle == Handler("idle", {}, None, "absent", 0)

TypeOK ==
    /\ cargo \in [Cargos -> [status : Statuses, carrier : Carriers \cup {None}]]
    /\ verdict \in [Responses -> Verdicts]
    /\ feed \in [Cargos -> Seq(EventStatuses)]
    /\ \A c \in Cargos : Len(feed[c]) <= MaxEvents
    /\ hand \in [Hands -> Handlers]

Init ==
    /\ cargo = [c \in Cargos |-> [status |-> "absent", carrier |-> None]]
    /\ verdict = [r \in Responses |-> "absent"]
    /\ feed = [c \in Cargos |-> <<>>]
    /\ hand = [h \in Hands |-> Idle]

-----------------------------------------------------------------------------

Exists(c) == cargo[c].status \notin {"absent", "deleted"}

\* The rows of table cargo_responses that carrier k has for cargo c.
RowsOf(c, k) == {r \in Responses : r.cargo = c /\ r.carrier = k /\ verdict[r] # "absent"}

\* The handler h reads and decides to go on; it will write later.
Holds(h, op, on, r, seen, event) ==
    /\ hand[h] = Idle
    /\ hand' = [hand EXCEPT ![h] = Handler(op, on, r, seen, event)]
    /\ UNCHANGED <<cargo, verdict, feed>>

Takes(h, op, c, seen, event) == Holds(h, op, {c}, None, seen, event)

Ends(h) == hand' = [hand EXCEPT ![h] = Idle]

\* UPDATE cargos SET status = st WHERE id = c: a row that is gone makes the
\* ORM raise and the session roll back.
Updated(c, st) == [cargo EXCEPT ![c].status = st]

\* mutant: the event that was replaced stays in the feed
StaysShown(c, e, st) ==
    IF e = 0 \/ st = "replaced" THEN feed ELSE [feed EXCEPT ![c][e] = st]

\* The feed after event e of cargo c was given status st (0: no event).
Marked(c, e, st) == IF e = 0 THEN feed ELSE [feed EXCEPT ![c][e] = st]

Owns(h) == UserOf[h] = Owner

-----------------------------------------------------------------------------
(* Responses.                                                               *)

\* mutant: a carrier who was turned down may respond again
NonePending(c, k) == \A r \in RowsOf(c, k) : verdict[r] # "pending"

NoneYet(c, k) == RowsOf(c, k) = {}

\* The bot looks for an earlier response of this carrier and for nothing else.
RespondInBot(h, c) ==
    /\ UserOf[h] \in Carriers
    /\ cargo[c].status # "absent"
    /\ NoneYet(c, UserOf[h])
    /\ Takes(h, "respond", c, "absent", 0)

\* The Mini App also wants the cargo to be NEW.
RespondInWebapp(h, c) ==
    /\ cargo[c].status = "new"
    /\ RespondInBot(h, c)

\* INSERT; nothing in the table keeps a second row of the same carrier out.
InsertResponse(h) ==
    /\ hand[h].op = "respond"
    /\ \E r \in Responses :
          /\ hand[h].on = {r.cargo} /\ r.carrier = UserOf[h]
          /\ r.copy = Cardinality(RowsOf(r.cargo, r.carrier)) + 1
          /\ verdict' = [verdict EXCEPT ![r] = "pending"]
    /\ Ends(h)
    /\ UNCHANGED <<cargo, feed>>

\* mutants: a cargo of any status; a restored cargo too
NoGuard(c) == TRUE
OnOffer(c) == cargo[c].status \in {"new", "active"}

AcceptGuard(c) == cargo[c].status = "new"

ReadForAccept(h, r) ==
    /\ Owns(h) /\ verdict[r] # "absent" /\ Exists(r.cargo)
    /\ AcceptGuard(r.cargo)
    /\ Holds(h, "accept", {r.cargo}, r, cargo[r.cargo].status, 0)

\* Any other status is answered with "a carrier has been chosen already".
RefuseAccept(h, r) ==
    /\ Owns(h) /\ verdict[r] # "absent" /\ Exists(r.cargo)
    /\ ~AcceptGuard(r.cargo)
    /\ Holds(h, "refused", {r.cargo}, r, cargo[r.cargo].status, 0)

\* The response is accepted and the responses still pending are turned down.
Judged(r) ==
    [q \in Responses |->
        IF q = r THEN "yes"
        ELSE IF q.cargo = r.cargo /\ verdict[q] = "pending" THEN "no"
        ELSE verdict[q]]

\* UPDATE of status and carrier_id: the deal begins.
Started(r) == [cargo EXCEPT ![r.cargo] = [status |-> "in_progress", carrier |-> r.carrier]]

CommitAccept(h) ==
    /\ hand[h].op = "accept"
    /\ LET r == hand[h].resp IN
          /\ Exists(r.cargo)
          /\ cargo' = Started(r)
          /\ verdict' = Judged(r)
    /\ Ends(h)
    /\ UNCHANGED feed

ReadForReject(h, r) ==
    /\ Owns(h) /\ verdict[r] # "absent" /\ Exists(r.cargo)
    /\ Holds(h, "reject", {r.cargo}, r, verdict[r], 0)

\* No UPDATE is sent when the value read was False already.
CommitReject(h) ==
    /\ hand[h].op = "reject"
    /\ verdict' = IF hand[h].seen = "no" THEN verdict
                  ELSE [verdict EXCEPT ![hand[h].resp] = "no"]
    /\ Ends(h)
    /\ UNCHANGED <<cargo, feed>>

-----------------------------------------------------------------------------
(* The owner's other handlers.                                              *)

\* The buttons Complete and Cancel stand under a cargo of any status, and the
\* handlers check nothing but the owner.
ReadForComplete(h, c) ==
    /\ Owns(h) /\ Exists(c)
    /\ Takes(h, "complete", c, cargo[c].status, 0)

ReadForCancel(h, c) ==
    /\ Owns(h) /\ Exists(c)
    /\ Takes(h, "cancel", c, cargo[c].status, 0)

\* Archiving in the Mini App takes the latest feed event down with the cargo.
ReadForArchive(h, c) ==
    /\ Owns(h) /\ Exists(c)
    /\ Takes(h, "archive", c, cargo[c].status, Len(feed[c]))

ReadForRestore(h, c) ==
    /\ Owns(h) /\ cargo[c].status = "archived"
    /\ Takes(h, "restore", c, cargo[c].status, Len(feed[c]))

Target(op) == CASE op = "complete" -> "completed"
                [] op = "cancel"   -> "cancelled"
                [] op = "archive"  -> "archived"
                [] op = "restore"  -> "active"

\* An UPDATE is sent only for a status that differs from the one read.
CommitStatus(h) ==
    /\ hand[h].op \in {"complete", "cancel", "archive", "restore"}
    /\ \E c \in hand[h].on :
          /\ hand[h].seen = Target(hand[h].op) \/ Exists(c)
          /\ cargo' = IF hand[h].seen = Target(hand[h].op) THEN cargo
                      ELSE Updated(c, Target(hand[h].op))
          /\ feed' = CASE hand[h].op = "archive" -> Marked(c, hand[h].event, "ignored")
                       [] hand[h].op = "restore" -> Marked(c, hand[h].event, "synced")
                       [] OTHER -> feed
    /\ Ends(h)
    /\ UNCHANGED verdict

ReadForDelete(h, c) ==
    /\ Owns(h) /\ cargo[c].status = "new"
    /\ Takes(h, "delete", c, "new", 0)

\* DELETE WHERE id: responses and feed events of the cargo stay.
CommitDelete(h) ==
    /\ hand[h].op = "delete"
    /\ \E c \in hand[h].on : cargo' = Updated(c, "deleted")
    /\ Ends(h)
    /\ UNCHANGED <<verdict, feed>>

-----------------------------------------------------------------------------
(* Publishing: new cargos and their feed events.                            *)

Born(c) == [cargo EXCEPT ![c] = [status |-> "new", carrier |-> None]]

\* The Mini App writes the cargo and its event in one transaction.
CreateInWebapp(h, c) ==
    /\ Owns(h) /\ hand[h] = Idle
    /\ cargo[c].status = "absent" /\ MaxEvents > 0
    /\ cargo' = Born(c)
    /\ feed' = [feed EXCEPT ![c] = <<"synced">>]
    /\ UNCHANGED <<verdict, hand>>

\* The bot commits the cargo first; the event follows in a session of its own.
\* So does restore_cargo: it leaves the archived cargo as it is and inserts a
\* new one.
CreateInBot(h, c) ==
    /\ Owns(h) /\ hand[h] = Idle
    /\ cargo[c].status = "absent"
    /\ cargo' = Born(c)
    /\ hand' = [hand EXCEPT ![h] = Handler("sync", {c}, None, "absent", 0)]
    /\ UNCHANGED <<verdict, feed>>

\* mutant: any cargo can be bumped
AnyCanBump(c) == Exists(c)

CanBump(c) == cargo[c].status \in {"new", "active"}

\* An hour may have passed since the last bump, and the owner may be premium.
ReadForBump(h, c) ==
    /\ Owns(h) /\ CanBump(c)
    /\ Takes(h, "bump", c, cargo[c].status, 0)

\* Both tails read the cargo again and find its latest event ...
ReadForSync(h) ==
    /\ hand[h].op \in {"sync", "bump"}
    /\ \E c \in hand[h].on :
          /\ Exists(c)
          /\ hand' = [hand EXCEPT ![h].event = Len(feed[c]),
                                  ![h].op = IF hand[h].op = "sync" THEN "refresh" ELSE "republish"]
    /\ UNCHANGED <<cargo, verdict, feed>>

\* ... and write after the route has been looked up: a bump replaces the event
\* by a new one, otherwise the event found is refreshed, or a first one added.
CommitSync(h) ==
    /\ hand[h].op \in {"refresh", "republish"}
    /\ \E c \in hand[h].on :
          IF hand[h].op = "refresh" /\ hand[h].event # 0
          THEN feed' = Marked(c, hand[h].event, "synced")
          ELSE /\ Len(feed[c]) < MaxEvents
               /\ feed' = [feed EXCEPT ![c] =
                              Append(Marked(c, hand[h].event, "replaced")[c], "synced")]
    /\ Ends(h)
    /\ UNCHANGED <<cargo, verdict>>

-----------------------------------------------------------------------------
(* The hourly job, and sessions that fail.                                  *)

\* Age is left to chance: any of the cargos that are on offer may be too old.
ReadForSweep(h) ==
    /\ UserOf[h] = Job
    /\ \E old \in SUBSET {c \in Cargos : cargo[c].status \in {"new", "active"}} :
          old # {} /\ Holds(h, "sweep", old, None, "new", 0)

\* One commit for all of them; the feed events stay as they are.
CommitSweep(h) ==
    /\ hand[h].op = "sweep"
    /\ \A c \in hand[h].on : Exists(c)
    /\ cargo' = [c \in Cargos |-> IF c \in hand[h].on
                                  THEN [cargo[c] EXCEPT !.status = "archived"]
                                  ELSE cargo[c]]
    /\ Ends(h)
    /\ UNCHANGED <<verdict, feed>>

\* A row that is gone, a deadlock victim, a restart: the session rolls back.
\* Also how a handler that only answered is over.
RollBack(h) ==
    /\ hand[h] # Idle
    /\ Ends(h)
    /\ UNCHANGED <<cargo, verdict, feed>>

-----------------------------------------------------------------------------

Reads(h) ==
    \/ \E c \in Cargos :
          \/ RespondInWebapp(h, c) \/ RespondInBot(h, c)
          \/ ReadForComplete(h, c) \/ ReadForCancel(h, c) \/ ReadForDelete(h, c)
          \/ ReadForArchive(h, c) \/ ReadForRestore(h, c) \/ ReadForBump(h, c)
          \/ CreateInWebapp(h, c) \/ CreateInBot(h, c)
    \/ \E r \in Responses :
          ReadForAccept(h, r) \/ RefuseAccept(h, r) \/ ReadForReject(h, r)
    \/ ReadForSync(h)
    \/ ReadForSweep(h)

Commits(h) ==
    \/ InsertResponse(h) \/ CommitAccept(h) \/ CommitReject(h)
    \/ CommitStatus(h) \/ CommitDelete(h) \/ CommitSync(h) \/ CommitSweep(h)

Next == \E h \in Hands : Reads(h) \/ Commits(h) \/ RollBack(h)

Spec == Init /\ [][Next]_vars

-----------------------------------------------------------------------------
(* Properties.  They are about users each of whom does one thing at a time  *)
(* (UserOf is injective), while all of them and the job run at once.        *)

\* The response that is accepted is that of the cargo's carrier, whatever was
\* responded, rejected, archived or restored around it: a cargo never has two
\* carriers who were both told "accepted" (accept_response_cb).
AcceptedIsCarrier ==
    \A r \in Responses :
        verdict[r] = "yes" => cargo[r.cargo].carrier = r.carrier

\* A carrier has one response row per cargo; the bot's check raises for ever
\* when there are two (respond_cargo, webapp_respond).
OneResponseEach ==
    \A c \in Cargos, k \in Carriers : Cardinality(RowsOf(c, k)) <= 1

\* A cargo that has a carrier keeps that carrier: neither archiving and
\* restoring it nor rejecting the accepted response lets another one in.
CarrierIsFinal ==
    [][\A c \in Cargos : cargo[c].carrier # None
                            => cargo'[c].carrier = cargo[c].carrier]_vars

Live(c) == {i \in DOMAIN feed[c] : feed[c][i] = "synced"}

\* The feed shows a cargo once: bumping replaces its entry, the tail of a
\* creation and a restore do not add another (_sync_manual_feed_event).
ShownOnce == \A c \in Cargos : Cardinality(Live(c)) <= 1

\* What its owner took down in the Mini App comes back to the feed only when
\* the owner restores it, never as the late write of something begun before
\* (archive_my_cargo, restore_my_cargo, bump_cargo).
TakenDownStaysDown ==
    [][\A c \in Cargos :
          feed[c] # <<>> /\ Last(feed[c]) = "ignored" /\ feed'[c] # feed[c]
            => cargo[c].status = "archived" /\ cargo'[c].status = "active"]_vars

(* What the code says of itself, and does not do.                           *)

\* An accept that is refused on a cargo which is on offer (ACTIVE: it was
\* archived and restored) is refused because a carrier has been chosen, as
\* the answer says (accept_response_cb).
RefusedOnlyIfChosen ==
    \A h \in Hands :
        hand[h].op = "refused" /\ hand[h].seen = "active"
            => \A c \in hand[h].on : cargo[c].carrier # None

=============================================================================
