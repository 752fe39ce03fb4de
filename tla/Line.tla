-------------------------------- MODULE Line --------------------------------
(* Drivers on the line: src/bot/handlers/driver_tracking.py keeps a row per *)
(* driver, src/api/geo.py shows it on the map.  The handlers read the row,  *)
(* and write the columns they changed later.                                *)
EXTENDS Integers

CONSTANTS
  Online,   \* drivers
  LastMove  \* bound of a driver's moves

ASSUME LastMoveIsNat == LastMove \in Nat

VARIABLES
  dialog,   \* driver -> FSM state of the chat with the bot
  at,       \* driver -> where the driver is
  line,     \* driver -> row of driver_tracking: [active, fix, fresh]
  update,   \* driver -> fix of live_location_update in flight
  upsert,   \* driver -> _upsert_driver in flight: what it read of the row
  leave,    \* driver -> cb_go_offline in flight: what it read of the row
  left      \* drivers that left the line, and took it no more (observed)

lineVars == <<dialog, at, line, update, upsert, leave, left>>

NoRow == -1
RowSeen == {"idle", "none", "active", "inactive"}

LineTypeOK ==
  /\ dialog \in [Online -> {"none", "wait_phone", "wait_location", "elsewhere"}]
  /\ at \in [Online -> 0..LastMove]
  /\ line \in [Online -> [active : BOOLEAN, fix : {NoRow} \cup 0..LastMove, fresh : BOOLEAN]]
  /\ update \in [Online -> {NoRow} \cup 0..LastMove]
  /\ upsert \in [Online -> RowSeen] /\ leave \in [Online -> RowSeen]
  /\ left \subseteq Online

LineInit ==
  /\ dialog = [d \in Online |-> "none"] /\ at = [d \in Online |-> 0]
  /\ line = [d \in Online |-> [active |-> FALSE, fix |-> NoRow, fresh |-> FALSE]]
  /\ update = [d \in Online |-> NoRow]
  /\ upsert = [d \in Online |-> "idle"] /\ leave = [d \in Online |-> "idle"]
  /\ left = {}

-----------------------------------------------------------------------------

Move(d) ==
  /\ at[d] < LastMove /\ at' = [at EXCEPT ![d] = @ + 1]
  /\ UNCHANGED <<dialog, line, update, upsert, leave, left>>

\* Another dialog opens or closes.
OtherDialog(d) ==
  /\ dialog' = [dialog EXCEPT ![d] = IF @ = "elsewhere" THEN "none" ELSE "elsewhere"]
  /\ UNCHANGED <<at, line, update, upsert, leave, left>>

\* _STALE_MINUTES pass.
GrowStale(d) ==
  /\ line[d].fresh /\ line' = [line EXCEPT ![d].fresh = FALSE]
  /\ UNCHANGED <<dialog, at, update, upsert, leave, left>>

GoOnline(d) ==
  /\ dialog' = [dialog EXCEPT ![d] = "wait_phone"]
  /\ UNCHANGED <<at, line, update, upsert, leave, left>>

SharePhone(d) ==
  /\ dialog[d] = "wait_phone" /\ dialog' = [dialog EXCEPT ![d] = "wait_location"]
  /\ UNCHANGED <<at, line, update, upsert, leave, left>>

Seen(d) ==
  IF line[d].fix = NoRow THEN "none" ELSE IF line[d].active THEN "active" ELSE "inactive"

\* got_location_first ends the dialog; _upsert_driver reads the row ...
UpsertReads(d) ==
  /\ dialog[d] = "wait_location" /\ upsert[d] = "idle"
  /\ dialog' = [dialog EXCEPT ![d] = "none"]
  /\ upsert' = [upsert EXCEPT ![d] = Seen(d)]
  /\ left' = left \ {d}
  /\ UNCHANGED <<at, line, update, leave>>

\* ... and writes it: is_active only if the row it read was not active.
UpsertCommits(d) ==
  /\ upsert[d] # "idle"
  /\ line' = [line EXCEPT ![d] = [active |-> @.active \/ upsert[d] # "active",
                                  fix |-> at[d], fresh |-> TRUE]]
  /\ upsert' = [upsert EXCEPT ![d] = "idle"]
  /\ UNCHANGED <<dialog, at, update, leave, left>>

\* live_location_update: only while another dialog is open does a location
\* come so far (handle_location takes the others); an active row is written.
UpdateReads(d) ==
  /\ dialog[d] = "elsewhere" /\ line[d].active /\ update[d] = NoRow
  /\ update' = [update EXCEPT ![d] = at[d]]
  /\ UNCHANGED <<dialog, at, line, upsert, leave, left>>

\* As if the whole row were written back.
WholeRow(d) == [active |-> TRUE, fix |-> update[d], fresh |-> TRUE]

\* The columns the handler changed: not is_active.
ChangedColumns(d) == [line[d] EXCEPT !.fix = update[d], !.fresh = TRUE]

UpdateCommits(d) ==
  /\ update[d] # NoRow
  /\ line' = [line EXCEPT ![d] = ChangedColumns(d)]
  /\ update' = [update EXCEPT ![d] = NoRow]
  /\ UNCHANGED <<dialog, at, upsert, leave, left>>

OfflineReads(d) ==
  /\ leave[d] = "idle" /\ Seen(d) # "none"
  /\ leave' = [leave EXCEPT ![d] = Seen(d)]
  /\ UNCHANGED <<dialog, at, line, update, upsert, left>>

\* is_active is written only if the row read was active.
OfflineCommits(d) ==
  /\ leave[d] # "idle"
  /\ line' = [line EXCEPT ![d].active = @ /\ leave[d] # "active", ![d].fresh = TRUE]
  /\ left' = IF upsert[d] = "idle" /\ ~line'[d].active THEN left \cup {d} ELSE left
  /\ leave' = [leave EXCEPT ![d] = "idle"]
  /\ UNCHANGED <<dialog, at, update, upsert>>

LineNext ==
  \E d \in Online :
    \/ Move(d) \/ OtherDialog(d) \/ GrowStale(d)
    \/ GoOnline(d) \/ SharePhone(d) \/ UpsertReads(d) \/ UpsertCommits(d)
    \/ UpdateReads(d) \/ UpdateCommits(d) \/ OfflineReads(d) \/ OfflineCommits(d)

LineSpec == LineInit /\ [][LineNext]_lineVars

-----------------------------------------------------------------------------

\* live_drivers
OnMap(d) == line[d].active /\ line[d].fix # NoRow /\ line[d].fresh

\* What the search for loads to add ends with: it may be stale.
Answered(d) == line[d].active /\ line[d].fix # NoRow

(* A driver who left the line is neither on the map nor in an answer before *)
(* taking it again: a location that was being stored when the driver left   *)
(* does not bring the driver back.                                          *)
LeftIsHidden == \A d \in left : ~OnMap(d) /\ ~Answered(d)
=============================================================================
