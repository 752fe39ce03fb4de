-------------------------------- MODULE Fleet --------------------------------
(* A vehicle and its copy on the site: src/api/fleet.py publishes what the  *)
(* Mini App changes (core/services/fleet_sync.py), the bot's own buttons    *)
(* (bot/handlers/add_truck.py, vehicle_intake.py) only the vehicles they    *)
(* add, and api/internal.py takes what the site changes.                    *)
(*                                                                          *)
(* A handler reads the row, commits the columns it changed, reads the row   *)
(* again and posts it; posts are not repeated and may overtake each other.  *)
EXTENDS Naturals, FiniteSets

CONSTANTS
  Handler,  \* requests that may be in flight at once
  City,
  NoCity

ASSUME NoCityIsNone == NoCity \notin City

VARIABLES
  vehicle,  \* row of user_vehicles, or NoVehicle
  copy,     \* what the site shows, or NoVehicle
  req,      \* handler -> its request
  push,     \* changes of the site on their way: set of rows
  settled   \* the last change was published, and nothing else went on
            \* meanwhile or has begun since (observed)

fleetVars == <<vehicle, copy, req, push, settled>>

Row == [available : BOOLEAN, city : City \cup {NoCity}]
NoVehicle == [available |-> FALSE, city |-> "deleted"]
Ops == {"idle", "add_api", "add_bot", "available", "unavailable", "on", "off", "delete", "site"}
Published == {"add_api", "add_bot", "available", "unavailable"}
Idle == [op |-> "idle", step |-> "idle", seen |-> NoVehicle, set |-> NoVehicle, alone |-> TRUE]

FleetTypeOK ==
  /\ vehicle \in Row \cup {NoVehicle} /\ copy \in Row \cup {NoVehicle}
  /\ req \in [Handler -> [op : Ops, step : {"idle", "commit", "refresh", "post"},
                          seen : Row \cup {NoVehicle}, set : Row \cup {NoVehicle},
                          alone : BOOLEAN]]
  /\ push \subseteq Row
  /\ settled \in BOOLEAN

FleetInit ==
  /\ vehicle = NoVehicle /\ copy = NoVehicle
  /\ req = [h \in Handler |-> Idle]
  /\ push = {} /\ settled = TRUE

-----------------------------------------------------------------------------

Busy == {h \in Handler : req[h] # Idle}

\* A request begins: neither it nor those in flight are alone.
Begins(h, op, set) ==
  /\ req[h] = Idle
  /\ req' = [g \in Handler |->
       IF g = h THEN [op |-> op, step |-> "commit", seen |-> vehicle, set |-> set,
                      alone |-> Busy = {} /\ (push = {} \/ op = "site")]
       ELSE [req[g] EXCEPT !.alone = (req[g] = Idle)]]
  /\ settled' = FALSE

\* add_vehicle: not available yet.  add_truck_save and confirm_vehicle of the
\* bot: available; confirm_vehicle also posts the text it read elsewhere.
AddByApi(h, c) ==
  /\ vehicle = NoVehicle /\ copy = NoVehicle
  /\ Begins(h, "add_api", [available |-> FALSE, city |-> c])
  /\ UNCHANGED <<vehicle, copy, push>>

AddInBot(h, c) ==
  /\ vehicle = NoVehicle /\ copy = NoVehicle
  /\ Begins(h, "add_bot", [available |-> TRUE, city |-> c])
  /\ UNCHANGED <<vehicle, copy, push>>

\* set_available, set_unavailable
SetAvailable(h, c) ==
  /\ vehicle # NoVehicle /\ c # NoCity
  /\ Begins(h, "available", [available |-> TRUE, city |-> c])
  /\ UNCHANGED <<vehicle, copy, push>>

SetUnavailable(h) ==
  /\ vehicle # NoVehicle
  /\ Begins(h, "unavailable", [vehicle EXCEPT !.available = FALSE])
  /\ UNCHANGED <<vehicle, copy, push>>

\* truck_set_available, truck_set_unavailable, truck_delete
SwitchInBot(h, on) ==
  /\ vehicle # NoVehicle
  /\ Begins(h, IF on THEN "on" ELSE "off", [vehicle EXCEPT !.available = on])
  /\ UNCHANGED <<vehicle, copy, push>>

DeleteInBot(h) ==
  /\ vehicle # NoVehicle
  /\ Begins(h, "delete", NoVehicle)
  /\ UNCHANGED <<vehicle, copy, push>>

\* The site's user changes the vehicle there; the site posts the change.
ChangeOnSite(row) ==
  /\ copy # NoVehicle /\ copy # row /\ push = {}
  /\ copy' = row
  /\ push' = {row}
  /\ req' = [g \in Handler |-> [req[g] EXCEPT !.alone = (req[g] = Idle)]]
  /\ settled' = FALSE
  /\ UNCHANGED vehicle

\* internal_sync_data, a post from the site about a vehicle: a city that is
\* not named does not change.
TakeFromSite(h, row) ==
  /\ row \in push /\ vehicle # NoVehicle
  /\ Begins(h, "site", [row EXCEPT !.city = IF @ = NoCity THEN vehicle.city ELSE @])
  /\ push' = push \ {row}
  /\ UNCHANGED <<vehicle, copy>>

\* The column is written if it differs from what was read.
Changed(now, seen, set) == IF set = seen THEN now ELSE set

Written(h) ==
  LET r == req[h] IN
  IF r.op = "delete" THEN NoVehicle
  ELSE IF r.seen = NoVehicle THEN r.set
  ELSE [available |-> Changed(vehicle.available, r.seen.available, r.set.available),
        city |-> Changed(vehicle.city, r.seen.city, r.set.city)]

Commit(h) ==
  /\ req[h].step = "commit"
  /\ req[h].seen = NoVehicle \/ vehicle # NoVehicle
  /\ vehicle' = Written(h)
  /\ req' = [req EXCEPT ![h] = IF @.op \in Published THEN [@ EXCEPT !.step = "refresh"] ELSE Idle]
  /\ UNCHANGED <<copy, push, settled>>

\* The row went in between: the UPDATE finds nothing and raises.
CommitFindsNothing(h) ==
  /\ req[h].step = "commit" /\ req[h].seen # NoVehicle /\ vehicle = NoVehicle
  /\ req' = [req EXCEPT ![h] = Idle]
  /\ UNCHANGED <<vehicle, copy, push, settled>>

\* As if what was read before the change were posted.
AsRead(h) == req[h].seen

\* session.refresh: the row as it is by now.
Refreshed(h) == vehicle

Refresh(h) ==
  /\ req[h].step = "refresh"
  /\ req' = [req EXCEPT ![h] = IF vehicle = NoVehicle THEN Idle
                               ELSE [@ EXCEPT !.step = "post", !.set = Refreshed(h)]]
  /\ UNCHANGED <<vehicle, copy, push, settled>>

\* publish_vehicle_sync_event, sync_vehicle_to_site: the post arrives, or it
\* fails and is only logged.
Post(h) ==
  /\ req[h].step = "post"
  /\ copy' = req[h].set
  /\ req' = [req EXCEPT ![h] = Idle]
  /\ settled' = req[h].alone
  /\ UNCHANGED <<vehicle, push>>

LosePost(h) ==
  /\ req[h].step \in {"commit", "refresh", "post"} /\ req[h].op \in Published \cup {"site"}
  /\ req' = [req EXCEPT ![h] = Idle]
  /\ UNCHANGED <<vehicle, copy, push, settled>>

LosePush(row) ==
  /\ row \in push /\ push' = push \ {row}
  /\ UNCHANGED <<vehicle, copy, req, settled>>

FleetNext ==
  \/ \E h \in Handler :
       \/ \E c \in City \cup {NoCity} : AddByApi(h, c) \/ AddInBot(h, c) \/ SetAvailable(h, c)
       \/ SetUnavailable(h) \/ DeleteInBot(h)
       \/ \E on \in BOOLEAN : SwitchInBot(h, on)
       \/ \E row \in Row : TakeFromSite(h, row)
       \/ Commit(h) \/ CommitFindsNothing(h) \/ Refresh(h) \/ Post(h) \/ LosePost(h)
  \/ \E row \in Row : ChangeOnSite(row) \/ LosePush(row)

FleetSpec == FleetInit /\ [][FleetNext]_fleetVars

-----------------------------------------------------------------------------

(* Once a published change has gone through alone the site shows the        *)
(* vehicle as it is, whatever was lost, overtaken or switched in the chat   *)
(* of the bot (whose buttons do not tell the site) before.                  *)
ShownAsItIs == settled => copy = vehicle
=============================================================================
