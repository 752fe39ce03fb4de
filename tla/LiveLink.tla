------------------------------ MODULE LiveLink ------------------------------
(* The link of a trip: src/bot/handlers/geolocation.py keeps a token per    *)
(* driver and a position per token in Redis; the page of                    *)
(* src/api/live_tracking.py shows the position to who has the link.         *)
(* A position shared live reaches the bot as an edited message, which       *)
(* main.py does not ask Telegram for: only what the driver sends by hand    *)
(* arrives, and handle_live_location never runs.                            *)
EXTENDS Integers

CONSTANTS
  Driver,
  Trip,       \* cargos
  NoTrip,
  MostTokens, \* bound of the links
  LastFix     \* bound of a driver's moves

ASSUME LinkAssumption ==
  /\ NoTrip \notin Trip
  /\ MostTokens \in Nat /\ LastFix \in Nat

VARIABLES
  where,    \* driver -> where the driver is
  trip,     \* driver -> the newest IN_PROGRESS cargo the driver carries
  token,    \* tracking_token:<driver>, 0 if absent
  issued,   \* tokens made so far
  position, \* live_loc:<token>
  page,     \* token -> what the page a client opened says
  saved,    \* rows of cargo_locations: <<trip, fix>>
  locate,   \* driver -> handle_location in flight
  start,    \* driver -> trip that start_live_tracking found
  stop,     \* driver -> stop_live_tracking in flight
  stopped,  \* tokens stopped while no location was on its way to them (observed)
  carried   \* trip -> fixes of its carrier while it was IN_PROGRESS (observed)

linkVars == <<where, trip, token, issued, position, page, saved, locate, start, stop,
              stopped, carried>>

Tokens == 1..MostTokens
Fix == 0..LastFix
NoFix == -1
NotLocating == [step |-> "idle", trip |-> NoTrip, fix |-> 0, token |-> 0]
NotStopping == [step |-> "idle", token |-> 0, alone |-> TRUE]

LinkTypeOK ==
  /\ where \in [Driver -> Fix] /\ trip \in [Driver -> Trip \cup {NoTrip}]
  /\ token \in [Driver -> 0..issued] /\ issued \in 0..MostTokens
  /\ position \in [Tokens -> Fix \cup {NoFix}]
  /\ page \in [Tokens -> {"closed", "moving", "ended"}]
  /\ saved \subseteq Trip \X Fix
  /\ locate \in [Driver -> [step : {"idle", "save", "token", "show"},
                            trip : Trip \cup {NoTrip}, fix : Fix, token : 0..issued]]
  /\ start \in [Driver -> Trip \cup {NoTrip}]
  /\ stop \in [Driver -> [step : {"idle", "clear", "forget"}, token : 0..issued,
                          alone : BOOLEAN]]
  /\ stopped \subseteq Tokens
  /\ carried \subseteq Trip \X Fix

LinkInit ==
  /\ where = [d \in Driver |-> 0] /\ trip = [d \in Driver |-> NoTrip]
  /\ token = [d \in Driver |-> 0] /\ issued = 0
  /\ position = [t \in Tokens |-> NoFix] /\ page = [t \in Tokens |-> "closed"]
  /\ saved = {}
  /\ locate = [d \in Driver |-> NotLocating]
  /\ start = [d \in Driver |-> NoTrip]
  /\ stop = [d \in Driver |-> NotStopping]
  /\ stopped = {} /\ carried = {}

-----------------------------------------------------------------------------

\* The driver moves, a trip begins or ends.
Travel(d, c, f) ==
  /\ f \in {where[d], where[d] + 1} \cap Fix
  /\ <<c, f>> # <<trip[d], where[d]>>
  /\ where' = [where EXCEPT ![d] = f]
  /\ trip' = [trip EXCEPT ![d] = c]
  /\ carried' = IF c = NoTrip THEN carried ELSE carried \cup {<<c, f>>}
  /\ UNCHANGED <<token, issued, position, page, saved, locate, start, stop, stopped>>

\* Eight hours pass for a token, or for a position.
ExpireToken(d) ==
  /\ token[d] # 0 /\ token' = [token EXCEPT ![d] = 0]
  /\ UNCHANGED <<where, trip, issued, position, page, saved, locate, start, stop, stopped,
                 carried>>

ExpirePosition(t) ==
  /\ position[t] # NoFix /\ position' = [position EXCEPT ![t] = NoFix]
  /\ UNCHANGED <<where, trip, token, issued, page, saved, locate, start, stop, stopped,
                 carried>>

\* start_live_tracking: a trip of the driver, then a new token.
FindTrip(d) ==
  /\ start[d] = NoTrip /\ trip[d] # NoTrip
  /\ start' = [start EXCEPT ![d] = trip[d]]
  /\ UNCHANGED <<where, trip, token, issued, position, page, saved, locate, stop, stopped,
                 carried>>

IssueToken(d) ==
  /\ start[d] # NoTrip /\ issued < MostTokens
  /\ issued' = issued + 1
  /\ token' = [token EXCEPT ![d] = issued + 1]
  /\ start' = [start EXCEPT ![d] = NoTrip]
  /\ UNCHANGED <<where, trip, position, page, saved, locate, stop, stopped, carried>>

\* handle_location: what the driver sends while carrying something.
SendLocation(d) ==
  /\ trip[d] # NoTrip /\ locate[d] = NotLocating
  /\ locate' = [locate EXCEPT ![d] = [NotLocating EXCEPT !.step = "save", !.trip = trip[d],
                                                  !.fix = where[d]]]
  /\ UNCHANGED <<where, trip, token, issued, position, page, saved, start, stop, stopped,
                 carried>>

SaveLocation(d) ==
  /\ locate[d].step = "save"
  /\ saved' = saved \cup {<<locate[d].trip, locate[d].fix>>}
  /\ locate' = [locate EXCEPT ![d].step = "token"]
  /\ UNCHANGED <<where, trip, token, issued, position, page, start, stop, stopped, carried>>

ReadToken(d) ==
  /\ locate[d].step = "token"
  /\ locate' = [locate EXCEPT ![d] =
       IF token[d] = 0 THEN NotLocating ELSE [@ EXCEPT !.step = "show", !.token = token[d]]]
  /\ stop' = [stop EXCEPT ![d].alone = @ /\ stop[d].step = "idle"]
  /\ UNCHANGED <<where, trip, token, issued, position, page, saved, start, stopped, carried>>

\* _save_live_location
ShowOnLink(d) ==
  /\ locate[d].step = "show"
  /\ position' = [position EXCEPT ![locate[d].token] = locate[d].fix]
  /\ locate' = [locate EXCEPT ![d] = NotLocating]
  /\ UNCHANGED <<where, trip, token, issued, page, saved, start, stop, stopped, carried>>

\* stop_live_tracking: the token is read, its position deleted, then whatever
\* token the driver has, also one issued since.
StopReads(d) ==
  /\ stop[d].step = "idle" /\ token[d] # 0
  /\ stop' = [stop EXCEPT ![d] = [step |-> "clear", token |-> token[d],
                                  alone |-> locate[d].step # "show"]]
  /\ UNCHANGED <<where, trip, token, issued, position, page, saved, locate, start, stopped,
                 carried>>

\* As if the position were left to its time to live.
LeftToExpire(t) == position

Cleared(t) == [position EXCEPT ![t] = NoFix]

StopClears(d) ==
  /\ stop[d].step = "clear"
  /\ position' = Cleared(stop[d].token)
  /\ stop' = [stop EXCEPT ![d].step = "forget"]
  /\ UNCHANGED <<where, trip, token, issued, page, saved, locate, start, stopped, carried>>

StopForgets(d) ==
  /\ stop[d].step = "forget"
  /\ token' = [token EXCEPT ![d] = 0]
  /\ stopped' = IF stop[d].alone THEN stopped \cup {stop[d].token} ELSE stopped
  /\ stop' = [stop EXCEPT ![d] = NotStopping]
  /\ UNCHANGED <<where, trip, issued, position, page, saved, locate, start, carried>>

\* The page of a client: it opens only while there is a position, then asks
\* every five seconds.
OpenPage(t) ==
  /\ page[t] = "closed" /\ position[t] # NoFix
  /\ page' = [page EXCEPT ![t] = "moving"]
  /\ UNCHANGED <<where, trip, token, issued, position, saved, locate, start, stop, stopped,
                 carried>>

PollPage(t) ==
  /\ page[t] # "closed"
  /\ page' = [page EXCEPT ![t] = IF position[t] # NoFix THEN "moving" ELSE "ended"]
  /\ UNCHANGED <<where, trip, token, issued, position, saved, locate, start, stop, stopped,
                 carried>>

LinkNext ==
  \/ \E d \in Driver :
       \/ \E c \in Trip \cup {NoTrip}, f \in Fix : Travel(d, c, f)
       \/ ExpireToken(d) \/ FindTrip(d) \/ IssueToken(d)
       \/ SendLocation(d) \/ SaveLocation(d) \/ ReadToken(d) \/ ShowOnLink(d)
       \/ StopReads(d) \/ StopClears(d) \/ StopForgets(d)
  \/ \E t \in Tokens : ExpirePosition(t) \/ OpenPage(t) \/ PollPage(t)

LinkSpec == LinkInit /\ [][LinkNext]_linkVars

-----------------------------------------------------------------------------

(* After "Трансляция местоположения завершена" the link is dark, though     *)
(* locations were sent before and are sent after: only one that was on its  *)
(* way to that very link while it was stopped may light it again.  What the *)
(* history of a cargo says was true of its carrier while it was under way.  *)
StoppedIsDark ==
  /\ \A t \in stopped : position[t] = NoFix
  /\ saved \subseteq carried
=============================================================================
