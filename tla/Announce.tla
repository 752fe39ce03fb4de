------------------------------ MODULE Announce ------------------------------
(* Who is told of a new cargo: src/core/services/notifications.py (the bot, *)
(* the job: subscribers only) and notification_dispatcher.py (the site and  *)
(* the administrator: subscribers and owners of trucks nearby), over the    *)
(* subscriptions of src/api/subscriptions.py and src/bot/handlers/search.py.*)
EXTENDS Integers, FiniteSets

CONSTANTS
  Listener,   \* users who may be told
  Cargo,
  OwnerOf,    \* cargo -> its owner, perhaps a listener
  KeyOf,      \* cargo -> throttle key: owner, route, body and rounded weight
  Dispatch,   \* runs of either function
  NoCargo,
  MostSubscriptions  \* bound of the subscription rows

ASSUME AnnounceAssumption == NoCargo \notin Cargo /\ MostSubscriptions \in Nat

VARIABLES
  subs,        \* id -> row of route_subscriptions that fits every cargo here
  subscribing, \* listener -> requests to subscribe that saw no equal row
  trucks,      \* listeners with an available truck that fits
  throttled,   \* keys set
  muted,       \* cargos muted by an administrator
  notified,    \* cargos with notified_at
  run,         \* dispatch -> its state
  spoken,      \* key -> unforced dispatches that went on since it was free (observed)
  twofold      \* listeners who asked for a further subscription (observed)

announceVars == <<subs, subscribing, trucks, throttled, muted, notified, run, spoken, twofold>>

Subscription == 1..MostSubscriptions
NoSubscription == [user |-> "none", active |-> FALSE]
Way == {"bot", "site", "retry"}
Unstarted == [step |-> "idle", way |-> "bot", cargo |-> NoCargo, hushed |-> FALSE,
              left |-> [u \in Listener |-> 0], told |-> [u \in Listener |-> 0]]

AnnounceTypeOK ==
  /\ subs \in [Subscription -> {NoSubscription} \cup [user : Listener, active : BOOLEAN]]
  /\ subscribing \in [Listener -> 0..2] /\ trucks \subseteq Listener
  /\ throttled \subseteq {KeyOf[c] : c \in Cargo} /\ muted \subseteq Cargo
  /\ notified \subseteq Cargo
  /\ run \in [Dispatch -> [step : {"idle", "collect", "throttle", "send", "write", "over"},
                           way : Way, cargo : Cargo \cup {NoCargo}, hushed : BOOLEAN,
                           left : [Listener -> 0..(MostSubscriptions + 1)],
                           told : [Listener -> 0..(MostSubscriptions + 1)]]]
  /\ spoken \in [{KeyOf[c] : c \in Cargo} -> Nat] /\ twofold \subseteq Listener

AnnounceInit ==
  /\ subs = [i \in Subscription |-> NoSubscription]
  /\ subscribing = [u \in Listener |-> 0] /\ trucks = {}
  /\ throttled = {} /\ muted = {} /\ notified = {}
  /\ run = [d \in Dispatch |-> Unstarted]
  /\ spoken = [k \in {KeyOf[c] : c \in Cargo} |-> 0] /\ twofold = {}

-----------------------------------------------------------------------------

Subscribed(u) == {i \in Subscription : subs[i] = [user |-> u, active |-> TRUE]}

\* create_subscription and quick_subscribe look for an equal row first: one that
\* goes on has found none, but the user may have rows with other filters, or
\* another such request under way ...
AskToSubscribe(u) ==
  /\ subscribing[u] < 2
  /\ subscribing' = [subscribing EXCEPT ![u] = @ + 1]
  /\ twofold' = IF subscribing[u] > 0 \/ Subscribed(u) # {} THEN twofold \cup {u} ELSE twofold
  /\ UNCHANGED <<subs, trucks, throttled, muted, notified, run, spoken>>

\* ... and insert later.
Subscribe(u) ==
  /\ subscribing[u] > 0
  /\ \E i \in Subscription :
       /\ subs[i] = NoSubscription /\ \A j \in 1..(i - 1) : subs[j] # NoSubscription
       /\ subs' = [subs EXCEPT ![i] = [user |-> u, active |-> TRUE]]
  /\ subscribing' = [subscribing EXCEPT ![u] = @ - 1]
  /\ UNCHANGED <<trucks, throttled, muted, notified, run, spoken, twofold>>

Unsubscribe(i) ==
  /\ subs[i].active
  /\ subs' = [subs EXCEPT ![i].active = FALSE]
  /\ UNCHANGED <<subscribing, trucks, throttled, muted, notified, run, spoken, twofold>>

\* A truck is put on or off the list of available ones.
SwitchTruck(u) ==
  /\ trucks' = IF u \in trucks THEN trucks \ {u} ELSE trucks \cup {u}
  /\ UNCHANGED <<subs, subscribing, throttled, muted, notified, run, spoken, twofold>>

\* admin_mute_notification_dispatch
Mute(c) ==
  /\ c \notin muted /\ muted' = muted \cup {c}
  /\ UNCHANGED <<subs, subscribing, trucks, throttled, notified, run, spoken, twofold>>

ExpireMute(c) ==
  /\ c \in muted /\ muted' = muted \ {c}
  /\ UNCHANGED <<subs, subscribing, trucks, throttled, notified, run, spoken, twofold>>

ExpireThrottle(k) ==
  /\ k \in throttled /\ throttled' = throttled \ {k}
  /\ spoken' = [spoken EXCEPT ![k] = 0]
  /\ UNCHANGED <<subs, subscribing, trucks, muted, notified, run, twofold>>

-----------------------------------------------------------------------------

\* notify_matching_carriers unless forced reads the mute key first, and goes on
\* if Redis fails; notify_subscribers reads none.
Begin(d, c, way) ==
  /\ run[d].step = "idle"
  /\ \E hush \in {FALSE, way = "site" /\ c \in muted} :
       run' = [run EXCEPT ![d] = [Unstarted EXCEPT !.way = way, !.cargo = c, !.hushed = hush,
                                             !.step = IF hush THEN "over" ELSE "collect"]]
  /\ UNCHANGED <<subs, subscribing, trucks, throttled, muted, notified, spoken, twofold>>

\* As if the two lists of users were put together as they are.
AsListed(u, way) ==
  Cardinality(Subscribed(u)) + (IF way # "bot" /\ u \in trucks THEN 1 ELSE 0)

\* How often a user is on the list: once for every row in notify_subscribers,
\* once at all in the set of notify_matching_carriers.
Times(u, way) ==
  IF way = "bot" THEN Cardinality(Subscribed(u))
  ELSE IF Subscribed(u) # {} \/ u \in trucks THEN 1 ELSE 0

Targets(c, way) == [u \in Listener |-> IF u = OwnerOf[c] THEN 0 ELSE Times(u, way)]

Nobody == [u \in Listener |-> 0]

Collect(d) ==
  LET T == Targets(run[d].cargo, run[d].way) IN
  /\ run[d].step = "collect"
  /\ run' = [run EXCEPT ![d].left = T,
       ![d].step = IF T = Nobody THEN "over"
                   ELSE IF run[d].way = "site" THEN "throttle" ELSE "send"]
  /\ UNCHANGED <<subs, subscribing, trucks, throttled, muted, notified, spoken, twofold>>

\* _is_throttled: SET NX, before anybody is told.
Throttle(d) ==
  LET k == KeyOf[run[d].cargo] IN
  /\ run[d].step = "throttle"
  /\ throttled' = throttled \cup {k}
  /\ IF k \in throttled
     THEN /\ run' = [run EXCEPT ![d].step = "over"]
          /\ UNCHANGED spoken
     ELSE /\ run' = [run EXCEPT ![d].step = "send"]
          /\ spoken' = [spoken EXCEPT ![k] = @ + 1]
  /\ UNCHANGED <<subs, subscribing, trucks, muted, notified, twofold>>

\* Redis fails: the check says "not throttled" and the key stays as it is.
ThrottleFails(d) ==
  /\ run[d].step = "throttle"
  /\ run' = [run EXCEPT ![d].step = "send"]
  /\ UNCHANGED <<subs, subscribing, trucks, throttled, muted, notified, spoken, twofold>>

\* One send_message of dispatch_cargo_notification; a failure is swallowed.
Tell(d, u) ==
  /\ run[d].step = "send" /\ run[d].left[u] > 0
  /\ \E arrives \in BOOLEAN :
       run' = [run EXCEPT ![d].left[u] = @ - 1,
                          ![d].told[u] = IF arrives THEN @ + 1 ELSE @]
  /\ UNCHANGED <<subs, subscribing, trucks, throttled, muted, notified, spoken, twofold>>

AllTried(d) ==
  /\ run[d].step = "send" /\ run[d].left = Nobody
  /\ run' = [run EXCEPT ![d].step = "write"]
  /\ UNCHANGED <<subs, subscribing, trucks, throttled, muted, notified, spoken, twofold>>

\* notified_at is set if anybody was told.
Write(d) ==
  /\ run[d].step = "write"
  /\ notified' = IF run[d].told = Nobody THEN notified ELSE notified \cup {run[d].cargo}
  /\ run' = [run EXCEPT ![d].step = "over"]
  /\ UNCHANGED <<subs, subscribing, trucks, throttled, muted, spoken, twofold>>

\* The process dies; what was sent stays sent.
Die(d) ==
  /\ run[d].step \in {"collect", "throttle", "send", "write"}
  /\ run' = [run EXCEPT ![d].step = "over"]
  /\ UNCHANGED <<subs, subscribing, trucks, throttled, muted, notified, spoken, twofold>>

AnnounceNext ==
  \/ \E u \in Listener : AskToSubscribe(u) \/ Subscribe(u) \/ SwitchTruck(u)
  \/ \E i \in Subscription : Unsubscribe(i)
  \/ \E c \in Cargo : Mute(c) \/ ExpireMute(c)
  \/ \E k \in throttled : ExpireThrottle(k)
  \/ \E d \in Dispatch :
       \/ \E c \in Cargo, way \in Way : Begin(d, c, way)
       \/ Collect(d) \/ Throttle(d) \/ ThrottleFails(d) \/ AllTried(d) \/ Write(d) \/ Die(d)
       \/ \E u \in Listener : Tell(d, u)

AnnounceSpec == AnnounceInit /\ [][AnnounceNext]_announceVars

-----------------------------------------------------------------------------

(* A dispatch of the site tells a user at most once, who may have a         *)
(* subscription and a truck; one of the bot tells a user twice only if the  *)
(* user asked for more than one.  Nobody hears of a cargo of their own.     *)
(* Of the cargos of one owner that look alike, one unforced dispatch speaks *)
(* while the key lives.  Only a cargo somebody was told of is marked.       *)
ToldOnce ==
  /\ \A d \in Dispatch, u \in Listener : run[d].told[u] > 0 =>
       /\ run[d].told[u] = 1 \/ (run[d].way = "bot" /\ u \in twofold)
       /\ u # OwnerOf[run[d].cargo] /\ ~run[d].hushed
  /\ \A k \in DOMAIN spoken : spoken[k] <= 1
  /\ \A c \in notified : \E d \in Dispatch :
       run[d].cargo = c /\ \E u \in Listener : run[d].told[u] > 0
=============================================================================
