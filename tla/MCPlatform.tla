----------------------------- MODULE MCPlatform -----------------------------
(* Small instances of the parts of the platform around the cargos: links    *)
(* and positions, the fleet, the channels to the readers, the two AI        *)
(* services, antifraud, the feed, prices, the receiver of the site's orders,*)
(* trucks on offer and matching.  They share no state here.  A behaviour is *)
(* one of one of them, some of them on one of their menus; the others stay  *)
(* as they began.                                                           *)
EXTENDS LiveLink, Line, Fleet, WsFeed, Announce, Answers, Logist, AntiFraud, Feed, Prices,
        Receiver, Trucks, Match, TLC

CONSTANTS
  hand2,                        \* fleet: the second of two requests
  call1, call2,                 \* questions to the models
  owner, c1, c2, disp1, disp2,  \* announcements: two cargos of one owner
  chat1, chat2,                 \* the logist's requests
  deal, firm, rev1, rev2,       \* antifraud: two reviews of one deal
  boss1, boss2,                 \* administrators of the feed
  mo, ka, mi, quo1, quo2,       \* prices: three cities
  sy1, sy2, linked, loose, theirs,  \* receiver: orders with and without a link
  ad1, ad2                      \* advertisements of trucks

VARIABLES
  part,  \* the part that moves
  menu   \* which of its actions a part with a large state space takes

-----------------------------------------------------------------------------
(* Values of the constants                                                  *)

OwnerOfBoth == (c1 :> owner) @@ (c2 :> owner)
KeyOfBoth == (c1 :> "k") @@ (c2 :> "k")

FirmOf == (deal :> firm)
FirmMarks == (firm :> {"inn", "phone"})
Listings == [type : {"black", "white"}, marks : {{"inn"}, {"inn", "phone"}}]
Sent(facts, rate, over) == [deal |-> deal, facts |-> facts, rate |-> rate, closed |-> over]
OpenSent == {Sent(f, 20, FALSE) : f \in {{}, {"has_complaints", "high_prepay", "cash_payment"}}}
RateSent == {Sent({}, 20, TRUE), Sent({}, 30, TRUE), Sent({"high_prepay"}, 5, FALSE)}
AllSent == OpenSent \cup RateSent
WideBand == <<10, 40>>

\* A route with a benchmark, its way back, one below 500 km and one above 2500.
Routes == {<<mo, ka>>, <<ka, mo>>, <<mo, mi>>, <<mi, ka>>}
Far == <<mi, ka>>
Near == <<mo, mi>>
Km == [r \in Routes |-> IF r = Far THEN 2501 ELSE IF r = Near THEN 499 ELSE 800]
Foreign == {Far, Near}
Benchmarks == <<mo, ka>> :> [body |-> "ref", price |-> 135855, km |-> 800]
MarketRows == <<mo, ka>> :> [body |-> "tent", price |-> 60000]
Listed == {<<>>, <<30000>>, <<100, 50000, 60000>>}
Halves == {1, 5, 6, 9, 10, 19, 20, 40, 70}
EnquiryOf(r, body, half, volume, hard) ==
  [route |-> r, body |-> body, weight |-> half, volume |-> volume, hazardous |-> hard]
Timed == EnquiryOf(<<mo, ka>>, "tent", 10, 0, FALSE)
Enquiries ==
  {EnquiryOf(<<mo, ka>>, b, h, 0, FALSE) : b \in {"ref", "tent"}, h \in Halves}
  \cup {EnquiryOf(<<ka, mo>>, "tent", h, 0, FALSE) : h \in Halves}
  \cup {EnquiryOf(Far, "open", h, 0, TRUE) : h \in Halves}
  \cup {EnquiryOf(Near, "tent", h, v, FALSE) : h \in Halves, v \in {0, 20}}

Told == [o \in {linked, loose, theirs} |-> IF o = linked THEN 1 ELSE 2]
Names == [o \in {linked, loose, theirs} |-> IF o = theirs THEN {1, 2} ELSE {}]

Truck(type, kg, city, routes) ==
  [type |-> type, kg |-> kg, city |-> city, region |-> "", routes |-> routes]
Patterns == (ad1 :> Truck("tent", 20000, "mo", {})) @@ (ad2 :> Truck("", 0, "", {"ka"}))
Models == (ad1 :> {Truck("", 0, "", {"mo", "ka"})}) @@ (ad2 :> {Truck("board", 5000, "ka", {})})
Wanted(from, to, type, kg) == [from |-> from, to |-> to, type |-> type, kg |-> kg]
TentToKa == Wanted("mo", "ka", "tent", 20000)
LightFromKa == Wanted("ka", "", "", 5000)
Wants == {TentToKa, Wanted("", "", "ref", 0)}
Text(hits, kg, said) ==
  [from |-> "", to |-> "", hits |-> hits, kg |-> kg, type |-> "", parsed |-> said, offer |-> FALSE]
Words == {Text(<<"mo", "ka">>, 8000, [from |-> "", to |-> "", max |-> 0, min |-> 0]),
          Text(<<"ka">>, 0, [from |-> "ka", to |-> "", max |-> 5, min |-> 0])}

\* Two towns the program knows, 90 km apart, and one it asks for, 400 km away.
Towns == {"mo", "kl", "vl"}
Roads == [p \in Towns \X Towns |->
            IF p[1] = p[2] THEN 0 ELSE IF "vl" \in {p[1], p[2]} THEN 400 ELSE 90]
Vehicles == [owner : {1}, kg : {0, 5000}, body : {"tent", "ref"}, town : {"mo", "vl", ""},
             free : {TRUE}]
Goods == [owner : {1}, kg : {0, 5000}, body : {"", "tent"}, town : {"mo", "kl"},
          guaranteed : {TRUE}, status : {"new"}]
Copy(c, n, hot) ==
  [freight |-> n, kg |-> c.kg, body |-> c.body, town |-> c.town,
   at |-> IF c.town \in {"mo", "kl"} THEN c.town ELSE "", rate |-> 5,
   trust |-> IF hot THEN 85 ELSE 40, hot |-> hot, listed |-> TRUE]
Elsewhere == [kg |-> 0, body |-> "", town |-> "vl"]
Copies == {Copy(c, 1, FALSE) : c \in Goods} \cup {Copy(Elsewhere, 0, TRUE)}

-----------------------------------------------------------------------------

MenusOf(p) ==
  CASE p = "answers" -> {"users", "cargo"}
    [] p = "announce" -> {"rows", "keys"}
    [] p = "logist" -> {"talk", "review"}
    [] p = "antifraud" -> {"history", "lists", "rates"}
    [] p = "feed" -> {"scroll", "complaints"}
    [] p = "prices" -> {"numbers", "exchange"}
    [] p = "receiver" -> {"orders", "events"}
    [] p = "trucks" -> {"collect", "search", "pay"}
    [] OTHER -> {"all"}

\* A further conjunct of an action that may set v.
Still(v) == v' = v

\* The second request at the fleet is the site's or takes the vehicle off.
FleetMenu == req'[hand2].op \in {"idle", "site", "unavailable"}

\* Two questions of a user, the second without a retry, or one question and
\* then another and the check of a cargo.
AnswersMenu ==
  IF menu = "users"
  THEN /\ call'[call2].try = 0
       /\ \A c \in Call : call'[c].who # Service \/ call'[c] = Free
  ELSE call'[call2] = Free

AnnounceMenu ==
  IF menu = "rows" THEN run'[disp2] = Unstarted /\ muted' = {} /\ run'[disp1].cargo # c2
  ELSE Still(<<subs, subscribing>>) /\ muted' \subseteq {c1}

LogistMenu ==
  IF menu = "talk" THEN Still(Review) /\ chats'[chat2].text # "m2"
  ELSE Still(<<Session, uttered, kept>>) /\ chats'[chat2] = Quiet /\ chats'[chat1].text # "m2"

ReviewsOf(S) == \A r \in Request : request'[r].step = "idle" \/ request'[r].sent \in S

AntiFraudMenu ==
  CASE menu = "history" -> Still(<<rows, adding, stats, recompute>>) /\ ReviewsOf(OpenSent)
    [] menu = "lists" -> /\ Still(<<stats, recompute>>) /\ request'[rev2] = Waiting
                         /\ ReviewsOf(OpenSent) /\ (cache = None \/ cache' # None)
                         /\ Len(history'[firm]) <= 1
    [] menu = "rates" -> /\ Still(<<rows, adding>>) /\ request'[rev2] = Waiting
                         /\ ReviewsOf(RateSent) /\ Len(history'[firm]) <= 3

FeedMenu ==
  IF menu = "scroll"
  THEN /\ Still(<<complaints, filing>>) /\ admin'[boss2] = Calm
       /\ admin'[boss1].step \in {"idle", "ignore"}
       /\ \A e \in DOMAIN events' : events'[e].status \in {"synced", "ignored"}
  ELSE /\ scroll' = scroll /\ Len(events') <= 1
       /\ \A e \in DOMAIN events' : ~events'[e].manual /\ ~events'[e].hot

\* Two enquiries that differ in their weight, or one asked again and again.
PricesMenu ==
  /\ \A r \in Routes \ {<<mo, ka>>} : listed'[r] = <<>>
  /\ IF menu = "numbers"
     THEN /\ clock' = 0 /\ enquiry'[quo2] = NotAsking /\ (enquiry' = enquiry \/ quotes = <<>>)
          /\ \A i, j \in DOMAIN quotes' :
               [quotes'[i].question EXCEPT !.weight = 0] = [quotes'[j].question EXCEPT !.weight = 0]
     ELSE /\ listed'[<<mo, ka>>] # <<>>
          /\ \A a \in {b \in Quoter : enquiry'[b] # NotAsking} : enquiry'[a].question = Timed
          /\ \A i \in DOMAIN quotes' : quotes'[i].question = Timed

ReceiverMenu ==
  LET busy == {r \in Delivery : delivery'[r] # Unsent} IN
  IF menu = "orders"
  THEN /\ Still(subscribers) /\ \A r \in busy : delivery'[r].step # "send"
       /\ \A r \in busy : delivery'[r].order = linked \/ (r = sy1 /\ delivery'[r].order = theirs)
  ELSE \A r \in busy : delivery'[r].step = "send" /\ delivery'[r].order # linked

\* Rows change while a search runs, or stand when contacts are paid for.
TrucksMenu ==
  IF menu = "collect" THEN Still(<<paying, search, draft>>)
  ELSE /\ lost' = {} /\ seen \subseteq seen' /\ (cycle = AtRest => cycle'.left \in {{}, Ad})
       /\ IF menu = "search"
          THEN /\ Still(paying)
               /\ \A u \in Seeker : search[u].step = "shown" => search'[u].step = "shown"
          ELSE /\ draft' = {} /\ (Still(<<paying, search>>) \/ Len(recent) = 2)
               /\ \A t \in Range(recent') : offers'[t] = RegexOf[t]
               /\ \A u \in Seeker : search'[u].query \in {NoQuery, TentToKa, LightFromKa}

-----------------------------------------------------------------------------

Parts == {"link", "line", "fleet", "ws", "announce", "answers", "logist", "antifraud", "feed",
          "prices", "receiver", "trucks", "match"}

PlatformInit ==
  /\ part \in Parts /\ menu \in MenusOf(part)
  /\ PricesInit /\ \A r \in Routes : listed[r] = <<>> \/ (menu = "exchange" /\ r = <<mo, ka>>)
  /\ ReceiverInit /\ (subscribers = {} \/ menu = "events")
  /\ LinkInit /\ LineInit /\ FleetInit /\ WsInit /\ AnnounceInit /\ AnswersInit /\ LogistInit
  /\ FraudInit /\ FeedInit /\ TrucksInit
  /\ IF part = "match" THEN MatchInit /\ Mirrors(item[1], freight[1]) /\ item[2].freight = 0
     ELSE wheels = <<>> /\ freight = <<>> /\ item = <<>> /\ view = <<>> /\ changes = 0

\* No part but the one named moves.
Others(p) ==
  /\ IF p = "link" THEN TRUE ELSE UNCHANGED linkVars
  /\ IF p = "line" THEN TRUE ELSE UNCHANGED lineVars
  /\ IF p = "fleet" THEN TRUE ELSE UNCHANGED fleetVars
  /\ IF p = "ws" THEN TRUE ELSE UNCHANGED wsVars
  /\ IF p = "announce" THEN TRUE ELSE UNCHANGED announceVars
  /\ IF p = "answers" THEN TRUE ELSE UNCHANGED answersVars
  /\ IF p = "logist" THEN TRUE ELSE UNCHANGED logistVars
  /\ IF p = "antifraud" THEN TRUE ELSE UNCHANGED fraudVars
  /\ IF p = "feed" THEN TRUE ELSE UNCHANGED feedVars
  /\ IF p = "prices" THEN TRUE ELSE UNCHANGED priceVars
  /\ IF p = "receiver" THEN TRUE ELSE UNCHANGED receiverVars
  /\ IF p = "trucks" THEN TRUE ELSE UNCHANGED truckVars
  /\ IF p = "match" THEN TRUE ELSE UNCHANGED matchVars
  /\ UNCHANGED <<part, menu>>

PlatformNext ==
  \/ part = "link" /\ LinkNext /\ Others("link")
  \/ part = "line" /\ LineNext /\ Others("line")
  \/ part = "fleet" /\ FleetNext /\ FleetMenu /\ Others("fleet")
  \/ part = "ws" /\ WsNext /\ Others("ws")
  \/ part = "announce" /\ AnnounceNext /\ AnnounceMenu /\ Others("announce")
  \/ part = "answers" /\ AnswersNext /\ AnswersMenu /\ Others("answers")
  \/ part = "logist" /\ LogistNext /\ LogistMenu /\ Others("logist")
  \/ part = "antifraud" /\ FraudNext /\ AntiFraudMenu /\ Others("antifraud")
  \/ part = "feed" /\ FeedNext /\ FeedMenu /\ Others("feed")
  \/ part = "prices" /\ PricesNext /\ PricesMenu /\ Others("prices")
  \/ part = "receiver" /\ ReceiverNext /\ ReceiverMenu /\ Others("receiver")
  \/ part = "trucks" /\ TrucksNext /\ TrucksMenu /\ Others("trucks")
  \/ part = "match" /\ MatchNext /\ Others("match")

platformVars ==
  <<part, menu, linkVars, lineVars, fleetVars, wsVars, announceVars, answersVars, logistVars,
    fraudVars, feedVars, priceVars, receiverVars, truckVars, matchVars>>

PlatformSpec == PlatformInit /\ [][PlatformNext]_platformVars

\* The variables of the part that moves stay in their types.
PlatformTypesOK ==
  /\ part = "link" => LinkTypeOK
  /\ part = "line" => LineTypeOK
  /\ part = "fleet" => FleetTypeOK
  /\ part = "ws" => WsTypeOK
  /\ part = "announce" => AnnounceTypeOK
  /\ part = "answers" => AnswersTypeOK
  /\ part = "logist" => LogistTypeOK
  /\ part = "antifraud" => FraudTypeOK
  /\ part = "feed" => FeedTypeOK
  /\ part = "prices" => PricesTypeOK
  /\ part = "receiver" => ReceiverTypeOK
  /\ part = "trucks" => TrucksTypeOK
  /\ part = "match" => MatchTypeOK

\* A driver who has stopped the sharing or left the line is not shown again
\* (stop_live_tracking, cb_go_offline).
GoneIsGone == StoppedIsDark /\ LeftIsHidden

\* What the bot and the site tell each other of vehicles and orders comes to
\* the same on both sides (publish_vehicle_sync_event, internal_sync_data).
SitesAgree == ShownAsItIs /\ OrderIsOneCargo

\* Readers hear of each cargo, and of none twice (notify_matching_carriers,
\* dispatch_cargo_notification, poll_and_push).
HeardOnce == ToldOnce /\ PassedWasPushed

\* What is kept of the models' answers was said by a model, and stays
\* (KimiAIService.chat, ask_logist).
AnswersHold == AnswersAreFounded /\ LogistKeepsTrack

\* Whoever looks through the feed, for a truck or for a match is shown what
\* there is for him, and no contact that is not paid for (get_feed,
\* match_trucks, _serialize_trucks, the two scores of matching_engine).
SearchesHold ==
  /\ part = "feed" => ScrollIsComplete
  /\ part = "trucks" => StrictestFirst /\ ContactIsPaid /\ AdsAreKept
  /\ part = "match" => BothSidesSee /\ GuaranteeWasTrue

\* A repeated high risk and a hidden event are earned and not undone by the way
\* (review_deal_rules_v3, report_feed_item).
FlagsAreEarned == PatternStays /\ HidingIsEarned
=============================================================================
