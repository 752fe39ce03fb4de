-------------------------------- MODULE Match --------------------------------
(* Cargos for a vehicle and vehicles for a cargo:                           *)
(* src/core/services/matching_engine.py, asked by src/api/match.py and      *)
(* src/api/fleet.py, and the plain list of the bot,                         *)
(* src/bot/handlers/trucks.py.  The feed's row of a user's cargo is a copy  *)
(* of the cargo with marks of its own.                                      *)
EXTENDS Integers, Sequences, SequencesExt, FiniteSets, FiniteSetsExt, Order

CONSTANTS
  Wheels,      \* user_vehicles
  Freight,     \* cargos
  Item,        \* parser_ingest_events, the newer the greater
  WheelsMayBe, FreightMayBe, ItemMayBe,  \* the rows they may have at first
  Town,
  Local,       \* towns whose place needs no service
  KmOf,        \* <<town, town>> -> kilometres
  Overlap,     \* pairs of bodies, the name of one within the other
  Viewer,      \* requests
  LastRows,    \* rows one query reads: 80 in the code
  MostChanges  \* bound: payments, hidings and moves while requests run

WheelsRow == [owner : Nat, kg : Nat, body : STRING, town : Town \cup {""}, free : BOOLEAN]
FreightRow ==
  [owner : Nat, kg : Nat, body : STRING, town : Town \cup {""}, guaranteed : BOOLEAN,
   status : STRING]
ItemRow ==
  [freight : Int, kg : Nat, body : STRING, town : Town \cup {""}, at : Town \cup {""}, rate : Nat,
   trust : Nat, hot : BOOLEAN, listed : BOOLEAN]

\* The program's own list has no town without a name.
ASSUME MatchAssumption ==
  /\ IsFiniteSet(Wheels) /\ IsFiniteSet(Freight) /\ IsFiniteSet(Item)
  /\ Wheels \subseteq Nat /\ Freight \subseteq Nat /\ Item \subseteq Nat
  /\ WheelsMayBe \subseteq WheelsRow /\ FreightMayBe \subseteq FreightRow /\ ItemMayBe \subseteq ItemRow
  /\ "" \notin Local /\ LastRows \in Nat /\ MostChanges \in Nat

VARIABLES
  wheels,   \* vehicle -> [owner, kg, body, town, free]
  freight,  \* cargo -> [owner, kg, body, town, guaranteed, status]
  item,     \* event -> [freight, kg, body, town, at, rate, trust, hot, listed]
  view,     \* request -> its jobs and what it has read
  changes   \* how many rows have changed

matchVars == <<wheels, freight, item, view, changes>>

NoMatch == -1
NoView ==
  [step |-> "idle", jobs |-> <<>>, rows |-> <<>>, paid |-> {}, ever |-> {}, told |-> <<>>]

MatchTypeOK ==
  /\ wheels \in [Wheels -> WheelsRow] /\ freight \in [Freight -> FreightRow]
  /\ item \in [Item -> ItemRow]
  /\ \A r \in Viewer :
       /\ view[r].step \in {"idle", "look", "pay", "score", "told"}
       /\ \A k \in DOMAIN view[r].told : view[r].told[k].score \in 35..100
  /\ changes \in 0..MostChanges

MatchInit ==
  /\ wheels \in [Wheels -> WheelsMayBe]
  /\ freight \in [Freight -> FreightMayBe]
  /\ item \in [Item -> ItemMayBe]
  /\ view = [r \in Viewer |-> NoView] /\ changes = 0

-----------------------------------------------------------------------------
(* Scores                                                                   *)

\* get_city_data: towns of the program's own list, and those a service finds now.
Located(found) == Local \cup found

Clipped(n) == Max({0, Min({100, n})})
Bears(v, kg) == v.kg # 0 /\ kg # 0 => kg <= v.kg
SuitsBody(a, b) == a = "" \/ b = "" \/ a = b \/ <<a, b>> \in Overlap \/ <<b, a>> \in Overlap

\* Nearness for the way to the pickup; over 500 km there is no match.
Nearness(km) ==
  IF km <= 50 THEN 20 ELSE IF km <= 150 THEN 12 ELSE IF km <= 300 THEN 5 ELSE -10

\* located: towns the geocoder finds at this moment.  -10 is written as a deduction.
Reach(v, town, located, same, unknown) ==
  IF v.town # "" /\ town # "" /\ {v.town, town} \subseteq located
  THEN IF KmOf[v.town, town] > 500 THEN NoMatch ELSE 10 + Nearness(KmOf[v.town, town])
  ELSE IF same THEN unknown ELSE NoMatch

\* score_vehicle_for_event: the item has its coordinates (at), only the vehicle is looked up.
ItemWay(v, i, located) ==
  IF v.town = "" THEN 10
  ELSE Reach(v, i.at, located \cup {i.at}, i.town # "" /\ v.town = i.town, 22)

\* score_cargo_for_vehicle: both are looked up by name.
FreightWay(v, c, located) ==
  IF v.town = "" \/ c.town = "" THEN 10 ELSE Reach(v, c.town, located, v.town = c.town, 10)

Trusted(i) == IF i.trust >= 80 THEN 5 ELSE IF i.trust >= 40 THEN 2 ELSE 0

ItemScore(v, i, located) ==
  LET way == ItemWay(v, i, located) IN
  IF ~i.listed \/ ~Bears(v, i.kg) \/ ~SuitsBody(v.body, i.body) \/ way = NoMatch THEN NoMatch
  ELSE Clipped(30 + (IF v.kg # 0 /\ i.kg # 0 THEN 25 ELSE 10) + way
               + (IF i.rate > 0 THEN 2 ELSE 0) + Trusted(i) + (IF i.hot THEN 5 ELSE 0))

\* With the payment guaranteed ten more; what is left under 35 is no match.
Shows(score) == score >= 35

ForVehicle(v, i, paid, located) ==
  LET score == ItemScore(v, i, located)
      more == IF score # NoMatch /\ i.freight \in paid THEN Min({100, score + 10}) ELSE score
  IN IF Shows(more) THEN more ELSE NoMatch

ForFreight(c, v, located) ==
  LET way == FreightWay(v, c, located)
      score == Clipped(55 + way + (IF c.guaranteed THEN 10 ELSE 0)) IN
  IF ~v.free \/ ~Bears(v, c.kg) \/ ~SuitsBody(v.body, c.body) \/ way = NoMatch \/ ~Shows(score)
  THEN NoMatch ELSE score

Guaranteed == {c \in Freight : freight[c].guaranteed}

\* The list of the bot: open cargos that begin in the vehicle's city and are not too heavy.
OnBoard(v, c) == c.status = "new" /\ v.town # "" /\ c.town = v.town /\ (c.kg = 0 \/ c.kg <= v.kg)

-----------------------------------------------------------------------------
(* Requests                                                                 *)

Latest(S) == InOrder(FirstOf(S, LastRows, Descending), Descending)
Begun(r, jobs) ==
  /\ view[r].step = "idle"
  /\ view' = [view EXCEPT ![r] =
       [NoView EXCEPT !.step = IF jobs = <<>> THEN "told" ELSE "look", !.jobs = jobs,
                      !.ever = Guaranteed]]
  /\ UNCHANGED <<wheels, freight, item, changes>>

JobOf(v, n) == [for |-> "vehicle", row |-> v, limit |-> n]
JobFor(c, n) == [for |-> "cargo", row |-> c, limit |-> n]

\* The page of a vehicle, and of a cargo, of the user's own.
ViewVehicle(r, u, w) == wheels[w].owner = u /\ Begun(r, <<JobOf(wheels[w], 10)>>)
ViewFreight(r, u, c) == freight[c].owner = u /\ Begun(r, <<JobFor(freight[c], 10)>>)

\* The summary goes through the user's free vehicles and current cargos, one after another.
ViewSummary(r, u) ==
  LET mine == SetToSeq({w \in Wheels : wheels[w].owner = u /\ wheels[w].free})
      goods == SetToSeq({c \in Freight : freight[c].owner = u /\ freight[c].status # "archived"})
  IN Begun(r, [k \in DOMAIN mine |-> JobOf(wheels[mine[k]], 3)]
              \o [k \in DOMAIN goods |-> JobFor(freight[goods[k]], 3)])

Reads(r, s) == view' = [view EXCEPT ![r] = s] /\ UNCHANGED <<wheels, freight, item, changes>>

\* The latest events on the feed, or the latest free vehicles; a vehicle in no city gets nothing.
ReadRows(r) ==
  LET s == view[r] IN
  /\ s.step = "look"
  /\ IF Head(s.jobs).for = "cargo"
     THEN Reads(r, [s EXCEPT !.step = "score",
            !.rows = [k \in DOMAIN Latest({w \in Wheels : wheels[w].free}) |->
                        wheels[Latest({w \in Wheels : wheels[w].free})[k]]]])
     ELSE LET found == IF Head(s.jobs).row.town = "" THEN {} ELSE {i \in Item : item[i].listed} IN
          Reads(r, [s EXCEPT !.step = "pay",
            !.rows = [k \in DOMAIN Latest(found) |-> item[Latest(found)[k]]]])

\* Which of the users' cargos among them are paid for.
ReadPayments(r) ==
  /\ view[r].step = "pay"
  /\ Reads(r, [view[r] EXCEPT !.step = "score", !.paid = Guaranteed])

\* The higher score first, then the guaranteed payment, then the higher rate, then as read.
Ahead(rows, i, j) ==
  LET a == rows[i]  b == rows[j] IN
  \/ a.score > b.score
  \/ /\ a.score = b.score
     /\ \/ a.sure /\ ~b.sure
        \/ (a.sure <=> b.sure) /\ (a.rate > b.rate \/ (a.rate = b.rate /\ i < j))

\* The score of each, the best first; the geocoder may fail for a town it has to ask for.
Weigh(r) ==
  LET s == view[r]  job == Head(s.jobs)  limit == Head(s.jobs).limit IN
  /\ s.step = "score"
  /\ \E found \in SUBSET (Town \ Local) :
       LET scoreOf(x) ==
             IF job.for = "vehicle" THEN ForVehicle(job.row, x, s.paid, Located(found))
             ELSE ForFreight(job.row, x, Located(found))
           marks(x) == IF job.for = "vehicle"
                       THEN [score |-> scoreOf(x), of |-> x.freight, rate |-> x.rate,
                             sure |-> x.freight \in s.paid]
                       ELSE [score |-> scoreOf(x), of |-> NoMatch, rate |-> 0, sure |-> FALSE]
           all == [k \in DOMAIN s.rows |-> marks(s.rows[k])]
           fit == {k \in DOMAIN all : all[k].score # NoMatch}
           best == InOrder(fit, {p \in fit \X fit : Ahead(all, p[1], p[2])})
       IN Reads(r, [s EXCEPT !.told = @ \o [n \in 1..Min({limit, Len(best)}) |-> all[best[n]]],
                             !.jobs = Tail(@), !.rows = <<>>, !.paid = {},
                             !.step = IF Len(s.jobs) > 1 THEN "look" ELSE "told"])

-----------------------------------------------------------------------------
(* What changes meanwhile                                                   *)

Seeing == view' = [r \in Viewer |-> [view[r] EXCEPT !.ever = @ \cup Guaranteed']]
Stirs == changes < MostChanges /\ changes' = changes + 1

\* Escrow guarantees the payment, or gives it back.
Secure(c) ==
  /\ Stirs
  /\ freight' = [freight EXCEPT ![c].guaranteed = ~@] /\ Seeing
  /\ UNCHANGED <<wheels, item>>

\* An event is hidden or published.
Relist(i) ==
  /\ Stirs
  /\ item' = [item EXCEPT ![i].listed = ~@]
  /\ UNCHANGED <<wheels, freight, view>>

\* A vehicle is freed in a town, or taken.
Park(w, t) ==
  /\ Stirs
  /\ wheels' = [wheels EXCEPT ![w].free = t # "", ![w].town = IF t = "" THEN @ ELSE t]
  /\ UNCHANGED <<freight, item, view>>

MatchNext ==
  \/ \E r \in Viewer : ReadRows(r) \/ ReadPayments(r) \/ Weigh(r)
  \/ \E r \in Viewer, w \in Wheels : ViewVehicle(r, wheels[w].owner, w)
  \/ \E r \in Viewer, c \in Freight :
       ViewFreight(r, freight[c].owner, c) \/ ViewSummary(r, freight[c].owner)
  \/ \E c \in Freight : Secure(c)
  \/ \E i \in Item : Relist(i)
  \/ \E w \in Wheels, t \in Town \cup {""} : Park(w, t)

MatchSpec == MatchInit /\ [][MatchNext]_matchVars

-----------------------------------------------------------------------------

\* The feed's row says what the cargo says.
Mirrors(i, c) ==
  i.kg = c.kg /\ i.body = c.body /\ i.town = c.town /\ i.at = c.town /\ c.town # ""

\* A vehicle in a known town that its owner's cargo page offers sees that cargo
\* on its own page, no lower where both weights are known, and in the bot's
\* list if it stands there: the two scores are written apart
\* (score_vehicle_for_event, score_cargo_for_vehicle, _search_cargo_for_vehicle).
BothSidesSee ==
  \A w \in Wheels, c \in Freight :
    LET v == wheels[w]
        offered == ForFreight(freight[c], v, Local) IN
    v.town \in Local /\ freight[c].town \in Local /\ offered # NoMatch =>
      /\ \A i \in Item :
           item[i].listed /\ item[i].freight = c /\ Mirrors(item[i], freight[c]) =>
             LET seen == ForVehicle(v, item[i], Guaranteed, Local) IN
             seen # NoMatch /\ (v.kg # 0 /\ freight[c].kg # 0 => seen >= offered)
      /\ freight[c].status = "new" /\ v.town = freight[c].town /\ v.kg # 0 => OnBoard(v, freight[c])

\* "Payment guaranteed" was true of the cargo at some moment of the request that
\* says it (find_matches_for_vehicle reads the payments after the events).
GuaranteeWasTrue ==
  \A r \in Viewer : \A k \in DOMAIN view[r].told :
    view[r].told[k].sure => view[r].told[k].of \in view[r].ever
=============================================================================
