------------------------------- MODULE Prices -------------------------------
(* What a route should cost: src/services/ati_service.py asks the           *)
(* exchange ATI.SU and remembers its answer, src/core/ai.py falls back      *)
(* to the benchmarks, the market prices of the database and a formula, and  *)
(* src/api/cargos.py recommends a rate and judges the price a shipper       *)
(* states.  Money is in roubles, rates in thousandths of a rouble per km,   *)
(* rounded down; weights are in half tonnes.                                *)
EXTENDS Integers, Sequences, SequencesExt, FiniteSets, FiniteSetsExt

CONSTANTS
  Route,          \* <<from, to>>
  DistanceOf,     \* route -> km
  Abroad,         \* routes with a foreign end
  Benchmark,      \* route -> [body, price, km], for some
  MarketRow,      \* route -> [body, price] of market_prices, for some
  Loads,          \* what the exchange may list on a route: sequences of prices
  Quoter,         \* requests in flight
  Enquiry,        \* what is asked: records [route, body, weight, volume, hazardous]
  Stated,         \* prices a shipper states
  Ttl, Patience,  \* life of a remembered answer, and how long one is waited for
  LastMinute      \* bound of the clock

\* The least price of the two tables is 48981.
ASSUME PricesAssumption ==
  /\ Ttl \in Nat /\ Patience \in Nat /\ Patience < Ttl /\ LastMinute \in Nat
  /\ \A r \in Route : DistanceOf[r] \in Nat \ {0}
  /\ \A r \in DOMAIN Benchmark : Benchmark[r].price \in Nat /\ Benchmark[r].price >= 10
  /\ \A r \in DOMAIN MarketRow : MarketRow[r].price \in Nat /\ MarketRow[r].price >= 10
  /\ Loads \subseteq Seq(Nat) /\ Stated \subseteq Nat
  /\ Enquiry \subseteq [route : Route, body : STRING, weight : Nat, volume : Nat,
                        hazardous : BOOLEAN]

VARIABLES
  clock,
  listed,   \* route -> the prices the exchange lists now
  rates,    \* _RATE_CACHE: route -> what was answered, and when it was asked for
  enquiry,  \* request -> question, and how far it has come
  quotes    \* the last two quotes given

priceVars == <<clock, listed, rates, enquiry, quotes>>

NoRate == [price |-> 0, seen |-> 0]
Unknown == [rate |-> NoRate, at |-> -Ttl]
NotAsking == [step |-> "idle"]

PricesInit ==
  /\ clock = 0 /\ listed \in [Route -> Loads] /\ rates = [r \in Route |-> Unknown]
  /\ enquiry = [a \in Quoter |-> NotAsking] /\ quotes = <<>>

-----------------------------------------------------------------------------
(* Numbers                                                                  *)

AtMost(a, b) == IF a <= b THEN a ELSE b
AtLeast(a, b) == IF a >= b THEN a ELSE b
Share(x, percent) == (x * percent) \div 100

\* round() of Python: a half goes to the even neighbour.
RoundHalfEven(a, b) ==
  LET q == a \div b
      twice == 2 * (a % b)
  IN IF twice > b \/ (twice = b /\ q % 2 = 1) THEN q + 1 ELSE q

\* Mutant: the two lower bands are exchanged.
ShareExchanged(half) ==
  IF half >= 20 THEN 40 + half ELSE IF half >= 10 THEN 60 + half ELSE 40

\* Percent of the price of 20 t that less than 20 t cost.
ShareBelow(half) ==
  IF half >= 20 THEN 60 + half ELSE IF half >= 10 THEN 40 + half ELSE 40

\* A benchmark grows by 1.5 % a tonne above 20 t and up to 30.
ScaledBenchmark(price, half) ==
  IF half >= 40 THEN RoundHalfEven(price * (400 + 3 * AtMost(half - 40, 20)), 400)
  ELSE RoundHalfEven(price * ShareBelow(half), 100)

\* A row of the database does not, and is cut to a whole rouble.
ScaledRow(price, half) == IF half >= 40 THEN price ELSE Share(price, ShareBelow(half))

-----------------------------------------------------------------------------
(* The four sources of estimate_price_smart                                 *)

OfBody(table, r, body) == r \in DOMAIN table /\ table[r].body = body
Reversed(r) == <<r[2], r[1]>>

BaseRate(body) == IF body = "ref" THEN 110000 ELSE IF body = "open" THEN 88000 ELSE 80000

\* A factor of the formula, in percent, where its condition holds.
Factor(holds, n, percent) == IF holds THEN Share(n, percent) ELSE n

\* calculate_market_rate without a benchmark; the light load costs more than the 3 t load.
RatePerKm(q) ==
  LET half == AtLeast(1, q.weight)
      km == DistanceOf[q.route]
      byWeight == BaseRate(q.body) + 175 * AtMost(half, 40)
                  + IF half > 40 THEN 75 * AtMost(half - 40, 20) ELSE 0
      light == Factor(half < 6, byWeight, 108)
      bulky == Factor(2 * q.volume >= 8 * half, light, 105)
      short == Factor(km < 500, bulky, 140)
      abroad == Factor(q.route \in Abroad, short, 145)
      hard == Factor(q.hazardous, abroad, 115)
      long == Factor(km > 2500, hard, 95)
  IN AtLeast(72000, long)

Quote(q, source, price) ==
  [question |-> q, source |-> source, price |-> price, at |-> clock, seen |-> clock]

Calculated(q) == Quote(q, "calculated", RoundHalfEven(DistanceOf[q.route] * RatePerKm(q), 1000))

\* get_market_price: a benchmark, a row of the route, or one of the way back.
OfMarket(q) ==
  IF OfBody(Benchmark, q.route, q.body)
  THEN Quote(q, "benchmark", ScaledBenchmark(Benchmark[q.route].price, q.weight))
  ELSE LET r == IF OfBody(MarketRow, q.route, q.body) THEN q.route ELSE Reversed(q.route)
       IN IF OfBody(MarketRow, r, q.body)
          THEN Quote(q, "market", ScaledRow(MarketRow[r].price, q.weight))
          ELSE Calculated(q)

\* The exchange goes first, whatever the weight asked for.
Smart(q, rate) ==
  IF rate.price > 0 THEN [Quote(q, "ati.su", rate.price) EXCEPT !.seen = rate.seen]
  ELSE OfMarket(q)

\* get_route_rate: the median of what is neither a joke nor a contract for a year, the least
\* price that more than half of the loads do not exceed.
Median(prices) ==
  LET fit == {i \in DOMAIN prices : 5000 <= prices[i] /\ prices[i] <= 10000000}
      upTo(p) == {i \in fit : prices[i] <= p}
      middle == {i \in fit : 2 * Cardinality(upTo(prices[i])) > Cardinality(fit)}
  IN IF fit = {} THEN NoRate ELSE [price |-> Min({prices[i] : i \in middle}), seen |-> clock]

-----------------------------------------------------------------------------
(* get_recommended_rate and _build_ai_score_preview                         *)

\* The window around what is recommended.
Window(t) ==
  IF t.source = "calculated" THEN <<Share(t.price, 88), Share(t.price, 112)>>
  ELSE LET spread == AtLeast(5000, Share(t.price, 12))
       IN <<AtLeast(1, t.price - spread), t.price + spread>>

\* Percent by which a stated price is above the estimate.
Above(stated, t) == RoundHalfEven(100 * (stated - t.price), AtLeast(1, t.price))

PreviewScore(stated, t) ==
  LET p == Above(stated, t)
      score == 58 + (IF p >= 10 THEN 22 ELSE IF p <= -15 THEN -18 ELSE 8)
               + (IF t.question.volume > 0 THEN 5 ELSE 0)
               + (IF t.question.body # "tent" THEN 3 ELSE 0)
  IN IF p <= -45 THEN AtMost(score, 22) ELSE score

Verdict(stated, t) ==
  LET p == Above(stated, t) IN
  IF p >= 10 THEN "green" ELSE IF p <= -15 THEN "red" ELSE "yellow"

-----------------------------------------------------------------------------
(* get_route_rate_cached                                                    *)

\* Only the last two quotes are looked at.
Give(t) == quotes' = IF Len(quotes) < 2 THEN Append(quotes, t) ELSE <<quotes[2], t>>

Fresh(r) == clock - rates[r].at < Ttl

Hit(q) ==
  /\ Fresh(q.route) /\ Give(Smart(q, rates[q.route].rate))
  /\ UNCHANGED <<clock, listed, rates, enquiry>>

Miss(a, q) ==
  /\ enquiry[a] = NotAsking /\ ~Fresh(q.route)
  /\ enquiry' = [enquiry EXCEPT ![a] = [step |-> "sent", question |-> q, since |-> clock]]
  /\ UNCHANGED <<clock, listed, rates, quotes>>

\* No cookie, an expired session, a city that is not found and a status other than 200 are
\* answers too: no rate.
ExchangeAnswers(a) ==
  /\ enquiry[a].step = "sent"
  /\ \E rate \in {Median(listed[enquiry[a].question.route]), NoRate} :
       enquiry' = [enquiry EXCEPT ![a] =
         [step |-> "answered", question |-> enquiry[a].question, since |-> enquiry[a].since,
          rate |-> rate]]
  /\ UNCHANGED <<clock, listed, rates, quotes>>

\* Mutant: the answer is dated when it comes.
DatedLate(a) == clock

\* An answer is dated by when it was asked for, no rate like a rate; a slow answer replaces a
\* later one.
Dated(a) == enquiry[a].since

Remember(a) ==
  LET q == enquiry[a].question IN
  /\ enquiry[a].step = "answered"
  /\ rates' = [rates EXCEPT ![q.route] = [rate |-> enquiry[a].rate, at |-> Dated(a)]]
  /\ Give(Smart(q, enquiry[a].rate))
  /\ enquiry' = [enquiry EXCEPT ![a] = NotAsking] /\ UNCHANGED <<clock, listed>>

\* What waits too long, or fails otherwise, is not remembered.
GiveUp(a) ==
  /\ enquiry[a].step = "sent"
  /\ Give(Smart(enquiry[a].question, NoRate))
  /\ enquiry' = [enquiry EXCEPT ![a] = NotAsking] /\ UNCHANGED <<clock, listed, rates>>

Tick ==
  /\ clock < LastMinute /\ clock' = clock + 1
  /\ \A a \in {b \in Quoter : enquiry[b] # NotAsking} : clock' - enquiry[a].since <= Patience
  /\ listed' \in [Route -> Loads]
  /\ UNCHANGED <<rates, enquiry, quotes>>

PricesNext ==
  \/ Tick
  \/ \E q \in Enquiry : Hit(q) \/ \E a \in Quoter : Miss(a, q)
  \/ \E a \in Quoter : ExchangeAnswers(a) \/ Remember(a) \/ GiveUp(a)

PricesSpec == PricesInit /\ [][PricesNext]_priceVars

PricesTypeOK ==
  /\ clock \in 0..LastMinute /\ listed \in [Route -> Loads]
  /\ \A r \in Route : rates[r].at \in -Ttl..clock /\ rates[r].rate.price \in Nat
  /\ \A a \in Quoter : enquiry[a].step \in {"idle", "sent", "answered"}
  /\ Len(quotes) <= 2
  /\ \A i \in DOMAIN quotes : quotes[i].price \in Nat /\ quotes[i].seen \in 0..clock

-----------------------------------------------------------------------------

\* The quotes rest on the same knowledge.
Alike(s, t) ==
  /\ s.source = t.source /\ s.seen <= s.at /\ (s.source = "ati.su" => s.price = t.price)
  /\ [s.question EXCEPT !.weight = 0] = [t.question EXCEPT !.weight = 0]

\* 3 t, and the density of a bulky load: there the formula takes a factor back.
Relieved(q, half) ==
  LET factor(h) == (IF h < 6 THEN 108 ELSE 100) + (IF 2 * q.volume >= 8 * h THEN 105 ELSE 100)
  IN factor(half) < factor(AtLeast(1, q.weight))

\* What was quoted was true of the exchange less than the life of an answer ago, however slowly
\* it answered and whichever request is remembered.  Of two loads that differ in their weight
\* the heavier is never quoted less from the same source, except where the formula takes back
\* a factor of the light or bulky load.  The recommended rate lies in its window, and of two
\* stated prices the higher is never scored lower nor judged redder.
QuotesHold ==
  /\ \A i \in DOMAIN quotes : quotes[i].at - quotes[i].seen < Ttl
  /\ \A i, j \in DOMAIN quotes :
       LET s == quotes[i]
           t == quotes[j]
       IN Alike(s, t) /\ s.question.weight < t.question.weight /\ s.price > t.price =>
            s.source = "calculated" /\ Relieved(s.question, t.question.weight)
  /\ \A i \in DOMAIN quotes :
       /\ Window(quotes[i])[1] <= quotes[i].price /\ quotes[i].price <= Window(quotes[i])[2]
       /\ \A low, high \in Stated : low < high =>
            /\ PreviewScore(low, quotes[i]) <= PreviewScore(high, quotes[i])
            /\ Verdict(low, quotes[i]) = "green" => Verdict(high, quotes[i]) = "green"
            /\ Verdict(high, quotes[i]) = "red" => Verdict(low, quotes[i]) = "red"
=============================================================================
