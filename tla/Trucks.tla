------------------------------- MODULE Trucks -------------------------------
(* Trucks on offer.  src/services/avito_service.py collects advertisements, *)
(* the worker reads them (src/parser_bot/truck_extractor.py) and saves one  *)
(* row each, src/core/matching.py searches the rows for a cargo, and        *)
(* src/api/trucks.py and src/bot/handlers/trucks.py show what it finds,     *)
(* with the contacts that are paid for (src/bot/handlers/payments.py).      *)
EXTENDS Integers, Sequences, SequencesExt, FiniteSets, FiniteSetsExt, Order

CONSTANTS
  Ad,
  Seeker,          \* users who look for a truck
  RegexOf,         \* what the patterns read in an ad
  ModelOf,         \* ad -> what a language model may read in it
  NoReading,       \* the model failed, or answered no JSON
  Texts, Fields,   \* searches in words, and with the fields filled in
  CandidateLimit,  \* rows of one query: 30 in the code
  TopN,            \* trucks to show
  ModelKey,        \* a key of a model is set
  MostInvoices     \* bound: invoices of one user for one truck at a time

\* A weight is a number of kilograms, 0 where none is known.
ASSUME TrucksAssumption ==
  /\ TopN \in Nat \ {0} /\ CandidateLimit \in Nat \ {0} /\ MostInvoices \in Nat
  /\ \A t \in Ad : RegexOf[t].kg \in Nat /\ \A said \in ModelOf[t] : said.kg \in Nat
  /\ \A x \in Texts : x.kg \in Nat /\ x.parsed.max \in Nat /\ x.parsed.min \in Nat
  /\ \A q \in Fields : q.kg \in Nat

VARIABLES
  seen,      \* ads with a key avito:seen:<id>
  cycle,     \* the pass over the pages
  queue,     \* ad -> its messages on the stream
  offers,    \* available_trucks: ad -> what is known of it
  recent,    \* ads with a row, the last seen first
  lost,      \* seen ads whose message was never sent, or not saved
  paidUp,    \* users with Premium
  unlocked,  \* truck_contact_unlocks
  invoices,  \* <<user, ad>> -> invoices not paid
  search,    \* user -> the search in hand
  draft      \* users with a key truck:to_cargo:<id>

truckVars ==
  <<seen, cycle, queue, offers, recent, lost, paidUp, unlocked, invoices, search, draft>>
collecting == <<seen, cycle, queue, lost>>
paying == <<paidUp, unlocked, invoices>>

Facts == {"type", "kg", "city", "region", "routes"}
Nothing(f) == IF f = "kg" THEN 0 ELSE IF f = "routes" THEN {} ELSE ""
NoFacts == [f \in Facts |-> Nothing(f)]
NoQuery == [from |-> "", to |-> "", type |-> "", kg |-> 0]
AtRest == [step |-> "rest", left |-> {}]
NoSearch ==
  [step |-> "idle", via |-> "api", query |-> NoQuery, level |-> 1, found |-> <<>>, top |-> <<>>,
   premium |-> FALSE, open |-> {}, steady |-> {}, owned |-> {}]

Levels == 1..6

TrucksTypeOK ==
  /\ seen \subseteq Ad /\ lost \subseteq Ad /\ draft \subseteq Seeker
  /\ cycle.step \in {"rest", "walk", "add"} /\ cycle.left \subseteq Ad
  /\ queue \in [Ad -> Nat] /\ DOMAIN offers = Ad
  /\ recent \in Seq(Ad) /\ IsInjective(recent)
  /\ \A t \in Ad \ Range(recent) : offers[t] = NoFacts
  /\ paidUp \subseteq Seeker /\ unlocked \subseteq Seeker \X Ad
  /\ invoices \in [Seeker \X Ad -> 0..MostInvoices]
  /\ \A u \in Seeker : search[u].level \in Levels /\ Range(search[u].top) \subseteq Ad

TrucksInit ==
  /\ seen = {} /\ cycle = AtRest /\ queue = [t \in Ad |-> 0] /\ lost = {}
  /\ offers = [t \in Ad |-> NoFacts] /\ recent = <<>>
  /\ paidUp = {} /\ unlocked = {} /\ invoices = [p \in Seeker \X Ad |-> 0]
  /\ search = [u \in Seeker |-> NoSearch] /\ draft = {}

-----------------------------------------------------------------------------
(* What fits a search                                                       *)

\* Types of trucks that take a cargo for one type.
Compatible(type) ==
  CASE type = "tent" -> {"tent", "board", "long"}
    [] type = "board" -> {"board", "tent"}
    [] type \in {"ref", "iso"} -> {"ref", "iso"}
    [] type = "gazelle" -> {"gazelle", "board"}
    [] OTHER -> {type}

\* What the six queries of match_trucks allow, in their order.  The last is
\* the fourth again: without a city the unknown place it allows is no filter.
Routed(l) == l = 1
Placed(l) == l <= 3
UnknownKg(l) == l \in {2, 4, 6}
LowerKg(l) == l \in {3, 5}
UnknownType(l) == l > 1

Least(kg) == Max({kg \div 2, kg - 10000})

Carries(row, kg, l) ==
  \/ row.kg # 0 /\ row.kg >= kg
  \/ LowerKg(l) /\ row.kg # 0 /\ row.kg >= Least(kg)
  \/ UnknownKg(l) /\ row.kg = 0

Fits(row, q, l) ==
  /\ q.kg > 0 => Carries(row, q.kg, l)
  /\ q.type # "" => row.type \in Compatible(q.type) \/ (UnknownType(l) /\ row.type = "")
  /\ Placed(l) /\ q.from # "" => q.from \in {row.city, row.region} \cup row.routes
  /\ Routed(l) /\ q.to # "" => q.to \in row.routes

\* Which of the trucks with a row fit at which levels.
FitPairs(q, rws, there) == {p \in Levels \X there : Fits(rws[p[2]], q, p[1])}

Leading(s, n) == SubSeq(s, 1, Min({n, Len(s)}))
Apart(a, b) == IF a > b THEN a - b ELSE b - a

\* The last seen first, cut, then with smaller trucks allowed the nearest in capacity.
Candidates(q, l) ==
  LET fit == FirstOf({i \in DOMAIN recent : Fits(offers[recent[i]], q, l)}, CandidateLimit,
                     Ascending)
      kg(i) == offers[recent[i]].kg
      apart(i) == Apart(kg(i), q.kg)
      nearest == {p \in fit \X fit : IF apart(p[1]) # apart(p[2]) THEN apart(p[1]) < apart(p[2])
                                     ELSE IF kg(p[1]) # kg(p[2]) THEN kg(p[1]) > kg(p[2])
                                     ELSE p[1] < p[2]}
      rows == InOrder(fit, IF LowerKg(l) /\ q.kg > 0 THEN nearest ELSE Ascending)
  IN [k \in DOMAIN rows |-> recent[rows[k]]]

\* The model names any of them, one twice maybe; without an answer the first are taken.
Ranked(found) ==
  IF ModelKey /\ Len(found) > TopN
  THEN {Leading(found, TopN)}
       \cup UNION {{[i \in 1..n |-> found[pick[i]]] : pick \in [1..n -> 1..Len(found)]} :
                   n \in 1..TopN}
  ELSE {Leading(found, TopN)}

-----------------------------------------------------------------------------
(* What a text asks for                                                     *)

FirstSaid(s) == LET said == SelectSeq(s, LAMBDA c : c # "") IN
                IF said = <<>> THEN "" ELSE said[1]

\* Numbers over 100 are kilograms.
Kg(n) == IF n > 100 THEN n ELSE 1000 * n

TypeForWeight(kg) ==
  IF kg = 0 THEN "" ELSE IF kg <= 2500 THEN "gazelle" ELSE IF kg <= 7000 THEN "board" ELSE "tent"

\* A text is read three ways: by the model or its patterns (parsed), by the
\* words "from ... to ..." (from, to), and by the names of cities in it (hits).
Params(x) ==
  LET p == x.parsed
      hit(i) == IF Len(x.hits) >= i THEN x.hits[i] ELSE ""
      kg == IF x.kg # 0 THEN x.kg ELSE Kg(IF p.max # 0 THEN p.max ELSE p.min)
      from == FirstSaid(<<x.from, p.from, hit(1)>>)
      to == FirstSaid(<<x.to, p.to>>)
      swap == hit(2) \notin {"", from} /\ to \in {"", from}
      unsaid == [from |-> "", to |-> "", max |-> 0, min |-> 0]
  IN IF p = unsaid /\ x.from = "" /\ x.to = "" /\ x.hits = <<>>
     THEN NoQuery
     ELSE [from |-> from, to |-> IF swap THEN hit(2) ELSE to, kg |-> kg,
           type |-> IF x.type # "" THEN x.type ELSE TypeForWeight(kg)]

-----------------------------------------------------------------------------
(* Collecting                                                               *)

Walking(left) == IF left = {} THEN AtRest ELSE [step |-> "walk", left |-> left]

\* The pages of a cycle show some ads.
Scrape(S) ==
  /\ cycle = AtRest /\ S # {}
  /\ cycle' = Walking(S)
  /\ UNCHANGED <<seen, queue, lost, offers, recent, paying, search, draft>>

\* SET NX of the seen key.
Mark(t) ==
  /\ cycle.step = "walk" /\ t \in cycle.left
  /\ seen' = seen \cup {t}
  /\ cycle' = IF t \in seen THEN Walking(cycle.left \ {t})
              ELSE [step |-> "add", left |-> cycle.left \ {t}, ad |-> t]
  /\ UNCHANGED <<queue, lost, offers, recent, paying, search, draft>>

\* XADD.
Enqueue ==
  /\ cycle.step = "add"
  /\ queue' = [queue EXCEPT ![cycle.ad] = @ + 1]
  /\ cycle' = Walking(cycle.left)
  /\ UNCHANGED <<seen, lost, offers, recent, paying, search, draft>>

\* An error ends the cycle, or the process stops in it.
CycleFails ==
  /\ cycle.step # "rest"
  /\ lost' = IF cycle.step = "add" THEN lost \cup {cycle.ad} ELSE lost
  /\ cycle' = AtRest
  /\ UNCHANGED <<seen, queue, offers, recent, paying, search, draft>>

\* Three days pass.
SeenExpires(t) ==
  /\ t \in seen /\ queue[t] = 0
  /\ seen' = seen \ {t} /\ lost' = lost \ {t}
  /\ UNCHANGED <<cycle, queue, offers, recent, paying, search, draft>>

-----------------------------------------------------------------------------
(* Saving                                                                   *)

\* The facts of a, and of b where a has none: what a model said over what the
\* patterns read, and what an ad says now over what its row says.
Over(a, b) == [f \in Facts |-> IF a[f] # Nothing(f) THEN a[f] ELSE b[f]]

Reading(t, said) == IF said = NoReading THEN RegexOf[t] ELSE Over(said, RegexOf[t])

\* What has fitted each search from its beginning to now.
StillFit ==
  [u \in Seeker |-> [search[u] EXCEPT
                     !.steady = @ \cap FitPairs(search[u].query, offers', Range(recent'))]]

SaveTruck(t, said) ==
  /\ queue[t] > 0 /\ said \in ModelOf[t] \cup {NoReading}
  /\ offers' = [offers EXCEPT ![t] = Over(Reading(t, said), @)]
  /\ recent' = <<t>> \o RemoveFirst(recent, t)
  /\ queue' = [queue EXCEPT ![t] = @ - 1]
  /\ search' = StillFit
  /\ UNCHANGED <<seen, cycle, lost, paying, draft>>

\* An error of the database is logged, and the message acknowledged.
SaveFails(t) ==
  /\ queue[t] > 0
  /\ queue' = [queue EXCEPT ![t] = @ - 1] /\ lost' = lost \cup {t}
  /\ UNCHANGED <<seen, cycle, offers, recent, paying, search, draft>>

-----------------------------------------------------------------------------
(* Searching                                                                *)

Owned(u) == {t \in Ad : <<u, t>> \in unlocked}

\* The API reads the user first, the bot after the search.
BeginSearch(u, via, q) ==
  /\ search[u].step \in {"idle", "shown"}
  /\ search' = [search EXCEPT ![u] =
       [NoSearch EXCEPT !.step = IF via = "api" THEN "user" ELSE "find", !.via = via, !.query = q,
                        !.steady = FitPairs(q, offers, Range(recent)), !.owned = Owned(u)]]
  /\ UNCHANGED <<collecting, offers, recent, paying, draft>>

\* The bot wants a city to start from, the API any field.
AskInWords(u, via, x) ==
  /\ IF via = "bot" THEN ~x.offer /\ Params(x).from # "" ELSE Params(x) # NoQuery
  /\ BeginSearch(u, via, Params(x))

AskByFields(u, via, q) ==
  /\ via = "bot" => q.from # ""
  /\ BeginSearch(u, via, q)

SearchGoes(u, s) ==
  /\ search' = [search EXCEPT ![u] = s]
  /\ UNCHANGED <<collecting, offers, recent, paying>>

ReadUser(u) ==
  LET s == search[u] IN
  /\ s.step = "user"
  /\ SearchGoes(u, [s EXCEPT !.premium = u \in paidUp,
                             !.step = IF s.via = "api" THEN "find" ELSE "unlocks"])
  /\ UNCHANGED draft

\* Mutant: a query is left out.
LevelAfterNext(l) == Min({l + 2, 6})

LevelAfter(l) == l + 1

\* One query of match_trucks; the next one is wider.
Find(u) ==
  LET s == search[u]  found == Candidates(s.query, s.level) IN
  /\ s.step = "find"
  /\ SearchGoes(u, IF found = <<>> /\ s.level < 6
                   THEN [s EXCEPT !.level = LevelAfter(@)]
                   ELSE [s EXCEPT !.found = found, !.step = "rank"])
  /\ UNCHANGED draft

\* After the model has answered: the bot keeps the request of who found nothing.
Rank(u) ==
  LET s == search[u] IN
  /\ s.step = "rank"
  /\ \E top \in Ranked(s.found) :
       SearchGoes(u, [s EXCEPT
         !.top = top,
         !.step = IF s.via = "api" THEN IF s.premium THEN "shown" ELSE "unlocks"
                  ELSE IF top = <<>> THEN "shown" ELSE "user"])
  /\ draft' = IF s.via = "bot" /\ s.found = <<>> THEN draft \cup {u} ELSE draft

ReadUnlocks(u) ==
  LET s == search[u] IN
  /\ s.step = "unlocks"
  /\ SearchGoes(u, [s EXCEPT !.open = Range(s.top) \cap Owned(u), !.step = "shown"])
  /\ UNCHANGED draft

DraftExpires(u) ==
  /\ u \in draft /\ draft' = draft \ {u}
  /\ UNCHANGED <<collecting, offers, recent, paying, search>>

-----------------------------------------------------------------------------
(* Paying for a contact                                                     *)

\* A press of the button, where it does not show the contact at once.
Invoice(u, t) ==
  /\ t \in Range(recent) /\ u \notin paidUp /\ <<u, t>> \notin unlocked
  /\ invoices[u, t] < MostInvoices
  /\ invoices' = [invoices EXCEPT ![<<u, t>>] = @ + 1]
  /\ UNCHANGED <<collecting, offers, recent, paidUp, unlocked, search, draft>>

\* A second invoice for one truck is paid for nothing: there is one row.
PayInvoice(u, t) ==
  /\ invoices[u, t] > 0
  /\ invoices' = [invoices EXCEPT ![<<u, t>>] = @ - 1]
  /\ unlocked' = unlocked \cup {<<u, t>>}
  /\ UNCHANGED <<collecting, offers, recent, paidUp, search, draft>>

\* Premium is bought and runs out (Premium).
TurnPremium(u) ==
  /\ paidUp' = IF u \in paidUp THEN paidUp \ {u} ELSE paidUp \cup {u}
  /\ UNCHANGED <<collecting, offers, recent, unlocked, invoices, search, draft>>

-----------------------------------------------------------------------------

TrucksNext ==
  \/ \E S \in SUBSET Ad : Scrape(S)
  \/ Enqueue \/ CycleFails
  \/ \E t \in Ad : Mark(t) \/ SeenExpires(t) \/ SaveFails(t)
  \/ \E t \in Ad : \E said \in ModelOf[t] \cup {NoReading} : SaveTruck(t, said)
  \/ \E u \in Seeker : ReadUser(u) \/ Find(u) \/ Rank(u) \/ ReadUnlocks(u)
                       \/ DraftExpires(u) \/ TurnPremium(u)
  \/ \E u \in Seeker, via \in {"api", "bot"}, x \in Texts : AskInWords(u, via, x)
  \/ \E u \in Seeker, via \in {"api", "bot"}, q \in Fields : AskByFields(u, via, q)
  \/ \E u \in Seeker, t \in Ad : Invoice(u, t) \/ PayInvoice(u, t)

TrucksSpec == TrucksInit /\ [][TrucksNext]_truckVars

-----------------------------------------------------------------------------

Shown(u) == search[u].step = "shown"

\* A search does not pass over what a stricter query would have found: a truck
\* that fitted at a level from the beginning to the end means an answer of that
\* level or a stricter one (match_trucks queries while the worker saves).
StrictestFirst ==
  \A u \in Seeker : Shown(u) =>
    \A p \in search[u].steady : search[u].top # <<>> /\ search[u].level <= p[1]

\* Without Premium a user sees the contacts he has paid for and no others, and
\* every one he had paid for when he asked (_serialize_trucks, _results_keyboard).
ContactIsPaid ==
  \A u \in Seeker : Shown(u) /\ ~search[u].premium =>
    /\ search[u].open \subseteq Owned(u)
    /\ search[u].owned \cap Range(search[u].top) \subseteq search[u].open

\* An ad is not passed over for having been seen: it is on its way, it has its
\* row, or an error lost it until its key expires (_is_seen marks before XADD).
AdsAreKept ==
  \A t \in seen \ lost :
    t \in Range(recent) \/ queue[t] > 0 \/ (cycle.step = "add" /\ cycle.ad = t)
=============================================================================
