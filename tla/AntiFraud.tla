------------------------------ MODULE AntiFraud ------------------------------
(* The review of deals by rules: src/antifraud (service.py, engine.py,      *)
(* docs.py, lists.py, rates.py, learning.py) behind src/api/antifraud.py    *)
(* and antifraud_admin.py.  Sessions read committed rows, so the queries of *)
(* one review see different moments.                                        *)
EXTENDS Integers, Sequences, SequencesExt, FiniteSets, FiniteSetsExt

CONSTANTS
  Deal,
  Submitted,    \* what may be sent: deal, facts, rate per km, closed or not
  CounterpartyOf,
  MarksOf,      \* counterparty -> its INN, phone and name
  Listing,      \* what may be listed: type and marks
  Request,      \* reviews in flight
  Adder,        \* requests to list a counterparty in flight
  Fallback,     \* band of rates of a route nothing is known of
  MinSample,    \* 10 in the code
  LeastSpread,  \* 5 in the code
  StrictMode,
  LastFew, RepeatAt,  \* the last 5 reviews, 3 of them high, in the code
  MostRows, MostReviews, MostRuns  \* bounds

ASSUME AntiFraudAssumption ==
  /\ MostRows \in Nat /\ MostReviews \in Nat /\ MostRuns \in Nat
  /\ MinSample \in Nat \ {0, 1} /\ LeastSpread \in Nat \ {0}
  /\ LastFew \in Nat /\ RepeatAt \in 1..LastFew
  /\ Submitted # {} /\ \A s \in Submitted : s.deal \in Deal

VARIABLES
  rows,       \* counterparty_lists, in order of insertion
  adding,     \* adder -> listing it found no row for
  verdict,    \* deal -> its row of moderation_reviews
  docs,       \* deal -> its row of deal_doc_requests
  history,    \* counterparty -> counterparty_risk_history, newest last
  closed,     \* rates of closed_deal_stats (one route)
  stats,      \* the route's row of route_rate_stats and its version
  band,       \* its row of route_rate_profiles
  cache,      \* the entry of RouteRateCache
  recompute,  \* the recompute task
  request     \* request -> review in flight

fraudVars ==
  <<rows, adding, verdict, docs, history, closed, stats, band, cache, recompute, request>>

Counterparty == {CounterpartyOf[d] : d \in Deal}
Level == <<"low", "medium", "high">>
None == [kind |-> "none"]
NoStats == [version |-> 0, n |-> 0, sum |-> 0, squares |-> 0]
Unread == [band |-> Fallback, stats |-> NoStats, made |-> 0]
Waiting == [step |-> "idle", sent |-> CHOOSE s \in Submitted : TRUE, stats |-> NoStats,
            profile |-> Unread, black |-> FALSE, white |-> FALSE, codes |-> {}, seen |-> None]

FraudInit ==
  /\ rows = <<>> /\ adding = [a \in Adder |-> None]
  /\ verdict = [d \in Deal |-> None] /\ docs = [d \in Deal |-> None]
  /\ history = [c \in Counterparty |-> <<>>] /\ closed = <<>>
  /\ stats = NoStats /\ band = Fallback /\ cache = None
  /\ recompute = [step |-> "idle", read |-> <<>>]
  /\ request = [r \in Request |-> Waiting]

-----------------------------------------------------------------------------
(* The rules                                                                *)

\* Points of a reason; the facts of the deal itself are its first eight.
Points(code) ==
  CASE code \in {"cash_payment", "new_counterparty", "missing_dimensions", "price_too_high"} -> 1
    [] code \in {"suspicious_words", "low_trust_score", "invalid_dates",
                 "price_statistically_high"} -> 2
    [] code \in {"high_prepay", "has_complaints", "price_too_low", "chronic_risk_profile"} -> 3
    [] code \in {"price_statistically_low", "repeat_high_risk_pattern"} -> 4
    [] code = "blacklist_match" -> IF StrictMode THEN 7 ELSE 4

Score(codes) == MapThenSumSet(Points, codes)

\* n (n - 1) times the variance of the sample, and n times a rate's distance from the mean.
Spread(s) == s.n * s.squares - s.sum * s.sum
Off(rate, s) == s.n * rate - s.sum

Statistical(s) ==
  s.n >= MinSample /\ Spread(s) >= LeastSpread * LeastSpread * s.n * (s.n - 1)

\* The z-score of enough closed deals, or else the band of the route.
PriceCodes(rate, p) ==
  LET s == p.stats
      Far(a, b) == a * Off(rate, s) * Off(rate, s) * (s.n - 1) > b * Spread(s) * s.n
  IN IF Statistical(s)
     THEN {c \in {"price_statistically_low"} : Off(rate, s) < 0 /\ Far(4, 25)} \cup
          {c \in {"price_statistically_high"} : Off(rate, s) > 0 /\ Far(1, 9)}
     ELSE {c \in {"price_too_low"} : rate < p.band[1]} \cup
          {c \in {"price_too_high"} : rate > p.band[2]}

LastOnes(s, n) == SubSeq(s, Len(s) - Min({n, Len(s)}) + 1, Len(s))
HighOfLast(h) ==
  Cardinality({i \in DOMAIN h : i > Len(h) - LastFew /\ h[i].risk = "high"})
Chronic(h) ==
  LET ten == LastOnes(h, 10) IN FoldSeq(LAMBDA x, t : t + x.score, 0, ten) > 6 * Len(ten)

HistoryCodes(h) ==
  {c \in {"repeat_high_risk_pattern"} : HighOfLast(h) >= RepeatAt} \cup
  {c \in {"chronic_risk_profile"} : Chronic(h)}

\* Three reasons raise any score to high; the white list lowers it one level.
Escalated(codes) ==
  \/ {"blacklist_match", "repeat_high_risk_pattern"} \cap codes # {}
  \/ {"price_statistically_low", "high_prepay"} \subseteq codes

RiskByScore(codes, white) ==
  LET rank == IF Score(codes) >= 7 THEN 3 ELSE IF Score(codes) >= 3 THEN 2 ELSE 1
  IN Level[IF white /\ rank > 1 THEN rank - 1 ELSE rank]

RiskOf(codes, white) == IF Escalated(codes) THEN "high" ELSE RiskByScore(codes, white)

RequiredDocs(risk, codes) ==
  LET Has(s) == codes \cap s # {} IN
  {x \in {"contract_or_order", "company_details", "payment_confirmation"} :
     \/ risk = "high" \/ Escalated(codes)
     \/ Has({"high_prepay", "has_complaints", "price_too_low", "low_trust_score",
             "blacklist_match"})} \cup
  {x \in {"payment_confirmation"} : Has({"cash_payment", "high_prepay"})} \cup
  {x \in {"cargo_docs"} : Has({"missing_dimensions", "suspicious_words"})} \cup
  {x \in {"company_details"} : Has({"new_counterparty"})} \cup
  {x \in {"driver_docs"} : Escalated(codes) \/ Has({"has_complaints", "blacklist_match"})}

-----------------------------------------------------------------------------
(* run_deal_review_and_save, a query at a time                              *)

Counted == FoldSet(LAMBDA c, n : n + Len(history[c]), 0, Counterparty)
Flying == Cardinality({r \in Request : request[r].step # "idle"})

\* Mutant: an entry that has not run out is good.
HitAnyVersion(version) == cache # None

\* The entry of the cache is good for the version of the statistics it was made with.
CacheHit(version) == cache # None /\ cache.version = version

ReadStats(r, sent) ==
  /\ request[r].step = "idle" /\ Counted + Flying < MostReviews
  /\ request' = [request EXCEPT ![r] =
       [Waiting EXCEPT !.step = IF CacheHit(stats.version) THEN "lists" ELSE "profile",
                       !.sent = sent, !.stats = stats,
                       !.profile = IF CacheHit(stats.version) THEN cache.profile ELSE Unread]]
  /\ UNCHANGED <<rows, adding, verdict, docs, history, closed, stats, band, cache, recompute>>

ReadProfile(r) ==
  /\ request[r].step = "profile"
  /\ request' = [request EXCEPT ![r].step = "fill", ![r].profile =
       [band |-> band, stats |-> request[r].stats, made |-> stats.version]]
  /\ UNCHANGED <<rows, adding, verdict, docs, history, closed, stats, band, cache, recompute>>

\* The answer arrives; the task may have cleared the cache since the query.
FillCache(r) ==
  /\ request[r].step = "fill"
  /\ cache' = [kind |-> "entry", version |-> request[r].stats.version,
               profile |-> request[r].profile]
  /\ request' = [request EXCEPT ![r].step = "lists"]
  /\ UNCHANGED <<rows, adding, verdict, docs, history, closed, stats, band, recompute>>

RowsWith(marks) == {i \in 1..Len(rows) : rows[i].marks \cap marks # {}}

CheckLists(r) ==
  LET found == {rows[i].type : i \in RowsWith(MarksOf[CounterpartyOf[request[r].sent.deal]])} IN
  /\ request[r].step = "lists"
  /\ request' = [request EXCEPT ![r].step = "history", ![r].black = "black" \in found,
                                ![r].white = "white" \in found]
  /\ UNCHANGED <<rows, adding, verdict, docs, history, closed, stats, band, cache, recompute>>

Judge(r) ==
  LET q == request[r] IN
  /\ q.step = "history"
  /\ request' = [request EXCEPT ![r].step = "row", ![r].codes =
       q.sent.facts \cup PriceCodes(q.sent.rate, q.profile)
         \cup HistoryCodes(history[CounterpartyOf[q.sent.deal]])
         \cup {c \in {"blacklist_match"} : q.black}]
  /\ UNCHANGED <<rows, adding, verdict, docs, history, closed, stats, band, cache, recompute>>

FindRow(r) ==
  /\ request[r].step = "row"
  /\ request' = [request EXCEPT ![r].step = "save", ![r].seen = verdict[request[r].sent.deal]]
  /\ UNCHANGED <<rows, adding, verdict, docs, history, closed, stats, band, cache, recompute>>

RiskFound(q) == RiskOf(q.codes, q.white)

\* The session writes the columns that differ from the row it loaded.
Updated(seen, row, new) ==
  IF seen = None THEN new
  ELSE [new EXCEPT !.risk = IF @ = seen.risk THEN row.risk ELSE @,
                   !.codes = IF @ = seen.codes THEN row.codes ELSE @]

\* Mutant: the history keeps the risk before the escalation.
RecordedEarly(q) ==
  [deal |-> q.sent.deal, risk |-> RiskByScore(q.codes, q.white), score |-> Score(q.codes)]

Recorded(q) == [deal |-> q.sent.deal, risk |-> RiskFound(q), score |-> Score(q.codes)]

\* The row of the documents is found and written in this step.  One commit; a deal sent as
\* closed teaches its rate.
Save(r) ==
  LET q == request[r]
      d == q.sent.deal
      new == [kind |-> "row", risk |-> RiskFound(q), codes |-> q.codes]
  IN
  /\ q.step = "save" /\ (q.seen = None => verdict[d] = None)
  /\ verdict' = [verdict EXCEPT ![d] = Updated(q.seen, @, new)]
  /\ docs' = [docs EXCEPT ![d] =
       [kind |-> IF new.risk = "low" THEN "skipped" ELSE "requested",
        docs |-> RequiredDocs(new.risk, q.codes)]]
  /\ history' = [history EXCEPT ![CounterpartyOf[d]] = Append(@, Recorded(q))]
  /\ closed' = IF q.sent.closed /\ q.sent.rate > 0 THEN Append(closed, q.sent.rate) ELSE closed
  /\ request' = [request EXCEPT ![r] = Waiting]
  /\ UNCHANGED <<rows, adding, stats, band, cache, recompute>>

\* Two first reviews of a deal meet at the unique key: the second is rolled back.
Clash(r) ==
  /\ request[r].step = "save" /\ request[r].seen = None
  /\ verdict[request[r].sent.deal] # None
  /\ request' = [request EXCEPT ![r] = Waiting]
  /\ UNCHANGED <<rows, adding, verdict, docs, history, closed, stats, band, cache, recompute>>

-----------------------------------------------------------------------------
(* The lists                                                                *)

\* One equal row is returned as it is, two make the query raise.
LookListed(a, l) ==
  LET same == {i \in RowsWith(l.marks) : rows[i].type = l.type} IN
  /\ adding[a] = None /\ same = {} /\ Len(rows) < MostRows
  /\ adding' = [adding EXCEPT ![a] = l]
  /\ UNCHANGED <<rows, verdict, docs, history, closed, stats, band, cache, recompute, request>>

InsertListed(a) ==
  /\ adding[a] # None /\ Len(rows) < MostRows
  /\ rows' = Append(rows, adding[a]) /\ adding' = [adding EXCEPT ![a] = None]
  /\ UNCHANGED <<verdict, docs, history, closed, stats, band, cache, recompute, request>>

-----------------------------------------------------------------------------
(* recompute_route_stats: one task at a time                                *)

\* Four times the quartile k of a sample, interpolated as _percentile does.
Quartile(sample, k) ==
  LET s == SortSeq(sample, <)
      at == (Len(s) - 1) * k
      left == at \div 4 + 1
      right == (at + 3) \div 4 + 1
  IN s[left] * (4 - (at % 4)) + s[right] * (at % 4)

\* round(): to the nearest integer, a half to the even one.
Rounded(x4) ==
  LET q == x4 \div 4 r == x4 % 4 IN
  IF r > 2 \/ (r = 2 /\ q % 2 = 1) THEN q + 1 ELSE q

BandOf(sample) ==
  LET low == Max({Rounded(Quartile(sample, 1)), 1})
  IN <<low, Max({Rounded(Quartile(sample, 3)), low + 1})>>

StatsOf(sample, version) ==
  [version |-> version, n |-> Len(sample), sum |-> FoldSeq(+, 0, sample),
   squares |-> FoldSeq(LAMBDA x, t : t + x * x, 0, sample)]

StartRecompute ==
  /\ recompute.step = "idle" /\ stats.version < MostRuns
  /\ recompute' = [step |-> "read", read |-> closed]
  /\ UNCHANGED <<rows, adding, verdict, docs, history, closed, stats, band, cache, request>>

CommitRecompute ==
  /\ recompute.step = "read"
  /\ IF recompute.read = <<>> THEN UNCHANGED <<stats, band>>
     ELSE /\ stats' = StatsOf(recompute.read, stats.version + 1)
          /\ band' = BandOf(recompute.read)
  /\ recompute' = [recompute EXCEPT !.step = "clear", !.read = <<>>]
  /\ UNCHANGED <<rows, adding, verdict, docs, history, closed, cache, request>>

ClearCache ==
  /\ recompute.step = "clear"
  /\ cache' = None /\ recompute' = [recompute EXCEPT !.step = "idle"]
  /\ UNCHANGED <<rows, adding, verdict, docs, history, closed, stats, band, request>>

\* An entry is kept for route_rate_cache_ttl_sec; a restart of the API empties the cache too.
CacheExpires ==
  /\ cache # None /\ cache' = None
  /\ UNCHANGED <<rows, adding, verdict, docs, history, closed, stats, band, recompute, request>>

-----------------------------------------------------------------------------

FraudNext ==
  \/ \E r \in Request :
       \/ \E sent \in Submitted : ReadStats(r, sent)
       \/ ReadProfile(r) \/ FillCache(r) \/ CheckLists(r) \/ Judge(r)
       \/ FindRow(r) \/ Save(r) \/ Clash(r)
  \/ \E a \in Adder : (\E l \in Listing : LookListed(a, l)) \/ InsertListed(a)
  \/ StartRecompute \/ CommitRecompute \/ ClearCache \/ CacheExpires

FraudSpec == FraudInit /\ [][FraudNext]_fraudVars

FraudTypeOK ==
  /\ \A i \in 1..Len(rows) : rows[i] \in Listing
  /\ \A a \in Adder : adding[a] \in Listing \cup {None}
  /\ \A d \in Deal : verdict[d] = None \/ verdict[d].risk \in Range(Level)
  /\ \A d \in Deal : docs[d].kind \in {"none", "requested", "skipped"}
  /\ recompute.step \in {"idle", "read", "clear"} /\ stats.version \in 0..MostRuns
  /\ \A r \in Request :
       request[r].step \in {"idle", "profile", "fill", "lists", "history", "row", "save"}

\* A counterparty three of whose last five reviews were high stays so: whatever is sent, each
\* later review adds another high one.  Only a review that judged the history before the third
\* was saved, and is saved after it, can push a high one out of the last five.
PatternStays ==
  [][\A c \in Counterparty :
       /\ HighOfLast(history[c]) >= RepeatAt
       /\ \A r \in Request :
            request[r].step \in {"row", "save"} /\ CounterpartyOf[request[r].sent.deal] = c =>
              "repeat_high_risk_pattern" \in request[r].codes
       => HighOfLast(history'[c]) >= RepeatAt]_fraudVars

\* No review judges a price by a band older than the statistics it read: what a recompute
\* replaced is not served from the cache, though a reader may fill it after the clearing.
BandIsCurrent ==
  \A r \in Request : request[r].step \in {"lists", "history"} =>
    request[r].profile.made >= request[r].stats.version
=============================================================================
