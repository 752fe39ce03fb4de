--------------------------- MODULE PlatformProofs ---------------------------
(***************************************************************************)
(* Theorems of the parts that judge, antifraud's reviews (AntiFraud), the   *)
(* complaints about events of the feed (Feed) and the quotes (Prices), and  *)
(* then what all the parts promise together; for every value of their       *)
(* constants.                                                               *)
(*                                                                          *)
(* A review carries statistics no older than those its band was cut from    *)
(* (ReviewIsCurrent), whatever recompute commits between its queries, and   *)
(* its deal's row is never taken away (SeenIsThere).  Of the last deals of  *)
(* a counterparty a new one of high risk pushes out at most one that was    *)
(* high (OneMoreHigh).  A reader counts complaints that are in the table    *)
(* (TallyHolds), and no complaint is ever removed.  What an exchange        *)
(* answered was seen after it had been asked for (SeenSince), which is what *)
(* an answer is dated by; rounding, shares and the factors of the formula   *)
(* all grow with what they are taken of.  The parts of the platform share   *)
(* no state, so what each keeps for its own specification, all keep         *)
(* together (PartsRunAlone).                                                *)
(***************************************************************************)
EXTENDS MCPlatform, ReachProofs

-----------------------------------------------------------------------------
(* Antifraud.                                                               *)

Rules ==
  {"price_statistically_low", "price_statistically_high", "price_too_low", "price_too_high",
   "repeat_high_risk_pattern", "chronic_risk_profile", "blacklist_match"}
GivenFacts == UNION {s.facts : s \in Submitted}
Reasons == GivenFacts \cup Rules
Risks == {"low", "medium", "high"}
Samples == Seq({s.rate : s \in Submitted})
Versions == 0..MostRuns
StatsRows == {NoStats} \cup {StatsOf(s, v) : s \in Samples, v \in Versions}
Profiles == [band : {Fallback} \cup {BandOf(s) : s \in Samples}, stats : StatsRows,
             made : Versions]
Verdicts == {None} \cup [kind : {"row"}, risk : Risks, codes : SUBSET Reasons]
HistoryRows == [deal : Deal, risk : Risks, score : {Score(c) : c \in SUBSET Reasons}]
Reviews == [step : {"idle", "profile", "fill", "lists", "history", "row", "save"},
            sent : Submitted, stats : StatsRows, profile : Profiles, black : BOOLEAN,
            white : BOOLEAN, codes : SUBSET Reasons, seen : Verdicts]

FraudTypes ==
  /\ verdict \in [Deal -> Verdicts] /\ history \in [Counterparty -> Seq(HistoryRows)]
  /\ closed \in Samples /\ stats \in StatsRows
  /\ band \in {Fallback} \cup {BandOf(s) : s \in Samples}
  /\ cache \in {None} \cup [kind : {"entry"}, version : Versions, profile : Profiles]
  /\ recompute \in [step : {"idle", "read", "clear"}, read : Samples]
  /\ recompute.step = "read" => stats.version < MostRuns
  /\ request \in [Request -> Reviews]

\* A review read statistics that were there, and its band was made with none older.
ReviewIsCurrent(q, version) ==
  /\ q.stats.version <= version
  /\ q.step \in {"fill", "lists", "history"} => q.profile.made >= q.stats.version

\* A row of a deal that a review has found is there.
SeenIsThere(q, rowOf) == q.step = "save" /\ q.seen # None => rowOf[q.sent.deal] # None

\* The entry of the cache was made with statistics no older than its version says.
CacheIsHonest == cache # None => cache.profile.made >= cache.version

FraudInv ==
  /\ FraudTypes /\ CacheIsHonest
  /\ \A r \in Request : /\ ReviewIsCurrent(request[r], stats.version)
                         /\ SeenIsThere(request[r], verdict)

LEMMA FraudHolds == FraudInv => BandIsCurrent
BY DEF FraudInv, ReviewIsCurrent, BandIsCurrent

LEMMA StatsHaveVersion == ASSUME NEW s \in StatsRows PROVE s.version \in Versions
<1>1. NoStats.version = 0 /\ 0 \in Versions
  BY AntiFraudAssumption DEF NoStats, Versions
<1>2. \A x, v : StatsOf(x, v).version = v
  BY Zenon DEF StatsOf
<1> QED BY <1>1, <1>2 DEF StatsRows

LEMMA NothingIsThere ==
  /\ NoStats \in StatsRows /\ NoStats.version = 0 /\ Unread \in Profiles /\ None \in Verdicts
  /\ Waiting \in Reviews /\ Waiting.step = "idle" /\ Waiting.stats = NoStats
  /\ None.kind = "none" /\ <<>> \in Samples
<1>1. NoStats \in StatsRows /\ NoStats.version = 0 /\ 0 \in Versions
  BY AntiFraudAssumption DEF StatsRows, NoStats, Versions
<1>2. Unread \in Profiles
  BY <1>1 DEF Unread, Profiles
<1>3. (CHOOSE s \in Submitted : TRUE) \in Submitted
  BY AntiFraudAssumption
<1>4. None \in Verdicts /\ None.kind = "none"
  BY DEF None, Verdicts
<1>5. Waiting \in Reviews /\ Waiting.step = "idle" /\ Waiting.stats = NoStats
  BY <1>1, <1>2, <1>3, <1>4 DEF Waiting, Reviews
<1>6. <<>> \in Samples
  BY DEF Samples
<1> QED BY <1>1, <1>2, <1>4, <1>5, <1>6

LEMMA FraudInitInv == FraudInit => FraudInv
<1> SUFFICES ASSUME FraudInit PROVE FraudInv
  OBVIOUS
<1>1. FraudTypes
  BY NothingIsThere DEF FraudInit, FraudTypes
<1>2. CacheIsHonest
  BY DEF FraudInit, CacheIsHonest
<1>3. \A r \in Request : /\ ReviewIsCurrent(request[r], stats.version)
                        /\ SeenIsThere(request[r], verdict)
  BY NothingIsThere DEF FraudInit, ReviewIsCurrent, SeenIsThere
<1> QED BY <1>1, <1>2, <1>3 DEF FraudInv

\* A review goes on; nothing of the rates changes but that the cache is filled.
LEMMA ReviewStep ==
  ASSUME FraudInv, NEW r \in Request, NEW new \in Reviews,
         request' = [request EXCEPT ![r] = new], ReviewIsCurrent(new, stats.version),
         verdict' \in [Deal -> Verdicts], history' \in [Counterparty -> Seq(HistoryRows)],
         \A d \in Deal : verdict[d] # None => verdict'[d] # None, SeenIsThere(new, verdict'),
         closed' \in Samples, UNCHANGED <<stats, band, recompute>>,
         cache' = cache \/
           (/\ cache' \in [kind : {"entry"}, version : Versions, profile : Profiles]
            /\ cache'.profile.made >= cache'.version)
  PROVE  FraudInv'
<1>1. FraudTypes'
  BY DEF FraudInv, FraudTypes
<1>2. CacheIsHonest'
  BY DEF FraudInv, CacheIsHonest
<1>3. ASSUME NEW q \in Request
      PROVE  ReviewIsCurrent(request'[q], stats.version) /\ SeenIsThere(request'[q], verdict')
  <2>1. request'[q] = IF q = r THEN new ELSE request[q]
    BY DEF FraudInv, FraudTypes
  <2>2. CASE q # r
    <3>1. /\ ReviewIsCurrent(request[q], stats.version) /\ SeenIsThere(request[q], verdict)
          /\ request[q].sent.deal \in Deal
      BY AntiFraudAssumption DEF FraudInv, FraudTypes, Reviews
    <3> QED BY <2>1, <2>2, <3>1 DEF SeenIsThere
  <2> QED BY <2>1, <2>2
<1> QED BY <1>1, <1>2, <1>3 DEF FraudInv

LEMMA FraudNextInv == ASSUME FraudInv, [FraudNext]_fraudVars PROVE FraudInv'
<1>0. /\ verdict \in [Deal -> Verdicts] /\ history \in [Counterparty -> Seq(HistoryRows)]
      /\ closed \in Samples /\ stats \in StatsRows /\ stats.version \in Versions
      /\ band \in {Fallback} \cup {BandOf(s) : s \in Samples}
      /\ cache \in {None} \cup [kind : {"entry"}, version : Versions, profile : Profiles]
      /\ \A r \in Request : request[r] \in Reviews /\ ReviewIsCurrent(request[r], stats.version)
      /\ \A r \in Request : request[r].stats.version \in Versions
      /\ \A s \in Submitted : s.deal \in Deal /\ CounterpartyOf[s.deal] \in Counterparty
      /\ Versions \subseteq Nat /\ stats.version \in Nat
      /\ \A r \in Request : SeenIsThere(request[r], verdict)
  BY StatsHaveVersion, AntiFraudAssumption
  DEF FraudInv, FraudTypes, Reviews, Counterparty, Versions
<1>1. CASE UNCHANGED <<verdict, history, closed, stats, band, cache, recompute, request>>
  BY <1>1 DEF FraudInv, FraudTypes, CacheIsHonest, ReviewIsCurrent, SeenIsThere
<1>2. ASSUME NEW r \in Request, NEW sent \in Submitted, ReadStats(r, sent) PROVE FraudInv'
  <2> DEFINE hit == CacheHit(stats.version)
             new == [Waiting EXCEPT !.step = IF hit THEN "lists" ELSE "profile",
                       !.sent = sent, !.stats = stats,
                       !.profile = IF hit THEN cache.profile ELSE Unread]
  <2>1. /\ request' = [request EXCEPT ![r] = new]
        /\ UNCHANGED <<verdict, history, closed, stats, band, cache, recompute>>
    BY <1>2 DEF ReadStats
  <2>2. CASE hit
    <3>1. /\ cache \in [kind : {"entry"}, version : Versions, profile : Profiles]
          /\ cache.version = stats.version /\ cache.profile.made >= stats.version
      BY <1>0, <2>2 DEF CacheHit, FraudInv, CacheIsHonest
    <3>2. /\ new \in Reviews /\ new.step = "lists" /\ new.stats = stats
          /\ new.profile = cache.profile
      BY <1>0, <2>2, <3>1, NothingIsThere DEF Reviews
    <3> HIDE DEF new, hit
    <3>3. ReviewIsCurrent(new, stats.version) /\ SeenIsThere(new, verdict')
      BY <1>0, <3>1, <3>2 DEF ReviewIsCurrent, SeenIsThere
    <3> QED BY <1>0, <2>1, <3>2, <3>3, ReviewStep
  <2>3. CASE ~hit
    <3>1. new \in Reviews /\ new.step = "profile" /\ new.stats = stats
      BY <1>0, <2>3, NothingIsThere DEF Reviews
    <3> HIDE DEF new, hit
    <3>2. ReviewIsCurrent(new, stats.version) /\ SeenIsThere(new, verdict')
      BY <1>0, <3>1 DEF ReviewIsCurrent, SeenIsThere
    <3> QED BY <1>0, <2>1, <3>1, <3>2, ReviewStep
  <2> QED BY <2>2, <2>3
<1>3. ASSUME NEW r \in Request, ReadProfile(r) PROVE FraudInv'
  <2> DEFINE profile == [band |-> band, stats |-> request[r].stats, made |-> stats.version]
             new == [request[r] EXCEPT !.step = "fill", !.profile = profile]
  <2>1. /\ request' = [request EXCEPT ![r] = new]
        /\ UNCHANGED <<verdict, history, closed, stats, band, cache, recompute>>
    BY <1>0, <1>3 DEF ReadProfile, FraudInv, FraudTypes
  <2>2. profile \in Profiles /\ profile.made = stats.version
    BY <1>0 DEF Profiles, Reviews
  <2> HIDE DEF profile
  <2>3. /\ new \in Reviews /\ new.stats = request[r].stats /\ new.profile = profile
        /\ new.step = "fill"
    BY <1>0, <2>2 DEF Reviews
  <2> HIDE DEF new
  <2>4. ReviewIsCurrent(new, stats.version) /\ SeenIsThere(new, verdict')
    BY <1>0, <2>2, <2>3 DEF ReviewIsCurrent, SeenIsThere
  <2> QED BY <1>0, <2>1, <2>3, <2>4, ReviewStep
<1>4. ASSUME NEW r \in Request, FillCache(r) PROVE FraudInv'
  <2> DEFINE new == [request[r] EXCEPT !.step = "lists"]
             entry == [kind |-> "entry", version |-> request[r].stats.version,
                       profile |-> request[r].profile]
  <2>1. /\ request' = [request EXCEPT ![r] = new] /\ cache' = entry /\ request[r].step = "fill"
        /\ UNCHANGED <<verdict, history, closed, stats, band, recompute>>
    BY <1>0, <1>4 DEF FillCache, FraudInv, FraudTypes
  <2>2. /\ entry \in [kind : {"entry"}, version : Versions, profile : Profiles]
        /\ entry.version = request[r].stats.version /\ entry.profile = request[r].profile
    BY <1>0 DEF Reviews
  <2>3. /\ new \in Reviews /\ new.stats = request[r].stats /\ new.profile = request[r].profile
        /\ new.step = "lists"
    BY <1>0 DEF Reviews
  <2> HIDE DEF new, entry
  <2>4. ReviewIsCurrent(new, stats.version) /\ SeenIsThere(new, verdict')
        /\ entry.profile.made >= entry.version
    BY <1>0, <2>1, <2>2, <2>3 DEF ReviewIsCurrent, SeenIsThere
  <2> QED BY <1>0, <2>1, <2>2, <2>3, <2>4, ReviewStep
<1>5. ASSUME NEW r \in Request, CheckLists(r) PROVE FraudInv'
  <2> DEFINE found == {rows[i].type : i \in RowsWith(MarksOf[CounterpartyOf[request[r].sent.deal]])}
             black == "black" \in found
             white == "white" \in found
             new == [request[r] EXCEPT !.step = "history", !.black = black, !.white = white]
  <2>1. /\ request' = [request EXCEPT ![r] = new] /\ request[r].step = "lists"
        /\ UNCHANGED <<verdict, history, closed, stats, band, cache, recompute>>
    BY <1>0, <1>5, Zenon DEF CheckLists, FraudInv, FraudTypes
  <2>2. black \in BOOLEAN /\ white \in BOOLEAN
    OBVIOUS
  <2> HIDE DEF found, black, white
  <2>3. /\ new \in Reviews /\ new.stats = request[r].stats /\ new.profile = request[r].profile
        /\ new.step = "history"
    BY <1>0, <2>2 DEF Reviews
  <2> HIDE DEF new
  <2>4. ReviewIsCurrent(new, stats.version) /\ SeenIsThere(new, verdict')
    BY <1>0, <2>1, <2>3 DEF ReviewIsCurrent, SeenIsThere
  <2> QED BY <1>0, <2>1, <2>3, <2>4, ReviewStep
<1>6. ASSUME NEW r \in Request, Judge(r) PROVE FraudInv'
  <2> DEFINE q == request[r]
             codes == q.sent.facts \cup PriceCodes(q.sent.rate, q.profile)
                        \cup HistoryCodes(history[CounterpartyOf[q.sent.deal]])
                        \cup {c \in {"blacklist_match"} : q.black}
             new == [q EXCEPT !.step = "row", !.codes = codes]
  <2>1. /\ request' = [request EXCEPT ![r] = new]
        /\ UNCHANGED <<verdict, history, closed, stats, band, cache, recompute>>
    BY <1>0, <1>6 DEF Judge, FraudInv, FraudTypes
  <2>2. codes \subseteq Reasons
    <3>0. Rules \subseteq Reasons
      BY DEF Reasons
    <3>1. q.sent.facts \subseteq Reasons
      BY <1>0 DEF GivenFacts, Reasons, Reviews
    <3>2. PriceCodes(q.sent.rate, q.profile) \subseteq Reasons
      <4>1. ASSUME NEW c \in PriceCodes(q.sent.rate, q.profile)
            PROVE  c \in {"price_statistically_low", "price_statistically_high", "price_too_low",
                          "price_too_high"}
        BY DEF PriceCodes
      <4>2. ASSUME NEW c \in PriceCodes(q.sent.rate, q.profile) PROVE c \in Rules
        BY <4>1 DEF Rules
      <4> QED BY <3>0, <4>2
    <3>3. HistoryCodes(history[CounterpartyOf[q.sent.deal]]) \subseteq Reasons
      <4>1. HistoryCodes(history[CounterpartyOf[q.sent.deal]]) \subseteq Rules
        BY DEF HistoryCodes, Rules
      <4> QED BY <3>0, <4>1
    <3>4. {c \in {"blacklist_match"} : q.black} \subseteq Reasons
      <4>1. {c \in {"blacklist_match"} : q.black} \subseteq Rules
        BY DEF Rules
      <4> QED BY <3>0, <4>1
    <3> QED BY <3>1, <3>2, <3>3, <3>4
  <2> HIDE DEF codes
  <2>3. /\ new \in Reviews /\ new.stats = q.stats /\ new.profile = q.profile /\ new.step = "row"
    BY <1>0, <2>2 DEF Reviews
  <2> HIDE DEF new
  <2>4. ReviewIsCurrent(new, stats.version) /\ SeenIsThere(new, verdict')
    BY <1>0, <2>3 DEF ReviewIsCurrent, SeenIsThere
  <2> QED BY <1>0, <2>1, <2>3, <2>4, ReviewStep
<1>7. ASSUME NEW r \in Request, FindRow(r) PROVE FraudInv'
  <2> DEFINE q == request[r]
             row == verdict[q.sent.deal]
             new == [q EXCEPT !.step = "save", !.seen = row]
  <2>1. /\ request' = [request EXCEPT ![r] = new]
        /\ UNCHANGED <<verdict, history, closed, stats, band, cache, recompute>>
    BY <1>0, <1>7 DEF FindRow, FraudInv, FraudTypes
  <2>2. row \in Verdicts
    BY <1>0 DEF Reviews
  <2>5. \A x : x = row => x = verdict[q.sent.deal]
    OBVIOUS
  <2> HIDE DEF row
  <2>3. /\ new \in Reviews /\ new.stats = q.stats /\ new.profile = q.profile /\ new.step = "save"
        /\ new.seen = row /\ new.sent = q.sent
    BY <1>0, <2>2 DEF Reviews
  <2> HIDE DEF new
  <2>4. ReviewIsCurrent(new, stats.version) /\ SeenIsThere(new, verdict')
    BY <1>0, <2>1, <2>3, <2>5 DEF ReviewIsCurrent, SeenIsThere
  <2> QED BY <1>0, <2>1, <2>3, <2>4, ReviewStep
<1>97. ReviewIsCurrent(Waiting, stats.version) /\ \A v : SeenIsThere(Waiting, v)
  BY <1>0, NothingIsThere DEF ReviewIsCurrent, SeenIsThere
<1>98. ASSUME NEW q \in Reviews PROVE RiskFound(q) \in Risks
  <2>1. ASSUME NEW codes, NEW white PROVE RiskByScore(codes, white) \in Risks
    <3> DEFINE rank == IF Score(codes) >= 7 THEN 3 ELSE IF Score(codes) >= 3 THEN 2 ELSE 1
               lowered == IF white /\ rank > 1 THEN rank - 1 ELSE rank
    <3>1. rank \in {1, 2, 3}
      OBVIOUS
    <3>2. RiskByScore(codes, white) = Level[lowered]
      BY DEF RiskByScore
    <3> HIDE DEF rank
    <3>3. lowered \in {1, 2, 3}
      BY <3>1, SMTT(20)
    <3> HIDE DEF lowered
    <3> QED BY <3>2, <3>3 DEF Level, Risks
  <2> QED BY <2>1 DEF RiskFound, RiskOf, Risks
<1>8. ASSUME NEW r \in Request, Save(r) PROVE FraudInv'
  <2> DEFINE q == request[r]
             d == q.sent.deal
             row == [kind |-> "row", risk |-> RiskFound(q), codes |-> q.codes]
  <2>1. /\ request' = [request EXCEPT ![r] = Waiting] /\ UNCHANGED <<stats, band, cache, recompute>>
        /\ verdict' = [verdict EXCEPT ![d] = Updated(q.seen, verdict[d], row)]
        /\ history' = [history EXCEPT ![CounterpartyOf[d]] =
                         Append(history[CounterpartyOf[d]], Recorded(q))]
        /\ q.seen = None => verdict[d] = None
    BY <1>0, <1>8 DEF Save, Reviews
  <2>2. d \in Deal /\ CounterpartyOf[d] \in Counterparty /\ RiskFound(q) \in Risks
         /\ q.codes \subseteq Reasons
    BY <1>0, <1>98 DEF Reviews
  <2>3. closed' \in Samples
    <3>1. CASE closed' = closed
      BY <1>0, <3>1
    <3>2. CASE closed' = Append(closed, q.sent.rate)
      <4>1. q.sent.rate \in {s.rate : s \in Submitted}
        BY <1>0 DEF Reviews
      <4> QED BY <1>0, <3>2, <4>1 DEF Samples
    <3> QED BY <1>8, <3>1, <3>2 DEF Save
  <2>4. Recorded(q) \in HistoryRows
    BY <2>2 DEF Recorded, HistoryRows
  <2>5. history' \in [Counterparty -> Seq(HistoryRows)]
    BY <1>0, <2>1, <2>2, <2>4
  <2>6. row \in [kind : {"row"}, risk : Risks, codes : SUBSET Reasons]
    BY <2>2
  <2> HIDE DEF row
  <2>7. Updated(q.seen, verdict[d], row) \in [kind : {"row"}, risk : Risks, codes : SUBSET Reasons]
    <3>1. CASE q.seen = None
      BY <2>6, <3>1 DEF Updated
    <3>2. CASE q.seen # None
      <4>1. verdict[d] \in [kind : {"row"}, risk : Risks, codes : SUBSET Reasons]
        BY <1>0, <1>8, <2>2, <3>2 DEF Verdicts, SeenIsThere, Save
      <4> DEFINE risk == IF row.risk = q.seen.risk THEN verdict[d].risk ELSE row.risk
                 codes == IF row.codes = q.seen.codes THEN verdict[d].codes ELSE row.codes
      <4>2. Updated(q.seen, verdict[d], row) = [row EXCEPT !.risk = risk, !.codes = codes]
        BY <2>6, <3>2 DEF Updated
      <4>3. risk \in Risks /\ codes \in SUBSET Reasons
        BY <2>6, <4>1
      <4> HIDE DEF risk, codes
      <4> QED BY <2>6, <4>2, <4>3
    <3> QED BY <3>1, <3>2
  <2>8. verdict' \in [Deal -> Verdicts]
    BY <1>0, <2>1, <2>2, <2>7 DEF Verdicts
  <2>9. \A x \in Deal : verdict[x] # None => verdict'[x] # None
    BY <1>0, <2>1, <2>2, <2>7, NothingIsThere
  <2> QED BY <1>97, <2>1, <2>3, <2>5, <2>8, <2>9, NothingIsThere, ReviewStep
<1>9. ASSUME NEW r \in Request, Clash(r) PROVE FraudInv'
  BY <1>0, <1>9, <1>97, NothingIsThere, ReviewStep DEF Clash
<1>10. ASSUME stats' = stats \/ (/\ stats' \in StatsRows /\ stats.version < MostRuns
                                 /\ stats'.version = stats.version + 1),
              band' \in {Fallback} \cup {BandOf(s) : s \in Samples},
              cache' \in {cache, None},
              recompute' \in [step : {"idle", "read", "clear"}, read : Samples],
              recompute'.step = "read" => stats' = stats /\ stats.version < MostRuns,
              UNCHANGED <<verdict, history, closed, request>>
       PROVE  FraudInv'
  <2>1. FraudTypes'
    BY <1>10 DEF FraudInv, FraudTypes
  <2>2. CacheIsHonest'
    BY <1>10 DEF FraudInv, CacheIsHonest
  <2>3. stats'.version \in Nat /\ stats'.version >= stats.version
    BY <1>0, <1>10
  <2>4. ASSUME NEW r \in Request
        PROVE  ReviewIsCurrent(request[r], stats'.version) /\ SeenIsThere(request[r], verdict)
    <3>1. request[r].stats.version \in Nat
      BY <1>0
    <3> QED BY <1>0, <2>3, <3>1 DEF ReviewIsCurrent
  <2> QED BY <1>10, <2>1, <2>2, <2>4 DEF FraudInv
<1>11. CASE StartRecompute
  BY <1>0, <1>10, <1>11 DEF StartRecompute, FraudInv, FraudTypes
<1>12. CASE CommitRecompute
  <2>1. /\ recompute \in [step : {"idle", "read", "clear"}, read : Samples]
        /\ recompute.step = "read" /\ stats.version < MostRuns
    BY <1>12 DEF CommitRecompute, FraudInv, FraudTypes
  <2>2. /\ recompute' \in [step : {"idle", "read", "clear"}, read : Samples]
        /\ recompute'.step = "clear" /\ UNCHANGED <<verdict, history, closed, cache, request>>
    BY <1>12, <2>1, NothingIsThere DEF CommitRecompute
  <2>3. CASE recompute.read = <<>>
    BY <1>0, <1>10, <1>12, <2>2, <2>3 DEF CommitRecompute
  <2>4. CASE recompute.read # <<>>
    <3> DEFINE s == recompute.read
               v == stats.version + 1
    <3>1. stats' = StatsOf(s, v) /\ band' = BandOf(s)
      BY <1>12, <2>4 DEF CommitRecompute
    <3>2. s \in Samples /\ v \in Versions
      BY <1>0, <2>1, AntiFraudAssumption DEF Versions
    <3>3. stats' \in StatsRows /\ band' \in {Fallback} \cup {BandOf(x) : x \in Samples}
      BY <3>1, <3>2 DEF StatsRows
    <3>4. stats'.version = v
      BY <3>1, Zenon DEF StatsOf
    <3> QED BY <1>10, <2>1, <2>2, <3>3, <3>4
  <2> QED BY <2>3, <2>4
<1>13. CASE ClearCache
  <2>1. recompute \in [step : {"idle", "read", "clear"}, read : Samples]
    BY DEF FraudInv, FraudTypes
  <2>2. recompute' \in [step : {"idle", "read", "clear"}, read : Samples] /\ recompute'.step = "idle"
    BY <1>13, <2>1 DEF ClearCache
  <2> QED BY <1>0, <1>10, <1>13, <2>2 DEF ClearCache
<1>14. CASE CacheExpires
  BY <1>0, <1>10, <1>14 DEF CacheExpires, FraudInv, FraudTypes
<1>15. ASSUME NEW a \in Adder, NEW l \in Listing, LookListed(a, l) PROVE FraudInv'
  BY <1>1, <1>15 DEF LookListed
<1>16. ASSUME NEW a \in Adder, InsertListed(a) PROVE FraudInv'
  BY <1>1, <1>16 DEF InsertListed
<1>17. CASE UNCHANGED fraudVars
  BY <1>1, <1>17 DEF fraudVars
<1> QED BY <1>2, <1>3, <1>4, <1>5, <1>6, <1>7, <1>8, <1>9, <1>11, <1>12, <1>13, <1>14, <1>15, <1>16,
           <1>17 DEF FraudNext

\* The statistics of a review are no older than those its band was cut from, and a
\* row it has seen stays (get_route_rate_profile, run_deal_review_and_save).
THEOREM FraudInvariance == FraudSpec => []FraudInv
BY FraudInitInv, FraudNextInv, PTL DEF FraudSpec

\* One more row of a high risk: among the last few there are at least as many.
LEMMA OneMoreHigh ==
  ASSUME NEW h \in Seq(HistoryRows), NEW x \in HistoryRows, x.risk = "high"
  PROVE  HighOfLast(Append(h, x)) >= HighOfLast(h)
<1> DEFINE n == Len(h)
           g == Append(h, x)
           Old == {i \in DOMAIN h : i > n - LastFew /\ h[i].risk = "high"}
           New == {i \in DOMAIN g : i > Len(g) - LastFew /\ g[i].risk = "high"}
           last == n + 1 - LastFew
<1>1. /\ n \in Nat /\ DOMAIN h = 1..n /\ DOMAIN g = 1..(n + 1) /\ Len(g) = n + 1
      /\ g[n + 1] = x /\ \A i \in 1..n : g[i] = h[i]
  OBVIOUS
<1>2. LastFew \in Nat \ {0}
  BY AntiFraudAssumption
<1>3. IsFiniteSet(Old) /\ IsFiniteSet(New)
  <2>1. IsFiniteSet(1..n) /\ IsFiniteSet(1..(n + 1))
    BY <1>1, FS_Interval
  <2>2. Old \subseteq 1..n /\ New \subseteq 1..(n + 1)
    BY <1>1
  <2> QED BY <2>1, <2>2, FS_Subset
<1>4. (Old \ {last}) \cup {n + 1} \subseteq New
  BY <1>1, <1>2
<1>5. n + 1 \notin Old
  BY <1>1
<1> HIDE DEF Old, New, last, n, g
<1>6. /\ IsFiniteSet(Old \ {last}) /\ Cardinality(Old) \in Nat
      /\ Cardinality(Old \ {last}) \in Nat /\ Cardinality(Old \ {last}) >= Cardinality(Old) - 1
  <2>1. IsFiniteSet(Old \ {last}) /\ Cardinality(Old) \in Nat
    BY <1>3, FS_RemoveElement, FS_CardinalityType
  <2>2. Cardinality(Old \ {last}) \in Nat
    BY <2>1, FS_CardinalityType
  <2>3. CASE last \in Old
    <3>1. Cardinality(Old \ {last}) = Cardinality(Old) - 1
      BY <1>3, <2>3, FS_RemoveElement
    <3> QED BY <2>1, <2>2, <3>1
  <2>4. CASE last \notin Old
    <3>1. Cardinality(Old \ {last}) = Cardinality(Old)
      BY <1>3, <2>4, FS_RemoveElement
    <3> QED BY <2>1, <2>2, <3>1
  <2> QED BY <2>1, <2>2, <2>3, <2>4
<1>7. /\ IsFiniteSet((Old \ {last}) \cup {n + 1})
      /\ Cardinality((Old \ {last}) \cup {n + 1}) = Cardinality(Old \ {last}) + 1
  <2> DEFINE T == Old \ {last}
  <2>1. IsFiniteSet(T) /\ n + 1 \notin T
    BY <1>5, <1>6
  <2> HIDE DEF T
  <2>2. IsFiniteSet(T \cup {n + 1}) /\ Cardinality(T \cup {n + 1}) = Cardinality(T) + 1
    BY <2>1, FS_AddElement
  <2> QED BY <2>2 DEF T
<1>8. Cardinality((Old \ {last}) \cup {n + 1}) <= Cardinality(New) /\ Cardinality(New) \in Nat
  BY <1>3, <1>4, FS_Subset, FS_CardinalityType
<1>9. Cardinality(New) >= Cardinality(Old)
  <2>1. \A a, b, c \in Nat : a + 1 <= c /\ a >= b - 1 => c >= b
    OBVIOUS
  <2>2. Cardinality(Old \ {last}) + 1 <= Cardinality(New)
    BY <1>7, <1>8, Zenon
  <2> QED BY <1>6, <1>8, <2>1, <2>2, Zenon
<1> QED BY <1>9 DEF Old, New, HighOfLast, n, g

LEMMA HighIsCount == ASSUME NEW h \in Seq(HistoryRows) PROVE HighOfLast(h) \in Nat
<1> DEFINE S == {i \in DOMAIN h : i > Len(h) - LastFew /\ h[i].risk = "high"}
<1>0. Len(h) \in Nat /\ DOMAIN h = 1..Len(h)
  BY LenProperties
<1>1. IsFiniteSet(1..Len(h)) /\ S \subseteq 1..Len(h)
  BY <1>0, FS_Interval
<1>2. HighOfLast(h) = Cardinality(S)
  BY DEF HighOfLast
<1> HIDE DEF S
<1>3. IsFiniteSet(S)
  BY <1>1, FS_Subset, Zenon
<1> QED BY <1>2, <1>3, FS_CardinalityType

\* What a review does to the history of one counterparty.
LEMMA PatternStep ==
  ASSUME FraudInv, [FraudNext]_fraudVars, NEW c \in Counterparty,
         HighOfLast(history[c]) >= RepeatAt,
         \A r \in Request :
           request[r].step \in {"row", "save"} /\ CounterpartyOf[request[r].sent.deal] = c =>
             "repeat_high_risk_pattern" \in request[r].codes
  PROVE  HighOfLast(history'[c]) >= RepeatAt
<1>0. history[c] \in Seq(HistoryRows) /\ \A r \in Request : request[r] \in Reviews
  BY DEF FraudInv, FraudTypes
<1>1. CASE history' = history
  BY <1>1
<1>2. ASSUME NEW r \in Request, Save(r) PROVE HighOfLast(history'[c]) >= RepeatAt
  <2> DEFINE q == request[r]
             x == Recorded(q)
  <2>1. /\ q.step = "save"
        /\ history' = [history EXCEPT ![CounterpartyOf[q.sent.deal]] =
                         Append(history[CounterpartyOf[q.sent.deal]], x)]
    BY <1>2 DEF Save
  <2>2. CASE CounterpartyOf[q.sent.deal] # c
    <3>1. history'[c] = history[c]
      BY <2>1, <2>2 DEF FraudInv, FraudTypes
    <3> QED BY <3>1
  <2>3. CASE CounterpartyOf[q.sent.deal] = c
    <3>1. Escalated(q.codes)
      BY <2>1, <2>3 DEF Escalated
    <3>2. x.risk = "high"
      BY <3>1 DEF Recorded, RiskFound, RiskOf
    <3>3. x \in HistoryRows
      BY <1>0, <3>2, AntiFraudAssumption DEF Recorded, HistoryRows, Reviews, Risks
    <3>4. history'[c] = Append(history[c], x)
      BY <2>1, <2>3 DEF FraudInv, FraudTypes
    <3> HIDE DEF x
    <3>5. HighOfLast(history'[c]) >= HighOfLast(history[c])
      BY <1>0, <3>2, <3>3, <3>4, OneMoreHigh
    <3>6. RepeatAt \in Nat /\ HighOfLast(history[c]) \in Nat /\ HighOfLast(history'[c]) \in Nat
      <4>2. history'[c] \in Seq(HistoryRows)
        BY <1>0, <3>3, <3>4
      <4>3. RepeatAt \in Nat
        BY AntiFraudAssumption
      <4> QED BY <1>0, <4>2, <4>3, HighIsCount
    <3> QED BY <3>5, <3>6
  <2> QED BY <2>2, <2>3
<1> QED BY <1>1, <1>2, Zenon DEF FraudNext, fraudVars, ReadStats, ReadProfile, FillCache, CheckLists, Judge,
           FindRow, Clash, LookListed, InsertListed, StartRecompute, CommitRecompute, ClearCache,
           CacheExpires

LEMMA PatternsStay == FraudSpec => PatternStays
<1>1. FraudInv /\ [FraudNext]_fraudVars =>
        [\A c \in Counterparty :
       /\ HighOfLast(history[c]) >= RepeatAt
       /\ \A r \in Request :
            request[r].step \in {"row", "save"} /\ CounterpartyOf[request[r].sent.deal] = c =>
              "repeat_high_risk_pattern" \in request[r].codes
       => HighOfLast(history'[c]) >= RepeatAt]_fraudVars
  BY PatternStep
<1> QED BY <1>1, FraudInvariance, PTL DEF FraudSpec, PatternStays

-----------------------------------------------------------------------------
(* Complaints.                                                              *)

Loaded == [step : {"loaded"}, id : Id, spam : BOOLEAN]
Tallied == [step : {"counted"}, id : Id, hides : BOOLEAN, listed : BOOLEAN]
Requests == [step : {"publish", "ignore", "retry"}, id : Id, seen : FeedRow]

FeedTypes ==
  /\ events \in Seq(FeedRow) /\ Len(events) <= MostEvents
  /\ complaints \in [Id -> SUBSET Reader] /\ \A e \in Id : IsFiniteSet(complaints[e])
  /\ filing \in [Reader -> {Calm} \cup Loaded \cup Tallied]
  /\ admin \in [Admin -> {Calm} \cup Requests]
  /\ \A u \in Reader : filing[u] # Calm => filing[u].id \in Ids
  /\ \A a \in Admin : admin[a] # Calm => admin[a].id \in Ids

\* Who is about to hide an event counted enough complaints, and none was taken
\* back since.
TallyHolds(f, u, of) ==
  f.step = "counted" /\ f.hides => Cardinality(of[f.id] \cup {u}) + 1 >= Threshold

FilingInv == FeedTypes /\ \A u \in Reader : TallyHolds(filing[u], u, complaints)

LEMMA FilingInitInv == FeedInit => FilingInv
<1> SUFFICES ASSUME FeedInit PROVE FilingInv
  OBVIOUS
<1>1. Calm.step = "idle"
  BY DEF Calm
<1>2. Len(<<>>) = 0 /\ <<>> \in Seq(FeedRow)
  OBVIOUS
<1>3. FeedTypes
  BY <1>2, FeedAssumption, FS_EmptySet DEF FeedInit, FeedTypes
<1>4. \A u \in Reader : TallyHolds(filing[u], u, complaints)
  BY <1>1 DEF FeedInit, TallyHolds
<1> QED BY <1>3, <1>4 DEF FilingInv

\* The rows an administrator writes.
LEMMA RowsStayRows ==
  ASSUME NEW row \in FeedRow, NEW before \in FeedRow, NEW status \in Status, NEW spam \in BOOLEAN
  PROVE  /\ SetChanged(row, before, status, spam) \in FeedRow
         /\ SetChanged(row, before, status, spam).spam = IF spam = before.spam THEN row.spam ELSE spam
<1> DEFINE s == IF status = before.status THEN row.status ELSE status
           m == IF spam = before.spam THEN row.spam ELSE spam
<1>1. s \in Status /\ m \in BOOLEAN
  BY DEF FeedRow
<1>2. SetChanged(row, before, status, spam) = [row EXCEPT !.status = s, !.spam = m]
  BY DEF SetChanged, FeedRow
<1> HIDE DEF s
<1>3. /\ [row EXCEPT !.status = s, !.spam = m] \in FeedRow
      /\ [row EXCEPT !.status = s, !.spam = m].spam = m
  BY <1>1 DEF FeedRow
<1> QED BY <1>2, <1>3

\* A complaint more, of u about e.
LEMMA ComplaintsGrow ==
  ASSUME FilingInv, NEW u \in Reader, NEW e \in Id
  PROVE  LET new == [complaints EXCEPT ![e] = complaints[e] \cup {u}] IN
         /\ new \in [Id -> SUBSET Reader] /\ \A i \in Id : IsFiniteSet(new[i])
         /\ \A v \in Reader : filing[v] # Calm /\ TallyHolds(filing[v], v, complaints) =>
              TallyHolds(filing[v], v, new)
<1> DEFINE new == [complaints EXCEPT ![e] = complaints[e] \cup {u}]
<1>0. complaints \in [Id -> SUBSET Reader] /\ \A i \in Id : IsFiniteSet(complaints[i])
  BY DEF FilingInv, FeedTypes
<1>1. /\ new \in [Id -> SUBSET Reader]
      /\ \A i \in Id : new[i] = IF i = e THEN complaints[e] \cup {u} ELSE complaints[i]
  BY <1>0
<1> HIDE DEF new
<1>2. \A i \in Id : IsFiniteSet(new[i])
  <2>1. IsFiniteSet(complaints[e] \cup {u})
    BY <1>0, FS_AddElement
  <2> QED BY <1>0, <1>1, <2>1
<1>3. ASSUME NEW v \in Reader, filing[v] # Calm, TallyHolds(filing[v], v, complaints)
      PROVE  TallyHolds(filing[v], v, new)
  <2> SUFFICES ASSUME filing[v].step = "counted", filing[v].hides
      PROVE  Cardinality(new[filing[v].id] \cup {v}) + 1 >= Threshold
    BY DEF TallyHolds
  <2> DEFINE i == filing[v].id
             Old == complaints[i] \cup {v}
             New == new[i] \cup {v}
  <2>1. i \in Id
    BY <1>3 DEF FilingInv, FeedTypes, Loaded, Tallied
  <2>2. IsFiniteSet(Old) /\ IsFiniteSet(New) /\ Old \subseteq New
    <3>1. IsFiniteSet(Old) /\ IsFiniteSet(New)
      BY <1>0, <1>2, <2>1, FS_AddElement
    <3>2. complaints[i] \subseteq new[i]
      BY <1>1, <2>1
    <3> QED BY <3>1, <3>2
  <2>3. Cardinality(Old) + 1 >= Threshold
    BY <1>3 DEF TallyHolds
  <2> HIDE DEF i, Old, New
  <2>4. Cardinality(Old) <= Cardinality(New) /\ Cardinality(Old) \in Nat /\ Cardinality(New) \in Nat
    BY <2>2, FS_Subset, FS_CardinalityType
  <2>5. Cardinality(New) + 1 >= Threshold
    BY <2>3, <2>4, FeedAssumption
  <2> QED BY <2>5 DEF New, i
<1> QED BY <1>1, <1>2, <1>3 DEF new

Hides ==
  \A e \in Ids :
    /\ ~events[e].spam /\ events'[e].spam => Cardinality(complaints'[e]) >= Threshold - 1
    /\ events[e].spam /\ ~events'[e].spam =>
         \E a \in Admin : admin[a] # Calm /\ admin[a].id = e /\ admin[a].seen.spam

LEMMA FeedStep == ASSUME FilingInv, [FeedNext]_feedVars PROVE FilingInv' /\ Hides
<1>0. /\ events \in Seq(FeedRow) /\ Len(events) \in Nat /\ Len(events) <= MostEvents /\ Calm.step = "idle"
      /\ \A e \in Ids : events[e] \in FeedRow /\ e \in Id /\ e \in 1..Len(events)
      /\ \A u \in Reader : TallyHolds(filing[u], u, complaints)
      /\ complaints \in [Id -> SUBSET Reader] /\ \A e \in Id : IsFiniteSet(complaints[e])
  BY FeedAssumption DEF FilingInv, FeedTypes, Ids, Id, Calm
<1>1. CASE UNCHANGED <<events, complaints, filing, admin>>
  BY <1>1 DEF FilingInv, FeedTypes, TallyHolds, Hides, Ids
<1>2. ASSUME NEW hot \in BOOLEAN, NEW manual \in BOOLEAN, NEW p \in Phone, NEW s \in Status,
             Arrive(hot, manual, p, s)
      PROVE  FilingInv' /\ Hides
  <2> DEFINE row == [hot |-> hot, manual |-> manual, phone |-> p, status |-> s, spam |-> FALSE]
  <2>1. row \in FeedRow
    BY DEF FeedRow
  <2>2. /\ events' = Append(events, row) /\ Len(events) < MostEvents
        /\ UNCHANGED <<complaints, filing, admin>>
    BY <1>2 DEF Arrive
  <2> HIDE DEF row
  <2>3. /\ events' \in Seq(FeedRow) /\ Len(events') = Len(events) + 1
        /\ \A e \in Ids : events'[e] = events[e]
    BY <1>0, <2>1, <2>2 DEF Ids
  <2>4. Ids \subseteq Ids' /\ Len(events') <= MostEvents
    BY <1>0, <2>2, <2>3, FeedAssumption DEF Ids
  <2>5. FilingInv'
    BY <2>2, <2>3, <2>4 DEF FilingInv, FeedTypes, TallyHolds
  <2> QED BY <2>3, <2>5 DEF Hides
<1>3. ASSUME NEW u \in Reader, NEW e \in Ids, BeginComplaint(u, e) PROVE FilingInv' /\ Hides
  <2> DEFINE f == [step |-> "loaded", id |-> e, spam |-> events[e].spam]
  <2>1. f \in Loaded /\ f.id = e /\ f.step = "loaded"
    BY <1>0 DEF Loaded, FeedRow
  <2>2. filing' = [filing EXCEPT ![u] = f] /\ UNCHANGED <<events, complaints, admin>>
    BY <1>3 DEF BeginComplaint
  <2> HIDE DEF f
  <2>3. \A v \in Reader : filing'[v] = IF v = u THEN f ELSE filing[v]
    BY <2>2 DEF FilingInv, FeedTypes
  <2>4. FeedTypes'
    BY <2>1, <2>2, <2>3 DEF FilingInv, FeedTypes, Ids
  <2>5. \A v \in Reader : TallyHolds(filing'[v], v, complaints)
    BY <1>0, <2>1, <2>3 DEF TallyHolds
  <2> QED BY <2>2, <2>4, <2>5 DEF FilingInv, Hides
<1>4. ASSUME NEW u \in Reader, CountComplaint(u) PROVE FilingInv' /\ Hides
  <2> DEFINE total == Cardinality(complaints[filing[u].id] \cup {u}) + 1
             hides == total >= Threshold /\ ~filing[u].spam
             onList == blacklist[events[filing[u].id].phone] > 0
             f == [step |-> "counted", id |-> filing[u].id, hides |-> hides, listed |-> onList]
  <2>1. filing[u].id \in Ids /\ filing[u].id \in Id
    BY <1>0, <1>4 DEF CountComplaint, FilingInv, FeedTypes
  <2>2. filing' = [filing EXCEPT ![u] = f] /\ UNCHANGED <<events, complaints, admin>>
    BY <1>4 DEF CountComplaint
  <2>3. hides \in BOOLEAN /\ onList \in BOOLEAN /\ (hides => total >= Threshold)
    OBVIOUS
  <2> HIDE DEF hides, onList
  <2>4. f \in Tallied /\ f.id = filing[u].id /\ f.step = "counted" /\ f.hides = hides
    BY <2>1, <2>3 DEF Tallied
  <2> HIDE DEF f
  <2>5. \A v \in Reader : filing'[v] = IF v = u THEN f ELSE filing[v]
    BY <2>2 DEF FilingInv, FeedTypes
  <2>6. FeedTypes'
    BY <2>1, <2>2, <2>4, <2>5 DEF FilingInv, FeedTypes, Ids
  <2>7. TallyHolds(f, u, complaints)
    BY <2>3, <2>4 DEF TallyHolds
  <2>8. \A v \in Reader : TallyHolds(filing'[v], v, complaints)
    BY <1>0, <2>5, <2>7
  <2> QED BY <2>2, <2>6, <2>8 DEF FilingInv, Hides
<1>5. ASSUME NEW u \in Reader, CommitComplaint(u) PROVE FilingInv' /\ Hides
  <2> DEFINE e == filing[u].id
             new == [complaints EXCEPT ![e] = complaints[e] \cup {u}]
  <2>1. filing[u].step = "counted" /\ filing[u] \in Tallied /\ e \in Ids /\ e \in Id
    BY <1>0, <1>5 DEF CommitComplaint, FilingInv, FeedTypes, Loaded
  <2>2. /\ complaints' = new /\ filing' = [filing EXCEPT ![u] = Calm] /\ admin' = admin
        /\ events' = IF filing[u].hides THEN [events EXCEPT ![e].spam = TRUE] ELSE events
    BY <1>5 DEF CommitComplaint
  <2>3. /\ new \in [Id -> SUBSET Reader] /\ \A i \in Id : IsFiniteSet(new[i])
        /\ \A v \in Reader : filing[v] # Calm => TallyHolds(filing[v], v, new)
        /\ new[e] = complaints[e] \cup {u}
    BY <1>0, <2>1, ComplaintsGrow
  <2> HIDE DEF new
  <2>4. /\ events' \in Seq(FeedRow) /\ Len(events') = Len(events)
        /\ \A i \in Ids : i # e \/ ~filing[u].hides => events'[i] = events[i]
        /\ filing[u].hides => events'[e].spam
    <3>1. CASE ~filing[u].hides
      BY <1>0, <2>2, <3>1
    <3>2. CASE filing[u].hides
      <4> DEFINE row == [events[e] EXCEPT !.spam = TRUE]
      <4>1. events' = [events EXCEPT ![e] = row]
        BY <1>0, <2>1, <2>2, <3>2 DEF Ids
      <4>2. row \in FeedRow /\ row.spam = TRUE
        BY <1>0, <2>1 DEF FeedRow
      <4> HIDE DEF row
      <4> QED BY <1>0, <2>1, <3>2, <4>1, <4>2 DEF Ids
    <3> QED BY <3>1, <3>2
  <2>5. \A v \in Reader : filing'[v] = IF v = u THEN Calm ELSE filing[v]
    BY <2>2 DEF FilingInv, FeedTypes
  <2>6. FeedTypes'
    BY <2>2, <2>3, <2>4, <2>5 DEF FilingInv, FeedTypes, Ids
  <2>7. \A v \in Reader : TallyHolds(filing'[v], v, new)
    BY <1>0, <2>3, <2>5 DEF TallyHolds
  <2>8. Hides
    <3> SUFFICES ASSUME NEW i \in Ids
        PROVE  /\ ~events[i].spam /\ events'[i].spam => Cardinality(complaints'[i]) >= Threshold - 1
               /\ ~(events[i].spam /\ ~events'[i].spam)
      BY DEF Hides
    <3>1. CASE i # e \/ ~filing[u].hides
      BY <2>4, <3>1
    <3>2. CASE i = e /\ filing[u].hides
      <4>1. Cardinality(new[e]) + 1 >= Threshold
        BY <1>0, <2>1, <2>3, <3>2 DEF TallyHolds
      <4>2. Cardinality(new[e]) \in Nat
        BY <2>1, <2>3, FS_CardinalityType
      <4>3. Cardinality(complaints'[i]) >= Threshold - 1
        BY <2>2, <3>2, <4>1, <4>2, FeedAssumption
      <4> QED BY <2>4, <3>2, <4>3
    <3> QED BY <3>1, <3>2
  <2> QED BY <2>2, <2>6, <2>7, <2>8 DEF FilingInv
<1>6. ASSUME NEW a \in Admin, NEW e \in Ids, NEW op \in {"publish", "ignore", "retry"},
             AdminLoads(a, op, e)
      PROVE  FilingInv' /\ Hides
  <2> DEFINE q == [step |-> op, id |-> e, seen |-> events[e]]
  <2>1. q \in Requests /\ q.id = e
    BY <1>0 DEF Requests
  <2>2. admin' = [admin EXCEPT ![a] = q] /\ UNCHANGED <<events, complaints, filing>>
    BY <1>6 DEF AdminLoads
  <2> HIDE DEF q
  <2>3. \A b \in Admin : admin'[b] = IF b = a THEN q ELSE admin[b]
    BY <2>2 DEF FilingInv, FeedTypes
  <2>4. FeedTypes'
    BY <2>1, <2>2, <2>3 DEF FilingInv, FeedTypes, Ids
  <2> QED BY <1>0, <2>2, <2>4 DEF FilingInv, Hides, TallyHolds
<1>7. ASSUME NEW a \in Admin,
             Publish(a) \/ Dismiss(a) \/ RetryTaken(a) \/ RetryUnrouted(a) \/ RetryFails(a)
      PROVE  FilingInv' /\ Hides
  <2>1. admin[a] # Calm /\ admin[a] \in Requests
    BY <1>0, <1>7 DEF Publish, Dismiss, RetryTaken, RetryUnrouted, RetryFails, FilingInv, FeedTypes
  <2>2. admin[a].seen.spam \in BOOLEAN
    BY <2>1 DEF Requests, FeedRow
  <2>3. PICK status \in Status, spam \in {FALSE, admin[a].seen.spam} : AdminCommits(a, status, spam)
    BY <1>7 DEF Publish, Dismiss, RetryTaken, RetryUnrouted, RetryFails, Status
  <2>4. /\ FilingInv'
        /\ \A e \in Ids : /\ ~events[e].spam => ~events'[e].spam
                          /\ events[e].spam /\ ~events'[e].spam =>
                               admin[a].id = e /\ admin[a].seen.spam
    <3>0. spam \in BOOLEAN /\ (spam = FALSE \/ spam = admin[a].seen.spam) /\ status \in Status
      BY <2>2, <2>3
    <3> DEFINE q == admin[a]
               row == SetChanged(events[q.id], q.seen, status, spam)
    <3>20. /\ events \in Seq(FeedRow) /\ q \in Requests /\ q.id \in Ids /\ events[q.id] \in FeedRow
      BY <2>1 DEF FilingInv, FeedTypes, Ids
    <3>1. /\ events' = [events EXCEPT ![q.id] = row] /\ admin' = [admin EXCEPT ![a] = Calm]
          /\ UNCHANGED <<complaints, filing>>
      BY <2>3 DEF AdminCommits
    <3>2. row \in FeedRow /\ row.spam = IF spam = q.seen.spam THEN events[q.id].spam ELSE spam
      <4>1. q.seen \in FeedRow
        BY <3>20, <3>0 DEF Requests
      <4>2. PICK old \in FeedRow, before \in FeedRow : old = events[q.id] /\ before = q.seen
        BY <3>20, <3>0, <4>1
      <4>3. /\ SetChanged(old, before, status, spam) \in FeedRow
            /\ SetChanged(old, before, status, spam).spam = IF spam = before.spam THEN old.spam ELSE spam
        BY <3>0, RowsStayRows
      <4> QED BY <4>2, <4>3
    <3>3. q.seen.spam \in BOOLEAN /\ events[q.id].spam \in BOOLEAN
      BY <3>20, <3>0 DEF Requests, FeedRow
    <3> HIDE DEF row
    <3>4. /\ events' \in Seq(FeedRow) /\ Len(events') = Len(events)
          /\ \A e \in Ids : events'[e] = IF e = q.id THEN row ELSE events[e]
      BY <3>20, <3>0, <3>1, <3>2 DEF Ids
    <3>5. FilingInv'
      BY <3>1, <3>4 DEF FilingInv, FeedTypes, Ids
    <3>6. ASSUME NEW e \in Ids, ~events[e].spam PROVE ~events'[e].spam
      <4>1. CASE e = q.id
        <5>1. row.spam = FALSE
          BY <3>2, <3>3, <3>6, <4>1
        <5> QED BY <3>4, <4>1, <5>1
      <4> QED BY <3>4, <3>6, <4>1
    <3>7. ASSUME NEW e \in Ids, events[e].spam, ~events'[e].spam PROVE q.id = e /\ q.seen.spam
      <4>1. e = q.id
        BY <3>4, <3>7
      <4>2. ~row.spam
        BY <3>4, <3>7, <4>1
      <4>3. spam # q.seen.spam
        BY <3>2, <3>7, <4>1, <4>2
      <4>4. q.seen.spam
        BY <3>3, <4>3
      <4> QED BY <4>1, <4>4
    <3> QED BY <3>5, <3>6, <3>7
  <2> QED BY <2>1, <2>4 DEF Hides
<1>8. CASE Open \/ NextPage
  BY <1>1, <1>8 DEF Open, NextPage
<1>9. CASE UNCHANGED feedVars
  BY <1>1, <1>9 DEF feedVars
<1> QED BY <1>2, <1>3, <1>4, <1>5, <1>6, <1>7, <1>8, <1>9 DEF FeedNext

LEMMA HidingHolds == FeedSpec => HidingIsEarned
<1>1. FilingInv /\ [FeedNext]_feedVars => FilingInv' /\ [Hides]_feedVars
  BY FeedStep
<1>2. FilingInv /\ [FeedNext]_feedVars =>
        [\A e \in Ids :
       /\ ~events[e].spam /\ events'[e].spam => Cardinality(complaints'[e]) >= Threshold - 1
       /\ events[e].spam /\ ~events'[e].spam =>
            \E a \in Admin : admin[a] # Calm /\ admin[a].id = e /\ admin[a].seen.spam]_feedVars
  BY <1>1 DEF Hides
<1> QED BY <1>1, <1>2, FilingInitInv, PTL DEF FeedSpec, HidingIsEarned

-----------------------------------------------------------------------------
(* Numbers.                                                                 *)

LEMMA TimesGrows ==
  ASSUME NEW p \in Nat, NEW a \in Int, NEW b \in Int, a <= b
  PROVE  p * a <= p * b
OBVIOUS

LEMMA RoundIsInt ==
  ASSUME NEW a \in Int, NEW b \in Nat \ {0}
  PROVE  RoundHalfEven(a, b) \in Int
BY DEF RoundHalfEven

LEMMA RoundGrows ==
  ASSUME NEW a \in Int, NEW b \in Int, NEW d \in Nat \ {0}, a <= b
  PROVE  RoundHalfEven(a, d) <= RoundHalfEven(b, d)
BY DEF RoundHalfEven

\* What is a whole number is not rounded.
LEMMA RoundExact ==
  ASSUME NEW a \in Int, NEW d \in Nat \ {0}
  PROVE  RoundHalfEven(a * d, d) = a
<1>1. (a * d) \div d = a /\ (a * d) % d = 0
  OBVIOUS
<1> QED BY <1>1 DEF RoundHalfEven

LEMMA ShareGrows ==
  ASSUME NEW a \in Int, NEW b \in Int, NEW percent \in Nat, a <= b
  PROVE  /\ Share(a, percent) \in Int /\ Share(b, percent) \in Int
         /\ Share(a, percent) <= Share(b, percent)
<1>1. percent * a <= percent * b
  BY TimesGrows
<1>2. percent * a = a * percent /\ percent * b = b * percent
  OBVIOUS
<1>3. (a * percent) \div 100 <= (b * percent) \div 100
  BY <1>1, <1>2
<1> QED BY <1>3 DEF Share

LEMMA BelowGrows ==
  ASSUME NEW light \in Nat, NEW heavy \in Nat, light <= heavy, heavy < 40
  PROVE  /\ ShareBelow(light) \in 40..100 /\ ShareBelow(heavy) \in 40..100
         /\ ShareBelow(light) <= ShareBelow(heavy)
BY DEF ShareBelow

-----------------------------------------------------------------------------
(* The heavier load is not cheaper.                                         *)

LEMMA BenchmarkGrows ==
  ASSUME NEW price \in Nat, price >= 10, NEW light \in Nat, NEW heavy \in Nat, light <= heavy
  PROVE  /\ ScaledBenchmark(price, light) \in Nat \ {0}
         /\ ScaledBenchmark(price, light) <= ScaledBenchmark(price, heavy)
<1> DEFINE more(half) == 400 + 3 * AtMost(half - 40, 20)
<1>1. ASSUME NEW h \in Nat, h < 40
      PROVE  /\ ShareBelow(h) \in 40..100
             /\ ScaledBenchmark(price, h) = RoundHalfEven(price * ShareBelow(h), 100)
  BY <1>1, BelowGrows DEF ScaledBenchmark
<1>2. ASSUME NEW h \in Nat, h >= 40
      PROVE  /\ more(h) \in 400..460
             /\ ScaledBenchmark(price, h) = RoundHalfEven(price * more(h), 400)
  BY <1>2 DEF ScaledBenchmark, AtMost
<1>3. \A h, k \in Nat : h <= k => more(h) <= more(k)
  BY DEF AtMost
<1> HIDE DEF more
<1>4. ASSUME NEW h \in Nat, h < 40
      PROVE  ScaledBenchmark(price, h) \in 1..price
  <2>1. ShareBelow(h) \in 40..100 /\ ShareBelow(h) \in Int
    BY <1>1, <1>4
  <2>2. price * 40 <= price * ShareBelow(h) /\ price * ShareBelow(h) <= price * 100
    BY <2>1, TimesGrows
  <2>3. price * ShareBelow(h) \in Int /\ 1 * 100 <= price * ShareBelow(h)
    BY <2>1, <2>2
  <2>4. /\ RoundHalfEven(1 * 100, 100) <= RoundHalfEven(price * ShareBelow(h), 100)
        /\ RoundHalfEven(price * ShareBelow(h), 100) <= RoundHalfEven(price * 100, 100)
        /\ RoundHalfEven(price * ShareBelow(h), 100) \in Int
    BY <2>2, <2>3, RoundGrows, RoundIsInt
  <2>5. RoundHalfEven(1 * 100, 100) = 1 /\ RoundHalfEven(price * 100, 100) = price
    BY RoundExact
  <2> QED BY <1>1, <1>4, <2>4, <2>5
<1>5. ASSUME NEW h \in Nat, h >= 40
      PROVE  ScaledBenchmark(price, h) \in Nat /\ ScaledBenchmark(price, h) >= price
  <2>1. more(h) \in 400..460 /\ more(h) \in Int
    BY <1>2, <1>5
  <2>2. price * 400 <= price * more(h) /\ price * more(h) \in Int
    BY <2>1, TimesGrows
  <2>3. /\ RoundHalfEven(price * 400, 400) <= RoundHalfEven(price * more(h), 400)
        /\ RoundHalfEven(price * more(h), 400) \in Int
    BY <2>2, RoundGrows, RoundIsInt
  <2>4. RoundHalfEven(price * 400, 400) = price
    BY RoundExact
  <2> QED BY <1>2, <1>5, <2>3, <2>4
<1>6. CASE heavy < 40
  <2>1. /\ ShareBelow(light) \in Int /\ ShareBelow(heavy) \in Int
        /\ ShareBelow(light) <= ShareBelow(heavy)
    BY <1>6, BelowGrows
  <2>2. /\ price * ShareBelow(light) <= price * ShareBelow(heavy)
        /\ price * ShareBelow(light) \in Int /\ price * ShareBelow(heavy) \in Int
    BY <2>1, TimesGrows
  <2>3. RoundHalfEven(price * ShareBelow(light), 100) <= RoundHalfEven(price * ShareBelow(heavy), 100)
    BY <2>2, RoundGrows
  <2>4. light < 40
    BY <1>6
  <2> QED BY <1>1, <1>4, <1>6, <2>3, <2>4
<1>7. CASE light < 40 /\ heavy >= 40
  BY <1>4, <1>5, <1>7
<1>8. CASE light >= 40
  <2>1. more(light) \in Int /\ more(heavy) \in Int /\ more(light) <= more(heavy) /\ heavy >= 40
    BY <1>2, <1>3, <1>8
  <2>2. /\ price * more(light) <= price * more(heavy)
        /\ price * more(light) \in Int /\ price * more(heavy) \in Int
    BY <2>1, TimesGrows
  <2>3. RoundHalfEven(price * more(light), 400) <= RoundHalfEven(price * more(heavy), 400)
    BY <2>2, RoundGrows
  <2> QED BY <1>2, <1>5, <1>8, <2>1, <2>3
<1> QED BY <1>6, <1>7, <1>8

LEMMA RowGrows ==
  ASSUME NEW price \in Nat, price >= 10, NEW light \in Nat, NEW heavy \in Nat, light <= heavy
  PROVE  /\ ScaledRow(price, light) \in Nat \ {0}
         /\ ScaledRow(price, light) <= ScaledRow(price, heavy)
<1>1. ASSUME NEW h \in Nat, h < 40
      PROVE  /\ ShareBelow(h) \in 40..100
             /\ ScaledRow(price, h) = Share(price, ShareBelow(h))
             /\ ScaledRow(price, h) \in 1..price
  <2>1. ShareBelow(h) \in 40..100 /\ ShareBelow(h) \in Int
    BY <1>1, BelowGrows
  <2>2. price * 40 <= price * ShareBelow(h) /\ price * ShareBelow(h) <= price * 100
    BY <2>1, TimesGrows
  <2>3. price * ShareBelow(h) \in Int
    BY <2>1
  <2>4. Share(price, ShareBelow(h)) \in 1..price
    BY <2>2, <2>3 DEF Share
  <2> QED BY <1>1, <2>1, <2>4 DEF ScaledRow
<1>2. ASSUME NEW h \in Nat, h >= 40 PROVE ScaledRow(price, h) = price
  BY <1>2 DEF ScaledRow
<1>3. CASE heavy < 40
  <2>1. /\ ShareBelow(light) \in Int /\ ShareBelow(heavy) \in Int
        /\ ShareBelow(light) <= ShareBelow(heavy) /\ light < 40
    BY <1>3, BelowGrows
  <2>2. /\ price * ShareBelow(light) <= price * ShareBelow(heavy)
        /\ price * ShareBelow(light) \in Int /\ price * ShareBelow(heavy) \in Int
    BY <2>1, TimesGrows
  <2>3. Share(price, ShareBelow(light)) <= Share(price, ShareBelow(heavy))
    BY <2>2 DEF Share
  <2> QED BY <1>1, <1>3, <2>1, <2>3
<1>4. CASE light < 40 /\ heavy >= 40
  BY <1>1, <1>2, <1>4
<1>5. CASE light >= 40
  BY <1>2, <1>5
<1> QED BY <1>3, <1>4, <1>5

\* The formula's price of one km, factor by factor, for a load that weighs half.
ByWeight(body, half) ==
  BaseRate(body) + 175 * AtMost(half, 40) + IF half > 40 THEN 75 * AtMost(half - 40, 20) ELSE 0
Light(half) == half < 6
Bulky(q, half) == 2 * q.volume >= 8 * half
ByLoad(q, half) ==
  Factor(Bulky(q, half), Factor(Light(half), ByWeight(q.body, half), 108), 105)
OfRoute(q, n) ==
  LET km == DistanceOf[q.route] IN
  Factor(km > 2500, Factor(q.hazardous, Factor(q.route \in Abroad, Factor(km < 500, n, 140), 145),
                           115), 95)

LEMMA RateIs ==
  ASSUME NEW q
  PROVE  RatePerKm(q) = AtLeast(72000, OfRoute(q, ByLoad(q, AtLeast(1, q.weight))))
BY DEF RatePerKm, OfRoute, ByLoad, ByWeight, Light, Bulky

LEMMA FactorGrows ==
  ASSUME NEW c, NEW a \in Int, NEW b \in Int, NEW percent \in Nat, a <= b
  PROVE  /\ Factor(c, a, percent) \in Int /\ Factor(c, b, percent) \in Int
         /\ Factor(c, a, percent) <= Factor(c, b, percent)
BY ShareGrows DEF Factor

LEMMA RouteGrows ==
  ASSUME NEW q, NEW a \in Int, NEW b \in Int, a <= b
  PROVE  /\ OfRoute(q, a) \in Int /\ OfRoute(q, b) \in Int /\ OfRoute(q, a) <= OfRoute(q, b)
<1> DEFINE km == DistanceOf[q.route]
           one(n) == Factor(km < 500, n, 140)
           two(n) == Factor(q.route \in Abroad, one(n), 145)
           three(n) == Factor(q.hazardous, two(n), 115)
<1>1. one(a) \in Int /\ one(b) \in Int /\ one(a) <= one(b)
  BY FactorGrows
<1>2. \A n : OfRoute(q, n) = Factor(km > 2500, three(n), 95)
  BY DEF OfRoute
<1> HIDE DEF one
<1>3. two(a) \in Int /\ two(b) \in Int /\ two(a) <= two(b)
  BY <1>1, FactorGrows
<1> HIDE DEF two
<1>4. three(a) \in Int /\ three(b) \in Int /\ three(a) <= three(b)
  BY <1>3, FactorGrows
<1> HIDE DEF three
<1> QED BY <1>2, <1>4, FactorGrows

LEMMA LoadGrows ==
  ASSUME NEW q, NEW light \in Nat, NEW heavy \in Nat, light <= heavy,
         Light(light) <=> Light(heavy), Bulky(q, light) <=> Bulky(q, heavy)
  PROVE  /\ ByLoad(q, light) \in Int /\ ByLoad(q, heavy) \in Int
         /\ ByLoad(q, light) <= ByLoad(q, heavy)
<1> DEFINE inner(half) == Factor(Light(half), ByWeight(q.body, half), 108)
<1>1. /\ ByWeight(q.body, light) \in Int /\ ByWeight(q.body, heavy) \in Int
      /\ ByWeight(q.body, light) <= ByWeight(q.body, heavy)
  <2>1. BaseRate(q.body) \in Int
    BY DEF BaseRate
  <2> QED BY <2>1 DEF ByWeight, AtMost
<1>2. inner(light) \in Int /\ inner(heavy) \in Int /\ inner(light) <= inner(heavy)
  <2>1. CASE Light(light)
    <3>1. inner(light) = Share(ByWeight(q.body, light), 108)
          /\ inner(heavy) = Share(ByWeight(q.body, heavy), 108)
      BY <2>1 DEF Factor
    <3> QED BY <1>1, <3>1, ShareGrows
  <2>2. CASE ~Light(light)
    BY <1>1, <2>2 DEF Factor
  <2> QED BY <2>1, <2>2
<1>3. ByLoad(q, light) = Factor(Bulky(q, light), inner(light), 105)
      /\ ByLoad(q, heavy) = Factor(Bulky(q, heavy), inner(heavy), 105)
  BY DEF ByLoad
<1> HIDE DEF inner
<1>4. CASE Bulky(q, light)
  <2>1. ByLoad(q, light) = Share(inner(light), 105) /\ ByLoad(q, heavy) = Share(inner(heavy), 105)
    BY <1>3, <1>4 DEF Factor
  <2> QED BY <1>2, <2>1, ShareGrows
<1>5. CASE ~Bulky(q, light)
  BY <1>2, <1>3, <1>5 DEF Factor
<1> QED BY <1>4, <1>5

\* The same but for its weight.
Heavier(s, t) ==
  /\ s.route = t.route /\ s.body = t.body /\ s.volume = t.volume /\ s.hazardous = t.hazardous
  /\ s.weight < t.weight

\* The formula asks no less for the heavier load unless it takes a factor back.
LEMMA RateGrows ==
  ASSUME NEW s, NEW t, s.weight \in Nat, t.weight \in Nat, s.volume \in Nat, Heavier(s, t),
         ~Relieved(s, t.weight)
  PROVE  /\ RatePerKm(s) \in Nat /\ RatePerKm(t) \in Nat
         /\ 72000 <= RatePerKm(s) /\ RatePerKm(s) <= RatePerKm(t)
<1> DEFINE x == AtLeast(1, s.weight)
           y == AtLeast(1, t.weight)
<1>1. x \in Nat /\ y \in Nat /\ x <= y /\ y = t.weight
  BY DEF AtLeast, Heavier
<1>2. RatePerKm(s) = AtLeast(72000, OfRoute(s, ByLoad(s, x)))
      /\ RatePerKm(t) = AtLeast(72000, OfRoute(t, ByLoad(t, y)))
  BY RateIs
<1>3. ~((IF y < 6 THEN 108 ELSE 100) + (IF 2 * s.volume >= 8 * y THEN 105 ELSE 100)
        < (IF x < 6 THEN 108 ELSE 100) + (IF 2 * s.volume >= 8 * x THEN 105 ELSE 100))
  BY <1>1 DEF Relieved
<1> HIDE DEF x, y
<1>4. (Light(x) <=> Light(y)) /\ (Bulky(s, x) <=> Bulky(s, y))
  BY <1>1, <1>3 DEF Light, Bulky
<1>5. /\ ByLoad(s, x) \in Int /\ ByLoad(s, y) \in Int /\ ByLoad(s, x) <= ByLoad(s, y)
  BY <1>1, <1>4, LoadGrows
<1>6. ByLoad(t, y) = ByLoad(s, y) /\ OfRoute(t, ByLoad(t, y)) = OfRoute(s, ByLoad(s, y))
  BY DEF Heavier, ByLoad, Bulky, OfRoute
<1>7. /\ OfRoute(s, ByLoad(s, x)) \in Int /\ OfRoute(s, ByLoad(s, y)) \in Int
      /\ OfRoute(s, ByLoad(s, x)) <= OfRoute(s, ByLoad(s, y))
  BY <1>5, RouteGrows
<1> QED BY <1>2, <1>6, <1>7 DEF AtLeast

\* A price by the formula is not zero.
LEMMA RateIsReal ==
  ASSUME NEW q, q.weight \in Nat, NEW km \in Nat \ {0}
  PROVE  RatePerKm(q) \in Nat /\ RoundHalfEven(km * RatePerKm(q), 1000) \in Nat \ {0}
<1> DEFINE x == AtLeast(1, q.weight)
<1>1. x \in Nat
  BY DEF AtLeast
<1> HIDE DEF x
<1>2. ByLoad(q, x) \in Int
  BY <1>1, LoadGrows
<1>3. OfRoute(q, ByLoad(q, x)) \in Int
  BY <1>2, RouteGrows
<1>4. RatePerKm(q) \in Nat /\ RatePerKm(q) >= 72000
  BY <1>3, RateIs DEF AtLeast, x
<1>5. km * 1000 <= km * RatePerKm(q) /\ km * RatePerKm(q) \in Int
  BY <1>4, TimesGrows
<1>6. RoundHalfEven(km * 1000, 1000) = km
  BY RoundExact
<1> DEFINE whole == km * 1000
           n == km * RatePerKm(q)
<1>7. whole \in Int /\ n \in Int /\ whole <= n
  BY <1>5
<1> HIDE DEF whole, n
<1>8. RoundHalfEven(whole, 1000) <= RoundHalfEven(n, 1000) /\ RoundHalfEven(n, 1000) \in Int
  BY <1>7, RoundGrows, RoundIsInt
<1> QED BY <1>4, <1>6, <1>8 DEF whole, n

-----------------------------------------------------------------------------
(* Quotes.                                                                  *)

\* A nonempty set of subsets of a finite set has one that none is strictly within.
LEMMA InnermostSubset ==
  ASSUME NEW S, IsFiniteSet(S), NEW T, T \subseteq SUBSET S, T # {}
  PROVE  \E s \in T : \A t \in T : t \subseteq s => t = s
<1>1. T \subseteq FiniteSubsetsOf(S)
  BY FS_Subset DEF FiniteSubsetsOf
<1>2. IsWellFoundedOn(StrictSubsetOrdering(S), FiniteSubsetsOf(S))
  BY FS_StrictSubsetOrderingWellFounded
<1>3. PICK s \in T : \A t \in T : ~(<<t, s>> \in StrictSubsetOrdering(S))
  BY <1>1, <1>2, WFMin
<1>4. ASSUME NEW t \in T, t \subseteq s, t # s
      PROVE  <<t, s>> \in StrictSubsetOrdering(S)
  <2>1. <<t, s>> \in (SUBSET S) \X (SUBSET S)
    OBVIOUS
  <2> QED BY <1>4, <2>1 DEF StrictSubsetOrdering
<1>5. \A t \in T : t \subseteq s => t = s
  BY <1>3, <1>4
<1> QED BY <1>5

\* The least of a set of natural numbers: the intervals that end in the set and not above
\* one of its members are subsets of a finite set.
LEMMA LeastIsThere ==
  ASSUME NEW S \in SUBSET Nat, S # {}
  PROVE  Min(S) \in S /\ \A n \in S : Min(S) <= n
<1>1. PICK top \in S : TRUE
  OBVIOUS
<1> DEFINE T == {0..m : m \in {n \in S : n <= top}}
<1>2. T \subseteq SUBSET (0..top) /\ 0..top \in T
  BY <1>1
<1>3. IsFiniteSet(0..top)
  BY <1>1, FS_Interval
<1>4. PICK s \in T : \A t \in T : t \subseteq s => t = s
  <2> DEFINE all == 0..top
  <2>1. T \subseteq SUBSET all /\ T # {} /\ IsFiniteSet(all)
    BY <1>2, <1>3
  <2> HIDE DEF T, all
  <2> QED BY <2>1, InnermostSubset
<1>5. PICK least \in S : least <= top /\ s = 0..least
  BY <1>4
<1>6. ASSUME NEW n \in S, n < least PROVE FALSE
  <2>1. least \in Nat /\ n \in Nat /\ top \in Nat /\ 0..n \in T
    BY <1>1, <1>5, <1>6
  <2>2. 0..n \subseteq s /\ least \in s /\ least \notin 0..n
    BY <1>5, <1>6, <2>1
  <2> QED BY <1>4, <2>1, <2>2
<1>7. \A n \in S : least <= n
  BY <1>5, <1>6
<1> QED BY <1>5, <1>7 DEF Min

\* One of finitely many bounded prices is the greatest.
LEMMA GreatestIsThere ==
  ASSUME NEW I, I # {}, NEW f, NEW top \in Nat, \A i \in I : f[i] \in Nat /\ f[i] <= top
  PROVE  \E i \in I : \A j \in I : f[j] <= f[i]
<1> DEFINE R == {top - f[i] : i \in I}
<1>1. R \in SUBSET Nat /\ R # {}
  OBVIOUS
<1>2. PICK m \in R : \A r \in R : m <= r
  <2> HIDE DEF R
  <2> QED BY <1>1, LeastIsThere
<1>3. PICK i \in I : m = top - f[i]
  OBVIOUS
<1>4. ASSUME NEW j \in I PROVE f[j] <= f[i]
  <2>1. top - f[j] \in R
    OBVIOUS
  <2>2. m <= top - f[j]
    BY <1>2, <2>1
  <2> QED BY <1>3, <2>2
<1> QED BY <1>4

\* Among what an exchange lists there is a median, and it is a price.
LEMMA MedianIsPrice ==
  ASSUME NEW prices \in Seq(Nat)
  PROVE  \/ Median(prices) = NoRate
         \/ Median(prices) \in [price : Nat \ {0}, seen : {clock}]
<1> DEFINE I == {i \in DOMAIN prices : 5000 <= prices[i] /\ prices[i] <= 10000000}
           middle == {i \in I : 2 * Cardinality({j \in I : prices[j] <= prices[i]}) > Cardinality(I)}
           S == {prices[i] : i \in middle}
<1>1. Median(prices) = IF I = {} THEN NoRate ELSE [price |-> Min(S), seen |-> clock]
  BY SMT DEF Median
<1>2. DOMAIN prices = 1..Len(prices) /\ Len(prices) \in Nat
  BY LenProperties, SMT
<1>3. I \subseteq DOMAIN prices
  BY SMT
<1> DEFINE top == 10000000
<1>4. top \in Nat /\ \A i \in I : prices[i] \in Nat \ {0} /\ prices[i] <= top
  BY <1>2, ElementOfSeq, SMT
<1> HIDE DEF I, top
<1>5. IsFiniteSet(I)
  <2> DEFINE all == 1..Len(prices)
  <2>1. IsFiniteSet(all) /\ I \subseteq all
    BY <1>2, <1>3, FS_Interval
  <2> HIDE DEF all
  <2> QED BY <2>1, FS_Subset
<1>6. CASE I # {}
  <2>1. middle # {} /\ middle \subseteq I
    <3>1. \E i \in I : \A j \in I : prices[j] <= prices[i]
      BY <1>4, <1>6, GreatestIsThere
    <3>2. PICK i \in I : \A j \in I : prices[j] <= prices[i]
      BY <3>1
    <3>3. {j \in I : prices[j] <= prices[i]} = I
      BY <3>2
    <3>4. Cardinality(I) \in Nat /\ Cardinality(I) # 0
      BY <1>5, <1>6, FS_CardinalityType, FS_EmptySet
    <3>5. 2 * Cardinality(I) > Cardinality(I)
      BY <3>4
    <3>6. i \in middle
      BY <3>3, <3>5
    <3> QED BY <3>6
  <2>2. S \in SUBSET (Nat \ {0}) /\ S # {}
    BY <1>4, <2>1
  <2> HIDE DEF S
  <2>3. Min(S) \in Nat \ {0}
    BY <2>2, LeastIsThere
  <2> QED BY <1>1, <1>6, <2>3
<1> QED BY <1>1, <1>6

-----------------------------------------------------------------------------
(* What a quote says is true.                                               *)

RowRoute(q) == IF OfBody(MarketRow, q.route, q.body) THEN q.route ELSE Reversed(q.route)
Sources == {"ati.su", "benchmark", "market", "calculated"}
QuoteRows == [question : Enquiry, source : Sources, price : Nat \ {0}, at : Nat, seen : Nat]

\* The price is what the source says of the question.
PriceIsSaid(t) ==
  LET q == t.question IN
  /\ t.source = "benchmark" => /\ OfBody(Benchmark, q.route, q.body)
                               /\ t.price = ScaledBenchmark(Benchmark[q.route].price, q.weight)
  /\ t.source = "market" => /\ OfBody(MarketRow, RowRoute(q), q.body)
                            /\ t.price = ScaledRow(MarketRow[RowRoute(q)].price, q.weight)
  /\ t.source = "calculated" => t.price = RoundHalfEven(DistanceOf[q.route] * RatePerKm(q), 1000)

QuoteIsTrue(t) == t.seen <= t.at /\ t.at - t.seen < Ttl /\ PriceIsSaid(t)

Answers == [price : Nat, seen : 0..clock]

\* A price that was answered was seen after it had been asked for.
SeenSince(rate, since) == rate.price > 0 => since <= rate.seen

PricesTypes ==
  /\ clock \in 0..LastMinute /\ listed \in [Route -> Loads]
  /\ rates \in [Route -> [rate : Answers, at : -Ttl..clock]]
  /\ enquiry \in [Quoter -> {NotAsking}
                              \cup [step : {"sent"}, question : Enquiry, since : 0..clock]
                              \cup [step : {"answered"}, question : Enquiry, since : 0..clock,
                                    rate : Answers]]
  /\ quotes \in Seq(QuoteRows) /\ Len(quotes) <= 2

QuotesInv ==
  /\ PricesTypes
  /\ \A r \in Route : SeenSince(rates[r].rate, rates[r].at)
  /\ \A a \in Quoter : enquiry[a] # NotAsking => clock - enquiry[a].since <= Patience
  /\ \A a \in Quoter : enquiry[a].step = "answered" =>
                         SeenSince(enquiry[a].rate, enquiry[a].since)
  /\ \A i \in DOMAIN quotes : quotes[i].at <= clock /\ QuoteIsTrue(quotes[i])

LEMMA CalculatedIsTrue ==
  ASSUME PricesAssumption, clock \in Nat, NEW q \in Enquiry
  PROVE  Calculated(q) \in QuoteRows /\ QuoteIsTrue(Calculated(q)) /\ Calculated(q).at = clock
<1>1. DistanceOf[q.route] \in Nat \ {0} /\ q.weight \in Nat /\ Ttl \in Nat \ {0}
  BY DEF PricesAssumption
<1> DEFINE n == RoundHalfEven(DistanceOf[q.route] * RatePerKm(q), 1000)
<1>2. n \in Nat \ {0}
  BY <1>1, RateIsReal
<1>3. Calculated(q) = [question |-> q, source |-> "calculated", price |-> n, at |-> clock,
                       seen |-> clock]
  BY DEF Calculated, Quote
<1>4. PriceIsSaid(Calculated(q))
  BY <1>3 DEF PriceIsSaid
<1> HIDE DEF n
<1> QED BY <1>1, <1>2, <1>3, <1>4 DEF QuoteRows, Sources, QuoteIsTrue

LEMMA MarketIsTrue ==
  ASSUME PricesAssumption, clock \in Nat, NEW q \in Enquiry
  PROVE  OfMarket(q) \in QuoteRows /\ QuoteIsTrue(OfMarket(q)) /\ OfMarket(q).at = clock
<1>1. q.weight \in Nat /\ Ttl \in Nat \ {0}
  BY DEF PricesAssumption
<1>2. CASE OfBody(Benchmark, q.route, q.body)
  <2> DEFINE n == ScaledBenchmark(Benchmark[q.route].price, q.weight)
  <2>1. Benchmark[q.route].price \in Nat /\ Benchmark[q.route].price >= 10
    BY <1>2 DEF PricesAssumption, OfBody
  <2>2. n \in Nat \ {0}
    <3> DEFINE base == Benchmark[q.route].price
    <3>1. base \in Nat /\ base >= 10 /\ q.weight <= q.weight
      BY <1>1, <2>1
    <3> HIDE DEF base
    <3>2. ScaledBenchmark(base, q.weight) \in Nat \ {0}
      BY <1>1, <3>1, BenchmarkGrows
    <3> QED BY <3>2 DEF base
  <2>3. OfMarket(q) = [question |-> q, source |-> "benchmark", price |-> n, at |-> clock,
                       seen |-> clock]
    BY <1>2 DEF OfMarket, Quote
  <2>4. PriceIsSaid(OfMarket(q))
    BY <1>2, <2>3 DEF PriceIsSaid
  <2> HIDE DEF n
  <2> QED BY <1>1, <2>2, <2>3, <2>4 DEF QuoteRows, Sources, QuoteIsTrue
<1>3. CASE ~OfBody(Benchmark, q.route, q.body) /\ OfBody(MarketRow, RowRoute(q), q.body)
  <2> DEFINE n == ScaledRow(MarketRow[RowRoute(q)].price, q.weight)
  <2>1. MarketRow[RowRoute(q)].price \in Nat /\ MarketRow[RowRoute(q)].price >= 10
    BY <1>3 DEF PricesAssumption, OfBody
  <2>2. n \in Nat \ {0}
    <3> DEFINE base == MarketRow[RowRoute(q)].price
    <3>1. base \in Nat /\ base >= 10 /\ q.weight <= q.weight
      BY <1>1, <2>1
    <3> HIDE DEF base
    <3>2. ScaledRow(base, q.weight) \in Nat \ {0}
      BY <1>1, <3>1, RowGrows
    <3> QED BY <3>2 DEF base
  <2>3. OfMarket(q) = [question |-> q, source |-> "market", price |-> n, at |-> clock,
                       seen |-> clock]
    BY <1>3 DEF OfMarket, Quote, RowRoute
  <2>4. PriceIsSaid(OfMarket(q))
    BY <1>3, <2>3 DEF PriceIsSaid
  <2> HIDE DEF n
  <2> QED BY <1>1, <2>2, <2>3, <2>4 DEF QuoteRows, Sources, QuoteIsTrue
<1>4. CASE ~OfBody(Benchmark, q.route, q.body) /\ ~OfBody(MarketRow, RowRoute(q), q.body)
  <2>1. OfMarket(q) = Calculated(q)
    BY <1>4 DEF OfMarket, RowRoute
  <2> QED BY <2>1, CalculatedIsTrue
<1> QED BY <1>2, <1>3, <1>4

LEMMA SmartIsTrue ==
  ASSUME PricesAssumption, clock \in Nat, NEW q \in Enquiry, NEW rate \in Answers,
         rate.price > 0 => clock - rate.seen < Ttl
  PROVE  /\ Smart(q, rate) \in QuoteRows /\ QuoteIsTrue(Smart(q, rate))
         /\ Smart(q, rate).at <= clock
<1>1. CASE rate.price > 0
  <2>1. Smart(q, rate) = [question |-> q, source |-> "ati.su", price |-> rate.price, at |-> clock,
                          seen |-> rate.seen]
    BY <1>1 DEF Smart, Quote
  <2>2. rate.price \in Nat \ {0} /\ rate.seen \in 0..clock
    BY <1>1 DEF Answers
  <2> QED BY <1>1, <2>1, <2>2 DEF QuoteRows, Sources, QuoteIsTrue, PriceIsSaid
<1>2. CASE ~(rate.price > 0)
  <2>1. Smart(q, rate) = OfMarket(q)
    BY <1>2 DEF Smart
  <2> QED BY <2>1, MarketIsTrue
<1> QED BY <1>1, <1>2

\* A true quote joins those given.
LEMMA GiveIsTrue ==
  ASSUME quotes \in Seq(QuoteRows), Len(quotes) <= 2, NEW t \in QuoteRows, Give(t),
         clock' = clock, clock \in Nat, t.at <= clock, QuoteIsTrue(t),
         \A i \in DOMAIN quotes : quotes[i].at <= clock /\ QuoteIsTrue(quotes[i])
  PROVE  /\ quotes' \in Seq(QuoteRows) /\ Len(quotes') <= 2
         /\ \A i \in DOMAIN quotes' : quotes'[i].at <= clock' /\ QuoteIsTrue(quotes'[i])
<1>0. Len(quotes) \in Nat /\ DOMAIN quotes = 1..Len(quotes)
  BY LenProperties
<1>1. CASE Len(quotes) < 2
  <2>1. quotes' = Append(quotes, t)
    BY <1>1 DEF Give
  <2>2. /\ quotes' \in Seq(QuoteRows) /\ Len(quotes') = Len(quotes) + 1
        /\ \A i \in 1..Len(quotes) : quotes'[i] = quotes[i]
        /\ quotes'[Len(quotes) + 1] = t
    BY <2>1, AppendProperties
  <2>3. DOMAIN quotes' = 1..(Len(quotes) + 1)
    BY <2>2, LenProperties
  <2> QED BY <1>0, <1>1, <2>2, <2>3
<1>2. CASE ~(Len(quotes) < 2)
  <2>1. quotes' = <<quotes[2], t>> /\ 2 \in DOMAIN quotes
    BY <1>0, <1>2 DEF Give
  <2>2. quotes[2] \in QuoteRows
    BY <1>0, <2>1, ElementOfSeq
  <2>3. quotes' \in Seq(QuoteRows) /\ Len(quotes') = 2 /\ DOMAIN quotes' = 1..2
        /\ quotes'[1] = quotes[2] /\ quotes'[2] = t
    BY <2>1, <2>2
  <2> QED BY <2>1, <2>3
<1> QED BY <1>1, <1>2

-----------------------------------------------------------------------------
(* Every step keeps it.                                                     *)

\* A handler's answer and a cached one stay within the growing clock.
LEMMA AnswersWiden ==
  ASSUME clock \in Nat, clock' \in Nat, clock <= clock'
  PROVE  /\ Answers \subseteq Answers' /\ (0..clock) \subseteq 0..clock'
         /\ Ttl \in Nat => (-Ttl..clock) \subseteq -Ttl..clock'
BY DEF Answers

LEMMA QuotesBegin == PricesAssumption /\ PricesInit => QuotesInv
<1> SUFFICES ASSUME PricesAssumption, PricesInit PROVE QuotesInv
  OBVIOUS
<1>1. clock = 0 /\ LastMinute \in Nat /\ Ttl \in Nat /\ quotes = <<>>
  BY DEF PricesInit, PricesAssumption
<1>2. Unknown \in [rate : Answers, at : -Ttl..clock] /\ SeenSince(Unknown.rate, Unknown.at)
  BY <1>1 DEF Unknown, NoRate, Answers, SeenSince
<1>3. NotAsking.step = "idle"
  BY DEF NotAsking
<1>4. rates \in [Route -> [rate : Answers, at : -Ttl..clock]]
      /\ \A r \in Route : rates[r] = Unknown
  BY <1>2 DEF PricesInit
<1>5. \A a \in Quoter : enquiry[a] = NotAsking
  BY DEF PricesInit
<1>6. quotes \in Seq(QuoteRows) /\ Len(quotes) <= 2 /\ DOMAIN quotes = {}
  BY <1>1
<1>7. PricesTypes
  BY <1>1, <1>4, <1>6 DEF PricesTypes, PricesInit
<1> QED BY <1>2, <1>3, <1>4, <1>5, <1>6, <1>7 DEF QuotesInv

LEMMA TickKeeps ==
  ASSUME PricesAssumption, QuotesInv, Tick
  PROVE  QuotesInv'
<1>1. /\ clock \in Nat /\ clock' = clock + 1 /\ clock' \in 0..LastMinute /\ Ttl \in Nat
      /\ Patience \in Nat
  BY DEF QuotesInv, PricesTypes, Tick, PricesAssumption
<1>2. /\ Answers \subseteq Answers' /\ (0..clock) \subseteq 0..clock'
      /\ (-Ttl..clock) \subseteq -Ttl..clock'
  BY <1>1, AnswersWiden
<1>3. UNCHANGED <<rates, enquiry, quotes>> /\ listed' \in [Route -> Loads]
  BY DEF Tick
<1>4. PricesTypes'
  <2>1. rates' \in [Route -> [rate : Answers', at : -Ttl..clock']]
    BY <1>2, <1>3 DEF QuotesInv, PricesTypes
  <2>2. ASSUME NEW a \in Quoter
        PROVE  enquiry'[a] \in {NotAsking}
                 \cup [step : {"sent"}, question : Enquiry, since : 0..clock']
                 \cup [step : {"answered"}, question : Enquiry, since : 0..clock', rate : Answers']
    BY <1>2, <1>3 DEF QuotesInv, PricesTypes
  <2>3. enquiry' \in [Quoter -> {NotAsking}
                       \cup [step : {"sent"}, question : Enquiry, since : 0..clock']
                       \cup [step : {"answered"}, question : Enquiry, since : 0..clock',
                             rate : Answers']]
    BY <1>3, <2>2 DEF QuotesInv, PricesTypes
  <2> QED BY <1>1, <1>3, <2>1, <2>3 DEF QuotesInv, PricesTypes
<1>5. \A a \in Quoter : enquiry'[a] # NotAsking => clock' - enquiry'[a].since <= Patience
  BY <1>3 DEF Tick
<1>6. \A i \in DOMAIN quotes : quotes[i].at \in Nat
  <2>1. \A i \in DOMAIN quotes : quotes[i] \in QuoteRows
    BY ElementOfSeq, LenProperties DEF QuotesInv, PricesTypes
  <2> QED BY <2>1 DEF QuoteRows
<1>7. \A i \in DOMAIN quotes' : quotes'[i].at <= clock' /\ QuoteIsTrue(quotes'[i])
  BY <1>1, <1>3, <1>6 DEF QuotesInv
<1> QED BY <1>3, <1>4, <1>5, <1>7 DEF QuotesInv

LEMMA HitKeeps ==
  ASSUME PricesAssumption, QuotesInv, NEW q \in Enquiry, Hit(q)
  PROVE  QuotesInv'
<1>1. clock \in Nat /\ Ttl \in Nat /\ q.route \in Route
  BY DEF QuotesInv, PricesTypes, PricesAssumption
<1> DEFINE cached == rates[q.route]
<1>2. cached.rate \in Answers /\ cached.at \in -Ttl..clock /\ SeenSince(cached.rate, cached.at)
      /\ clock - cached.at < Ttl
  BY <1>1 DEF QuotesInv, PricesTypes, Hit, Fresh
<1>3. cached.rate.price > 0 => clock - cached.rate.seen < Ttl
  BY <1>1, <1>2 DEF SeenSince, Answers
<1>4. Give(Smart(q, cached.rate)) /\ UNCHANGED <<clock, listed, rates, enquiry>>
  BY DEF Hit
<1> DEFINE t == Smart(q, cached.rate)
<1>5. t \in QuoteRows /\ QuoteIsTrue(t) /\ t.at <= clock /\ Give(t)
  BY <1>1, <1>2, <1>3, <1>4, SmartIsTrue
<1> HIDE DEF t
<1>6. /\ quotes' \in Seq(QuoteRows) /\ Len(quotes') <= 2
      /\ \A i \in DOMAIN quotes' : quotes'[i].at <= clock' /\ QuoteIsTrue(quotes'[i])
  BY <1>1, <1>4, <1>5, GiveIsTrue DEF QuotesInv, PricesTypes
<1> QED BY <1>4, <1>6 DEF QuotesInv, PricesTypes, Answers

LEMMA MissKeeps ==
  ASSUME PricesAssumption, QuotesInv, NEW a \in Quoter, NEW q \in Enquiry, Miss(a, q)
  PROVE  QuotesInv'
<1> DEFINE new == [step |-> "sent", question |-> q, since |-> clock]
<1>1. /\ enquiry' = [enquiry EXCEPT ![a] = new]
      /\ UNCHANGED <<clock, listed, rates, quotes>>
  BY DEF Miss
<1>2. clock \in Nat /\ Patience \in Nat
  BY DEF QuotesInv, PricesTypes, PricesAssumption
<1>3. new \in [step : {"sent"}, question : Enquiry, since : 0..clock] /\ new.step = "sent"
      /\ new.since = clock
  BY <1>2
<1> HIDE DEF new
<1>4. /\ enquiry'[a] = new /\ \A b \in Quoter : b # a => enquiry'[b] = enquiry[b]
      /\ PricesTypes'
  BY <1>1, <1>3 DEF QuotesInv, PricesTypes, Answers
<1>5. /\ \A b \in Quoter : enquiry'[b] # NotAsking => clock' - enquiry'[b].since <= Patience
      /\ \A b \in Quoter : enquiry'[b].step = "answered" =>
                             SeenSince(enquiry'[b].rate, enquiry'[b].since)
  BY <1>1, <1>2, <1>3, <1>4 DEF QuotesInv
<1> QED BY <1>1, <1>4, <1>5 DEF QuotesInv

LEMMA AnswerKeeps ==
  ASSUME PricesAssumption, QuotesInv, NEW a \in Quoter, ExchangeAnswers(a)
  PROVE  QuotesInv'
<1>1. PICK rate \in {Median(listed[enquiry[a].question.route]), NoRate} :
        enquiry' = [enquiry EXCEPT ![a] =
          [step |-> "answered", question |-> enquiry[a].question, since |-> enquiry[a].since,
           rate |-> rate]]
  BY DEF ExchangeAnswers
<1>2. clock \in Nat /\ UNCHANGED <<clock, listed, rates, quotes>> /\ enquiry[a].step = "sent"
  BY DEF ExchangeAnswers, QuotesInv, PricesTypes
<1>3. enquiry[a] \in [step : {"sent"}, question : Enquiry, since : 0..clock]
      /\ enquiry[a] # NotAsking
  BY <1>2 DEF QuotesInv, PricesTypes, NotAsking
<1>4. listed[enquiry[a].question.route] \in Seq(Nat)
  BY <1>3 DEF PricesAssumption, QuotesInv, PricesTypes
<1>5. rate \in Answers /\ SeenSince(rate, enquiry[a].since)
  <2>1. CASE rate = NoRate
    BY <1>2, <2>1 DEF NoRate, Answers, SeenSince
  <2>2. CASE rate # NoRate
    <3>1. rate \in [price : Nat \ {0}, seen : {clock}]
      BY <1>4, <2>2, MedianIsPrice
    <3> QED BY <1>2, <1>3, <3>1 DEF Answers, SeenSince
  <2> QED BY <2>1, <2>2
<1> DEFINE new == [step |-> "answered", question |-> enquiry[a].question,
                   since |-> enquiry[a].since, rate |-> rate]
<1>6. /\ new \in [step : {"answered"}, question : Enquiry, since : 0..clock, rate : Answers]
      /\ new.since = enquiry[a].since /\ new.rate = rate
  BY <1>3, <1>5
<1>7. enquiry' = [enquiry EXCEPT ![a] = new]
  BY <1>1
<1> HIDE DEF new
<1>8. /\ enquiry'[a] = new /\ \A b \in Quoter : b # a => enquiry'[b] = enquiry[b]
      /\ PricesTypes'
  BY <1>2, <1>6, <1>7 DEF QuotesInv, PricesTypes, Answers
<1>9. /\ \A b \in Quoter : enquiry'[b] # NotAsking => clock' - enquiry'[b].since <= Patience
      /\ \A b \in Quoter : enquiry'[b].step = "answered" =>
                             SeenSince(enquiry'[b].rate, enquiry'[b].since)
  BY <1>2, <1>3, <1>5, <1>6, <1>8 DEF QuotesInv
<1> QED BY <1>2, <1>8, <1>9 DEF QuotesInv

\* A request is done with, and another quote is given.
LEMMA DoneKeeps ==
  ASSUME PricesAssumption, QuotesInv, NEW a \in Quoter, NEW t \in QuoteRows, QuoteIsTrue(t),
         t.at <= clock, Give(t), enquiry' = [enquiry EXCEPT ![a] = NotAsking],
         UNCHANGED <<clock, listed>>,
         rates' \in [Route -> [rate : Answers, at : -Ttl..clock]],
         \A r \in Route : SeenSince(rates'[r].rate, rates'[r].at)
  PROVE  QuotesInv'
<1>1. clock \in Nat /\ NotAsking.step = "idle"
  BY DEF QuotesInv, PricesTypes, NotAsking
<1>2. /\ quotes' \in Seq(QuoteRows) /\ Len(quotes') <= 2
      /\ \A i \in DOMAIN quotes' : quotes'[i].at <= clock' /\ QuoteIsTrue(quotes'[i])
  BY <1>1, GiveIsTrue DEF QuotesInv, PricesTypes
<1>3. /\ enquiry'[a] = NotAsking /\ \A b \in Quoter : b # a => enquiry'[b] = enquiry[b]
      /\ PricesTypes'
  BY <1>2 DEF QuotesInv, PricesTypes, Answers
<1>4. /\ \A b \in Quoter : enquiry'[b] # NotAsking => clock' - enquiry'[b].since <= Patience
      /\ \A b \in Quoter : enquiry'[b].step = "answered" =>
                             SeenSince(enquiry'[b].rate, enquiry'[b].since)
  BY <1>1, <1>3 DEF QuotesInv
<1> QED BY <1>2, <1>3, <1>4 DEF QuotesInv

LEMMA RememberKeeps ==
  ASSUME PricesAssumption, QuotesInv, NEW a \in Quoter, Remember(a)
  PROVE  QuotesInv'
<1> DEFINE q == enquiry[a].question
           rate == enquiry[a].rate
           since == enquiry[a].since
<1>1. enquiry[a].step = "answered" /\ clock \in Nat /\ Ttl \in Nat /\ Patience \in Nat
      /\ Patience < Ttl
  BY DEF Remember, QuotesInv, PricesTypes, PricesAssumption
<1>2. /\ q \in Enquiry /\ q.route \in Route /\ rate \in Answers /\ since \in 0..clock
      /\ SeenSince(rate, since) /\ clock - since <= Patience
  <2>1. enquiry[a] # NotAsking
    BY <1>1 DEF NotAsking
  <2>2. enquiry[a] \in [step : {"answered"}, question : Enquiry, since : 0..clock, rate : Answers]
    BY <1>1, <2>1 DEF QuotesInv, PricesTypes
  <2> QED BY <1>1, <2>1, <2>2 DEF QuotesInv, PricesAssumption
<1>3. /\ rates' = [rates EXCEPT ![q.route] = [rate |-> rate, at |-> since]]
      /\ Give(Smart(q, rate))
      /\ enquiry' = [enquiry EXCEPT ![a] = NotAsking] /\ UNCHANGED <<clock, listed>>
  BY DEF Remember, Dated
<1> HIDE DEF q, rate, since
<1>4. rate.price > 0 => clock - rate.seen < Ttl
  BY <1>1, <1>2 DEF SeenSince, Answers
<1> DEFINE t == Smart(q, rate)
           cached == [rate |-> rate, at |-> since]
<1>5. t \in QuoteRows /\ QuoteIsTrue(t) /\ t.at <= clock /\ Give(t)
  BY <1>1, <1>2, <1>3, <1>4, SmartIsTrue
<1>6. cached \in [rate : Answers, at : -Ttl..clock] /\ cached.rate = rate /\ cached.at = since
  BY <1>1, <1>2
<1>7. rates' = [rates EXCEPT ![q.route] = cached]
  BY <1>3
<1> HIDE DEF t, cached
<1>8. /\ rates' \in [Route -> [rate : Answers, at : -Ttl..clock]]
      /\ \A r \in Route : rates'[r] = IF r = q.route THEN cached ELSE rates[r]
  BY <1>2, <1>6, <1>7 DEF QuotesInv, PricesTypes
<1>9. \A r \in Route : SeenSince(rates'[r].rate, rates'[r].at)
  BY <1>2, <1>6, <1>8 DEF QuotesInv
<1> QED BY <1>3, <1>5, <1>8, <1>9, DoneKeeps

LEMMA GiveUpKeeps ==
  ASSUME PricesAssumption, QuotesInv, NEW a \in Quoter, GiveUp(a)
  PROVE  QuotesInv'
<1> DEFINE t == Smart(enquiry[a].question, NoRate)
<1>1. /\ enquiry[a].step = "sent" /\ Give(t) /\ UNCHANGED <<clock, listed, rates>>
      /\ enquiry' = [enquiry EXCEPT ![a] = NotAsking]
  BY DEF GiveUp
<1>2. clock \in Nat /\ NoRate \in Answers /\ ~(NoRate.price > 0)
  BY DEF QuotesInv, PricesTypes, NoRate, Answers
<1>3. enquiry[a].question \in Enquiry
  BY <1>1 DEF QuotesInv, PricesTypes, NotAsking
<1>4. t \in QuoteRows /\ QuoteIsTrue(t) /\ t.at <= clock
  BY <1>2, <1>3, SmartIsTrue
<1> HIDE DEF t
<1>5. /\ rates' \in [Route -> [rate : Answers, at : -Ttl..clock]]
      /\ \A r \in Route : SeenSince(rates'[r].rate, rates'[r].at)
  BY <1>1 DEF QuotesInv, PricesTypes
<1> QED BY <1>1, <1>4, <1>5, DoneKeeps

LEMMA QuotesInvariance == PricesSpec => []QuotesInv
<1>1. PricesInit => QuotesInv
  BY QuotesBegin, PricesAssumption
<1>2. QuotesInv /\ [PricesNext]_priceVars => QuotesInv'
  <2> SUFFICES ASSUME QuotesInv, [PricesNext]_priceVars PROVE QuotesInv'
    OBVIOUS
  <2>1. CASE Tick
    BY <2>1, TickKeeps, PricesAssumption
  <2>2. ASSUME NEW q \in Enquiry, Hit(q) PROVE QuotesInv'
    BY <2>2, HitKeeps, PricesAssumption
  <2>3. ASSUME NEW q \in Enquiry, NEW a \in Quoter, Miss(a, q) PROVE QuotesInv'
    BY <2>3, MissKeeps, PricesAssumption
  <2>4. ASSUME NEW a \in Quoter, ExchangeAnswers(a) PROVE QuotesInv'
    BY <2>4, AnswerKeeps, PricesAssumption
  <2>5. ASSUME NEW a \in Quoter, Remember(a) PROVE QuotesInv'
    BY <2>5, RememberKeeps, PricesAssumption
  <2>6. ASSUME NEW a \in Quoter, GiveUp(a) PROVE QuotesInv'
    BY <2>6, GiveUpKeeps, PricesAssumption
  <2>7. CASE UNCHANGED priceVars
    BY <2>7 DEF QuotesInv, PricesTypes, Answers, priceVars
  <2> QED BY <2>1, <2>2, <2>3, <2>4, <2>5, <2>6, <2>7 DEF PricesNext
<1> QED BY <1>1, <1>2, PTL DEF PricesSpec

-----------------------------------------------------------------------------
(* What follows.                                                            *)

\* Of two quotes on the same knowledge the heavier load's is not lower.
LEMMA OrderFollows ==
  ASSUME PricesAssumption, NEW s \in QuoteRows, NEW t \in QuoteRows, PriceIsSaid(s), PriceIsSaid(t),
         Alike(s, t), s.question.weight < t.question.weight, s.price > t.price
  PROVE  s.source = "calculated" /\ Relieved(s.question, t.question.weight)
<1> DEFINE q == s.question
           r == t.question
<1>1. /\ q \in Enquiry /\ r \in Enquiry /\ q.weight \in Nat /\ r.weight \in Nat
      /\ q.volume \in Nat /\ q.route \in Route /\ s.price \in Nat /\ t.price \in Nat
      /\ s.source = t.source /\ s.source \in Sources
  BY DEF QuoteRows, PricesAssumption, Alike
<1>2. Heavier(q, r)
  <2>1. [q EXCEPT !.weight = 0] = [r EXCEPT !.weight = 0]
    BY DEF Alike
  <2>2. /\ q \in [route : Route, body : STRING, weight : Nat, volume : Nat, hazardous : BOOLEAN]
        /\ r \in [route : Route, body : STRING, weight : Nat, volume : Nat, hazardous : BOOLEAN]
    BY <1>1 DEF PricesAssumption
  <2> HIDE DEF q, r
  <2>3. /\ [q EXCEPT !.weight = 0].route = q.route /\ [r EXCEPT !.weight = 0].route = r.route
        /\ [q EXCEPT !.weight = 0].body = q.body /\ [r EXCEPT !.weight = 0].body = r.body
        /\ [q EXCEPT !.weight = 0].volume = q.volume /\ [r EXCEPT !.weight = 0].volume = r.volume
        /\ [q EXCEPT !.weight = 0].hazardous = q.hazardous
        /\ [r EXCEPT !.weight = 0].hazardous = r.hazardous
    BY <2>2
  <2>4. q.weight < r.weight
    BY DEF q, r
  <2> QED BY <2>1, <2>3, <2>4 DEF Heavier
<1>3. q.weight <= r.weight /\ q.route = r.route /\ q.body = r.body
  BY <1>1, <1>2 DEF Heavier
<1>4. s.source # "ati.su"
  BY <1>1 DEF Alike
<1>5. s.source # "benchmark"
  <2> SUFFICES ASSUME s.source = "benchmark" PROVE FALSE
    OBVIOUS
  <2> DEFINE price == Benchmark[q.route].price
  <2>1. /\ s.price = ScaledBenchmark(price, q.weight) /\ t.price = ScaledBenchmark(price, r.weight)
        /\ OfBody(Benchmark, q.route, q.body)
    BY <1>1, <1>3 DEF PriceIsSaid
  <2>2. price \in Nat /\ price >= 10
    BY <2>1 DEF OfBody, PricesAssumption
  <2> HIDE DEF price, q, r
  <2>3. ScaledBenchmark(price, q.weight) <= ScaledBenchmark(price, r.weight)
    BY <1>1, <1>3, <2>2, BenchmarkGrows
  <2> QED BY <1>1, <2>1, <2>3
<1>6. s.source # "market"
  <2> SUFFICES ASSUME s.source = "market" PROVE FALSE
    OBVIOUS
  <2> DEFINE price == MarketRow[RowRoute(q)].price
  <2>1. RowRoute(r) = RowRoute(q)
    BY <1>3 DEF RowRoute
  <2>2. /\ s.price = ScaledRow(price, q.weight) /\ t.price = ScaledRow(price, r.weight)
        /\ OfBody(MarketRow, RowRoute(q), q.body)
    BY <1>1, <2>1 DEF PriceIsSaid
  <2>3. price \in Nat /\ price >= 10
    BY <2>2 DEF OfBody, PricesAssumption
  <2> HIDE DEF price, q, r
  <2>4. ScaledRow(price, q.weight) <= ScaledRow(price, r.weight)
    BY <1>1, <1>3, <2>3, RowGrows
  <2> QED BY <1>1, <2>2, <2>4
<1>7. s.source = "calculated"
  BY <1>1, <1>4, <1>5, <1>6 DEF Sources
<1>8. ASSUME ~Relieved(q, r.weight) PROVE FALSE
  <2> DEFINE km == DistanceOf[q.route]
             low == km * RatePerKm(q)
             high == km * RatePerKm(r)
  <2>1. s.price = RoundHalfEven(low, 1000) /\ t.price = RoundHalfEven(high, 1000)
        /\ km \in Nat
    BY <1>1, <1>3, <1>7 DEF PriceIsSaid, PricesAssumption
  <2>2. RatePerKm(q) \in Nat /\ RatePerKm(r) \in Nat /\ RatePerKm(q) <= RatePerKm(r)
    BY <1>1, <1>2, <1>8, RateGrows
  <2> HIDE DEF q, r
  <2>3. low \in Int /\ high \in Int /\ low <= high
    BY <2>1, <2>2, TimesGrows
  <2> HIDE DEF low, high
  <2>4. RoundHalfEven(low, 1000) <= RoundHalfEven(high, 1000)
    BY <2>3, RoundGrows
  <2> QED BY <1>1, <2>1, <2>4
<1> QED BY <1>7, <1>8

\* What is recommended lies in its window.
LEMMA WindowFollows ==
  ASSUME NEW t \in QuoteRows
  PROVE  Window(t)[1] <= t.price /\ t.price <= Window(t)[2]
<1>1. t.price \in Nat \ {0}
  BY DEF QuoteRows
<1> DEFINE n == t.price
<1>2. CASE t.source = "calculated"
  <2>1. Window(t) = <<Share(n, 88), Share(n, 112)>>
    BY <1>2 DEF Window
  <2>2. Share(n, 88) <= n /\ n <= Share(n, 112)
    BY <1>1 DEF Share
  <2> QED BY <2>1, <2>2
<1>3. CASE t.source # "calculated"
  <2> DEFINE spread == AtLeast(5000, Share(n, 12))
  <2>1. Window(t) = <<AtLeast(1, n - spread), n + spread>>
    BY <1>3 DEF Window
  <2>2. spread \in Int /\ spread >= 5000
    BY <1>1, SMT DEF Share, AtLeast
  <2> HIDE DEF spread
  <2>3. AtLeast(1, n - spread) <= n /\ n <= n + spread
    BY <1>1, <2>2, SMT DEF AtLeast
  <2> QED BY <2>1, <2>3
<1> QED BY <1>2, <1>3

\* Of two stated prices the higher is not judged worse.
LEMMA ScoreFollows ==
  ASSUME NEW t \in QuoteRows, NEW low \in Nat, NEW high \in Nat, low < high
  PROVE  /\ PreviewScore(low, t) <= PreviewScore(high, t)
         /\ Verdict(low, t) = "green" => Verdict(high, t) = "green"
         /\ Verdict(high, t) = "red" => Verdict(low, t) = "red"
<1>1. t.price \in Nat \ {0}
  BY DEF QuoteRows
<1> DEFINE base == AtLeast(1, t.price)
           below == 100 * (low - t.price)
           above == 100 * (high - t.price)
<1>2. base \in Nat \ {0} /\ below \in Int /\ above \in Int /\ below <= above
  BY <1>1 DEF AtLeast
<1>3. Above(low, t) = RoundHalfEven(below, base) /\ Above(high, t) = RoundHalfEven(above, base)
  BY DEF Above
<1> HIDE DEF base, below, above
<1>4. Above(low, t) \in Int /\ Above(high, t) \in Int /\ Above(low, t) <= Above(high, t)
  BY <1>2, <1>3, RoundGrows, RoundIsInt
<1>5. PreviewScore(low, t) <= PreviewScore(high, t)
  BY <1>4 DEF PreviewScore, AtMost
<1>6. /\ Verdict(low, t) = "green" => Verdict(high, t) = "green"
      /\ Verdict(high, t) = "red" => Verdict(low, t) = "red"
  BY <1>4 DEF Verdict
<1> QED BY <1>5, <1>6

LEMMA QuotesFollow ==
  ASSUME PricesAssumption, QuotesInv
  PROVE  QuotesHold
<1>1. \A i \in DOMAIN quotes : quotes[i] \in QuoteRows
  BY ElementOfSeq, LenProperties DEF QuotesInv, PricesTypes
<1>2. \A i \in DOMAIN quotes : quotes[i].at - quotes[i].seen < Ttl /\ PriceIsSaid(quotes[i])
  BY DEF QuotesInv, QuoteIsTrue
<1>3. \A i, j \in DOMAIN quotes :
        LET s == quotes[i]
            t == quotes[j]
        IN Alike(s, t) /\ s.question.weight < t.question.weight /\ s.price > t.price =>
             s.source = "calculated" /\ Relieved(s.question, t.question.weight)
  BY <1>1, <1>2, OrderFollows
<1>4. \A i \in DOMAIN quotes :
        Window(quotes[i])[1] <= quotes[i].price /\ quotes[i].price <= Window(quotes[i])[2]
  BY <1>1, WindowFollows
<1>5. \A i \in DOMAIN quotes : \A low, high \in Stated : low < high =>
        /\ PreviewScore(low, quotes[i]) <= PreviewScore(high, quotes[i])
        /\ Verdict(low, quotes[i]) = "green" => Verdict(high, quotes[i]) = "green"
        /\ Verdict(high, quotes[i]) = "red" => Verdict(low, quotes[i]) = "red"
  <2>1. Stated \subseteq Nat
    BY DEF PricesAssumption
  <2> QED BY <1>1, <2>1, ScoreFollows
<1> QED BY <1>2, <1>3, <1>4, <1>5 DEF QuotesHold

\* Every quote given was true of the exchange less than the life of an answer ago, whichever
\* answers overtake one another; the heavier load is not quoted less but where the formula
\* takes a factor back; the recommended rate lies in its window, and a higher price is never
\* judged worse (get_route_rate_cached, estimate_price_smart, get_recommended_rate).
THEOREM QuotesStayTrue == PricesSpec => []QuotesHold
BY QuotesInvariance, QuotesFollow, PricesAssumption, PTL

-----------------------------------------------------------------------------
(* What the parts promise together.                                         *)

\* A link that was stopped shows no position again, and a driver who left the
\* line is not shown until taking it again: whatever requests of the bot, of
\* the map and of the site were in flight (stop_live_tracking, cb_go_offline).
THEOREM GoneStaysGone == LinkSpec /\ LineSpec => []GoneIsGone
<1>1. LinkInv => StoppedIsDark
  BY DEF LinkInv, StoppedIsOver, SavedWasCarried, StoppedIsDark
<1>2. LineInv => LeftIsHidden
  BY DEF LineInv, LeftIsOff, LeftIsHidden, OnMap, Answered
<1>3. LinkInv /\ LineInv => GoneIsGone
  BY <1>1, <1>2 DEF GoneIsGone
<1> QED BY <1>3, LinkInvariance, LineInvariance, PTL

\* Once the pushes have settled the site shows the vehicle as the bot has it,
\* and an order of the site is one cargo unless two deliveries of it overlapped
\* (publish_vehicle_sync_event, internal_sync_data).
THEOREM SitesStayAgreed == FleetSpec /\ ReceiverSpec => []SitesAgree
<1>1. FleetInv => ShownAsItIs
  BY DEF FleetInv, SettledIsQuiet, ShownAsItIs
<1>2. FleetInv /\ ReceiverInv => SitesAgree
  BY <1>1, ReceiverHolds DEF SitesAgree
<1> QED BY <1>2, FleetInvariance, ReceiverInvariance, PTL

\* No carrier is told of a cargo twice by one announcement unless he asked
\* twice, and nothing the feed has gone past is lost but what was synced late
\* or cut off (notify_matching_carriers, dispatch_cargo_notification,
\* poll_and_push).
THEOREM EachHearsOnce == AnnounceSpec /\ WsSpec => []HeardOnce
<1>1. WsInv => PassedWasPushed
  BY DEF WsInv
<1>2. AnnounceInv /\ WsInv => HeardOnce
  BY <1>1, AnnounceHolds DEF HeardOnce
<1> QED BY <1>2, AnnounceInvariance, WsInvariance, PTL

\* Nothing is kept as an answer that no model gave, the free requests of a date are
\* counted whoever runs at once, and what the logist remembers, keeps and lists is
\* lost by overlap, expiry and faults alone (KimiAIService.chat, ask_logist).
THEOREM AnswersStayTrue == AnswersSpec /\ LogistSpec => []AnswersHold
<1>1. AnswersInv /\ LogistInv => AnswersHold
  BY AnswersFound, LogistHolds DEF AnswersHold
<1> QED BY <1>1, AnswersInvariance, LogistInvariance, PTL

\* No review of a deal judges its price by a band older than the statistics it
\* has read, however recomputes, expiries and other reviews fall between its
\* queries (get_route_rate_profile, recompute_route_stats).
THEOREM BandStaysCurrent == FraudSpec => []BandIsCurrent
BY FraudHolds, FraudInvariance, PTL

\* A counterparty of repeated high risk stays so, whatever deals follow, and an
\* event is hidden only after complaints enough and comes back only by an
\* administrator who saw it hidden (review_deal_rules_v3, report_feed_item).
THEOREM FlagsStayEarned == FraudSpec /\ FeedSpec => FlagsAreEarned
BY PatternsStay, HidingHolds, PTL DEF FlagsAreEarned

\* Whatever part moves, the steps of the platform are for each part its own or
\* none: what holds of a part by its own specification holds here.
THEOREM PartsRunAlone ==
  PlatformSpec => /\ LinkSpec /\ LineSpec /\ FleetSpec /\ WsSpec /\ AnnounceSpec /\ AnswersSpec
                  /\ LogistSpec /\ FraudSpec /\ FeedSpec /\ PricesSpec /\ ReceiverSpec
                  /\ TrucksSpec
<1>1. PlatformInit => /\ LinkInit /\ LineInit /\ FleetInit /\ WsInit /\ AnnounceInit /\ AnswersInit
                      /\ LogistInit /\ FraudInit /\ FeedInit /\ PricesInit /\ ReceiverInit
                      /\ TrucksInit
  BY Zenon DEF PlatformInit
<1>2. [PlatformNext]_platformVars => [LinkNext]_linkVars
  BY Zenon DEF PlatformNext, Others, platformVars
<1>3. [PlatformNext]_platformVars => [LineNext]_lineVars
  BY Zenon DEF PlatformNext, Others, platformVars
<1>4. [PlatformNext]_platformVars => [FleetNext]_fleetVars
  BY Zenon DEF PlatformNext, Others, platformVars
<1>5. [PlatformNext]_platformVars => [WsNext]_wsVars
  BY Zenon DEF PlatformNext, Others, platformVars
<1>6. [PlatformNext]_platformVars => [AnnounceNext]_announceVars
  BY Zenon DEF PlatformNext, Others, platformVars
<1>7. [PlatformNext]_platformVars => [AnswersNext]_answersVars
  BY Zenon DEF PlatformNext, Others, platformVars
<1>8. [PlatformNext]_platformVars => [LogistNext]_logistVars
  BY Zenon DEF PlatformNext, Others, platformVars
<1>9. [PlatformNext]_platformVars => [FraudNext]_fraudVars
  BY Zenon DEF PlatformNext, Others, platformVars
<1>10. [PlatformNext]_platformVars => [FeedNext]_feedVars
  BY Zenon DEF PlatformNext, Others, platformVars
<1>11. [PlatformNext]_platformVars => [PricesNext]_priceVars
  BY Zenon DEF PlatformNext, Others, platformVars
<1>12. [PlatformNext]_platformVars => [ReceiverNext]_receiverVars
  BY Zenon DEF PlatformNext, Others, platformVars
<1>13. [PlatformNext]_platformVars => [TrucksNext]_truckVars
  BY Zenon DEF PlatformNext, Others, platformVars
<1> QED
  BY <1>1, <1>2, <1>3, <1>4, <1>5, <1>6, <1>7, <1>8, <1>9, <1>10, <1>11, <1>12, <1>13, PTL
     DEF PlatformSpec, LinkSpec, LineSpec, FleetSpec, WsSpec, AnnounceSpec, AnswersSpec, LogistSpec, FraudSpec, FeedSpec, PricesSpec, ReceiverSpec, TrucksSpec

\* The run's own specification keeps all of these.
THEOREM PlatformHolds ==
  PlatformSpec => /\ [](GoneIsGone /\ SitesAgree /\ HeardOnce /\ AnswersHold /\ BandIsCurrent)
                  /\ []QuotesHold /\ FlagsAreEarned
BY PartsRunAlone, GoneStaysGone, SitesStayAgreed, EachHearsOnce, AnswersStayTrue,
   BandStaysCurrent, QuotesStayTrue, FlagsStayEarned, PTL
=============================================================================
