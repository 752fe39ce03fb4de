---------------------------- MODULE ReachProofs ----------------------------
(***************************************************************************)
(* Theorems of the parts that reach a driver or a reader: links and         *)
(* positions (LiveLink), the line (Line), the fleet (Fleet), the live feed  *)
(* (WsFeed), announcements (Announce), the receiver of the site's orders    *)
(* (Receiver), the models' answers (Answers) and the logist (Logist); for   *)
(* every value of their constants.                                          *)
(*                                                                          *)
(* Each part's invariant says what a request in flight may still do.  A     *)
(* link that was stopped is in nobody's hands (StoppedIsOver), nor is the   *)
(* row of a driver who left the line (LeftIsOff).  A request at the fleet   *)
(* that is alone posts the vehicle as it is (AloneIsAlone).  What the feed  *)
(* has not pushed, and is not beyond its cursor, is the rest of the batch   *)
(* in hand (BatchIsNext).  An announcement has for each listener no more    *)
(* than that listener's rows, told and untold together (RunOnce), and two   *)
(* announcements of one key are never both past the throttle                *)
(* (KeysSpeakOnce).  A delivery at work on an order by itself knows whether *)
(* that order has a cargo (OneInHand, AnswersTrue).  A call that ended well *)
(* has an answer of a model to tell of (Founded), and what the count let    *)
(* through is what it counted, up to the limit (Covered).  A session that   *)
(* was not mixed has been read by one request at most, which stores on what *)
(* is there (SessionsHold).                                                 *)
(***************************************************************************)
EXTENDS LiveLink, Line, Fleet, WsFeed, Announce, Receiver, Answers, Logist,
        FiniteSetTheorems, SequenceTheorems, WellFoundedInduction, TLAPS

-----------------------------------------------------------------------------
(* The line.                                                                *)

\* Who has left the line has no active row and no row being stored.
LeftIsOff == \A d \in left : ~line[d].active /\ upsert[d] = "idle"

LineInv == LineTypeOK /\ LeftIsOff

LEMMA LineInitInv == LineInit => LineInv
BY LastMoveIsNat DEF LineInit, LineInv, LineTypeOK, LeftIsOff, NoRow, RowSeen

LEMMA LineNextInv == ASSUME LineInv, [LineNext]_lineVars PROVE LineInv'
<1> USE LastMoveIsNat DEF LineInv, NoRow, RowSeen
<1> DEFINE RowType == [active : BOOLEAN, fix : {NoRow} \cup 0..LastMove, fresh : BOOLEAN]
<1>0. \A d \in Online : line[d] \in RowType
  BY DEF LineTypeOK
<1>1. CASE UNCHANGED lineVars
  BY <1>1 DEF lineVars, LineTypeOK, LeftIsOff
<1>2. ASSUME NEW d \in Online,
             Move(d) \/ OtherDialog(d) \/ GoOnline(d) \/ SharePhone(d)
      PROVE  LineInv'
  BY <1>2 DEF LineTypeOK, LeftIsOff, Move, OtherDialog, GoOnline, SharePhone
<1>9. ASSUME NEW d \in Online, GrowStale(d) PROVE LineInv'
  <2>1. [line[d] EXCEPT !.fresh = FALSE] \in RowType
    BY <1>0
  <2>2. line' = [line EXCEPT ![d] = [line[d] EXCEPT !.fresh = FALSE]]
    BY <1>9 DEF LineTypeOK, GrowStale
  <2>3. LineTypeOK'
    BY <1>9, <2>1, <2>2 DEF LineTypeOK, GrowStale
  <2>4. LeftIsOff'
    BY <1>9 DEF LineTypeOK, LeftIsOff, GrowStale
  <2> QED BY <2>3, <2>4
<1>3. ASSUME NEW d \in Online, UpsertReads(d) PROVE LineInv'
  BY <1>3 DEF LineTypeOK, LeftIsOff, UpsertReads, Seen
<1>4. ASSUME NEW d \in Online, UpsertCommits(d) PROVE LineInv'
  <2>1. LineTypeOK'
    BY <1>4 DEF LineTypeOK, UpsertCommits
  <2>2. LeftIsOff'
    BY <1>4 DEF LineTypeOK, LeftIsOff, UpsertCommits
  <2> QED BY <2>1, <2>2
<1>5. ASSUME NEW d \in Online, UpdateReads(d) PROVE LineInv'
  BY <1>5 DEF LineTypeOK, LeftIsOff, UpdateReads
<1>6. ASSUME NEW d \in Online, UpdateCommits(d) PROVE LineInv'
  <2>1. ChangedColumns(d) \in RowType /\ (~line[d].active => ~ChangedColumns(d).active)
    BY <1>0, <1>6 DEF LineTypeOK, ChangedColumns, UpdateCommits
  <2>2. LineTypeOK'
    BY <1>6, <2>1 DEF LineTypeOK, UpdateCommits
  <2>3. LeftIsOff'
    BY <1>6, <2>1 DEF LineTypeOK, LeftIsOff, UpdateCommits
  <2> QED BY <2>2, <2>3
<1>7. ASSUME NEW d \in Online, OfflineReads(d) PROVE LineInv'
  BY <1>7 DEF LineTypeOK, LeftIsOff, OfflineReads, Seen
<1>8. ASSUME NEW d \in Online, OfflineCommits(d) PROVE LineInv'
  <2> DEFINE active == line[d].active /\ leave[d] # "active"
             row == [line[d] EXCEPT !.active = active, !.fresh = TRUE]
  <2>1. active \in BOOLEAN /\ (active => line[d].active)
    BY <1>0
  <2>2. line' = [line EXCEPT ![d] = row]
    BY <1>8 DEF LineTypeOK, OfflineCommits
  <2> HIDE DEF active
  <2>3. row \in RowType /\ row.active = active
    BY <1>0, <2>1
  <2> HIDE DEF row
  <2>4. line'[d] = row /\ line' \in [Online -> RowType]
    BY <2>2, <2>3 DEF LineTypeOK
  <2>5. \A e \in Online : e # d => line'[e] = line[e]
    BY <1>8 DEF OfflineCommits, LineTypeOK
  <2>6. LineTypeOK'
    BY <1>8, <2>4 DEF LineTypeOK, OfflineCommits
  <2>7. LeftIsOff'
    BY <1>8, <2>1, <2>3, <2>4, <2>5 DEF LineTypeOK, LeftIsOff, OfflineCommits
  <2> QED BY <2>6, <2>7
<1> QED BY <1>1, <1>2, <1>3, <1>4, <1>5, <1>6, <1>7, <1>8, <1>9 DEF LineNext

\* Whoever has left the line has no active row, and no request in flight that
\* would store one (cb_go_offline, _upsert_driver).
THEOREM LineInvariance == LineSpec => []LineInv
BY LineInitInv, LineNextInv, PTL DEF LineSpec

-----------------------------------------------------------------------------
(* Live links.                                                              *)

\* The links a driver d has, is about to show a position on, or is stopping.
Holding(d) ==
  {t \in 1..issued : \/ token[d] = t
                     \/ locate[d].step = "show" /\ locate[d].token = t
                     \/ stop[d].step # "idle" /\ stop[d].token = t}

LinksAreOwn == \A d, e \in Driver : d # e => Holding(d) \cap Holding(e) = {}

LinksAreIssued ==
  \A d \in Driver : /\ locate[d].step = "show" => locate[d].token # 0
                    /\ stop[d].step # "idle" => stop[d].token # 0

\* While a driver stops a link alone, no position is on its way to any link of
\* the driver; once the position is cleared it stays so.
StopIsAlone ==
  \A d \in Driver : stop[d].step # "idle" /\ stop[d].alone =>
    /\ locate[d].step # "show"
    /\ stop[d].step = "forget" => position[stop[d].token] = NoFix

\* Nobody has a stopped link, and no position is on its way there.
StoppedIsOver ==
  \A t \in stopped :
    /\ t \in 1..issued /\ position[t] = NoFix
    /\ \A d \in Driver : token[d] # t /\ ~(locate[d].step = "show" /\ locate[d].token = t)

\* What is saved was carried, and so is what is about to be.
SavedWasCarried ==
  /\ saved \subseteq carried
  /\ \A d \in Driver :
       /\ trip[d] # NoTrip => <<trip[d], where[d]>> \in carried
       /\ locate[d].step = "save" =>
            locate[d].trip # NoTrip /\ <<locate[d].trip, locate[d].fix>> \in carried

LinkInv ==
  LinkTypeOK /\ LinksAreOwn /\ LinksAreIssued /\ StopIsAlone /\ StoppedIsOver /\ SavedWasCarried

Locating == [step : {"idle", "save", "token", "show"}, trip : Trip \cup {NoTrip}, fix : Fix,
             token : 0..issued]
Stopping == [step : {"idle", "clear", "forget"}, token : 0..issued, alone : BOOLEAN]

LEMMA LinkInitInv == LinkInit => LinkInv
<1> SUFFICES ASSUME LinkInit PROVE LinkInv
  OBVIOUS
<1>1. LinkTypeOK
  BY LinkAssumption DEF LinkInit, LinkTypeOK, Tokens, Fix, NoFix, NotLocating, NotStopping
<1>2. LinksAreOwn /\ LinksAreIssued /\ StopIsAlone /\ StoppedIsOver /\ SavedWasCarried
  BY DEF LinkInit, LinksAreOwn, Holding, LinksAreIssued, StopIsAlone, StoppedIsOver,
         SavedWasCarried, NotLocating, NotStopping
<1> QED BY <1>1, <1>2 DEF LinkInv

\* A step that touches no link and no handler.
LEMMA LinkQuiet ==
  ASSUME LinkInv, UNCHANGED <<token, issued, position, locate, stop, stopped>>
  PROVE  LinksAreOwn' /\ LinksAreIssued' /\ StopIsAlone' /\ StoppedIsOver'
BY DEF LinkInv, LinksAreOwn, Holding, LinksAreIssued, StopIsAlone, StoppedIsOver

LEMMA LinkNextInv == ASSUME LinkInv, [LinkNext]_linkVars PROVE LinkInv'
<1> USE LinkAssumption DEF LinkInv, NoFix, Tokens
<1>0. /\ \A e \in Driver : locate[e] \in Locating /\ stop[e] \in Stopping
      /\ locate \in [Driver -> Locating] /\ stop \in [Driver -> Stopping]
      /\ trip \in [Driver -> Trip \cup {NoTrip}] /\ where \in [Driver -> Fix]
      /\ token \in [Driver -> 0..issued] /\ issued \in Nat
  BY DEF LinkTypeOK, Locating, Stopping
<1>99. /\ NotLocating \in Locating /\ NotLocating.step = "idle"
       /\ NotStopping \in Stopping /\ NotStopping.step = "idle"
  BY <1>0 DEF NotLocating, NotStopping, Locating, Stopping, Fix
<1>1. CASE UNCHANGED linkVars
  BY <1>1, LinkQuiet DEF linkVars, LinkTypeOK, SavedWasCarried
<1>2. ASSUME NEW d \in Driver, NEW c \in Trip \cup {NoTrip}, NEW f \in Fix, Travel(d, c, f)
      PROVE  LinkInv'
  <2>1. LinkTypeOK'
    BY <1>2 DEF LinkTypeOK, Travel
  <2>2. LinksAreOwn' /\ LinksAreIssued' /\ StopIsAlone' /\ StoppedIsOver'
    BY <1>2, LinkQuiet DEF Travel
  <2>3. SavedWasCarried'
    BY <1>2 DEF LinkTypeOK, SavedWasCarried, Travel
  <2> QED BY <2>1, <2>2, <2>3
<1>3. ASSUME NEW d \in Driver, ExpireToken(d) PROVE LinkInv'
  <2>1. LinkTypeOK' /\ SavedWasCarried'
    BY <1>3 DEF LinkTypeOK, ExpireToken, SavedWasCarried
  <2>2. \A e \in Driver : Holding(e)' \subseteq Holding(e)
    BY <1>3 DEF LinkTypeOK, ExpireToken, Holding
  <2>3. LinksAreOwn' /\ LinksAreIssued' /\ StopIsAlone'
    BY <1>3, <2>2 DEF LinksAreOwn, LinksAreIssued, StopIsAlone, ExpireToken
  <2>4. StoppedIsOver'
    BY <1>3 DEF LinkTypeOK, StoppedIsOver, ExpireToken
  <2> QED BY <2>1, <2>3, <2>4
<1>4. ASSUME NEW d \in Driver, FindTrip(d) PROVE LinkInv'
  BY <1>4, LinkQuiet DEF LinkTypeOK, SavedWasCarried, FindTrip
<1>5. ASSUME NEW d \in Driver, IssueToken(d) PROVE LinkInv'
  <2>1. LinkTypeOK' /\ SavedWasCarried'
    BY <1>5 DEF LinkTypeOK, IssueToken, SavedWasCarried
  <2>2. \A e \in Driver : e # d => Holding(e)' = Holding(e)
    BY <1>5 DEF LinkTypeOK, IssueToken, Holding
  <2>3. Holding(d)' \subseteq Holding(d) \cup {issued + 1}
    BY <1>5 DEF LinkTypeOK, IssueToken, Holding
  <2>4. \A e \in Driver : issued + 1 \notin Holding(e)
    BY DEF Holding, LinkTypeOK
  <2>5. LinksAreOwn' /\ LinksAreIssued' /\ StopIsAlone'
    BY <1>5, <2>2, <2>3, <2>4 DEF LinksAreOwn, LinksAreIssued, StopIsAlone, IssueToken
  <2>6. StoppedIsOver'
    BY <1>5 DEF LinkTypeOK, StoppedIsOver, IssueToken
  <2> QED BY <2>1, <2>5, <2>6
<1>6. ASSUME NEW d \in Driver, SendLocation(d) PROVE LinkInv'
  <2> DEFINE new == [NotLocating EXCEPT !.step = "save", !.trip = trip[d], !.fix = where[d]]
  <2>1. new \in Locating /\ new.step = "save" /\ new.trip = trip[d] /\ new.fix = where[d]
    BY <1>0, <1>99 DEF Locating
  <2>0. locate' = [locate EXCEPT ![d] = new]
    BY <1>6 DEF SendLocation
  <2> HIDE DEF new
  <2>2. LinkTypeOK'
    BY <1>0, <1>6, <2>0, <2>1 DEF LinkTypeOK, SendLocation, Locating
  <2>3. SavedWasCarried'
    BY <1>0, <1>6, <2>0, <2>1 DEF SavedWasCarried, SendLocation
  <2>4. \A e \in Driver : Holding(e)' = Holding(e)
    BY <1>0, <1>6, <2>0, <2>1 DEF SendLocation, Holding, NotLocating
  <2>5. LinksAreOwn' /\ LinksAreIssued' /\ StopIsAlone' /\ StoppedIsOver'
    BY <1>0, <1>6, <2>0, <2>1, <2>4
    DEF LinksAreOwn, LinksAreIssued, StopIsAlone, StoppedIsOver, SendLocation
  <2> QED BY <2>2, <2>3, <2>5
<1>7. ASSUME NEW d \in Driver, SaveLocation(d) PROVE LinkInv'
  <2>1. [locate[d] EXCEPT !.step = "token"] \in Locating
    BY <1>0 DEF Locating
  <2>0. locate' = [locate EXCEPT ![d] = [locate[d] EXCEPT !.step = "token"]]
    BY <1>7 DEF SaveLocation
  <2>5. locate[d].trip \in Trip /\ locate[d].fix \in Fix
    BY <1>0, <1>7 DEF SaveLocation, SavedWasCarried, Locating
  <2>2. LinkTypeOK'
    <3>1. locate' \in [Driver -> Locating]
      BY <1>0, <2>0, <2>1
    <3> QED BY <1>7, <2>5, <3>1 DEF LinkTypeOK, SaveLocation, Locating
  <2>3. SavedWasCarried'
    BY <1>7 DEF LinkTypeOK, SavedWasCarried, SaveLocation
  <2>4. \A e \in Driver : Holding(e)' = Holding(e)
    BY <1>7 DEF LinkTypeOK, SaveLocation, Holding
  <2>6. LinksAreOwn' /\ LinksAreIssued' /\ StopIsAlone' /\ StoppedIsOver'
    BY <1>7, <2>4
    DEF LinkTypeOK, LinksAreOwn, LinksAreIssued, StopIsAlone, StoppedIsOver, SaveLocation
  <2> QED BY <2>2, <2>3, <2>6
<1>8. ASSUME NEW d \in Driver, ReadToken(d) PROVE LinkInv'
  <2> DEFINE shown == [locate[d] EXCEPT !.step = "show", !.token = token[d]]
             new == IF token[d] = 0 THEN NotLocating ELSE shown
             halted == [stop[d] EXCEPT !.alone = stop[d].alone /\ stop[d].step = "idle"]
  <2>1. new \in Locating /\ new.step \in {"idle", "show"}
         /\ (new.step = "show" => new.token = token[d] /\ token[d] # 0)
    <3>1. CASE token[d] = 0
      BY <1>99, <3>1
    <3>2. CASE token[d] # 0
      BY <1>0, <3>2 DEF Locating
    <3> QED BY <3>1, <3>2
  <2>2. halted \in Stopping /\ halted.step = stop[d].step /\ halted.token = stop[d].token
         /\ (halted.alone => stop[d].step = "idle")
    BY <1>0 DEF Stopping
  <2>8. /\ locate' = [locate EXCEPT ![d] = new] /\ stop' = [stop EXCEPT ![d] = halted]
        /\ UNCHANGED <<where, trip, token, issued, position, page, saved, start, stopped, carried>>
    BY <1>8 DEF ReadToken
  <2> HIDE DEF shown, new, halted
  <2>3. LinkTypeOK'
    <3>1. locate' \in [Driver -> Locating] /\ stop' \in [Driver -> Stopping]
      BY <1>0, <2>1, <2>2, <2>8
    <3> QED BY <2>8, <3>1 DEF LinkTypeOK, Locating, Stopping
  <2>4. SavedWasCarried'
    BY <1>0, <2>1, <2>8 DEF SavedWasCarried
  <2>5. \A e \in Driver : Holding(e)' \subseteq Holding(e)
    BY <1>0, <2>1, <2>2, <2>8 DEF ReadToken, Holding
  <2>6. LinksAreOwn' /\ LinksAreIssued' /\ StopIsAlone'
    BY <1>0, <2>1, <2>2, <2>5, <2>8
    DEF LinksAreOwn, LinksAreIssued, StopIsAlone
  <2>7. StoppedIsOver'
    BY <1>0, <2>1, <2>8 DEF StoppedIsOver
  <2> QED BY <2>3, <2>4, <2>6, <2>7
<1>9. ASSUME NEW d \in Driver, ShowOnLink(d) PROVE LinkInv'
  <2>1. locate[d].token \in Holding(d)
    BY <1>9 DEF ShowOnLink, Holding, LinksAreIssued, LinkTypeOK
  <2>2. LinkTypeOK'
    <3>1. position' \in [Tokens -> Fix \cup {NoFix}]
      BY <1>9, <1>0 DEF LinkTypeOK, ShowOnLink, Locating
    <3>2. locate' \in [Driver -> Locating]
      BY <1>9, <1>0, <1>99 DEF ShowOnLink
    <3> QED BY <1>9, <3>1, <3>2 DEF LinkTypeOK, ShowOnLink, Locating
  <2>3. SavedWasCarried'
    BY <1>9 DEF LinkTypeOK, SavedWasCarried, ShowOnLink, NotLocating
  <2>4. \A e \in Driver : Holding(e)' \subseteq Holding(e)
    BY <1>9 DEF LinkTypeOK, ShowOnLink, Holding, NotLocating
  <2>5. LinksAreOwn' /\ LinksAreIssued'
    BY <1>9, <2>4 DEF LinkTypeOK, LinksAreOwn, LinksAreIssued, ShowOnLink, NotLocating
  <2>6. StopIsAlone'
    <3>1. SUFFICES ASSUME NEW e \in Driver, stop[e].step # "idle", stop[e].alone
          PROVE  /\ locate'[e].step # "show"
                 /\ stop[e].step = "forget" => position'[stop[e].token] = NoFix
      BY <1>9 DEF StopIsAlone, ShowOnLink
    <3>2. e # d /\ stop[e].token \in Holding(e)
      BY <1>9, <3>1 DEF StopIsAlone, ShowOnLink, Holding, LinksAreIssued, LinkTypeOK
    <3>3. stop[e].token # locate[d].token
      BY <2>1, <3>2 DEF LinksAreOwn
    <3> QED BY <1>9, <3>1, <3>2, <3>3 DEF StopIsAlone, ShowOnLink, LinkTypeOK
  <2>7. StoppedIsOver'
    BY <1>9 DEF LinkTypeOK, StoppedIsOver, ShowOnLink, NotLocating
  <2> QED BY <2>2, <2>3, <2>5, <2>6, <2>7
<1>10. ASSUME NEW d \in Driver, StopReads(d) PROVE LinkInv'
  <2> DEFINE new == [step |-> "clear", token |-> token[d], alone |-> locate[d].step # "show"]
  <2>0. new \in Stopping /\ new.step = "clear" /\ new.token = token[d] /\ token[d] # 0
         /\ (new.alone => locate[d].step # "show")
    BY <1>0, <1>10 DEF Stopping, StopReads
  <2>6. stop' = [stop EXCEPT ![d] = new]
    BY <1>10 DEF StopReads
  <2> HIDE DEF new
  <2>1. LinkTypeOK'
    BY <1>0, <1>10, <2>0, <2>6 DEF LinkTypeOK, StopReads, Stopping
  <2>2. SavedWasCarried'
    BY <1>10 DEF SavedWasCarried, StopReads
  <2>3. \A e \in Driver : Holding(e)' \subseteq Holding(e)
    BY <1>0, <1>10, <2>0, <2>6 DEF StopReads, Holding
  <2>4. LinksAreOwn' /\ LinksAreIssued' /\ StopIsAlone'
    BY <1>0, <1>10, <2>0, <2>3, <2>6 DEF LinksAreOwn, LinksAreIssued, StopIsAlone, StopReads
  <2>5. StoppedIsOver'
    BY <1>10 DEF StoppedIsOver, StopReads
  <2> QED BY <2>1, <2>2, <2>4, <2>5
<1>11. ASSUME NEW d \in Driver, StopClears(d) PROVE LinkInv'
  <2>1. LinkTypeOK'
    BY <1>11 DEF LinkTypeOK, StopClears, Cleared
  <2>2. SavedWasCarried'
    BY <1>11 DEF SavedWasCarried, StopClears
  <2>3. \A e \in Driver : Holding(e)' \subseteq Holding(e)
    BY <1>11 DEF LinkTypeOK, StopClears, Holding
  <2>4. LinksAreOwn' /\ LinksAreIssued'
    BY <1>11, <2>3 DEF LinkTypeOK, LinksAreOwn, LinksAreIssued, StopClears
  <2>5. StopIsAlone'
    BY <1>11 DEF LinkTypeOK, LinksAreIssued, StopIsAlone, StopClears, Cleared
  <2>6. StoppedIsOver'
    BY <1>11 DEF LinkTypeOK, StoppedIsOver, StopClears, Cleared
  <2> QED BY <2>1, <2>2, <2>4, <2>5, <2>6
<1>12. ASSUME NEW d \in Driver, StopForgets(d) PROVE LinkInv'
  <2>0. stop[d].token \in Holding(d)
    BY <1>12 DEF StopForgets, Holding, LinksAreIssued, LinkTypeOK
  <2>1. LinkTypeOK'
    <3>1. stop' \in [Driver -> Stopping]
      BY <1>0, <1>12, <1>99 DEF StopForgets
    <3>2. stop[d].token \in Tokens /\ stopped' \subseteq stopped \cup {stop[d].token}
      BY <1>12, <2>0 DEF LinkTypeOK, StopForgets, Holding
    <3>3. token' \in [Driver -> 0..issued]
      BY <1>0, <1>12 DEF StopForgets
    <3>5. stopped' \subseteq Tokens
      BY <3>2 DEF LinkTypeOK
    <3>4. UNCHANGED <<where, trip, issued, position, page, saved, locate, start, carried>>
      BY <1>12 DEF StopForgets
    <3> QED BY <3>1, <3>3, <3>4, <3>5 DEF LinkTypeOK, Stopping
  <2>2. SavedWasCarried'
    BY <1>12 DEF SavedWasCarried, StopForgets
  <2>3. \A e \in Driver : Holding(e)' \subseteq Holding(e)
    BY <1>12 DEF LinkTypeOK, StopForgets, Holding, NotStopping
  <2>4. LinksAreOwn' /\ LinksAreIssued' /\ StopIsAlone'
    BY <1>12, <2>3
    DEF LinkTypeOK, LinksAreOwn, LinksAreIssued, StopIsAlone, StopForgets, NotStopping
  <2>5. StoppedIsOver'
    <3>1. ASSUME NEW t \in stopped
          PROVE  /\ t \in 1..issued' /\ position'[t] = NoFix
                 /\ \A e \in Driver :
                      token'[e] # t /\ ~(locate'[e].step = "show" /\ locate'[e].token = t)
      BY <1>12 DEF LinkTypeOK, StoppedIsOver, StopForgets
    <3>2. ASSUME stop[d].alone
          PROVE  /\ stop[d].token \in 1..issued' /\ position'[stop[d].token] = NoFix
                 /\ \A e \in Driver : /\ token'[e] # stop[d].token
                                      /\ ~(locate'[e].step = "show"
                                            /\ locate'[e].token = stop[d].token)
      <4>1. stop[d].token \in 1..issued /\ position[stop[d].token] = NoFix
             /\ locate[d].step # "show"
        BY <1>12, <2>0, <3>2 DEF StopForgets, StopIsAlone, Holding
      <4>2. ASSUME NEW e \in Driver, e # d
            PROVE  token[e] # stop[d].token
                   /\ ~(locate[e].step = "show" /\ locate[e].token = stop[d].token)
        <5>1. stop[d].token \notin Holding(e)
          BY <2>0, <4>2 DEF LinksAreOwn
        <5> QED BY <4>1, <5>1 DEF Holding
      <4> QED BY <1>12, <4>1, <4>2 DEF StopForgets, LinkTypeOK
    <3> QED BY <1>12, <3>1, <3>2 DEF StoppedIsOver, StopForgets
  <2> QED BY <2>1, <2>2, <2>4, <2>5
<1>13. ASSUME NEW t \in Tokens, ExpirePosition(t) PROVE LinkInv'
  <2>1. LinkTypeOK' /\ SavedWasCarried'
    BY <1>13 DEF LinkTypeOK, SavedWasCarried, ExpirePosition
  <2>2. LinksAreOwn' /\ LinksAreIssued'
    BY <1>13 DEF LinksAreOwn, Holding, LinksAreIssued, ExpirePosition
  <2>3. StopIsAlone' /\ StoppedIsOver'
    BY <1>13 DEF LinkTypeOK, StopIsAlone, StoppedIsOver, LinksAreIssued, ExpirePosition
  <2> QED BY <2>1, <2>2, <2>3
<1>14. ASSUME NEW t \in Tokens, OpenPage(t) \/ PollPage(t) PROVE LinkInv'
  <2>1. UNCHANGED <<where, trip, token, issued, position, saved, locate, start, stop, stopped,
                    carried>>
    BY <1>14 DEF OpenPage, PollPage
  <2>2. page' \in [Tokens -> {"closed", "moving", "ended"}]
    BY <1>14 DEF LinkTypeOK, OpenPage, PollPage
  <2> QED BY <2>1, <2>2, LinkQuiet DEF LinkTypeOK, SavedWasCarried
<1> QED BY <1>1, <1>2, <1>3, <1>4, <1>5, <1>6, <1>7, <1>8, <1>9, <1>10, <1>11, <1>12, <1>13,
           <1>14 DEF LinkNext

\* A link belongs to one driver, stops once, and once stopped is in nobody's
\* hands (handle_location, stop_live_tracking).
THEOREM LinkInvariance == LinkSpec => []LinkInv
BY LinkInitInv, LinkNextInv, PTL DEF LinkSpec

-----------------------------------------------------------------------------
(* The fleet.                                                               *)

\* A request that is alone is the only one, and what it is about to post is the
\* vehicle as it is.
AloneIsAlone ==
  \A h \in Handler : req[h] # Idle /\ req[h].alone =>
    /\ \A g \in Handler : req[g] # Idle => g = h
    /\ req[h].step = "post" => req[h].set = vehicle

\* Once settled nobody is at work on the vehicle.
SettledIsQuiet == settled => copy = vehicle /\ \A h \in Handler : req[h] = Idle

\* Only a deletion sets no row.
RowIsSet == \A h \in Handler :
  req[h].step # "idle" /\ req[h].op # "delete" => req[h].set \in Row

FleetInv == FleetTypeOK /\ RowIsSet /\ AloneIsAlone /\ SettledIsQuiet

Asking == [op : Ops, step : {"idle", "commit", "refresh", "post"}, seen : Row \cup {NoVehicle},
           set : Row \cup {NoVehicle}, alone : BOOLEAN]

LEMMA FleetInitInv == FleetInit => FleetInv
<1>1. Idle \in Asking
  BY DEF Idle, Asking, Ops
<1> QED
  BY <1>1 DEF FleetInit, FleetInv, FleetTypeOK, RowIsSet, AloneIsAlone, SettledIsQuiet, Asking, Idle

\* What begins is alone only if nothing else was at work, and nothing else is
\* alone any more.
LEMMA BeginsInv ==
  ASSUME FleetInv, NEW h \in Handler, NEW op \in Ops, NEW set \in Row \cup {NoVehicle},
         op # "delete" => set \in Row, Begins(h, op, set), UNCHANGED <<vehicle, copy>>, push' \subseteq push
  PROVE  FleetInv'
<1> DEFINE new == [op |-> op, step |-> "commit", seen |-> vehicle, set |-> set,
                   alone |-> Busy = {} /\ (push = {} \/ op = "site")]
<1>0. \A g \in Handler : req[g] \in Asking
  BY DEF FleetInv, FleetTypeOK, Asking
<1>1. /\ new \in Asking /\ new.step = "commit" /\ new # Idle /\ (new.alone => Busy = {})
      /\ new.op = op /\ new.set = set
  BY DEF Asking, FleetInv, FleetTypeOK, Idle
<1>2. /\ req'[h] = new
      /\ \A g \in Handler : g # h => req'[g] = [req[g] EXCEPT !.alone = (req[g] = Idle)]
      /\ DOMAIN req' = Handler /\ req' = [g \in Handler |-> req'[g]] /\ ~settled'
  BY DEF Begins
<1> HIDE DEF new
<1>3. \A g \in Handler : g # h =>
        /\ req'[g] \in Asking /\ (req[g] = Idle => req'[g] = Idle)
        /\ req[g] # Idle => ~req'[g].alone
        /\ req'[g].step = req[g].step /\ req'[g].op = req[g].op /\ req'[g].set = req[g].set
  <2> SUFFICES ASSUME NEW g \in Handler, g # h
      PROVE  /\ req'[g] \in Asking /\ (req[g] = Idle => req'[g] = Idle)
             /\ req[g] # Idle => ~req'[g].alone
             /\ req'[g].step = req[g].step /\ req'[g].op = req[g].op
             /\ req'[g].set = req[g].set
    OBVIOUS
  <2>0. req[g] \in Asking /\ req'[g] = [req[g] EXCEPT !.alone = (req[g] = Idle)]
    BY <1>0, <1>2
  <2>1. CASE req[g] = Idle
    <3>1. req'[g] \in Asking
      BY <2>0, <2>1 DEF Asking
    <3>2. /\ req'[g].op = Idle.op /\ req'[g].step = Idle.step /\ req'[g].seen = Idle.seen
          /\ req'[g].set = Idle.set /\ req'[g].alone
      BY <2>0, <2>1 DEF Asking
    <3>3. req'[g] = Idle
      BY <2>0, <2>1, <3>1, <3>2 DEF Idle, Asking
    <3> QED BY <2>1, <3>1, <3>3
  <2>2. CASE req[g] # Idle
    BY <2>0, <2>2 DEF Asking
  <2> QED BY <2>1, <2>2
<1>4. FleetTypeOK'
  <2>1. req' \in [Handler -> Asking]
    BY <1>1, <1>2, <1>3
  <2>2. settled' \in BOOLEAN
    BY DEF Begins
  <2> QED BY <2>1, <2>2 DEF FleetInv, FleetTypeOK, Asking
<1>5. AloneIsAlone'
  <2>1. ASSUME NEW g \in Handler, g # h, req'[g] # Idle, req'[g].alone PROVE FALSE
    BY <1>3, <2>1
  <2>2. ASSUME req'[h].alone, NEW g \in Handler, g # h PROVE req'[g] = Idle
    BY <1>1, <1>2, <1>3, <2>2 DEF Busy
  <2> QED BY <1>1, <1>2, <2>1, <2>2 DEF AloneIsAlone
<1>6. RowIsSet'
  BY <1>1, <1>2, <1>3 DEF FleetInv, RowIsSet
<1> QED BY <1>2, <1>4, <1>5, <1>6 DEF FleetInv, SettledIsQuiet

\* A request of h takes a step, or ends.
LEMMA RequestInv ==
  ASSUME FleetInv, NEW h \in Handler, req[h] # Idle, NEW new \in Asking,
         req' = [req EXCEPT ![h] = new], new # Idle => new.alone = req[h].alone,
         new.step = "post" => new.set = vehicle',
         new.step # "idle" /\ new.op # "delete" => new.set \in Row,
         UNCHANGED <<copy, push, settled>>,
         vehicle' \in Row \cup {NoVehicle}
  PROVE  FleetInv'
<1>0. req \in [Handler -> Asking]
  BY DEF FleetInv, FleetTypeOK, Asking
<1>1. ~settled
  BY DEF FleetInv, SettledIsQuiet
<1>2. FleetTypeOK'
  BY <1>0 DEF FleetInv, FleetTypeOK, Asking
<1>3. AloneIsAlone'
  BY <1>0 DEF FleetInv, AloneIsAlone
<1>4. RowIsSet'
  BY <1>0 DEF FleetInv, RowIsSet
<1> QED BY <1>1, <1>2, <1>3, <1>4 DEF FleetInv, SettledIsQuiet

LEMMA FleetNextInv == ASSUME FleetInv, [FleetNext]_fleetVars PROVE FleetInv'
<1>0. /\ req \in [Handler -> Asking] /\ Idle \in Asking /\ Idle.step = "idle"
      /\ vehicle \in Row \cup {NoVehicle}
  BY DEF FleetInv, FleetTypeOK, Asking, Idle, Ops
<1>1. CASE UNCHANGED fleetVars
  BY <1>1 DEF fleetVars, FleetInv, FleetTypeOK, RowIsSet, AloneIsAlone, SettledIsQuiet
<1>2. ASSUME NEW h \in Handler, NEW c \in City \cup {NoCity},
             AddByApi(h, c) \/ AddInBot(h, c) \/ SetAvailable(h, c)
      PROVE  FleetInv'
  <2>1. \A b \in BOOLEAN : [available |-> b, city |-> c] \in Row
    BY DEF Row
  <2> QED BY <1>2, <2>1, BeginsInv DEF AddByApi, AddInBot, SetAvailable, Ops
<1>3. ASSUME NEW h \in Handler, SetUnavailable(h) \/ DeleteInBot(h) PROVE FleetInv'
  <2>1. SetUnavailable(h) => [vehicle EXCEPT !.available = FALSE] \in Row
    BY <1>0 DEF SetUnavailable, Row
  <2> QED BY <1>3, <2>1, BeginsInv DEF SetUnavailable, DeleteInBot, Ops
<1>4. ASSUME NEW h \in Handler, NEW on \in BOOLEAN, SwitchInBot(h, on) PROVE FleetInv'
  <2>1. [vehicle EXCEPT !.available = on] \in Row
    BY <1>0, <1>4 DEF SwitchInBot, Row
  <2> QED BY <1>4, <2>1, BeginsInv DEF SwitchInBot, Ops
<1>5. ASSUME NEW h \in Handler, NEW row \in Row, TakeFromSite(h, row) PROVE FleetInv'
  <2>1. [row EXCEPT !.city = IF @ = NoCity THEN vehicle.city ELSE @] \in Row
    BY <1>0, <1>5 DEF TakeFromSite, Row
  <2> QED BY <1>5, <2>1, BeginsInv DEF TakeFromSite, Ops
<1>6. ASSUME NEW h \in Handler, Commit(h) PROVE FleetInv'
  <2> DEFINE new == IF req[h].op \in Published THEN [req[h] EXCEPT !.step = "refresh"] ELSE Idle
  <2>1. /\ new \in Asking /\ new.step # "post" /\ (new # Idle => new.alone = req[h].alone)
        /\ req' = [req EXCEPT ![h] = new]
        /\ new.step # "idle" => new.set = req[h].set /\ req[h].op \in Published
    BY <1>0, <1>6 DEF Commit, Asking
  <2>2. Written(h) \in Row \cup {NoVehicle}
    <3>1. CASE req[h].op = "delete" \/ req[h].seen = NoVehicle
      BY <1>0, <3>1 DEF Written, Asking
    <3>2. CASE req[h].op # "delete" /\ req[h].seen # NoVehicle
      <4>1. vehicle \in Row
        BY <1>0, <1>6, <3>2 DEF Commit
      <4>2. req[h].seen \in Row /\ req[h].set \in Row \cup {NoVehicle}
        BY <1>0, <3>2 DEF Asking
      <4>3. req[h].set \in Row
        BY <1>6, <3>2 DEF FleetInv, RowIsSet, Commit
      <4> QED BY <3>2, <4>1, <4>2, <4>3 DEF Written, Changed, Row
    <3> QED BY <3>1, <3>2
  <2>3. req[h] # Idle
    BY <1>0, <1>6 DEF Commit
  <2>4. new.step # "idle" => new.set \in Row
    BY <1>6, <2>1 DEF FleetInv, RowIsSet, Commit, Published
  <2> HIDE DEF new
  <2> QED BY <1>6, <2>1, <2>2, <2>3, <2>4, RequestInv DEF Commit
<1>7. ASSUME NEW h \in Handler, CommitFindsNothing(h) \/ LosePost(h) PROVE FleetInv'
  <2>1. /\ req[h] # Idle /\ req' = [req EXCEPT ![h] = Idle]
        /\ UNCHANGED <<vehicle, copy, push, settled>>
    BY <1>0, <1>7 DEF CommitFindsNothing, LosePost
  <2> QED BY <1>0, <2>1, RequestInv
<1>8. ASSUME NEW h \in Handler, Refresh(h) PROVE FleetInv'
  <2> DEFINE new == IF vehicle = NoVehicle THEN Idle
                    ELSE [req[h] EXCEPT !.step = "post", !.set = Refreshed(h)]
  <2>1. /\ new \in Asking /\ (new # Idle => new.alone = req[h].alone)
        /\ req' = [req EXCEPT ![h] = new]
        /\ new.step = "post" => new.set = vehicle
        /\ new.step # "idle" => new.set \in Row
    <3>1. CASE vehicle = NoVehicle
      BY <1>0, <1>8, <3>1 DEF Refresh
    <3>2. CASE vehicle # NoVehicle
      BY <1>0, <1>8, <3>2 DEF Refresh, Asking, Refreshed
    <3> QED BY <3>1, <3>2
  <2>2. req[h] # Idle /\ UNCHANGED <<vehicle, copy, push, settled>>
    BY <1>0, <1>8 DEF Refresh
  <2> HIDE DEF new
  <2> QED BY <1>0, <2>1, <2>2, RequestInv
<1>9. ASSUME NEW h \in Handler, Post(h) PROVE FleetInv'
  <2>1. req[h] # Idle /\ req[h] \in Asking
    BY <1>0, <1>9 DEF Post
  <2>2. \A g \in Handler : req'[g] = (IF g = h THEN Idle ELSE req[g])
    BY <1>0, <1>9 DEF Post
  <2>3. FleetTypeOK'
    BY <1>0, <1>9, <2>1 DEF FleetInv, FleetTypeOK, Post, Asking
  <2>4. AloneIsAlone'
    BY <1>9, <2>1, <2>2 DEF FleetInv, AloneIsAlone, Post
  <2>6. RowIsSet'
    BY <1>0, <2>2 DEF FleetInv, RowIsSet
  <2>5. SettledIsQuiet'
    BY <1>9, <2>1, <2>2 DEF FleetInv, AloneIsAlone, SettledIsQuiet, Post
  <2> QED BY <2>3, <2>4, <2>5, <2>6 DEF FleetInv
<1>10. ASSUME NEW row \in Row, ChangeOnSite(row) PROVE FleetInv'
  <2>1. ASSUME NEW g \in Handler
        PROVE  /\ req'[g] \in Asking /\ (req[g] # Idle => ~req'[g].alone)
               /\ req[g] = Idle => req'[g] = Idle
               /\ req'[g].step = req[g].step /\ req'[g].op = req[g].op
               /\ req'[g].set = req[g].set
    <3>1. CASE req[g] = Idle
      BY <1>0, <1>10, <3>1 DEF ChangeOnSite, Idle, Asking
    <3>2. CASE req[g] # Idle
      BY <1>0, <1>10, <3>2 DEF ChangeOnSite, Asking
    <3> QED BY <3>1, <3>2
  <2>2. req' \in [Handler -> Asking]
    <3>1. req' = [g \in Handler |-> [req[g] EXCEPT !.alone = (req[g] = Idle)]]
      BY <1>10 DEF ChangeOnSite
    <3> QED BY <2>1, <3>1
  <2>3. FleetTypeOK'
    BY <1>0, <1>10, <2>2 DEF FleetInv, FleetTypeOK, ChangeOnSite, Asking
  <2> QED BY <1>10, <2>1, <2>3 DEF FleetInv, RowIsSet, AloneIsAlone, SettledIsQuiet, ChangeOnSite
<1>11. ASSUME NEW row \in Row, LosePush(row) PROVE FleetInv'
  BY <1>11 DEF FleetInv, FleetTypeOK, RowIsSet, AloneIsAlone, SettledIsQuiet, LosePush
<1> QED BY <1>1, <1>2, <1>3, <1>4, <1>5, <1>6, <1>7, <1>8, <1>9, <1>10, <1>11 DEF FleetNext

\* A request at the fleet that is alone posts the vehicle as it is, and after the
\* last of them both sides have the same (publish_vehicle_sync_event).
THEOREM FleetInvariance == FleetSpec => []FleetInv
BY FleetInitInv, FleetNextInv, PTL DEF FleetSpec

-----------------------------------------------------------------------------
(* The live feed.                                                           *)

LEMMA LeastOfNat ==
  ASSUME NEW S, S \subseteq Nat, S # {}
  PROVE  \E x \in S : \A y \in S : x <= y
<1>1. PICK x \in S : \A y \in S : ~(<<y, x>> \in OpToRel(<, Nat))
  BY NatLessThanWellFounded, WFMin, Zenon
<1>2. \A y \in S : ~(y < x)
  BY <1>1 DEF OpToRel
<1> QED BY <1>2

LEMMA GreatestOfNat ==
  ASSUME NEW S, NEW n \in Nat, S \subseteq 0..n, S # {}
  PROVE  \E x \in S : \A y \in S : y <= x
<1> DEFINE T == {n - x : x \in S}
<1>0. T \subseteq Nat /\ T # {}
  <2>1. \A x \in S : n - x \in Nat
    OBVIOUS
  <2>2. PICK x \in S : TRUE
    OBVIOUS
  <2>3. n - x \in T
    OBVIOUS
  <2> QED BY <2>1, <2>3
<1>1. PICK m \in T : \A y \in T : m <= y
  BY <1>0, LeastOfNat
<1>2. PICK x \in S : m = n - x
  OBVIOUS
<1>3. \A y \in S : n - x <= n - y
  BY <1>1, <1>2
<1> QED BY <1>3

\* What was passed over is pushed, being pushed, or lost to a cut or a late
\* sync.
Heard == pushed \cup Pushing \cup skipped \cup cut

\* What a batch in hand passes over was heard of or is in the batch.
BatchIsNext ==
  \A c \in Client : poll[c].step = "found" =>
    /\ poll[c].batch # {}
    /\ \A b \in poll[c].batch, e \in synced : e <= b => e \in poll[c].batch \cup Heard

BatchIsThere == \A c \in Client : poll[c].step = "push" => poll[c].batch # {}

WsInv == WsTypeOK /\ BatchIsNext /\ BatchIsThere /\ PassedWasPushed

Polling == [step : {"rest", "first", "found", "push"}, batch : SUBSET Event,
            size : 0..Cardinality(Client)]

LEMMA WsInitInv == WsInit => WsInv
<1> SUFFICES ASSUME WsInit PROVE WsInv
  OBVIOUS
<1>1. Cardinality(Client) \in Nat
  BY FS_CardinalityType, WsAssumption
<1>2. Resting \in Polling
  BY <1>1 DEF Resting, Polling
<1>3. WsTypeOK
  BY <1>2, WsAssumption DEF WsInit, WsTypeOK, Polling
<1> QED BY <1>3 DEF WsInit, WsInv, BatchIsNext, BatchIsThere, PassedWasPushed, Resting

\* A step after which all that was heard of still is, and which neither reaches
\* further nor takes a new batch nor syncs a new event.
LEMMA WsQuiet ==
  ASSUME WsInv, Heard \subseteq Heard', lastId' = lastId, synced' = synced,
         \A c \in Client : poll'[c].step = "found" => poll'[c] = poll[c]
  PROVE  BatchIsNext' /\ PassedWasPushed'
BY DEF WsInv, BatchIsNext, PassedWasPushed, Heard

LEMMA WsNextInv == ASSUME WsInv, [WsNext]_wsVars PROVE WsInv'
<1> USE WsAssumption
<1>0. /\ poll \in [Client -> Polling] /\ Resting \in Polling
      /\ Cardinality(clients) \in 0..Cardinality(Client)
      /\ \A C \in SUBSET Client : Cardinality(C) \in 0..Cardinality(Client)
      /\ Resting.step = "rest" /\ Resting.batch = {} /\ Unset = -1
      /\ Event = 1..LastEvent /\ synced \subseteq Event /\ stored \subseteq Event
  <2>1. \A C \in SUBSET Client : Cardinality(C) \in 0..Cardinality(Client)
    BY FS_CardinalityType, FS_Subset
  <2>2. Resting \in Polling /\ Resting.step = "rest" /\ Resting.batch = {}
    BY <2>1 DEF Resting, Polling
  <2> QED BY <2>1, <2>2 DEF WsInv, WsTypeOK, Polling, Unset, Event
<1>1. CASE UNCHANGED wsVars
  <2>1. Heard' = Heard
    BY <1>1 DEF wsVars, Heard, Pushing
  <2> QED BY <1>1, <2>1, WsQuiet DEF wsVars, WsInv, WsTypeOK, BatchIsThere
<1>2. ASSUME NEW e \in Event, Insert(e) PROVE WsInv'
  <2>1. Heard' = Heard
    BY <1>2 DEF Insert, Heard, Pushing
  <2>2. WsTypeOK'
    BY <1>2 DEF Insert, WsInv, WsTypeOK
  <2> QED BY <1>2, <2>1, <2>2, WsQuiet DEF Insert, WsInv, BatchIsThere
<1>3. ASSUME NEW e \in Event, Sync(e) PROVE WsInv'
  <2>1. Pushing' = Pushing /\ skipped \subseteq skipped'
    BY <1>3 DEF Sync, Pushing
  <2>2. WsTypeOK'
    BY <1>3 DEF Sync, WsInv, WsTypeOK
  <2>3. BatchIsNext'
    BY <1>3, <2>1 DEF Sync, WsInv, BatchIsNext, Heard
  <2>4. PassedWasPushed'
    BY <1>3, <2>1 DEF Sync, WsInv, PassedWasPushed
  <2> QED BY <1>3, <2>2, <2>3, <2>4 DEF Sync, WsInv, BatchIsThere
<1>4. ASSUME NEW c \in Client, Connect(c) \/ Disconnect(c) PROVE WsInv'
  <2>1. Heard' = Heard /\ UNCHANGED <<stored, synced, lastId, poll, pushed, skipped, cut>>
    BY <1>4 DEF Connect, Disconnect, Heard, Pushing
  <2>2. clients' \subseteq Client
    BY <1>4 DEF Connect, Disconnect, WsInv, WsTypeOK
  <2> QED BY <2>1, <2>2, WsQuiet DEF WsInv, WsTypeOK, BatchIsThere
<1>5. ASSUME NEW c \in Client, AskHighest(c) PROVE WsInv'
  <2> DEFINE B == IF stored = {} THEN {} ELSE {HighestOf(stored)}
             new == [poll[c] EXCEPT !.step = "first", !.batch = B]
  <2>1. B \subseteq Event
    <3>1. stored # {} => \E x \in stored : \A y \in stored : y <= x
      <4>1. stored \subseteq 0..LastEvent
        BY <1>0
      <4> QED BY <4>1, GreatestOfNat
    <3> QED BY <1>0, <3>1 DEF HighestOf
  <2>2. new \in Polling /\ new.step = "first"
    BY <1>0, <2>1, Zenon DEF Polling
  <2>3. poll' = [poll EXCEPT ![c] = new]
    BY <1>5 DEF AskHighest
  <2>4. poll[c].step = "rest" /\ UNCHANGED <<stored, synced, clients, lastId, pushed, skipped, cut>>
    BY <1>0, <1>5 DEF AskHighest
  <2> HIDE DEF B, new
  <2>5. Heard' = Heard
    BY <1>0, <2>2, <2>3, <2>4 DEF Heard, Pushing
  <2>6. BatchIsNext' /\ PassedWasPushed'
    BY <1>0, <2>2, <2>3, <2>4, <2>5, WsQuiet
  <2>7. WsTypeOK'
    BY <1>0, <2>2, <2>3, <2>4 DEF WsInv, WsTypeOK, Polling
  <2> QED BY <1>0, <2>2, <2>3, <2>4, <2>6, <2>7 DEF WsInv, BatchIsThere
<1>6. ASSUME NEW c \in Client, FirstPoll(c) PROVE WsInv'
  <2>1. poll[c].batch \subseteq Event /\ poll' = [poll EXCEPT ![c] = Resting]
         /\ poll[c].step = "first"
    BY <1>0, <1>6 DEF FirstPoll, Polling
  <2>2. lastId' \in 0..LastEvent
    <3>1. poll[c].batch # {} => \E x \in poll[c].batch : \A y \in poll[c].batch : y <= x
      <4>1. poll[c].batch \subseteq 0..LastEvent
        BY <1>0, <2>1
      <4> QED BY <4>1, GreatestOfNat
    <3>2. poll[c].batch # {} => HighestOf(poll[c].batch) \in Event
      BY <2>1, <3>1 DEF HighestOf
    <3> QED BY <1>0, <1>6, <3>2 DEF FirstPoll
  <2>3. Pushing' = Pushing /\ skipped' = skipped \cup (1..lastId')
         /\ UNCHANGED <<stored, synced, clients, pushed, cut>>
    BY <1>0, <1>6, <2>1 DEF FirstPoll, Pushing
  <2>4. WsTypeOK'
    <3>1. poll' \in [Client -> Polling]
      BY <1>0, <2>1
    <3>2. skipped' \subseteq Event
      BY <1>0, <2>2, <2>3 DEF WsInv, WsTypeOK
    <3> QED BY <2>2, <2>3, <3>1, <3>2 DEF WsInv, WsTypeOK, Polling
  <2>5. PassedWasPushed'
    BY <1>0, <2>2, <2>3 DEF PassedWasPushed
  <2>6. BatchIsNext' /\ BatchIsThere'
    BY <1>0, <2>1, <2>3 DEF WsInv, BatchIsNext, BatchIsThere, Heard
  <2> QED BY <2>4, <2>5, <2>6 DEF WsInv
<1>7. ASSUME NEW c \in Client, Query(c) PROVE WsInv'
  <2>1. PICK B \in Batches(lastId) :
          poll' = [poll EXCEPT ![c] = [step |-> "found", batch |-> B, size |-> 0]]
    BY <1>7 DEF Query
  <2>2. /\ poll[c].step = "rest" /\ Newer(lastId) # {}
        /\ UNCHANGED <<stored, synced, clients, lastId, pushed, skipped, cut>>
    BY <1>0, <1>7 DEF Query
  <2>3. /\ B \subseteq Newer(lastId) /\ B \subseteq Event
        /\ \A b \in B, e \in Newer(lastId) \ B : b < e
    BY <1>0 DEF Batches, Newer
  <2>4. B # {}
    BY <1>0, <2>2, FS_EmptySet DEF Batches
  <2> DEFINE new == [step |-> "found", batch |-> B, size |-> 0]
  <2>5. new \in Polling /\ new.step = "found" /\ new.batch = B
    BY <1>0, <2>3 DEF Polling
  <2> HIDE DEF new
  <2>6. Heard' = Heard
    BY <1>0, <2>1, <2>2 DEF Heard, Pushing
  <2>7. WsTypeOK'
    <3>1. poll' \in [Client -> Polling]
      BY <1>0, <2>1, <2>5 DEF new
    <3> QED BY <2>2, <3>1 DEF WsInv, WsTypeOK, Polling
  <2>8. PassedWasPushed'
    BY <2>2, <2>6 DEF WsInv, PassedWasPushed, Heard
  <2>9. BatchIsNext'
    <3>1. ASSUME NEW b \in B, NEW e \in synced, e <= b PROVE e \in B \cup Heard
      <4>1. CASE e <= lastId
        BY <4>1 DEF WsInv, PassedWasPushed, Heard
      <4>2. CASE ~(e <= lastId)
        <5>1. e \in Newer(lastId)
          BY <1>0, <4>2 DEF WsInv, WsTypeOK, Newer
        <5> QED BY <1>0, <2>3, <3>1, <5>1
      <4> QED BY <4>1, <4>2
    <3> QED BY <1>0, <2>1, <2>2, <2>4, <2>6, <3>1 DEF WsInv, BatchIsNext
  <2>10. BatchIsThere'
    BY <1>0, <2>1, <2>2 DEF WsInv, BatchIsThere
  <2> QED BY <2>7, <2>8, <2>9, <2>10 DEF WsInv
<1>8. ASSUME NEW c \in Client, Advance(c) PROVE WsInv'
  <2>1. /\ poll[c].step = "found" /\ poll[c].batch \subseteq Event /\ poll[c].batch # {}
        /\ UNCHANGED <<stored, synced, clients, pushed, skipped, cut>>
    BY <1>0, <1>8 DEF Advance, Polling, WsInv, BatchIsNext
  <2> DEFINE new == [poll[c] EXCEPT !.step = "push", !.size = Cardinality(clients)]
  <2>2. new \in Polling /\ new.step = "push" /\ new.batch = poll[c].batch
    BY <1>0 DEF Polling
  <2>3. poll' = [poll EXCEPT ![c] = new]
    BY <1>8 DEF Advance
  <2> HIDE DEF new
  <2>4. lastId' \in poll[c].batch
    <3>1. \E x \in poll[c].batch : \A y \in poll[c].batch : y <= x
      <4>1. poll[c].batch \subseteq 0..LastEvent
        BY <1>0, <2>1
      <4> QED BY <2>1, <4>1, GreatestOfNat
    <3> QED BY <1>8, <3>1 DEF Advance, LastOf, HighestOf
  <2>5. Heard \subseteq Heard' /\ poll[c].batch \subseteq Heard'
    BY <1>0, <2>1, <2>2, <2>3 DEF Heard, Pushing
  <2>6. WsTypeOK'
    <3>1. poll' \in [Client -> Polling]
      BY <1>0, <2>2, <2>3
    <3> QED BY <1>0, <2>1, <2>4, <3>1 DEF WsInv, WsTypeOK, Polling
  <2>7. PassedWasPushed'
    BY <2>1, <2>4, <2>5 DEF WsInv, BatchIsNext, PassedWasPushed, Heard
  <2>8. BatchIsNext' /\ BatchIsThere'
    BY <1>0, <2>1, <2>2, <2>3, <2>5 DEF WsInv, BatchIsNext, BatchIsThere
  <2> QED BY <2>6, <2>7, <2>8 DEF WsInv
<1>9. ASSUME NEW c \in Client, Broadcast(c) PROVE WsInv'
  <2> DEFINE e == CHOOSE x \in poll[c].batch : \A y \in poll[c].batch : x <= y
  <2>0. /\ pushed' = pushed \cup {e}
        /\ poll' = [poll EXCEPT ![c] = IF poll[c].batch = {e} THEN Resting
                                       ELSE [poll[c] EXCEPT !.batch = @ \ {e}]]
    BY <1>9, Zenon DEF Broadcast
  <2>2. /\ poll[c].step = "push" /\ poll[c].batch \subseteq Event /\ poll[c].batch # {}
        /\ UNCHANGED <<stored, synced, clients, lastId, skipped, cut>>
    BY <1>0, <1>9 DEF Broadcast, Polling, WsInv, BatchIsThere
  <2>3. e \in Event
    <3>1. \E x \in poll[c].batch : \A y \in poll[c].batch : x <= y
      <4>1. poll[c].batch \subseteq Nat
        BY <1>0, <2>2
      <4> QED BY <2>2, <4>1, LeastOfNat
    <3> QED BY <2>2, <3>1
  <2> HIDE DEF e
  <2> DEFINE new == IF poll[c].batch = {e} THEN Resting
                    ELSE [poll[c] EXCEPT !.batch = poll[c].batch \ {e}]
  <2>4. /\ new \in Polling /\ new.batch = poll[c].batch \ {e}
        /\ new.step = "rest" \/ (new.step = "push" /\ new.batch # {})
        /\ new.step = "rest" => new.batch = {}
    <3>1. CASE poll[c].batch = {e}
      BY <1>0, <3>1
    <3>2. CASE poll[c].batch # {e}
      <4>1. [poll[c] EXCEPT !.batch = poll[c].batch \ {e}] \in Polling
        BY <1>0, <2>2 DEF Polling
      <4>2. poll[c].batch \ {e} # {}
        BY <2>2, <3>2
      <4> QED BY <1>0, <2>2, <3>2, <4>1, <4>2 DEF Polling
    <3> QED BY <3>1, <3>2
  <2>1. poll' = [poll EXCEPT ![c] = new]
    BY <2>0, Zenon
  <2>5. poll' = [poll EXCEPT ![c] = new] /\ pushed' = pushed \cup {e}
    BY <2>0, <2>1
  <2> HIDE DEF new
  <2>6. Heard \subseteq Heard'
    BY <1>0, <2>2, <2>4, <2>5 DEF Heard, Pushing
  <2>7. BatchIsNext' /\ PassedWasPushed'
    BY <1>0, <2>2, <2>4, <2>5, <2>6, WsQuiet
  <2>8. WsTypeOK'
    <3>1. poll' \in [Client -> Polling]
      BY <1>0, <2>4, <2>5
    <3> QED BY <2>2, <2>3, <2>5, <3>1 DEF WsInv, WsTypeOK, Polling
  <2>9. BatchIsThere'
    BY <1>0, <2>4, <2>5 DEF WsInv, BatchIsThere
  <2> QED BY <2>7, <2>8, <2>9 DEF WsInv
<1>10. ASSUME NEW c \in Client, Recount(c) PROVE WsInv'
  <2> DEFINE new == [poll[c] EXCEPT !.size = Cardinality(clients)]
  <2>1. new \in Polling /\ new.step = poll[c].step /\ new.batch = poll[c].batch
    BY <1>0 DEF Polling
  <2>2. /\ poll' = [poll EXCEPT ![c] = new] /\ poll[c].step = "push"
        /\ UNCHANGED <<stored, synced, clients, lastId, pushed, skipped, cut>>
    BY <1>10 DEF Recount
  <2> HIDE DEF new
  <2>3. Heard \subseteq Heard'
    BY <1>0, <2>1, <2>2 DEF Heard, Pushing
  <2>4. BatchIsNext' /\ PassedWasPushed'
    BY <1>0, <2>1, <2>2, <2>3, WsQuiet
  <2>5. WsTypeOK'
    <3>1. poll' \in [Client -> Polling]
      BY <1>0, <2>1, <2>2
    <3> QED BY <2>2, <3>1 DEF WsInv, WsTypeOK, Polling
  <2> QED BY <1>0, <2>1, <2>2, <2>4, <2>5 DEF WsInv, BatchIsThere
<1>11. ASSUME NEW c \in Client, Broken(c) PROVE WsInv'
  <2>1. /\ poll' = [poll EXCEPT ![c] = Resting] /\ cut' = cut \cup poll[c].batch
        /\ clients' = clients \ {c} /\ UNCHANGED <<stored, synced, lastId, pushed, skipped>>
    BY <1>11 DEF Broken
  <2>2. poll[c].batch \subseteq Event
    BY <1>0 DEF Polling
  <2>3. Heard \subseteq Heard'
    BY <1>0, <2>1 DEF Heard, Pushing
  <2>4. BatchIsNext' /\ PassedWasPushed'
    BY <1>0, <2>1, <2>3, WsQuiet
  <2>5. WsTypeOK'
    <3>1. poll' \in [Client -> Polling]
      BY <1>0, <2>1
    <3> QED BY <2>1, <2>2, <3>1 DEF WsInv, WsTypeOK, Polling
  <2> QED BY <1>0, <2>1, <2>4, <2>5 DEF WsInv, BatchIsThere
<1> QED BY <1>1, <1>2, <1>3, <1>4, <1>5, <1>6, <1>7, <1>8, <1>9, <1>10, <1>11 DEF WsNext

\* What a client's cursor has passed was pushed to it, is in the batch in hand,
\* or came too late (poll_and_push).
THEOREM WsInvariance == WsSpec => []WsInv
BY WsInitInv, WsNextInv, PTL DEF WsSpec

-----------------------------------------------------------------------------
(* Announcements.                                                           *)

Keys == {KeyOf[c] : c \in Cargo}
Counts == [Listener -> 0..(MostSubscriptions + 1)]
Running == [step : {"idle", "collect", "throttle", "send", "write", "over"}, way : Way,
            cargo : Cargo \cup {NoCargo}, hushed : BOOLEAN, left : Counts, told : Counts]

\* Who has not asked twice has no two rows, nor a row and a request for one.
OnceAsked ==
  \A u \in Listener : u \notin twofold =>
    /\ subscribing[u] <= 1
    /\ subscribing[u] = 1 => Subscribed(u) = {}
    /\ \A i, j \in Subscribed(u) : i = j

\* What a dispatch has told and has left to tell.
RunOnce(r) ==
  /\ r.step # "idle" => r.cargo \in Cargo
  /\ r.step \in {"idle", "collect"} \/ r.hushed => r.left = Nobody /\ r.told = Nobody
  /\ r.hushed => r.step = "over"
  /\ \A u \in Listener :
       /\ r.left[u] + r.told[u] <= MostSubscriptions + 1
       /\ r.left[u] + r.told[u] > 1 => r.way = "bot" /\ u \in twofold
       /\ r.step # "idle" /\ u = OwnerOf[r.cargo] => r.left[u] = 0 /\ r.told[u] = 0

RunsOnce == \A d \in Dispatch : RunOnce(run[d])

KeysSpeakOnce == \A k \in Keys : spoken[k] <= 1 /\ (k \notin throttled => spoken[k] = 0)

MarkedWasTold ==
  \A c \in notified : \E d \in Dispatch :
    run[d].cargo = c /\ \E u \in Listener : run[d].told[u] > 0

AnnounceInv == AnnounceTypeOK /\ OnceAsked /\ RunsOnce /\ KeysSpeakOnce /\ MarkedWasTold

LEMMA AnnounceHolds == AnnounceInv => ToldOnce
<1> SUFFICES ASSUME AnnounceInv PROVE ToldOnce
  OBVIOUS
<1>1. ASSUME NEW d \in Dispatch, NEW u \in Listener, run[d].told[u] > 0
      PROVE  /\ run[d].told[u] = 1 \/ (run[d].way = "bot" /\ u \in twofold)
             /\ u # OwnerOf[run[d].cargo] /\ ~run[d].hushed
  <2>1. run[d] \in Running /\ run[d].left[u] \in Nat /\ run[d].told[u] \in Nat /\ Nobody[u] = 0
    BY AnnounceAssumption DEF AnnounceInv, AnnounceTypeOK, Running, Counts, Nobody
  <2>2. RunOnce(run[d])
    BY DEF AnnounceInv, RunsOnce
  <2> QED BY <1>1, <2>1, <2>2 DEF RunOnce
<1>2. \A k \in DOMAIN spoken : spoken[k] <= 1
  BY DEF AnnounceInv, AnnounceTypeOK, KeysSpeakOnce, Keys
<1> QED BY <1>1, <1>2 DEF ToldOnce, AnnounceInv, MarkedWasTold

LEMMA AnnounceInitInv == AnnounceInit => AnnounceInv
<1> SUFFICES ASSUME AnnounceInit PROVE AnnounceInv
  OBVIOUS
<1>1. Nobody \in Counts /\ \A u \in Listener : Nobody[u] = 0
  BY AnnounceAssumption DEF Nobody, Counts
<1>2. /\ Unstarted \in Running /\ Unstarted.step = "idle" /\ ~Unstarted.hushed
      /\ Unstarted.left = Nobody /\ Unstarted.told = Nobody
  BY <1>1 DEF Unstarted, Running, Way, Nobody
<1>3. AnnounceTypeOK
  BY <1>2 DEF AnnounceInit, AnnounceTypeOK, Running, Counts
<1>4. OnceAsked
  BY DEF AnnounceInit, OnceAsked, Subscribed, NoSubscription
<1>5. RunsOnce
  BY <1>1, <1>2, AnnounceAssumption DEF AnnounceInit, RunsOnce, RunOnce
<1> QED BY <1>3, <1>4, <1>5 DEF AnnounceInv, AnnounceInit, KeysSpeakOnce, Keys, MarkedWasTold

\* A run d takes a step that keeps what is true of it, and forgets nobody it told.
LEMMA RunStep ==
  ASSUME AnnounceInv, NEW d \in Dispatch, NEW new \in Running, run' = [run EXCEPT ![d] = new],
         RunOnce(new), UNCHANGED <<subs, subscribing, trucks, muted, twofold>>,
         new.cargo = run[d].cargo \/ run[d].told = Nobody,
         \A u \in Listener : new.told[u] >= run[d].told[u],
         throttled' \subseteq Keys, spoken' \in [Keys -> Nat], KeysSpeakOnce',
         notified' \subseteq notified \cup {new.cargo},
         notified' # notified => new.cargo \in Cargo /\ \E u \in Listener : new.told[u] > 0
  PROVE  AnnounceInv'
<1>0. run \in [Dispatch -> Running]
  BY DEF AnnounceInv, AnnounceTypeOK, Running, Counts
<1>1. AnnounceTypeOK'
  <2>1. run' \in [Dispatch -> Running]
    BY <1>0
  <2> QED BY <2>1 DEF AnnounceInv, AnnounceTypeOK, Running, Counts, Keys
<1>2. OnceAsked' /\ RunsOnce'
  BY <1>0 DEF AnnounceInv, OnceAsked, Subscribed, RunsOnce, RunOnce
<1>3. MarkedWasTold'
  <2> SUFFICES ASSUME NEW c \in notified'
      PROVE  \E e \in Dispatch : run'[e].cargo = c /\ \E u \in Listener : run'[e].told[u] > 0
    BY DEF MarkedWasTold
  <2>1. CASE c \in notified
    <3>1. PICK e \in Dispatch, u \in Listener : run[e].cargo = c /\ run[e].told[u] > 0
      BY <2>1 DEF AnnounceInv, MarkedWasTold
    <3>2. CASE e = d
      <4>1. run[d].told # Nobody
        BY <3>1, <3>2 DEF Nobody
      <4>2. new.told[u] > 0
        BY <1>0, <3>1, <3>2, AnnounceAssumption DEF Running, Counts
      <4> QED BY <1>0, <3>1, <3>2, <4>1, <4>2
    <3>3. CASE e # d
      BY <1>0, <3>1, <3>3
    <3> QED BY <3>2, <3>3
  <2>2. CASE c \notin notified
    BY <1>0, <2>2
  <2> QED BY <2>1, <2>2
<1> QED BY <1>1, <1>2, <1>3 DEF AnnounceInv

\* A step that touches no run and makes nobody less of one who asked twice.
LEMMA RowsStep ==
  ASSUME AnnounceInv, UNCHANGED <<run, notified>>, twofold \subseteq twofold', OnceAsked',
         KeysSpeakOnce', AnnounceTypeOK'
  PROVE  AnnounceInv'
<1>1. RunsOnce'
  BY DEF AnnounceInv, RunsOnce, RunOnce
<1> QED BY <1>1 DEF AnnounceInv, MarkedWasTold

LEMMA AnnounceNextInv == ASSUME AnnounceInv, [AnnounceNext]_announceVars PROVE AnnounceInv'
<1> USE AnnounceAssumption
<1>0. /\ run \in [Dispatch -> Running] /\ throttled \subseteq Keys /\ spoken \in [Keys -> Nat]
      /\ Nobody \in Counts /\ (\A u \in Listener : Nobody[u] = 0)
      /\ subscribing \in [Listener -> 0..2]
      /\ subs \in [Subscription -> {NoSubscription} \cup [user : Listener, active : BOOLEAN]]
      /\ NoSubscription.active = FALSE
  BY DEF AnnounceInv, AnnounceTypeOK, Running, Counts, Keys, Nobody, NoSubscription
<1>99. /\ Unstarted \in Running /\ Unstarted.step = "idle" /\ ~Unstarted.hushed
       /\ Unstarted.left = Nobody /\ Unstarted.told = Nobody
  BY <1>0 DEF Unstarted, Running, Way, Nobody
<1>1. CASE UNCHANGED announceVars
  BY <1>1, RowsStep
  DEF announceVars, AnnounceInv, AnnounceTypeOK, OnceAsked, Subscribed, KeysSpeakOnce
<1>2. ASSUME NEW u \in Listener, AskToSubscribe(u) PROVE AnnounceInv'
  <2>1. OnceAsked'
    <3>1. \A v \in Listener : Subscribed(v)' = Subscribed(v)
      BY <1>2 DEF AskToSubscribe, Subscribed
    <3>2. ASSUME NEW v \in Listener, v \notin twofold'
          PROVE  /\ subscribing'[v] <= 1 /\ (subscribing'[v] = 1 => Subscribed(v) = {})
                 /\ v \notin twofold
      <4>1. v \notin twofold
        BY <1>2, <3>2 DEF AskToSubscribe
      <4>2. /\ subscribing[v] \in 0..2 /\ subscribing[v] <= 1
            /\ subscribing[v] = 1 => Subscribed(v) = {}
        BY <1>0, <4>1 DEF AnnounceInv, OnceAsked
      <4>3. CASE v = u
        <5>1. subscribing[u] <= 0 /\ Subscribed(u) = {}
          BY <1>0, <1>2, <3>2, <4>2, <4>3 DEF AskToSubscribe
        <5>2. subscribing'[u] = 1
          BY <1>0, <1>2, <4>2, <4>3, <5>1 DEF AskToSubscribe
        <5> QED BY <4>1, <4>3, <5>1, <5>2
      <4>4. CASE v # u
        BY <1>0, <1>2, <4>1, <4>2, <4>4 DEF AskToSubscribe
      <4> QED BY <4>3, <4>4
    <3> QED BY <3>1, <3>2 DEF AnnounceInv, OnceAsked
  <2>2. AnnounceTypeOK' /\ twofold \subseteq twofold'
    BY <1>0, <1>2 DEF AskToSubscribe, AnnounceInv, AnnounceTypeOK
  <2> QED BY <1>2, <2>1, <2>2, RowsStep DEF AskToSubscribe, AnnounceInv, KeysSpeakOnce
<1>3. ASSUME NEW u \in Listener, Subscribe(u) PROVE AnnounceInv'
  <2>1. PICK i \in Subscription : /\ subs[i] = NoSubscription
                                  /\ subs' = [subs EXCEPT ![i] = [user |-> u, active |-> TRUE]]
    BY <1>3 DEF Subscribe
  <2>2. /\ subscribing[u] > 0 /\ subscribing' = [subscribing EXCEPT ![u] = subscribing[u] - 1]
        /\ UNCHANGED <<trucks, throttled, muted, notified, run, spoken, twofold>>
    BY <1>3 DEF Subscribe
  <2>3. \A v \in Listener : v # u => Subscribed(v)' = Subscribed(v)
    BY <1>0, <2>1 DEF Subscribed
  <2>4. Subscribed(u)' = Subscribed(u) \cup {i}
    BY <1>0, <2>1 DEF Subscribed
  <2>5. OnceAsked'
    <3>1. ASSUME NEW v \in Listener, v \notin twofold
          PROVE  /\ subscribing'[v] <= 1 /\ (subscribing'[v] = 1 => Subscribed(v)' = {})
                 /\ \A a, b : a \in Subscribed(v)' /\ b \in Subscribed(v)' => a = b
      <4>1. /\ subscribing[v] \in 0..2 /\ subscribing[v] <= 1
            /\ subscribing[v] = 1 => Subscribed(v) = {}
            /\ \A a, b \in Subscribed(v) : a = b
        BY <1>0, <3>1 DEF AnnounceInv, OnceAsked
      <4>2. CASE v = u
        <5>1. subscribing[u] = 1 /\ Subscribed(u)' = {i} /\ subscribing'[u] = 0
          BY <1>0, <2>2, <2>4, <4>1, <4>2
        <5> QED BY <4>2, <5>1
      <4>3. CASE v # u
        BY <1>0, <2>2, <2>3, <4>1, <4>3
      <4> QED BY <4>2, <4>3
    <3>2. ASSUME NEW v \in Listener, v \notin twofold',
                 NEW a \in Subscribed(v)', NEW b \in Subscribed(v)'
          PROVE  a = b
      BY <2>2, <3>1, <3>2
    <3> QED BY <2>2, <3>1, <3>2 DEF OnceAsked
  <2>6. AnnounceTypeOK'
    BY <1>0, <2>1, <2>2 DEF AnnounceInv, AnnounceTypeOK
  <2> QED BY <2>2, <2>5, <2>6, RowsStep DEF AnnounceInv, KeysSpeakOnce
<1>4. ASSUME NEW u \in Listener, SwitchTruck(u) PROVE AnnounceInv'
  <2>1. AnnounceTypeOK' /\ OnceAsked'
    BY <1>4 DEF SwitchTruck, AnnounceInv, AnnounceTypeOK, OnceAsked, Subscribed
  <2> QED BY <1>4, <2>1, RowsStep DEF SwitchTruck, AnnounceInv, KeysSpeakOnce
<1>5. ASSUME NEW i \in Subscription, Unsubscribe(i) PROVE AnnounceInv'
  <2>1. \A v \in Listener : Subscribed(v)' \subseteq Subscribed(v)
    BY <1>0, <1>5 DEF Unsubscribe, Subscribed
  <2>2. OnceAsked'
    BY <1>0, <1>5, <2>1 DEF Unsubscribe, AnnounceInv, OnceAsked
  <2>3. AnnounceTypeOK'
    <3>1. subs[i] \in [user : Listener, active : BOOLEAN]
      BY <1>0, <1>5 DEF Unsubscribe
    <3>2. [subs[i] EXCEPT !.active = FALSE] \in [user : Listener, active : BOOLEAN]
      BY <3>1
    <3> QED BY <1>0, <1>5, <3>2 DEF Unsubscribe, AnnounceInv, AnnounceTypeOK
  <2> QED BY <1>5, <2>2, <2>3, RowsStep DEF Unsubscribe, AnnounceInv, KeysSpeakOnce
<1>6. ASSUME NEW c \in Cargo, Mute(c) \/ ExpireMute(c) PROVE AnnounceInv'
  <2>1. AnnounceTypeOK' /\ OnceAsked' /\ KeysSpeakOnce'
    BY <1>6 DEF Mute, ExpireMute, AnnounceInv, AnnounceTypeOK, OnceAsked, Subscribed, KeysSpeakOnce
  <2> QED BY <1>6, <2>1, RowsStep DEF Mute, ExpireMute
<1>7. ASSUME NEW k \in throttled, ExpireThrottle(k) PROVE AnnounceInv'
  <2>1. AnnounceTypeOK' /\ OnceAsked'
    BY <1>0, <1>7
    DEF ExpireThrottle, AnnounceInv, AnnounceTypeOK, OnceAsked, Subscribed, Keys
  <2>2. KeysSpeakOnce'
    BY <1>0, <1>7 DEF ExpireThrottle, AnnounceInv, KeysSpeakOnce
  <2> QED BY <1>7, <2>1, <2>2, RowsStep DEF ExpireThrottle
<1>8. ASSUME NEW d \in Dispatch, NEW c \in Cargo, NEW way \in Way, Begin(d, c, way)
      PROVE  AnnounceInv'
  <2>1. PICK hush \in {FALSE, way = "site" /\ c \in muted} :
          run' = [run EXCEPT ![d] = [Unstarted EXCEPT !.way = way, !.cargo = c, !.hushed = hush,
                                                !.step = IF hush THEN "over" ELSE "collect"]]
    BY <1>8 DEF Begin
  <2> DEFINE new == [Unstarted EXCEPT !.way = way, !.cargo = c, !.hushed = hush,
                                      !.step = IF hush THEN "over" ELSE "collect"]
  <2>2. /\ new \in Running /\ new.cargo = c /\ new.left = Nobody /\ new.told = Nobody
        /\ new.step # "idle" /\ (new.hushed => new.step = "over")
    <3>1. hush \in BOOLEAN
      OBVIOUS
    <3> QED BY <1>99, <3>1 DEF Running
  <2>3. run' = [run EXCEPT ![d] = new]
    BY <2>1
  <2> HIDE DEF new
  <2>4. RunOnce(new)
    BY <1>0, <2>2 DEF RunOnce
  <2>5. run[d].step = "idle" /\ RunOnce(run[d])
    BY <1>8 DEF Begin, AnnounceInv, RunsOnce
  <2>6. run[d].told = Nobody
    BY <2>5 DEF RunOnce
  <2>7. UNCHANGED <<subs, subscribing, trucks, throttled, muted, notified, spoken, twofold>>
    BY <1>8 DEF Begin
  <2>8. KeysSpeakOnce'
    BY <2>7 DEF AnnounceInv, KeysSpeakOnce
  <2>9. \A u \in Listener : new.told[u] >= run[d].told[u]
    BY <1>0, <2>2, <2>6
  <2>10. /\ UNCHANGED <<subs, subscribing, trucks, muted, twofold>> /\ throttled' \subseteq Keys
         /\ spoken' \in [Keys -> Nat] /\ notified' = notified
    BY <1>0, <2>7
  <2> QED BY <2>2, <2>3, <2>4, <2>6, <2>8, <2>9, <2>10, RunStep
<1>9. ASSUME NEW d \in Dispatch, Collect(d) PROVE AnnounceInv'
  <2> DEFINE T == Targets(run[d].cargo, run[d].way)
             step == IF T = Nobody THEN "over"
                     ELSE IF run[d].way = "site" THEN "throttle" ELSE "send"
             new == [run[d] EXCEPT !.left = T, !.step = step]
  <2>1. ASSUME NEW u \in Listener
        PROVE  /\ Cardinality(Subscribed(u)) \in 0..MostSubscriptions
               /\ u \notin twofold => Cardinality(Subscribed(u)) <= 1
    <3>1. IsFiniteSet(Subscription) /\ Cardinality(Subscription) = MostSubscriptions
      BY FS_Interval DEF Subscription
    <3>2. Subscribed(u) \in SUBSET Subscription
      BY DEF Subscribed
    <3>3. IsFiniteSet(Subscribed(u)) /\ Cardinality(Subscribed(u)) <= MostSubscriptions
      BY <3>1, <3>2, FS_Subset
    <3>4. Cardinality(Subscribed(u)) \in Nat
      BY <3>3, FS_CardinalityType
    <3>5. ASSUME u \notin twofold PROVE Cardinality(Subscribed(u)) <= 1
      <4>1. \A i, j \in Subscribed(u) : i = j
        BY <3>5 DEF AnnounceInv, OnceAsked
      <4>2. Subscribed(u) = {} \/ \E i : Subscribed(u) = {i}
        BY <4>1
      <4> QED BY <3>3, <4>2, FS_EmptySet, FS_Singleton
    <3> QED BY <3>3, <3>4, <3>5
  <2>2. ASSUME NEW u \in Listener
        PROVE  /\ T[u] \in 0..(MostSubscriptions + 1)
               /\ T[u] > 1 => run[d].way = "bot" /\ u \in twofold
               /\ u = OwnerOf[run[d].cargo] => T[u] = 0
    BY <2>1 DEF Targets, Times
  <2>3. T \in Counts
    BY <2>2 DEF Targets, Counts
  <2>4. run[d] \in Running /\ run[d].step = "collect" /\ RunOnce(run[d]) /\ run' = [run EXCEPT ![d] = new]
         /\ UNCHANGED <<subs, subscribing, trucks, throttled, muted, notified, spoken, twofold>>
    BY <1>0, <1>9 DEF Collect, AnnounceInv, RunsOnce
  <2>5. ~run[d].hushed /\ run[d].left = Nobody /\ run[d].told = Nobody /\ run[d].cargo \in Cargo
    BY <2>4 DEF RunOnce
  <2> HIDE DEF T
  <2>6. /\ new \in Running /\ new.step \notin {"idle", "collect"} /\ new.left = T
        /\ new.told = Nobody /\ new.cargo = run[d].cargo /\ ~new.hushed /\ new.way = run[d].way
    BY <2>3, <2>4, <2>5 DEF Running
  <2> HIDE DEF new
  <2>7. RunOnce(new)
    BY <1>0, <2>2, <2>5, <2>6 DEF RunOnce
  <2>8. KeysSpeakOnce'
    BY <2>4 DEF AnnounceInv, KeysSpeakOnce
  <2>9. \A u \in Listener : new.told[u] >= run[d].told[u]
    BY <1>0, <2>5, <2>6
  <2>10. /\ UNCHANGED <<subs, subscribing, trucks, muted, twofold>> /\ throttled' \subseteq Keys
         /\ spoken' \in [Keys -> Nat] /\ notified' = notified /\ run' = [run EXCEPT ![d] = new]
    BY <1>0, <2>4
  <2> QED BY <2>5, <2>6, <2>7, <2>8, <2>9, <2>10, RunStep
<1>10. ASSUME NEW d \in Dispatch, NEW new \in Running, run' = [run EXCEPT ![d] = new],
              new.step \in {"send", "write", "over"}, run[d].step # "idle",
              new.cargo = run[d].cargo, new.left = run[d].left, new.told = run[d].told,
              new.way = run[d].way, new.hushed = run[d].hushed,
              run[d].step \in {"throttle", "send", "write", "collect"},
              UNCHANGED <<subs, subscribing, trucks, muted, twofold>>,
              throttled' \subseteq Keys, spoken' \in [Keys -> Nat], KeysSpeakOnce',
              notified' = notified
                \/ (run[d].told # Nobody /\ notified' = notified \cup {run[d].cargo})
       PROVE  AnnounceInv'
  <2>1. RunOnce(run[d]) /\ run[d] \in Running
    BY <1>0 DEF AnnounceInv, RunsOnce
  <2>2. RunOnce(new)
    BY <1>10, <2>1 DEF RunOnce
  <2>3. new.cargo \in Cargo
    BY <1>10, <2>1 DEF RunOnce
  <2>4. \A u \in Listener : run[d].told[u] \in Nat /\ new.told[u] >= run[d].told[u]
    BY <1>10, <2>1 DEF Running, Counts
  <2>5. run[d].told # Nobody => \E u \in Listener : new.told[u] > 0
    <3>1. run[d].told \in Counts
      BY <2>1 DEF Running
    <3>2. (\A u \in Listener : run[d].told[u] = 0) => run[d].told = Nobody
      BY <3>1 DEF Counts, Nobody
    <3> QED BY <1>10, <2>4, <3>2
  <2> QED BY <1>10, <2>2, <2>3, <2>4, <2>5, RunStep
<1>11. ASSUME NEW d \in Dispatch, Throttle(d) PROVE AnnounceInv'
  <2>1. run[d] \in Running /\ run[d].step = "throttle" /\ run[d].cargo \in Cargo
    BY <1>0, <1>11 DEF Throttle, AnnounceInv, RunsOnce, RunOnce
  <2>2. KeyOf[run[d].cargo] \in Keys
    BY <2>1 DEF Keys
  <2>3. throttled' \subseteq Keys /\ spoken' \in [Keys -> Nat] /\ KeysSpeakOnce'
    BY <1>0, <1>11, <2>2 DEF Throttle, AnnounceInv, KeysSpeakOnce
  <2>4. PICK st \in {"over", "send"} : run' = [run EXCEPT ![d] = [run[d] EXCEPT !.step = st]]
    BY <1>11 DEF Throttle
  <2>5. [run[d] EXCEPT !.step = st] \in Running
    BY <2>1, <2>4 DEF Running
  <2> QED BY <1>10, <1>11, <2>1, <2>3, <2>4, <2>5 DEF Throttle, Running
<1>12. ASSUME NEW d \in Dispatch, ThrottleFails(d) \/ AllTried(d) \/ Die(d) PROVE AnnounceInv'
  <2>1. run[d] \in Running /\ run[d].step \in {"throttle", "send", "write", "collect"}
         /\ UNCHANGED <<subs, subscribing, trucks, throttled, muted, notified, spoken, twofold>>
    BY <1>0, <1>12 DEF ThrottleFails, AllTried, Die
  <2>2. PICK st \in {"over", "send", "write"} :
          run' = [run EXCEPT ![d] = [run[d] EXCEPT !.step = st]]
    BY <1>12 DEF ThrottleFails, AllTried, Die
  <2>3. [run[d] EXCEPT !.step = st] \in Running
    BY <2>1, <2>2 DEF Running
  <2>4. KeysSpeakOnce'
    BY <2>1 DEF AnnounceInv, KeysSpeakOnce
  <2> QED BY <1>0, <1>10, <2>1, <2>2, <2>3, <2>4 DEF Running
<1>13. ASSUME NEW d \in Dispatch, Write(d) PROVE AnnounceInv'
  <2>1. run[d] \in Running /\ run[d].step = "write"
         /\ run' = [run EXCEPT ![d] = [run[d] EXCEPT !.step = "over"]]
         /\ UNCHANGED <<subs, subscribing, trucks, throttled, muted, spoken, twofold>>
    BY <1>0, <1>13 DEF Write
  <2>2. [run[d] EXCEPT !.step = "over"] \in Running
    BY <2>1 DEF Running
  <2>3. KeysSpeakOnce'
    BY <2>1 DEF AnnounceInv, KeysSpeakOnce
  <2>4. notified' = notified \/ (run[d].told # Nobody /\ notified' = notified \cup {run[d].cargo})
    BY <1>13 DEF Write
  <2> QED BY <1>0, <1>10, <2>1, <2>2, <2>3, <2>4 DEF Running
<1>14. ASSUME NEW d \in Dispatch, NEW u \in Listener, Tell(d, u) PROVE AnnounceInv'
  <2>1. run[d] \in Running /\ run[d].step = "send" /\ run[d].left[u] > 0 /\ RunOnce(run[d])
         /\ UNCHANGED <<subs, subscribing, trucks, throttled, muted, notified, spoken, twofold>>
    BY <1>0, <1>14 DEF Tell, AnnounceInv, RunsOnce
  <2>2. PICK arrives \in BOOLEAN :
          run' = [run EXCEPT ![d].left[u] = @ - 1,
                             ![d].told[u] = IF arrives THEN @ + 1 ELSE @]
    BY <1>14 DEF Tell
  <2> DEFINE rest == [run[d].left EXCEPT ![u] = run[d].left[u] - 1]
             taken == [run[d].told EXCEPT ![u] = IF arrives THEN run[d].told[u] + 1
                                                ELSE run[d].told[u]]
             new == [run[d] EXCEPT !.left = rest, !.told = taken]
  <2>3. run' = [run EXCEPT ![d] = new]
    BY <1>0, <2>1, <2>2 DEF Running
  <2>4. /\ rest \in Counts /\ taken \in Counts
        /\ rest[u] + taken[u] <= run[d].left[u] + run[d].told[u]
        /\ taken[u] >= run[d].told[u]
        /\ \A v \in Listener : v # u => rest[v] = run[d].left[v] /\ taken[v] = run[d].told[v]
        /\ \A v \in Listener : run[d].left[v] \in Nat /\ run[d].told[v] \in Nat
    <3>1. run[d].left \in Counts /\ run[d].told \in Counts
      BY <2>1 DEF Running
    <3>2. run[d].left[u] + run[d].told[u] <= MostSubscriptions + 1
      BY <2>1 DEF RunOnce
    <3>3. run[d].left[u] \in Nat /\ run[d].told[u] \in Nat
      BY <3>1 DEF Counts
    <3>4. /\ run[d].left[u] - 1 \in 0..(MostSubscriptions + 1)
          /\ run[d].told[u] + 1 \in 0..(MostSubscriptions + 1)
      BY <2>1, <3>2, <3>3
    <3>5. rest \in Counts /\ taken \in Counts
      BY <3>1, <3>4 DEF Counts
    <3> QED BY <2>1, <3>1, <3>3, <3>5 DEF Counts
  <2>5. /\ new \in Running /\ new.left = rest /\ new.told = taken /\ new.cargo = run[d].cargo
        /\ new.step = "send" /\ new.hushed = run[d].hushed /\ new.way = run[d].way
    BY <2>1, <2>4 DEF Running
  <2> HIDE DEF rest, taken, new
  <2>6. RunOnce(new)
    <3>1. ~run[d].hushed
      BY <2>1 DEF RunOnce
    <3>2. ASSUME NEW v \in Listener
          PROVE  /\ rest[v] + taken[v] <= run[d].left[v] + run[d].told[v]
                 /\ rest[v] \in Nat /\ taken[v] \in Nat
                 /\ v # u => rest[v] = run[d].left[v] /\ taken[v] = run[d].told[v]
      BY <2>4 DEF Counts
    <3>3. u # OwnerOf[run[d].cargo]
      BY <2>1, <2>4 DEF RunOnce
    <3> QED BY <2>1, <2>4, <2>5, <3>1, <3>2, <3>3 DEF RunOnce
  <2>7. \A v \in Listener : new.told[v] >= run[d].told[v]
    BY <2>4, <2>5
  <2>8. /\ throttled' \subseteq Keys /\ spoken' \in [Keys -> Nat] /\ KeysSpeakOnce'
        /\ notified' = notified
    BY <1>0, <2>1 DEF AnnounceInv, KeysSpeakOnce
  <2> QED BY <2>1, <2>3, <2>5, <2>6, <2>7, <2>8, RunStep
<1> QED BY <1>1, <1>2, <1>3, <1>4, <1>5, <1>6, <1>7, <1>8, <1>9, <1>11, <1>12, <1>13, <1>14
        DEF AnnounceNext

\* Two announcements of one key are never both past the throttle, and one has for
\* each listener no more than that listener's rows (dispatch_cargo_notification).
THEOREM AnnounceInvariance == AnnounceSpec => []AnnounceInv
BY AnnounceInitInv, AnnounceNextInv, PTL DEF AnnounceSpec

-----------------------------------------------------------------------------
(* The receiver.                                                            *)

Unbegun == [step : {"idle"}]
AtLook == [step : {"look", "make"}, order : Order \ Theirs]
AtTell == [step : {"tell"}, order : Order, id : Nat]
AtSend == [step : {"send"}, order : Order, left : SUBSET Person, targets : SUBSET Person,
           sent : SUBSET Person, failed : SUBSET Person]
Deliveries == Unbegun \cup AtLook \cup AtTell \cup AtSend

ReceiverTypes ==
  /\ cargos \in Seq(Order \ Theirs)
  /\ delivery \in [Delivery -> Deliveries]
  /\ subscribers \subseteq Person /\ told \in [Person -> [Order -> 0..MostTold]]
  /\ overlapped \subseteq Order /\ answered \in [Order -> NoAnswer..Len(cargos)]

\* What a delivery knows: the id it names is a cargo of its order; those it has
\* tried are the targets that are not left.
Honest(d, made, heard) ==
  /\ d.step = "tell" /\ d.id # NoId => d.id \in DOMAIN made /\ made[d.id] = d.order
  /\ d.step = "send" =>
       /\ d.left \subseteq d.targets /\ d.sent \cup d.failed = d.targets \ d.left
       /\ \A p \in d.sent : heard[p][d.order] > 0

DeliveriesHonest == \A r \in Delivery : Honest(delivery[r], cargos, told)

InHand(r) == delivery[r].step \in {"look", "make"}

\* Of an order that never overlapped one delivery is in hand, and while it
\* makes a cargo there is none.
OneInHand ==
  \A o \in Linked \ overlapped :
    /\ \A i, j \in DOMAIN cargos : cargos[i] = o /\ cargos[j] = o => i = j
    /\ \A q, r \in Delivery :
         InHand(q) /\ delivery[q].order = o /\ InHand(r) /\ delivery[r].order = o => q = r
    /\ \A r \in Delivery : delivery[r].step = "make" /\ delivery[r].order = o =>
         \A i \in DOMAIN cargos : cargos[i] # o

AnswersTrue == \A o \in Order : answered[o] > NoId =>
  answered[o] \in DOMAIN cargos /\ cargos[answered[o]] = o

ReceiverInv == ReceiverTypes /\ DeliveriesHonest /\ OneInHand /\ AnswersTrue

LEMMA ReceiverTypesHold == ReceiverInv => ReceiverTypeOK
<1> SUFFICES ASSUME ReceiverInv PROVE ReceiverTypeOK
  OBVIOUS
<1>1. \A i \in DOMAIN cargos : cargos[i] \in Order \ Theirs
  BY DEF ReceiverInv, ReceiverTypes
<1>2. \A r \in Delivery : delivery[r].step \in {"idle", "look", "make", "tell", "send"}
  BY DEF ReceiverInv, ReceiverTypes, Deliveries, Unbegun, AtLook, AtTell, AtSend
<1>3. \A o \in Order : answered[o] \in NoAnswer..Len(cargos)
  BY DEF ReceiverInv, ReceiverTypes
<1> QED BY <1>1, <1>2, <1>3 DEF ReceiverInv, ReceiverTypes, ReceiverTypeOK

LEMMA ReceiverHolds == ReceiverInv => OrderIsOneCargo
<1> SUFFICES ASSUME ReceiverInv PROVE OrderIsOneCargo
  OBVIOUS
<1>1. ASSUME NEW o \in Linked \ overlapped
      PROVE  Cardinality({i \in DOMAIN cargos : cargos[i] = o}) <= 1
  <2> DEFINE S == {i \in DOMAIN cargos : cargos[i] = o}
  <2>1. \A i, j \in S : i = j
    BY DEF ReceiverInv, OneInHand
  <2>2. CASE S = {}
    BY <2>2, FS_EmptySet
  <2>3. CASE S # {}
    <3>1. PICK i \in S : TRUE
      BY <2>3
    <3>2. S = {i}
      BY <2>1, <3>1
    <3>3. Cardinality({i}) = 1
      BY FS_Singleton
    <3> HIDE DEF S
    <3>4. Cardinality(S) <= 1
      BY <3>2, <3>3
    <3> QED BY <3>4 DEF S
  <2> QED BY <2>2, <2>3
<1>2. \A o \in Order : answered[o] > NoId => cargos[answered[o]] = o
  BY DEF ReceiverInv, AnswersTrue
<1>3. ASSUME NEW r \in Delivery, At(r, "send")
      PROVE  /\ delivery[r].sent \cup delivery[r].failed = delivery[r].targets \ delivery[r].left
             /\ \A p \in delivery[r].sent : told[p][delivery[r].order] > 0
  BY <1>3 DEF ReceiverInv, DeliveriesHonest, Honest, At
<1> QED BY <1>1, <1>2, <1>3 DEF OrderIsOneCargo

LEMMA ReceiverInitInv == ReceiverInit => ReceiverInv
<1> SUFFICES ASSUME ReceiverInit PROVE ReceiverInv
  OBVIOUS
<1>1. Unsent \in Deliveries /\ Unsent.step = "idle"
  BY DEF Unsent, Deliveries, Unbegun
<1>2. Len(<<>>) = 0 /\ <<>> \in Seq(Order \ Theirs)
  OBVIOUS
<1>3. ReceiverTypes
  BY <1>1, <1>2, ReceiverAssumption DEF ReceiverInit, ReceiverTypes, NoAnswer
<1>6. /\ \A r \in Delivery : delivery[r] = Unsent
      /\ \A i \in DOMAIN cargos : FALSE
  BY <1>2 DEF ReceiverInit
<1>7. \A r \in Delivery : delivery[r].step = "idle"
  BY <1>1, <1>6
<1>4. DeliveriesHonest
  BY <1>7 DEF DeliveriesHonest, Honest
<1>8. OneInHand
  <2>1. \A o : \A r \in Delivery : ~(InHand(r) /\ delivery[r].order = o)
    BY <1>7 DEF InHand
  <2>2. \A r \in Delivery : delivery[r].step # "make"
    BY <1>7
  <2>3. DOMAIN cargos = {}
    BY <1>2 DEF ReceiverInit
  <2> QED BY <2>1, <2>2, <2>3 DEF OneInHand
<1>5. AnswersTrue
  BY DEF ReceiverInit, AnswersTrue, NoAnswer, NoId
<1> QED BY <1>3, <1>4, <1>5, <1>8 DEF ReceiverInv

\* A delivery becomes new; cargos and messages are only added to.
LEMMA DeliveryStep ==
  ASSUME ReceiverInv, NEW r \in Delivery, NEW new \in Deliveries,
         delivery' = [delivery EXCEPT ![r] = new],
         cargos' = cargos \/ (/\ At(r, "make") /\ cargos' = Append(cargos, delivery[r].order)
                              /\ new.step = "tell"),
         subscribers' = subscribers, told' \in [Person -> [Order -> 0..MostTold]],
         \A p \in Person, o \in Order : told'[p][o] >= told[p][o],
         overlapped \subseteq overlapped', overlapped' \subseteq Order,
         Honest(new, cargos', told'),
         answered' \in [Order -> NoAnswer..Len(cargos)],
         \A o \in Order : answered'[o] > NoId =>
           answered'[o] \in DOMAIN cargos /\ cargos[answered'[o]] = o,
         new.step \in {"look", "make"} =>
           \/ InHand(r) /\ delivery[r].order = new.order
           \/ new.step = "look" /\ new.order \notin OrdersInHand
           \/ new.order \in overlapped',
         new.step = "make" /\ new.order \in Linked => \A i \in DOMAIN cargos : cargos[i] # new.order
  PROVE  ReceiverInv'
<1>0. /\ delivery \in [Delivery -> Deliveries] /\ cargos \in Seq(Order \ Theirs)
      /\ told \in [Person -> [Order -> Nat]] /\ told' \in [Person -> [Order -> Nat]]
  BY ReceiverAssumption DEF ReceiverInv, ReceiverTypes
<1>1. /\ cargos' \in Seq(Order \ Theirs) /\ Len(cargos) <= Len(cargos')
      /\ \A i \in DOMAIN cargos : cargos'[i] = cargos[i] /\ i \in DOMAIN cargos'
  <2>1. CASE cargos' = cargos
    BY <1>0, <2>1
  <2>2. CASE At(r, "make") /\ cargos' = Append(cargos, delivery[r].order)
    <3>1. delivery[r].order \in Order \ Theirs
      BY <1>0, <2>2 DEF At, Deliveries, Unbegun, AtLook, AtTell, AtSend
    <3> QED BY <1>0, <2>2, <3>1
  <2> QED BY <2>1, <2>2
<1>2. ReceiverTypes'
  <2>1. answered' \in [Order -> NoAnswer..Len(cargos')]
    BY <1>0, <1>1 DEF NoAnswer
  <2>2. subscribers' \subseteq Person
    BY DEF ReceiverInv, ReceiverTypes
  <2> QED BY <1>0, <1>1, <2>1, <2>2 DEF ReceiverTypes
<1>3. DeliveriesHonest'
  <2>1. ASSUME NEW q \in Delivery, q # r PROVE Honest(delivery[q], cargos', told')
    <3>1. Honest(delivery[q], cargos, told)
      BY DEF ReceiverInv, DeliveriesHonest
    <3>2. delivery[q] \in Deliveries
      BY <1>0
    <3> DEFINE d == delivery[q]
    <3>3. CASE d.step = "tell"
      BY <1>1, <3>1, <3>3 DEF Honest
    <3>4. CASE d.step = "send"
      <4>1. d.sent \subseteq Person /\ d.order \in Order
        BY <3>2, <3>4 DEF Deliveries, Unbegun, AtLook, AtTell, AtSend
      <4>2. \A p \in d.sent : told[p][d.order] > 0
        BY <3>1, <3>4 DEF Honest
      <4>3. ASSUME NEW p \in d.sent PROVE told'[p][d.order] > 0
        <5>1. /\ told'[p][d.order] >= told[p][d.order] /\ told[p][d.order] \in Nat
              /\ told'[p][d.order] \in Nat
          BY <1>0, <4>1
        <5> QED BY <4>2, <5>1
      <4> QED BY <3>1, <3>4, <4>3 DEF Honest
    <3> QED BY <3>3, <3>4 DEF Honest
  <2> QED BY <1>0, <2>1 DEF DeliveriesHonest
<1>4. AnswersTrue'
  BY <1>1 DEF AnswersTrue
<1>5. OneInHand'
  <2> SUFFICES ASSUME NEW o \in Linked, o \notin overlapped'
      PROVE  /\ \A i, j \in DOMAIN cargos' : cargos'[i] = o /\ cargos'[j] = o => i = j
             /\ \A p, q \in Delivery :
                  (delivery'[p].step \in {"look", "make"} /\ delivery'[p].order = o
                   /\ delivery'[q].step \in {"look", "make"} /\ delivery'[q].order = o) => p = q
             /\ \A q \in Delivery : delivery'[q].step = "make" /\ delivery'[q].order = o =>
                  \A i \in DOMAIN cargos' : cargos'[i] # o
    BY DEF OneInHand, InHand
  <2>1. /\ \A i, j \in DOMAIN cargos : cargos[i] = o /\ cargos[j] = o => i = j
        /\ \A p, q \in Delivery :
             InHand(p) /\ delivery[p].order = o /\ InHand(q) /\ delivery[q].order = o => p = q
        /\ \A q \in Delivery : delivery[q].step = "make" /\ delivery[q].order = o =>
             \A i \in DOMAIN cargos : cargos[i] # o
    BY DEF ReceiverInv, OneInHand
  <2>2. \A q \in Delivery : delivery'[q] = IF q = r THEN new ELSE delivery[q]
    BY <1>0
  <2>3. ASSUME new.step \in {"look", "make"}, new.order = o,
               NEW q \in Delivery, q # r, InHand(q), delivery[q].order = o
        PROVE  FALSE
    BY <2>1, <2>3 DEF OrdersInHand, InHand
  <2>4. \A p, q \in Delivery :
          (delivery'[p].step \in {"look", "make"} /\ delivery'[p].order = o
           /\ delivery'[q].step \in {"look", "make"} /\ delivery'[q].order = o) => p = q
    <3> SUFFICES ASSUME NEW p \in Delivery, NEW q \in Delivery,
                        delivery'[p].step \in {"look", "make"}, delivery'[p].order = o,
                        delivery'[q].step \in {"look", "make"}, delivery'[q].order = o
        PROVE  p = q
      OBVIOUS
    <3>0. /\ p # r => InHand(p) /\ delivery[p].order = o
          /\ q # r => InHand(q) /\ delivery[q].order = o
          /\ p = r \/ q = r => new.step \in {"look", "make"} /\ new.order = o
      BY <2>2 DEF InHand
    <3>1. CASE p = r /\ q # r
      BY <2>3, <3>0, <3>1
    <3>2. CASE p # r /\ q = r
      BY <2>3, <3>0, <3>2
    <3>3. CASE p # r /\ q # r
      BY <2>1, <3>0, <3>3
    <3> QED BY <3>1, <3>2, <3>3
  <2>5. CASE cargos' = cargos
    BY <2>1, <2>2, <2>4, <2>5
  <2>6. CASE At(r, "make") /\ cargos' = Append(cargos, delivery[r].order) /\ new.step = "tell"
    <3>1. DOMAIN cargos' = DOMAIN cargos \cup {Len(cargos) + 1}
           /\ cargos'[Len(cargos) + 1] = delivery[r].order
      BY <1>0, <2>6
    <3>2. CASE delivery[r].order = o
      <4>1. \A i \in DOMAIN cargos : cargos[i] # o
        BY <2>1, <2>6, <3>2 DEF At
      <4>2. \A q \in Delivery : q # r => ~(delivery[q].step = "make" /\ delivery[q].order = o)
        BY <2>1, <2>6, <3>2 DEF At, InHand
      <4> QED BY <1>1, <2>2, <2>4, <2>6, <3>1, <4>1, <4>2
    <3>3. CASE delivery[r].order # o
      BY <1>1, <2>1, <2>2, <2>4, <2>6, <3>1, <3>3
    <3> QED BY <3>2, <3>3
  <2> QED BY <2>5, <2>6
<1> QED BY <1>2, <1>3, <1>4, <1>5 DEF ReceiverInv

LEMMA ReceiverNextInv == ASSUME ReceiverInv, [ReceiverNext]_receiverVars PROVE ReceiverInv'
<1>0. /\ delivery \in [Delivery -> Deliveries] /\ cargos \in Seq(Order \ Theirs)
      /\ told \in [Person -> [Order -> 0..MostTold]] /\ MostTold \in Nat
      /\ answered \in [Order -> NoAnswer..Len(cargos)] /\ overlapped \subseteq Order
      /\ Unsent \in Deliveries /\ Unsent.step = "idle" /\ Person \subseteq Nat
      /\ \A r \in Delivery : Honest(delivery[r], cargos, told)
      /\ \A o \in Order : answered[o] > NoId =>
           answered[o] \in DOMAIN cargos /\ cargos[answered[o]] = o
  BY ReceiverAssumption
  DEF ReceiverInv, ReceiverTypes, DeliveriesHonest, AnswersTrue, Unsent, Deliveries, Unbegun
<1>99. /\ \A p \in Person, o \in Order : told[p][o] >= told[p][o]
       /\ Honest(Unsent, cargos', told')
  BY <1>0 DEF Honest
<1>1. CASE UNCHANGED receiverVars
  BY <1>1 DEF receiverVars, ReceiverInv, ReceiverTypes, DeliveriesHonest, Honest, OneInHand,
              InHand, AnswersTrue
<1>2. CASE Restart
  <2>1. \A r \in Delivery : delivery'[r] = Unsent
    BY <1>2 DEF Restart
  <2>2. ReceiverTypes'
    BY <1>0, <1>2 DEF Restart, ReceiverInv, ReceiverTypes
  <2>3. DeliveriesHonest'
    BY <1>0, <2>1 DEF DeliveriesHonest, Honest
  <2>4. /\ \A r \in Delivery : delivery'[r].step = "idle"
        /\ cargos' = cargos /\ overlapped' = overlapped /\ answered' = answered
    BY <1>0, <1>2, <2>1 DEF Restart
  <2>5. OneInHand'
    <3>1. \A o \in Linked \ overlapped : \A i, j \in DOMAIN cargos :
            cargos[i] = o /\ cargos[j] = o => i = j
      BY DEF ReceiverInv, OneInHand
    <3>2. \A r \in Delivery : ~(delivery'[r].step \in {"look", "make"}) /\ delivery'[r].step # "make"
      BY <2>4
    <3> SUFFICES ASSUME NEW o \in Linked, o \notin overlapped
        PROVE  /\ \A i, j \in DOMAIN cargos : cargos[i] = o /\ cargos[j] = o => i = j
               /\ \A p, q \in Delivery :
                    (delivery'[p].step \in {"look", "make"} /\ delivery'[p].order = o
                     /\ delivery'[q].step \in {"look", "make"} /\ delivery'[q].order = o) => p = q
               /\ \A q \in Delivery : delivery'[q].step = "make" /\ delivery'[q].order = o =>
                    \A i \in DOMAIN cargos : cargos[i] # o
      BY <2>4 DEF OneInHand, InHand
    <3> QED BY <3>1, <3>2
  <2>6. AnswersTrue'
    BY <1>0, <2>4 DEF AnswersTrue
  <2> QED BY <2>2, <2>3, <2>5, <2>6 DEF ReceiverInv
<1>3. ASSUME NEW p \in Person, SwitchRoute(p) PROVE ReceiverInv'
  <2>1. ReceiverTypes'
    BY <1>3 DEF SwitchRoute, ReceiverInv, ReceiverTypes
  <2> QED BY <1>3, <2>1 DEF SwitchRoute, ReceiverInv, DeliveriesHonest, Honest, OneInHand, InHand,
                            AnswersTrue
<1>4. ASSUME NEW r \in Delivery, NEW o \in Order, Receive(r, o) PROVE ReceiverInv'
  <2> DEFINE new == IF o \in Theirs THEN [step |-> "tell", order |-> o, id |-> NoId]
                    ELSE [step |-> "look", order |-> o]
  <2>1. /\ new \in Deliveries /\ new.step \in {"tell", "look"} /\ new.order = o
        /\ new.step = "tell" => new.id = NoId
    BY DEF Deliveries, AtTell, AtLook, NoId
  <2>2. delivery' = [delivery EXCEPT ![r] = new] /\ UNCHANGED <<cargos, subscribers, told, answered>>
    BY <1>4 DEF Receive, Becomes
  <2> HIDE DEF new
  <2>3. Honest(new, cargos', told')
    BY <2>1 DEF Honest
  <2>4. /\ overlapped \subseteq overlapped' /\ overlapped' \subseteq Order
        /\ new.order \notin OrdersInHand \/ new.order \in overlapped'
    BY <1>0, <1>4, <2>1 DEF Receive
  <2> QED BY <1>0, <1>99, <2>1, <2>2, <2>3, <2>4, DeliveryStep
<1>5. ASSUME NEW r \in Delivery, NEW o \in Order, Resolve(r, o) PROVE ReceiverInv'
  <2> DEFINE new == [step |-> "send", order |-> o, left |-> Addressed(o), targets |-> Addressed(o),
                     sent |-> {}, failed |-> {}]
  <2>1. Addressed(o) \subseteq Person
    BY ReceiverAssumption DEF Addressed, ReceiverInv, ReceiverTypes
  <2>2. /\ new \in Deliveries /\ new.step = "send" /\ new.left = new.targets /\ new.sent = {}
        /\ new.failed = {}
    BY <2>1 DEF Deliveries, AtSend
  <2>3. /\ delivery' = [delivery EXCEPT ![r] = new]
        /\ UNCHANGED <<cargos, subscribers, told, overlapped, answered>>
    BY <1>5 DEF Resolve, Becomes
  <2> HIDE DEF new
  <2>4. Honest(new, cargos', told')
    BY <2>2 DEF Honest
  <2> QED BY <1>0, <1>99, <2>2, <2>3, <2>4, DeliveryStep
<1>6. ASSUME NEW r \in Delivery, Look(r) PROVE ReceiverInv'
  <2>1. /\ delivery[r].step = "look" /\ delivery[r].order \in Order \ Theirs
        /\ UNCHANGED <<cargos, subscribers, told, overlapped, answered>>
    BY <1>0, <1>6 DEF Look, At, Deliveries, Unbegun, AtLook, AtTell, AtSend
  <2>2. CASE MadeOf(delivery[r].order) = {}
    <3> DEFINE new == [step |-> "make", order |-> delivery[r].order]
    <3>1. new \in Deliveries /\ new.step = "make" /\ new.order = delivery[r].order
      BY <2>1 DEF Deliveries, AtLook
    <3>2. delivery' = [delivery EXCEPT ![r] = new]
      BY <1>6, <2>2 DEF Look, Becomes
    <3>3. new.order \in Linked => \A i \in DOMAIN cargos : cargos[i] # new.order
      BY <2>2, <3>1 DEF MadeOf
    <3> HIDE DEF new
    <3>4. Honest(new, cargos', told') /\ InHand(r)
      BY <2>1, <3>1 DEF Honest, InHand
    <3> QED BY <1>0, <1>99, <2>1, <3>1, <3>2, <3>3, <3>4, DeliveryStep
  <2>3. CASE MadeOf(delivery[r].order) # {}
    <3>1. PICK i \in MadeOf(delivery[r].order) :
            delivery' = [delivery EXCEPT ![r] = [step |-> "tell", order |-> delivery[r].order,
                                                 id |-> i]]
      BY <1>6, <2>3 DEF Look, Becomes
    <3> DEFINE new == [step |-> "tell", order |-> delivery[r].order, id |-> i]
    <3>2. i \in DOMAIN cargos /\ cargos[i] = delivery[r].order /\ i \in Nat
      BY <1>0, <3>1 DEF MadeOf
    <3>3. new \in Deliveries /\ new.step = "tell" /\ new.order = delivery[r].order /\ new.id = i
      BY <2>1, <3>2 DEF Deliveries, AtTell
    <3>4. delivery' = [delivery EXCEPT ![r] = new]
      BY <3>1
    <3> HIDE DEF new
    <3>5. Honest(new, cargos', told')
      BY <2>1, <3>2, <3>3 DEF Honest
    <3> QED BY <1>0, <1>99, <2>1, <3>3, <3>4, <3>5, DeliveryStep
  <2> QED BY <2>2, <2>3
<1>7. ASSUME NEW r \in Delivery, Make(r) PROVE ReceiverInv'
  <2>1. /\ At(r, "make") /\ delivery[r].order \in Order \ Theirs
        /\ cargos' = Append(cargos, delivery[r].order)
        /\ delivery' = [delivery EXCEPT ![r] = [step |-> "tell", order |-> delivery[r].order,
                                                id |-> Len(cargos')]]
        /\ UNCHANGED <<subscribers, told, overlapped, answered>>
    BY <1>0, <1>7 DEF Make, Becomes, At, Deliveries, Unbegun, AtLook, AtTell, AtSend
  <2> DEFINE new == [step |-> "tell", order |-> delivery[r].order, id |-> Len(cargos) + 1]
  <2>2. Len(cargos') = Len(cargos) + 1 /\ cargos'[Len(cargos) + 1] = delivery[r].order
         /\ Len(cargos) + 1 \in DOMAIN cargos' /\ Len(cargos) + 1 \in Nat
    BY <1>0, <2>1
  <2>3. new \in Deliveries /\ new.step = "tell" /\ new.order = delivery[r].order
         /\ new.id = Len(cargos) + 1
    BY <2>1, <2>2 DEF Deliveries, AtTell
  <2>4. delivery' = [delivery EXCEPT ![r] = new]
    BY <2>1, <2>2
  <2> HIDE DEF new
  <2>5. Honest(new, cargos', told')
    BY <2>2, <2>3 DEF Honest
  <2> QED BY <1>0, <1>99, <2>1, <2>3, <2>4, <2>5, DeliveryStep
<1>8. ASSUME NEW r \in Delivery, MakeFails(r) PROVE ReceiverInv'
  <2>1. /\ delivery[r].order \in Order
        /\ UNCHANGED <<cargos, subscribers, told, overlapped, answered>>
    BY <1>0, <1>8 DEF MakeFails, Deliveries, Unbegun, AtLook, AtTell, AtSend
  <2> DEFINE new == [step |-> "tell", order |-> delivery[r].order, id |-> NoId]
  <2>2. new \in Deliveries /\ new.step = "tell" /\ new.id = NoId
    BY <2>1 DEF Deliveries, AtTell, NoId
  <2>3. delivery' = [delivery EXCEPT ![r] = new]
    BY <1>8 DEF MakeFails, Becomes
  <2> HIDE DEF new
  <2>4. Honest(new, cargos', told')
    BY <2>2 DEF Honest
  <2> QED BY <1>0, <1>99, <2>1, <2>2, <2>3, <2>4, DeliveryStep
<1>9. ASSUME NEW r \in Delivery, Report(r) PROVE ReceiverInv'
  <2>1. /\ delivery' = [delivery EXCEPT ![r] = Unsent]
        /\ UNCHANGED <<cargos, subscribers, told, overlapped, answered>>
    BY <1>9 DEF Report, Becomes
  <2> QED BY <1>0, <1>99, <2>1, DeliveryStep
<1>10. ASSUME NEW r \in Delivery, NEW taken \in {0, 1}, TellOwner(r, taken) PROVE ReceiverInv'
  <2> DEFINE o == delivery[r].order
             p == TellOf[o]
  <2>1. /\ delivery[r] \in AtTell
        /\ told' = [told EXCEPT ![p][o] = @ + taken] /\ told[p][o] + taken <= MostTold
        /\ answered' = [answered EXCEPT ![o] = delivery[r].id]
        /\ delivery' = [delivery EXCEPT ![r] = Unsent] /\ UNCHANGED <<cargos, subscribers, overlapped>>
    BY <1>0, <1>10 DEF TellOwner, Becomes, At, Deliveries, Unbegun, AtLook, AtTell, AtSend
  <2>2. o \in Order /\ p \in Person /\ delivery[r].id \in Nat /\ told[p][o] \in 0..MostTold
    BY <1>0, <2>1, ReceiverAssumption DEF AtTell
  <2>3. delivery[r].id # NoId => delivery[r].id \in DOMAIN cargos /\ cargos[delivery[r].id] = o
    BY <1>0, <2>1 DEF Honest, AtTell
  <2> HIDE DEF o, p
  <2>4. told' \in [Person -> [Order -> 0..MostTold]]
         /\ \A q \in Person, x \in Order : told'[q][x] >= told[q][x]
    BY <1>0, <2>1, <2>2
  <2>5. answered' \in [Order -> NoAnswer..Len(cargos)]
         /\ \A x \in Order : answered'[x] > NoId =>
              answered'[x] \in DOMAIN cargos /\ cargos[answered'[x]] = x
    <3>1. delivery[r].id \in NoAnswer..Len(cargos)
      BY <1>0, <2>2, <2>3 DEF NoAnswer, NoId
    <3>2. answered' \in [Order -> NoAnswer..Len(cargos)]
      BY <1>0, <2>1, <2>2, <3>1
    <3>3. \A x \in Order : answered'[x] = IF x = o THEN delivery[r].id ELSE answered[x]
      BY <1>0, <2>1, <2>2
    <3>4. ASSUME NEW x \in Order, answered'[x] > NoId
          PROVE  answered'[x] \in DOMAIN cargos /\ cargos[answered'[x]] = x
      <4>1. CASE x = o
        BY <2>3, <3>3, <3>4, <4>1 DEF NoId
      <4>2. CASE x # o
        BY <1>0, <3>3, <3>4, <4>2
      <4> QED BY <4>1, <4>2
    <3> QED BY <3>2, <3>4
  <2> QED BY <1>0, <1>99, <2>1, <2>4, <2>5, DeliveryStep
<1>11. ASSUME NEW r \in Delivery, NEW taken \in {0, 1}, Send(r, taken) PROVE ReceiverInv'
  <2> DEFINE d == delivery[r]
             p == Min(d.left)
             new == IF taken = 1 THEN [d EXCEPT !.left = @ \ {p}, !.sent = @ \cup {p}]
                    ELSE [d EXCEPT !.left = @ \ {p}, !.failed = @ \cup {p}]
  <2>1. /\ d \in AtSend /\ d.left # {}
        /\ told' = [told EXCEPT ![p][d.order] = @ + taken] /\ told[p][d.order] + taken <= MostTold
        /\ delivery' = [delivery EXCEPT ![r] = new]
        /\ UNCHANGED <<cargos, subscribers, overlapped, answered>>
    BY <1>0, <1>11 DEF Send, Becomes, At, Deliveries, Unbegun, AtLook, AtTell, AtSend
  <2>2. d.left \subseteq Person /\ d.order \in Order /\ Honest(d, cargos, told)
    BY <1>0, <2>1 DEF AtSend
  <2>3. p \in d.left
    <3>1. d.left \subseteq Nat
      BY <1>0, <2>2
    <3>2. PICK x \in d.left : \A y \in d.left : x <= y
      BY <2>1, <3>1, LeastOfNat
    <3> QED BY <3>2 DEF Min
  <2> HIDE DEF d, p
  <2>4. told' \in [Person -> [Order -> 0..MostTold]]
         /\ (\A q \in Person, x \in Order : told'[q][x] >= told[q][x])
         /\ (taken = 1 => told'[p][d.order] > 0)
    <3>1. told[p][d.order] \in 0..MostTold /\ p \in Person
      BY <1>0, <2>2, <2>3
    <3>2. told' \in [Person -> [Order -> 0..MostTold]]
      BY <1>0, <2>1, <2>2, <3>1
    <3>3. \A q \in Person, x \in Order :
            told'[q][x] = IF q = p /\ x = d.order THEN told[q][x] + taken ELSE told[q][x]
      BY <1>0, <2>1, <2>2, <3>1
    <3>4. \A q \in Person, x \in Order : told[q][x] \in Nat
      BY <1>0
    <3> QED BY <2>2, <3>1, <3>2, <3>3, <3>4
  <2>5. /\ new \in AtSend /\ new.order = d.order /\ new.left = d.left \ {p}
        /\ new.targets = d.targets
        /\ new.sent \cup new.failed = d.sent \cup d.failed \cup {p}
        /\ new.sent = d.sent \/ (taken = 1 /\ new.sent = d.sent \cup {p})
    <3>1. CASE taken = 1
      BY <2>1, <2>2, <2>3, <3>1 DEF AtSend
    <3>2. CASE taken = 0
      BY <2>1, <2>2, <2>3, <3>2 DEF AtSend
    <3> QED BY <3>1, <3>2
  <2> HIDE DEF new
  <2>6. new \in Deliveries /\ new.step = "send"
    BY <2>5 DEF Deliveries, AtSend
  <2>7. Honest(new, cargos', told')
    <3>1. d.left \subseteq d.targets /\ d.sent \cup d.failed = d.targets \ d.left
           /\ \A q \in d.sent : told[q][d.order] > 0
      BY <2>1, <2>2 DEF Honest, AtSend
    <3>2. \A q \in d.sent : told'[q][d.order] > 0
      <4>1. \A q \in d.sent : q \in Person
        BY <2>1 DEF AtSend
      <4>2. \A q \in Person : told[q][d.order] \in Nat /\ told'[q][d.order] \in Nat
        BY <1>0, <2>2, <2>4
      <4> QED BY <2>2, <2>4, <3>1, <4>1, <4>2
    <3>3. new.left \subseteq new.targets /\ new.sent \cup new.failed = new.targets \ new.left
      BY <2>3, <2>5, <3>1
    <3> QED BY <2>4, <2>5, <2>6, <3>2, <3>3 DEF Honest
  <2> QED BY <1>0, <2>1, <2>4, <2>6, <2>7, DeliveryStep
<1> QED BY <1>1, <1>2, <1>3, <1>4, <1>5, <1>6, <1>7, <1>8, <1>9, <1>10, <1>11 DEF ReceiverNext

\* A delivery at work on its order alone knows whether it has a cargo, and what it
\* answers is so (internal_sync_data).
THEOREM ReceiverInvariance == ReceiverSpec => []ReceiverInv
BY ReceiverInitInv, ReceiverNextInv, PTL DEF ReceiverSpec

-----------------------------------------------------------------------------
(* Answers of the models.                                                   *)

Calls ==
  [step : {"idle", "limit", "cache", "gemini", "openrouter", "again", "ollama", "read", "note"},
   who : Asker \cup {Service}, ask : Question, try : 0..MaxRetries, good : BOOLEAN]

\* A call that ended well has an answer to tell of, one that is to be counted
\* is a user's, and the service asks about the cargo only.
Founded(x, backed) ==
  /\ x.step = "note" /\ x.good => x.ask \in backed
  /\ x.step = "limit" => x.who \in Asker
  /\ x.who = Service => x.ask = CargoText

NotesFounded(log, backed) ==
  \A u \in Asker : (\E i \in DOMAIN log[u] : log[u][i]) => backed # {}

\* What the count let through since midnight UTC is what it counted, up to the
\* limit; before it, on a date that goes on, another limit at most.
Covered(count, let, late) ==
  \A u \in Asker : let[u] <= (IF late THEN FreeLimit ELSE 0)
                             + (IF count[u] < FreeLimit THEN count[u] ELSE FreeLimit)

AnswersInv ==
  /\ AnswersTypeOK /\ noted \in [Asker -> Seq(BOOLEAN)]
  /\ remembered \subseteq replied
  /\ \A c \in Call : Founded(call[c], replied)
  /\ judged = "given" => CargoText \in replied
  /\ NotesFounded(noted, replied)
  /\ Covered(used, served, split) /\ (split => ~HostOnUtc)

LEMMA AnswersFound == AnswersInv => AnswersAreFounded
<1> SUFFICES ASSUME AnswersInv PROVE AnswersAreFounded
  OBVIOUS
<1>1. ASSUME NEW u \in Asker PROVE served[u] <= (IF HostOnUtc THEN 1 ELSE 2) * FreeLimit
  <2>1. /\ served[u] \in Nat /\ used[u] \in Nat /\ FreeLimit \in Nat
        /\ served[u] <= (IF split THEN FreeLimit ELSE 0)
                        + (IF used[u] < FreeLimit THEN used[u] ELSE FreeLimit)
    BY AnswersAssumption DEF AnswersInv, AnswersTypeOK, Covered
  <2>2. CASE split
    BY <2>1, <2>2 DEF AnswersInv
  <2>3. CASE ~split
    BY <2>1, <2>3
  <2> QED BY <2>2, <2>3
<1> QED BY <1>1 DEF AnswersInv, AnswersAreFounded, Founded, NotesFounded

LEMMA AnswersInitInv == AnswersInit => AnswersInv
<1> SUFFICES ASSUME AnswersInit PROVE AnswersInv
  OBVIOUS
<1>1. Free \in Calls /\ Free.step = "idle" /\ Free.who = Service /\ Free.ask = CargoText
  BY AnswersAssumption DEF Free, Calls
<1>2. \A c \in Call : call[c] = Free
  BY DEF AnswersInit
<1>3. AnswersTypeOK /\ noted \in [Asker -> Seq(BOOLEAN)]
  <2>1. 0 \in 0..LastDate /\ 0 \in 0..MostAsked /\ HistoryMax >= 0
    BY AnswersAssumption
  <2>2. call \in [Call -> Calls]
    BY <1>1 DEF AnswersInit
  <2>3. \A u \in Asker : noted[u] \in Seq(BOOLEAN) /\ Len(noted[u]) <= HistoryMax
    BY <2>1 DEF AnswersInit
  <2>4. noted \in [Asker -> Seq(BOOLEAN)]
    BY DEF AnswersInit
  <2>5. /\ date \in 0..LastDate /\ split \in BOOLEAN /\ premium \subseteq Asker
        /\ used \in [Asker -> 0..MostAsked] /\ served \in [Asker -> Nat]
        /\ remembered \subseteq Question /\ replied \subseteq Question
        /\ judged \in {"none", "given", "unknown"}
    BY <2>1 DEF AnswersInit
  <2> QED BY <2>2, <2>3, <2>4, <2>5 DEF AnswersTypeOK, Calls
<1>4. \A c \in Call : Founded(call[c], replied)
  BY <1>1, <1>2 DEF Founded
<1>5. Covered(used, served, split)
  BY AnswersAssumption DEF AnswersInit, Covered
<1> QED BY <1>3, <1>4, <1>5 DEF AnswersInit, AnswersInv, NotesFounded

\* One call moves on.
LEMMA CallStep ==
  ASSUME AnswersInv, NEW c \in Call, NEW new \in Calls, Founded(new, replied'),
         call' = [call EXCEPT ![c] = new], replied \subseteq replied'
  PROVE  call' \in [Call -> Calls] /\ \A d \in Call : Founded(call'[d], replied')
<1>1. call \in [Call -> Calls]
  BY DEF AnswersInv, AnswersTypeOK, Calls
<1>2. \A d \in Call : Founded(call[d], replied')
  BY DEF AnswersInv, Founded
<1>3. \A d \in Call : call'[d] = IF d = c THEN new ELSE call[d]
  BY <1>1
<1> QED BY <1>1, <1>2, <1>3

\* A call moves on and nothing is kept, noted or counted.
LEMMA QuietStep ==
  ASSUME AnswersInv, NEW c \in Call, NEW new \in Calls, Founded(new, replied),
         call' = [call EXCEPT ![c] = new],
         UNCHANGED <<date, split, premium, used, remembered, noted, judged, replied, served>>
  PROVE  AnswersInv'
<1>1. call' \in [Call -> Calls] /\ \A d \in Call : Founded(call'[d], replied')
  BY CallStep
<1>2. AnswersTypeOK'
  BY <1>1 DEF AnswersInv, AnswersTypeOK, Calls
<1> QED BY <1>1, <1>2 DEF AnswersInv

\* The fields of a call in flight, and of the same a step later.
LEMMA CallFields ==
  ASSUME AnswersInv, NEW c \in Call
  PROVE  /\ call[c] \in Calls /\ Founded(call[c], replied)
         /\ Free \in Calls /\ Founded(Free, replied)
<1>1. Free \in Calls /\ Free.step = "idle" /\ Free.who = Service /\ Free.ask = CargoText
  BY AnswersAssumption DEF Free, Calls
<1> QED BY <1>1 DEF AnswersInv, AnswersTypeOK, Calls, Founded

Steps == {"idle", "limit", "cache", "gemini", "openrouter", "again", "ollama", "read", "note"}

LEMMA StepTo ==
  ASSUME AnswersInv, NEW c \in Call, NEW step \in Steps, step \notin {"note", "limit"}, Step(c, step)
  PROVE  /\ [call[c] EXCEPT !.step = step] \in Calls
         /\ Founded([call[c] EXCEPT !.step = step], replied)
         /\ call' = [call EXCEPT ![c] = [call[c] EXCEPT !.step = step]]
<1>1. call[c] \in Calls /\ Founded(call[c], replied)
  BY CallFields
<1> DEFINE new == [call[c] EXCEPT !.step = step]
<1>2. new \in Calls /\ new.step = step /\ new.who = call[c].who /\ new.ask = call[c].ask
  BY <1>1 DEF Calls, Steps
<1>3. call' = [call EXCEPT ![c] = new]
  BY DEF Step
<1> HIDE DEF new
<1>4. Founded(new, replied)
  BY <1>1, <1>2 DEF Founded
<1> QED BY <1>2, <1>3, <1>4 DEF new

LEMMA NoteTo ==
  ASSUME AnswersInv, NEW c \in Call, NEW fine \in BOOLEAN, NEW backed,
         fine => call[c].ask \in backed, replied \subseteq backed
  PROVE  /\ [call[c] EXCEPT !.step = "note", !.good = fine] \in Calls
         /\ Founded([call[c] EXCEPT !.step = "note", !.good = fine], backed)
<1>1. call[c] \in Calls /\ Founded(call[c], replied)
  BY CallFields
<1> DEFINE new == [call[c] EXCEPT !.step = "note", !.good = fine]
<1>2. /\ new \in Calls /\ new.step = "note" /\ new.who = call[c].who /\ new.ask = call[c].ask
      /\ new.good = fine
  BY <1>1 DEF Calls
<1> HIDE DEF new
<1>4. Founded(new, backed)
  BY <1>1, <1>2 DEF Founded
<1> QED BY <1>2, <1>4 DEF new

LEMMA AnswersNextInv == ASSUME AnswersInv, [AnswersNext]_answersVars PROVE AnswersInv'
<1>0. /\ FreeLimit \in Nat /\ MostAsked \in Nat /\ LastDate \in Nat /\ HistoryMax \in Nat
      /\ CargoText \in Question
  BY AnswersAssumption
<1>a. /\ \A u \in Asker : used[u] \in 0..MostAsked /\ served[u] \in Nat /\ noted[u] \in Seq(BOOLEAN)
      /\ used \in [Asker -> 0..MostAsked] /\ served \in [Asker -> Nat]
      /\ noted \in [Asker -> Seq(BOOLEAN)] /\ date \in 0..LastDate /\ split \in BOOLEAN
  BY DEF AnswersInv, AnswersTypeOK
<1>1. CASE NewDate
  <2>1. AnswersTypeOK'
    <3>1. /\ date' \in 0..LastDate /\ split' \in BOOLEAN
          /\ used' \in [Asker -> 0..MostAsked] /\ served' \in [Asker -> Nat]
      <4>1. date < LastDate /\ date' = date + 1 /\ split' = FALSE
            /\ used' = [u \in Asker |-> 0] /\ served' = [u \in Asker |-> 0]
        BY <1>1 DEF NewDate
      <4>2. date + 1 \in 0..LastDate /\ 0 \in 0..MostAsked
        BY <1>0, <1>a, <4>1
      <4> QED BY <4>1, <4>2
    <3> QED BY <1>1, <3>1 DEF NewDate, AnswersInv, AnswersTypeOK
  <2>2. Covered(used', served', split')
    BY <1>0, <1>1 DEF NewDate, Covered
  <2> QED BY <1>1, <2>1, <2>2 DEF NewDate, AnswersInv
<1>2. CASE MidnightUtc
  <2>1. AnswersTypeOK'
    BY <1>0, <1>2, <1>a DEF MidnightUtc, AnswersInv, AnswersTypeOK
  <2>2. Covered(used', served', split')
    <3> SUFFICES ASSUME NEW u \in Asker PROVE served[u] <= FreeLimit
      BY <1>0, <1>2 DEF MidnightUtc, Covered
    <3>1. served[u] <= 0 + (IF used[u] < FreeLimit THEN used[u] ELSE FreeLimit)
      BY <1>2 DEF MidnightUtc, AnswersInv, Covered
    <3> QED BY <1>0, <1>a, <3>1
  <2> QED BY <1>2, <2>1, <2>2 DEF MidnightUtc, AnswersInv
<1>3. ASSUME NEW u \in Asker, SwitchPlan(u) PROVE AnswersInv'
  <2>1. AnswersTypeOK'
    BY <1>3 DEF SwitchPlan, AnswersInv, AnswersTypeOK
  <2> QED BY <1>3, <2>1 DEF SwitchPlan, AnswersInv
<1>4. ASSUME NEW q \in Question, Forget(q) PROVE AnswersInv'
  <2>1. AnswersTypeOK'
    BY <1>4 DEF Forget, AnswersInv, AnswersTypeOK
  <2> QED BY <1>4, <2>1 DEF Forget, AnswersInv
<1>5. ASSUME NEW c \in Call, NEW u \in Asker, NEW q \in Question, Ask(c, u, q) PROVE AnswersInv'
  <2> DEFINE new == [Free EXCEPT !.who = u, !.ask = q,
                                 !.step = IF u \in premium THEN "cache" ELSE "limit"]
  <2>1. /\ new \in Calls /\ new.step \in {"cache", "limit"} /\ new.who = u
    <3>1. 0 \in 0..MaxRetries /\ CargoText \in Question
      BY AnswersAssumption
    <3> QED BY <3>1 DEF Free, Calls
  <2>2. call' = [call EXCEPT ![c] = new]
    BY <1>5 DEF Ask
  <2> HIDE DEF new
  <2>3. Founded(new, replied)
    BY <2>1, AnswersAssumption DEF Founded, Service
  <2> QED BY <1>5, <2>1, <2>2, <2>3, QuietStep DEF Ask
<1>6. ASSUME NEW c \in Call, AskForCargo(c) PROVE AnswersInv'
  <2> DEFINE new == [Free EXCEPT !.step = "cache"]
  <2>1. /\ new \in Calls /\ new.step = "cache" /\ new.who = Service /\ new.ask = CargoText
    BY CallFields DEF Free, Calls
  <2>2. call' = [call EXCEPT ![c] = new]
    BY <1>6 DEF AskForCargo
  <2> HIDE DEF new
  <2>3. Founded(new, replied)
    BY <2>1 DEF Founded
  <2> QED BY <1>6, <2>1, <2>2, <2>3, QuietStep DEF AskForCargo
<1>7. ASSUME NEW c \in Call, Count(c) PROVE AnswersInv'
  <2> DEFINE u == call[c].who
             more == [used EXCEPT ![u] = @ + 1]
             let == IF used'[u] <= FreeLimit THEN [served EXCEPT ![u] = @ + 1] ELSE served
  <2>1. /\ u \in Asker /\ call[c].step = "limit" /\ used[u] < MostAsked
        /\ used' = more /\ served' = let
        /\ UNCHANGED <<date, split, premium, remembered, noted, judged, replied>>
    BY <1>7, CallFields DEF Count, Founded, Within
  <2>2. used' \in [Asker -> 0..MostAsked] /\ used'[u] = used[u] + 1
    BY <1>0, <1>a, <2>1
  <2>3. served' \in [Asker -> Nat]
    BY <1>a, <2>1
  <2>4. \A v \in Asker : v # u => used'[v] = used[v] /\ served'[v] = served[v]
    BY <1>a, <2>1
  <2>5. served'[u] = IF used[u] + 1 <= FreeLimit THEN served[u] + 1 ELSE served[u]
    BY <1>a, <2>1, <2>2
  <2> HIDE DEF u, more, let
  <2>6. Covered(used', served', split')
    <3> SUFFICES ASSUME NEW v \in Asker
                 PROVE served'[v] <= (IF split THEN FreeLimit ELSE 0)
                             + (IF used'[v] < FreeLimit THEN used'[v] ELSE FreeLimit)
      BY <2>1 DEF Covered
    <3>1. served[v] <= (IF split THEN FreeLimit ELSE 0)
                             + (IF used[v] < FreeLimit THEN used[v] ELSE FreeLimit)
      BY DEF AnswersInv, Covered
    <3>2. CASE v = u
      <4>1. served[u] \in Nat /\ used[u] \in Nat
        BY <1>a, <2>1
      <4> QED BY <1>0, <2>2, <2>5, <3>1, <3>2, <4>1
    <3>3. CASE v # u
      BY <2>4, <3>1, <3>3
    <3> QED BY <3>2, <3>3
  <2>7. /\ call' \in [Call -> Calls] /\ \A d \in Call : Founded(call'[d], replied')
    <3>1. CASE Step(c, "cache")
      <4> DEFINE new == [call[c] EXCEPT !.step = "cache"]
      <4>1. new \in Calls /\ Founded(new, replied) /\ call' = [call EXCEPT ![c] = new]
        BY <3>1, StepTo DEF Steps
      <4> HIDE DEF new
      <4> QED BY <2>1, <4>1, CallStep
    <3>2. CASE call' = [call EXCEPT ![c] = Free]
      BY <2>1, <3>2, CallStep, CallFields
    <3> QED BY <1>7, <3>1, <3>2 DEF Count
  <2>8. AnswersTypeOK'
    BY <2>1, <2>2, <2>3, <2>7 DEF AnswersInv, AnswersTypeOK, Calls
  <2> QED BY <2>1, <2>6, <2>7, <2>8 DEF AnswersInv
<1>8. ASSUME NEW c \in Call, CountFails(c) PROVE AnswersInv'
  <2> DEFINE u == call[c].who
             new == [call[c] EXCEPT !.step = "cache"]
  <2>1. /\ u \in Asker /\ used[u] < MostAsked /\ Step(c, "cache")
        /\ used' = used \/ used' = [used EXCEPT ![u] = @ + 1]
        /\ UNCHANGED <<date, split, premium, remembered, noted, judged, replied, served>>
    BY <1>8, CallFields DEF CountFails, Founded
  <2>2. new \in Calls /\ Founded(new, replied) /\ call' = [call EXCEPT ![c] = new]
    BY <2>1, StepTo DEF Steps
  <2> HIDE DEF new
  <2>3. /\ call' \in [Call -> Calls] /\ \A d \in Call : Founded(call'[d], replied')
    BY <2>1, <2>2, CallStep
  <2>4. used' \in [Asker -> 0..MostAsked] /\ \A v \in Asker : used'[v] >= used[v]
    <3>1. used[u] + 1 \in 0..MostAsked /\ used[u] + 1 >= used[u]
      BY <1>0, <1>a, <2>1
    <3> HIDE DEF u
    <3>2. CASE used' = used
      BY <1>0, <1>a, <3>2
    <3>3. CASE used' = [used EXCEPT ![u] = used[u] + 1]
      <4>1. \A v \in Asker : used'[v] = IF v = u THEN used[u] + 1 ELSE used[v]
        BY <1>a, <3>3
      <4>2. used' \in [Asker -> 0..MostAsked]
        BY <1>a, <3>1, <3>3
      <4>3. \A v \in Asker : used[v] \in Nat
        BY <1>0, <1>a
      <4> QED BY <3>1, <4>1, <4>2, <4>3
    <3> QED BY <2>1, <3>2, <3>3
  <2>5. Covered(used', served', split')
    <3> SUFFICES ASSUME NEW v \in Asker
                 PROVE served[v] <= (IF split THEN FreeLimit ELSE 0)
                             + (IF used'[v] < FreeLimit THEN used'[v] ELSE FreeLimit)
      BY <2>1 DEF Covered
    <3>1. served[v] <= (IF split THEN FreeLimit ELSE 0)
                             + (IF used[v] < FreeLimit THEN used[v] ELSE FreeLimit)
      BY DEF AnswersInv, Covered
    <3>2. served[v] \in Nat /\ used[v] \in Nat /\ used'[v] \in Nat /\ used'[v] >= used[v]
      BY <1>a, <2>4
    <3> QED BY <1>0, <3>1, <3>2
  <2>6. AnswersTypeOK'
    BY <2>1, <2>3, <2>4 DEF AnswersInv, AnswersTypeOK, Calls
  <2> QED BY <2>1, <2>3, <2>5, <2>6 DEF AnswersInv
<1>9. ASSUME NEW c \in Call, LookUp(c) PROVE AnswersInv'
  <2>1. CASE Step(c, "gemini")
    <3> DEFINE new == [call[c] EXCEPT !.step = "gemini"]
    <3>1. new \in Calls /\ Founded(new, replied) /\ call' = [call EXCEPT ![c] = new]
      BY <2>1, StepTo DEF Steps
    <3> HIDE DEF new
    <3> QED BY <1>9, <3>1, QuietStep DEF LookUp
  <2>2. CASE /\ call[c].ask \in remembered
             /\ call' = [call EXCEPT ![c].step = "note", ![c].good = TRUE]
    <3> DEFINE new == [call[c] EXCEPT !.step = "note", !.good = TRUE]
    <3>1. new \in Calls /\ Founded(new, replied)
      BY <2>2, NoteTo, Zenon DEF AnswersInv
    <3>2. call' = [call EXCEPT ![c] = new]
      BY <2>2 DEF AnswersInv, AnswersTypeOK
    <3> HIDE DEF new
    <3> QED BY <1>9, <3>1, <3>2, QuietStep DEF LookUp
  <2> QED BY <1>9, <2>1, <2>2 DEF LookUp
\* A call that asks the next model, or ends without an answer.
<1>10. ASSUME NEW c \in Call, NEW step \in {"read", "openrouter", "ollama", "again"},
              Step(c, step),
              UNCHANGED <<date, split, premium, used, remembered, noted, judged, replied, served>>
       PROVE AnswersInv'
  <2> DEFINE new == [call[c] EXCEPT !.step = step]
  <2>1. new \in Calls /\ Founded(new, replied) /\ call' = [call EXCEPT ![c] = new]
    BY <1>10, StepTo, Zenon DEF Steps
  <2> HIDE DEF new
  <2> QED BY <1>10, <2>1, QuietStep
<1>11. ASSUME NEW c \in Call, Fails(c),
              UNCHANGED <<date, split, premium, used, remembered, noted, judged, replied, served>>
       PROVE AnswersInv'
  <2> DEFINE new == [call[c] EXCEPT !.step = "note", !.good = FALSE]
  <2>1. new \in Calls /\ Founded(new, replied)
    BY NoteTo, Zenon
  <2>2. call' = [call EXCEPT ![c] = new]
    BY <1>11 DEF AnswersInv, AnswersTypeOK, Fails
  <2> HIDE DEF new
  <2> QED BY <1>11, <2>1, <2>2, QuietStep
<1>12. ASSUME NEW c \in Call, Gemini(c) PROVE AnswersInv'
  BY <1>12, <1>10 DEF Gemini
<1>13. ASSUME NEW c \in Call, OpenRouter(c) PROVE AnswersInv'
  <2>1. CASE call[c].try < MaxRetries /\ call' = [call EXCEPT ![c].try = @ + 1]
    <3> DEFINE new == [call[c] EXCEPT !.try = @ + 1]
    <3>1. call[c] \in Calls /\ Founded(call[c], replied) /\ MaxRetries \in Nat
      BY CallFields, AnswersAssumption
    <3>2. call[c].step = "openrouter" /\ call[c].try + 1 \in 0..MaxRetries
      BY <1>13, <2>1, <3>1 DEF OpenRouter, Calls
    <3>3. /\ new \in Calls /\ new.step = "openrouter" /\ new.who = call[c].who
          /\ new.ask = call[c].ask
      BY <3>1, <3>2 DEF Calls
    <3>4. call' = [call EXCEPT ![c] = new]
      BY <2>1
    <3> HIDE DEF new
    <3>5. Founded(new, replied)
      BY <3>1, <3>3 DEF Founded
    <3> QED BY <1>13, <3>3, <3>4, <3>5, QuietStep DEF OpenRouter
  <2>2. CASE Fails(c)
    BY <1>11, <1>13, <2>2 DEF OpenRouter
  <2>3. CASE Step(c, "read")
    BY <1>10, <1>13, <2>3 DEF OpenRouter
  <2>4. CASE Step(c, "again")
    BY <1>10, <1>13, <2>4 DEF OpenRouter
  <2> QED BY <1>13, <2>1, <2>2, <2>3, <2>4 DEF OpenRouter
<1>14. ASSUME NEW c \in Call, GeminiAgain(c) PROVE AnswersInv'
  BY <1>14, <1>10 DEF GeminiAgain
<1>15. ASSUME NEW c \in Call, Ollama(c) PROVE AnswersInv'
  BY <1>15, <1>10, <1>11 DEF Ollama
<1>16. ASSUME NEW c \in Call, Read(c) PROVE AnswersInv'
  <2>1. PICK fine \in BOOLEAN :
          /\ remembered' = Kept(c, fine)
          /\ replied' = IF fine THEN replied \cup {call[c].ask} ELSE replied
          /\ call' = [call EXCEPT ![c].step = "note", ![c].good = fine]
    BY <1>16 DEF Read
  <2>2. UNCHANGED <<date, split, premium, used, noted, judged, served>>
    BY <1>16 DEF Read
  <2> DEFINE new == [call[c] EXCEPT !.step = "note", !.good = fine]
  <2>3. replied \subseteq replied' /\ remembered' \subseteq replied' /\ (fine => call[c].ask \in replied')
    BY <2>1 DEF Kept, AnswersInv
  <2>4. new \in Calls /\ Founded(new, replied')
    BY <2>3, NoteTo, Zenon
  <2>5. call' = [call EXCEPT ![c] = new]
    BY <2>1 DEF AnswersInv, AnswersTypeOK
  <2>6. call[c].ask \in Question
    BY CallFields DEF Calls
  <2>7. replied' \subseteq Question /\ remembered' \subseteq Question
    BY <2>1, <2>6 DEF Kept, AnswersInv, AnswersTypeOK
  <2> HIDE DEF new
  <2>8. call' \in [Call -> Calls] /\ \A d \in Call : Founded(call'[d], replied')
    BY <2>3, <2>4, <2>5, CallStep
  <2>9. AnswersTypeOK'
    BY <2>2, <2>7, <2>8 DEF AnswersInv, AnswersTypeOK, Calls
  <2>10. NotesFounded(noted', replied')
    BY <2>2, <2>3 DEF AnswersInv, NotesFounded
  <2> QED BY <2>2, <2>3, <2>8, <2>9, <2>10 DEF AnswersInv
<1>17. ASSUME NEW c \in Call, Note(c) PROVE AnswersInv'
  <2>0. /\ call[c] \in Calls /\ Founded(call[c], replied) /\ Free \in Calls /\ Founded(Free, replied)
        /\ call[c].step = "note" /\ call' = [call EXCEPT ![c] = Free]
        /\ UNCHANGED <<date, split, premium, used, remembered, replied, served>>
    BY <1>17, CallFields DEF Note
  <2>1. call' \in [Call -> Calls] /\ \A d \in Call : Founded(call'[d], replied')
    BY <2>0, CallStep
  <2>2. CASE call[c].who = Service
    <3>1. /\ judged' \in {judged, IF call[c].good THEN "given" ELSE "unknown"} /\ noted' = noted
      BY <1>17, <2>2 DEF Note
    <3>2. judged' = "given" => CargoText \in replied
      BY <2>0, <2>2, <3>1 DEF Founded, AnswersInv
    <3>3. AnswersTypeOK'
      BY <2>0, <2>1, <3>1 DEF AnswersInv, AnswersTypeOK, Calls
    <3> QED BY <2>0, <2>1, <3>1, <3>2, <3>3 DEF AnswersInv
  <2>3. CASE call[c].who # Service
    <3> DEFINE u == call[c].who
               good == call[c].good
               log == <<good>> \o noted[u]
               size == IF Len(log) < HistoryMax THEN Len(log) ELSE HistoryMax
               new == SubSeq(log, 1, size)
    <3>1. u \in Asker /\ good \in BOOLEAN
      BY <2>0, <2>3 DEF Calls
    <3>2. /\ noted' = noted \/ noted' = [noted EXCEPT ![u] = new]
          /\ judged' = judged
      BY <1>17, <2>3 DEF Note
    <3>3. good => replied # {}
      BY <2>0 DEF Founded
    <3> HIDE DEF good, u
    <3>4. /\ log \in Seq(BOOLEAN) /\ Len(log) \in Nat
          /\ \A i \in 1..Len(log) : log[i] => good \/ \E j \in DOMAIN noted[u] : noted[u][j]
      <4>1. noted[u] \in Seq(BOOLEAN)
        BY <1>a, <3>1
      <4> QED BY <3>1, <4>1
    <3> HIDE DEF log
    <3>5. size \in 0..Len(log) /\ size <= HistoryMax
      BY <1>0, <3>4
    <3> HIDE DEF size
    <3>6. /\ new \in Seq(BOOLEAN) /\ Len(new) = size
          /\ \A i \in 1..size : new[i] = log[i]
      BY <3>4, <3>5
    <3> HIDE DEF new
    <3>7. (\E i \in DOMAIN new : new[i]) => replied # {}
      <4> SUFFICES ASSUME NEW i \in DOMAIN new, new[i] PROVE replied # {}
        OBVIOUS
      <4>1. i \in 1..Len(log) /\ log[i]
        BY <3>4, <3>5, <3>6
      <4>2. good \/ \E j \in DOMAIN noted[u] : noted[u][j]
        BY <3>4, <4>1
      <4> QED BY <3>1, <3>3, <4>2 DEF AnswersInv, NotesFounded
    <3>8. /\ noted' \in [Asker -> Seq(BOOLEAN)]
          /\ \A v \in Asker : noted'[v] = noted[v] \/ (noted'[v] = new)
      BY <1>a, <3>2, <3>6
    <3>9. NotesFounded(noted', replied')
      BY <2>0, <3>7, <3>8 DEF AnswersInv, NotesFounded
    <3>10. AnswersTypeOK'
      <4>1. \A v \in Asker : noted'[v] \in Seq(BOOLEAN) /\ Len(noted'[v]) <= HistoryMax
        BY <3>5, <3>6, <3>8 DEF AnswersInv, AnswersTypeOK
      <4> QED BY <2>0, <2>1, <3>2, <4>1 DEF AnswersInv, AnswersTypeOK, Calls
    <3> QED BY <2>0, <2>1, <3>2, <3>8, <3>9, <3>10 DEF AnswersInv
  <2> QED BY <2>2, <2>3
<1>18. ASSUME NEW c \in Call, Lost(c) PROVE AnswersInv'
  BY <1>18, CallFields, QuietStep DEF Lost
<1>19. CASE UNCHANGED answersVars
  BY <1>19 DEF answersVars, AnswersInv, AnswersTypeOK
<1> QED BY <1>1, <1>2, <1>3, <1>4, <1>5, <1>6, <1>7, <1>8, <1>9, <1>12, <1>13, <1>14, <1>15, <1>16,
           <1>17, <1>18, <1>19 DEF AnswersNext

\* No error is kept as an answer and no count let more through than a date's two
\* limits (KimiAIService.chat, check_and_increment).
THEOREM AnswersInvariance == AnswersSpec => []AnswersInv
BY AnswersInitInv, AnswersNextInv, PTL DEF AnswersSpec

-----------------------------------------------------------------------------
(* The logist.                                                              *)

\* k[i] is what is left of the first i entries, for i up to n.
Leaves(k, n, s, a) ==
  k = [i \in 0..n |-> IF i = 0 THEN <<>>
                      ELSE IF s[i] = a THEN k[i - 1] ELSE Append(k[i - 1], s[i])]

LEMMA LeavesExist ==
  ASSUME NEW s, NEW a, NEW n \in Nat
  PROVE  \E k : Leaves(k, n, s, a)
<1> DEFINE Bad == {m \in Nat : ~ \E k : Leaves(k, m, s, a)}
<1>1. SUFFICES ASSUME Bad # {} PROVE FALSE
  OBVIOUS
<1>2. PICK m \in Bad : \A y \in Bad : m <= y
  <2>1. Bad \subseteq Nat
    OBVIOUS
  <2> HIDE DEF Bad
  <2> QED BY <1>1, <2>1, LeastOfNat
<1>3. CASE m = 0
  <2>1. Leaves([i \in 0..0 |-> <<>>], 0, s, a)
    BY DEF Leaves
  <2> QED BY <1>2, <1>3, <2>1
<1>4. CASE m # 0
  <2>1. m - 1 \in Nat /\ m - 1 \notin Bad
    BY <1>2, <1>4
  <2>2. PICK k : Leaves(k, m - 1, s, a)
    BY <2>1
  <2> DEFINE entry == IF s[m] = a THEN k[m - 1] ELSE Append(k[m - 1], s[m])
             h == [i \in 0..m |-> IF i = m THEN entry ELSE k[i]]
  <2> HIDE DEF entry
  <2>3. m \in Nat /\ \A i \in 0..(m - 1) :
            k[i] = IF i = 0 THEN <<>>
                   ELSE IF s[i] = a THEN k[i - 1] ELSE Append(k[i - 1], s[i])
    BY <1>2, <2>2 DEF Leaves
  <2>4. ASSUME NEW i \in 0..m
        PROVE h[i] = IF i = 0 THEN <<>>
                     ELSE IF s[i] = a THEN h[i - 1] ELSE Append(h[i - 1], s[i])
    <3>1. CASE i = m
      <4>1. h[m] = entry /\ m - 1 \in 0..m /\ m - 1 # m
        BY <1>4, <2>3
      <4>2. h[m - 1] = k[m - 1]
        BY <4>1
      <4> QED BY <1>4, <3>1, <4>1, <4>2 DEF entry
    <3>2. CASE i # m
      <4>1. i \in 0..(m - 1) /\ h[i] = k[i]
        BY <2>3, <3>2
      <4>2. i # 0 => i - 1 \in 0..m /\ i - 1 # m
        BY <2>3, <4>1
      <4>3. i # 0 => h[i - 1] = k[i - 1]
        BY <4>2
      <4> HIDE DEF h
      <4> QED BY <2>3, <4>1, <4>3
    <3> QED BY <3>1, <3>2
  <2>5. h = [i \in 0..m |-> h[i]]
    OBVIOUS
  <2> HIDE DEF h
  <2>6. Leaves(h, m, s, a)
    BY <2>4, <2>5 DEF Leaves
  <2> QED BY <1>2, <2>6
<1> QED BY <1>3, <1>4

\* What is left is of the list, and all of it but a.
LEMMA WithoutKeeps ==
  ASSUME NEW S, NEW s \in Seq(S), NEW a
  PROVE  /\ Without(s, a) \in Seq(S)
         /\ \A j \in 1..Len(s) : s[j] # a =>
              \E i \in 1..Len(Without(s, a)) : Without(s, a)[i] = s[j]
<1> DEFINE k == CHOOSE g : Leaves(g, Len(s), s, a)
<1>0. Len(s) \in Nat
  OBVIOUS
<1>1. Leaves(k, Len(s), s, a)
  BY <1>0, LeavesExist
<1>2. Without(s, a) = k[Len(s)]
  BY DEF Without, Leaves
<1> HIDE DEF k
<1> DEFINE Right(i) == /\ k[i] \in Seq(S)
                       /\ \A j \in 1..i : s[j] # a => \E x \in 1..Len(k[i]) : k[i][x] = s[j]
           Bad == {i \in 0..Len(s) : ~Right(i)}
<1>3. Bad = {}
  <2>1. SUFFICES ASSUME Bad # {} PROVE FALSE
    OBVIOUS
  <2>2. PICK i \in Bad : \A y \in Bad : i <= y
    <3>1. Bad \subseteq Nat
      BY <1>0
    <3> HIDE DEF Bad
    <3> QED BY <2>1, <3>1, LeastOfNat
  <2>3. /\ i \in 0..Len(s)
        /\ k[i] = IF i = 0 THEN <<>>
                  ELSE IF s[i] = a THEN k[i - 1] ELSE Append(k[i - 1], s[i])
    BY <1>1, <2>2 DEF Leaves
  <2>4. CASE i = 0
    <3>1. k[i] = <<>> /\ <<>> \in Seq(S) /\ 1..i = {}
      BY <2>3, <2>4
    <3>2. Right(i)
      BY <3>1
    <3> QED BY <2>2, <3>2
  <2>5. CASE i # 0
    <3>1. i - 1 \in 0..Len(s) /\ i - 1 \notin Bad /\ i \in 1..Len(s)
      BY <1>0, <2>2, <2>3, <2>5
    <3>2. Right(i - 1) /\ s[i] \in S
      BY <3>1
    <3>3. CASE s[i] = a
      <4>1. k[i] = k[i - 1]
        BY <2>3, <2>5, <3>3
      <4>2. \A j \in 1..i : s[j] # a => j \in 1..(i - 1)
        BY <3>1, <3>3
      <4>3. Right(i)
        BY <3>2, <4>1, <4>2
      <4> QED BY <2>2, <4>3
    <3>4. CASE s[i] # a
      <4> DEFINE l == k[i - 1]
      <4>1. k[i] = Append(l, s[i]) /\ l \in Seq(S)
        BY <2>3, <2>5, <3>2, <3>4
      <4>2. \A j \in 1..(i - 1) : s[j] # a => \E x \in 1..Len(l) : l[x] = s[j]
        BY <3>2
      <4> HIDE DEF l
      <4>3. /\ k[i] \in Seq(S) /\ Len(k[i]) = Len(l) + 1 /\ Len(l) \in Nat
            /\ k[i][Len(l) + 1] = s[i] /\ \A x \in 1..Len(l) : k[i][x] = l[x]
        BY <3>2, <4>1
      <4>4. ASSUME NEW j \in 1..i, s[j] # a PROVE \E x \in 1..Len(k[i]) : k[i][x] = s[j]
        <5>1. CASE j = i
          BY <4>3, <5>1
        <5>2. CASE j # i
          <6>1. j \in 1..(i - 1)
            BY <3>1, <5>2
          <6>2. PICK x \in 1..Len(l) : l[x] = s[j]
            BY <4>2, <4>4, <6>1
          <6>3. x \in 1..Len(k[i]) /\ k[i][x] = s[j]
            BY <4>3, <6>2
          <6> QED BY <6>3
        <5> QED BY <5>1, <5>2
      <4>5. Right(i)
        BY <4>3, <4>4
      <4> QED BY <2>2, <4>5
    <3> QED BY <3>3, <3>4
  <2> QED BY <2>4, <2>5
<1>4. Right(Len(s))
  BY <1>0, <1>3
<1> QED BY <1>2, <1>4

-----------------------------------------------------------------------------

UnderWay ==
  [step : {"load", "save", "cache", "status", "place", "model", "rate"}, kind : {"ask", "intent"},
   who : Chatter, text : Message, seen : Seq(Message)]
Chats == {Quiet} \cup UnderWay

\* x has read the session, and is to store what it makes of it.
HasRead(x) == x.step \notin {"idle", "load"}
ToStore(x) == x.step = "save" \/ x.kind = "intent"

\* A session that was not mixed is as it is due, one request asked most has read
\* it, and what that will store goes on from what is there.
SessionsHold(now, owed, apart, asked) ==
  \A u \in Chatter \ apart :
    /\ now[u] = owed[u]
    /\ \A r \in Chat : asked[r].who = u /\ HasRead(asked[r]) =>
         /\ \A s \in Chat : asked[s].who = u /\ HasRead(asked[s]) => s = r
         /\ ToStore(asked[r]) => asked[r].seen = now[u]

AtModel(asked) == {r \in Chat : asked[r].step = "model"}

WaitForReview == \A a \in down \ cleared : \E i \in 1..Len(pending) : pending[i] = a

LogistInv ==
  /\ chats \in [Chat -> Chats] /\ pending \in Seq(Answer)
  /\ context \in [Chatter -> Seq(Message)] /\ due \in [Chatter -> Seq(Message)]
  /\ SessionsHold(context, due, mixed, chats)
  /\ kept \subseteq uttered
  /\ places = Cardinality(AtModel(chats))
  /\ WaitForReview

LEMMA LogistHolds == LogistInv => LogistKeepsTrack
<1> SUFFICES ASSUME LogistInv PROVE LogistKeepsTrack
  OBVIOUS
<1>1. \A u \in Chatter : u \notin mixed => context[u] = due[u]
  BY DEF LogistInv, SessionsHold
<1>2. \A a \in down \ cleared : \E i \in DOMAIN pending : pending[i] = a
  BY DEF LogistInv, WaitForReview
<1> QED BY <1>1, <1>2 DEF LogistInv, LogistKeepsTrack, AtModel

LEMMA QuietFields == /\ Quiet.step = "idle" /\ ~HasRead(Quiet) /\ Quiet \notin UnderWay
BY DEF Quiet, HasRead, UnderWay

LEMMA LogistInitInv == LogistInit => LogistInv
<1> SUFFICES ASSUME LogistInit PROVE LogistInv
  OBVIOUS
<1>1. \A r \in Chat : chats[r] = Quiet
  BY DEF LogistInit
<1>2. SessionsHold(context, due, mixed, chats)
  BY <1>1, QuietFields DEF LogistInit, SessionsHold
<1>3. AtModel(chats) = {}
  BY <1>1, QuietFields DEF AtModel
<1>4. places = Cardinality(AtModel(chats))
  BY <1>3, FS_EmptySet DEF LogistInit
<1>5. chats \in [Chat -> Chats]
  BY DEF LogistInit, Chats
<1> QED BY <1>2, <1>4, <1>5 DEF LogistInit, LogistInv, WaitForReview

\* The places that requests take when one of them moves on.
LEMMA PlacesAfter ==
  ASSUME LogistInv, NEW r \in Chat, NEW new \in Chats, chats' = [chats EXCEPT ![r] = new]
  PROVE  /\ places \in Nat
         /\ chats' \in [Chat -> Chats]
         /\ Cardinality(AtModel(chats')) =
              places + (IF new.step = "model" THEN 1 ELSE 0)
                     - (IF chats[r].step = "model" THEN 1 ELSE 0)
<1>1. chats \in [Chat -> Chats] /\ IsFiniteSet(Chat) /\ places = Cardinality(AtModel(chats))
  BY LogistAssumption DEF LogistInv
<1>2. IsFiniteSet(AtModel(chats)) /\ places \in Nat
  <2>1. AtModel(chats) \subseteq Chat
    BY DEF AtModel
  <2> QED BY <1>1, <2>1, FS_Subset, FS_CardinalityType
<1>3. \A s \in Chat : chats'[s] = IF s = r THEN new ELSE chats[s]
  BY <1>1
<1>4. chats' \in [Chat -> Chats]
  BY <1>1
<1>5. r \in AtModel(chats) <=> chats[r].step = "model"
  BY DEF AtModel
<1>6. CASE new.step = "model"
  <2>1. AtModel(chats') = AtModel(chats) \cup {r}
    BY <1>3, <1>6 DEF AtModel
  <2>2. Cardinality(AtModel(chats')) = IF r \in AtModel(chats) THEN places ELSE places + 1
    BY <1>1, <1>2, <2>1, FS_AddElement
  <2> QED BY <1>2, <1>4, <1>5, <1>6, <2>2
<1>7. CASE new.step # "model"
  <2>1. AtModel(chats') = AtModel(chats) \ {r}
    BY <1>3, <1>7 DEF AtModel
  <2>2. Cardinality(AtModel(chats')) = IF r \in AtModel(chats) THEN places - 1 ELSE places
    BY <1>1, <1>2, <2>1, FS_RemoveElement
  <2> QED BY <1>2, <1>4, <1>5, <1>7, <2>2
<1> QED BY <1>6, <1>7

\* A request moves on, the session left alone: it has not read it, or had done
\* so before and will store no more than it would have.
LEMMA SessionStep ==
  ASSUME LogistInv, NEW r \in Chat, NEW new \in Chats, chats' = [chats EXCEPT ![r] = new],
         \/ ~HasRead(new)
         \/ /\ HasRead(chats[r]) /\ new.who = chats[r].who /\ new.seen = chats[r].seen
            /\ ToStore(new) => ToStore(chats[r])
  PROVE  SessionsHold(context, due, mixed, chats')
<1>1. \A s \in Chat : chats'[s] = IF s = r THEN new ELSE chats[s]
  BY DEF LogistInv
<1>2. SessionsHold(context, due, mixed, chats)
  BY DEF LogistInv
<1>3. ASSUME NEW u \in Chatter \ mixed, NEW s \in Chat, chats'[s].who = u, HasRead(chats'[s])
      PROVE  /\ chats[s].who = u /\ HasRead(chats[s])
             /\ ToStore(chats'[s]) => ToStore(chats[s]) /\ chats[s].seen = chats'[s].seen
  <2>1. CASE s = r
    BY <1>1, <1>3, <2>1
  <2>2. CASE s # r
    BY <1>1, <1>3, <2>2
  <2> QED BY <2>1, <2>2
<1>4. ASSUME NEW u \in Chatter \ mixed, NEW s \in Chat, chats'[s].who = u, HasRead(chats'[s])
      PROVE  /\ \A x \in Chat : chats'[x].who = u /\ HasRead(chats'[x]) => x = s
             /\ ToStore(chats'[s]) => chats'[s].seen = context[u]
  BY <1>2, <1>3, <1>4 DEF SessionsHold
<1> QED BY <1>2, <1>4 DEF SessionsHold

\* A request that has read the session goes on.
LEMMA MovesOn ==
  ASSUME LogistInv, NEW r \in Chat, HasRead(chats[r]),
         NEW step \in {"cache", "status", "place", "model", "rate", "save"}, Goes(r, step),
         step = "save" => chats[r].kind = "intent"
  PROVE  /\ SessionsHold(context, due, mixed, chats')
         /\ chats' \in [Chat -> Chats] /\ places \in Nat
         /\ Cardinality(AtModel(chats')) =
              places + (IF step = "model" THEN 1 ELSE 0)
                     - (IF chats[r].step = "model" THEN 1 ELSE 0)
<1> DEFINE new == [chats[r] EXCEPT !.step = step]
<1>1. chats[r] \in UnderWay /\ chats \in [Chat -> Chats]
  BY QuietFields DEF LogistInv, Chats
<1>2. /\ new \in UnderWay /\ new.step = step /\ new.kind = chats[r].kind
      /\ new.who = chats[r].who /\ new.seen = chats[r].seen
  BY <1>1 DEF UnderWay
<1>3. chats' = [chats EXCEPT ![r] = new]
  BY <1>1 DEF Goes
<1> HIDE DEF new
<1>4. SessionsHold(context, due, mixed, chats')
  BY <1>2, <1>3, SessionStep DEF Chats, ToStore
<1> QED BY <1>2, <1>3, <1>4, PlacesAfter DEF Chats

\* A request ends.
LEMMA Ends ==
  ASSUME LogistInv, NEW r \in Chat, chats' = [chats EXCEPT ![r] = Quiet]
  PROVE  /\ SessionsHold(context, due, mixed, chats')
         /\ chats' \in [Chat -> Chats] /\ places \in Nat
         /\ Cardinality(AtModel(chats')) = places - (IF chats[r].step = "model" THEN 1 ELSE 0)
<1>1. Quiet \in Chats /\ Quiet.step # "model" /\ ~HasRead(Quiet)
  BY QuietFields DEF Chats
<1>2. SessionsHold(context, due, mixed, chats')
  BY <1>1, SessionStep
<1>3. Cardinality(AtModel(chats')) = places + 0 - (IF chats[r].step = "model" THEN 1 ELSE 0)
  BY <1>1, PlacesAfter
<1>4. chats' \in [Chat -> Chats] /\ places \in Nat
  BY <1>1, PlacesAfter
<1> QED BY <1>2, <1>3, <1>4

LEMMA EndsWithoutAnswer ==
  ASSUME LogistInv, NEW r \in Chat, HasRead(chats[r]), WithoutAnswer(r)
  PROVE  /\ SessionsHold(context, due, mixed, chats')
         /\ chats' \in [Chat -> Chats] /\ places \in Nat
         /\ Cardinality(AtModel(chats')) = places - (IF chats[r].step = "model" THEN 1 ELSE 0)
<1>1. CASE chats[r].kind = "ask"
  <2>1. Goes(r, "rate")
    BY <1>1 DEF WithoutAnswer, Goes
  <2>2. /\ SessionsHold(context, due, mixed, chats')
        /\ chats' \in [Chat -> Chats] /\ places \in Nat
        /\ Cardinality(AtModel(chats')) = places + 0 - (IF chats[r].step = "model" THEN 1 ELSE 0)
    BY <2>1, MovesOn
  <2> QED BY <2>2
<1>2. CASE chats[r].kind # "ask"
  BY <1>2, Ends DEF WithoutAnswer
<1> QED BY <1>1, <1>2

\* The last messages, said one way and the other.
LEMMA NewestIsLast ==
  ASSUME NEW S, NEW s \in Seq(S)
  PROVE  /\ Newest(s) = SubSeq(s, IF Len(s) > CtxMessages THEN Len(s) - CtxMessages + 1 ELSE 1, Len(s))
         /\ Newest(s) \in Seq(S)
<1>1. CtxMessages \in Nat \ {0} /\ Len(s) \in Nat
  BY LogistAssumption
<1>2. CASE Len(s) > CtxMessages
  <2>1. Newest(s) = SubSeq(s, Len(s) - CtxMessages + 1, Len(s))
    BY <1>1, <1>2 DEF Newest
  <2>2. Len(s) - CtxMessages + 1 \in 1..Len(s)
    BY <1>1, <1>2
  <2> QED BY <1>1, <1>2, <2>1, <2>2
<1>3. CASE ~(Len(s) > CtxMessages)
  <2>1. Newest(s) = s
    BY <1>1, <1>3 DEF Newest
  <2>2. SubSeq(s, 1, Len(s)) = s
    OBVIOUS
  <2> QED BY <1>3, <2>1, <2>2
<1> QED BY <1>2, <1>3

LEMMA LogistNextInv == ASSUME LogistInv, [LogistNext]_logistVars PROVE LogistInv'
<1>0. /\ chats \in [Chat -> Chats] /\ pending \in Seq(Answer)
      /\ context \in [Chatter -> Seq(Message)] /\ due \in [Chatter -> Seq(Message)]
      /\ SessionsHold(context, due, mixed, chats) /\ kept \subseteq uttered
      /\ places = Cardinality(AtModel(chats)) /\ WaitForReview
  BY DEF LogistInv
\* The conjuncts that a step of one group of variables cannot disturb.
<1>a. ASSUME UNCHANGED Session, UNCHANGED Review, chats' \in [Chat -> Chats],
             SessionsHold(context, due, mixed, chats'), kept' \subseteq uttered',
             places' = Cardinality(AtModel(chats'))
      PROVE  LogistInv'
  BY <1>0, <1>a DEF LogistInv, Session, Review, WaitForReview
<1>b. ASSUME UNCHANGED Session, UNCHANGED Model, UNCHANGED chats, WaitForReview', pending' \in Seq(Answer)
      PROVE  LogistInv'
  BY <1>0, <1>b DEF LogistInv, Session, Model
<1>1. ASSUME NEW r \in Chat, NEW u \in Chatter, NEW m \in Message, NEW kind \in {"ask", "intent"},
             AskLogist(r, u, m, kind)
      PROVE  LogistInv'
  <2> DEFINE new == [step |-> "load", kind |-> kind, who |-> u, text |-> m, seen |-> <<>>]
  <2>1. /\ chats' = [chats EXCEPT ![r] = new] /\ chats[r] = Quiet
        /\ UNCHANGED Session /\ UNCHANGED Model /\ UNCHANGED Review
    BY <1>1 DEF AskLogist
  <2>2. new \in Chats /\ new.step = "load"
    BY DEF Chats, UnderWay
  <2> HIDE DEF new
  <2>3. SessionsHold(context, due, mixed, chats')
    BY <2>1, <2>2, SessionStep DEF HasRead
  <2>4. chats[r].step # "model" /\ new.step # "model"
    BY <2>1, <2>2, QuietFields
  <2>5. Cardinality(AtModel(chats')) = places + 0 - 0 /\ places \in Nat /\ chats' \in [Chat -> Chats]
    BY <2>1, <2>2, <2>4, PlacesAfter
  <2> QED BY <1>0, <1>a, <2>1, <2>3, <2>5 DEF Model
<1>2. ASSUME NEW r \in Chat, Load(r) PROVE LogistInv'
  <2> DEFINE u == chats[r].who
  <2>1. PICK works \in BOOLEAN :
       /\ chats' = [chats EXCEPT ![r].seen = IF works THEN context[u] ELSE <<>>,
            ![r].step = IF chats[r].kind = "ask" THEN "save" ELSE "status"]
       /\ mixed' = IF works /\ Overlapping(r) = {} THEN mixed ELSE mixed \cup {u}
    BY <1>2 DEF Load
  <2> DEFINE read == IF works THEN context[u] ELSE <<>>
             next == IF chats[r].kind = "ask" THEN "save" ELSE "status"
             new == [chats[r] EXCEPT !.seen = read, !.step = next]
  <2>2. chats[r] \in UnderWay /\ chats[r].step = "load" /\ u \in Chatter
    BY <1>0, <1>2, QuietFields DEF Load, Chats, UnderWay
  <2>3. read \in Seq(Message) /\ next \in {"save", "status"}
    BY <1>0, <2>2
  <2>4. chats' = [chats EXCEPT ![r] = new]
    BY <1>0, <2>1
  <2>5. UNCHANGED <<context, due>> /\ UNCHANGED Model /\ UNCHANGED Review
    BY <1>2 DEF Load
  <2> HIDE DEF read, next
  <2>6. new \in UnderWay /\ new.step = next /\ new.who = u /\ new.seen = read
    BY <2>2, <2>3 DEF UnderWay
  <2> HIDE DEF new
  <2>7. Cardinality(AtModel(chats')) = places + 0 - 0 /\ places \in Nat /\ chats' \in [Chat -> Chats]
    BY <2>2, <2>3, <2>4, <2>6, PlacesAfter DEF Chats
  <2>8. SessionsHold(context', due', mixed', chats')
    <3> SUFFICES ASSUME NEW v \in Chatter \ mixed'
                 PROVE  /\ context[v] = due[v]
                        /\ \A x \in Chat : chats'[x].who = v /\ HasRead(chats'[x]) =>
                             /\ \A s \in Chat : chats'[s].who = v /\ HasRead(chats'[s]) => s = x
                             /\ ToStore(chats'[x]) => chats'[x].seen = context[v]
      BY <2>5 DEF SessionsHold
    <3>1. v \in Chatter \ mixed
      BY <2>1
    <3>2. \A s \in Chat : chats'[s] = IF s = r THEN new ELSE chats[s]
      BY <1>0, <2>4
    <3>3. CASE v # u
      <4>1. \A s \in Chat : chats'[s].who = v => s # r /\ chats'[s] = chats[s]
        BY <2>6, <3>2, <3>3
      <4> QED BY <1>0, <3>1, <4>1 DEF SessionsHold
    <3>4. CASE v = u
      <4>1. works /\ Overlapping(r) = {}
        BY <2>1, <3>4
      <4>2. \A s \in Chat : s # r => chats[s] = Quiet \/ chats[s].who # u
        BY <4>1 DEF Overlapping
      <4>3. \A s \in Chat : chats'[s].who = v /\ HasRead(chats'[s]) => s = r
        BY <3>2, <3>4, <4>2, QuietFields
      <4>4. chats'[r].seen = context[v]
        BY <2>6, <3>2, <3>4, <4>1 DEF read
      <4> QED BY <1>0, <3>1, <4>3, <4>4 DEF SessionsHold
    <3> QED BY <3>3, <3>4
  <2> QED BY <1>0, <2>5, <2>7, <2>8 DEF LogistInv, Model, Review, WaitForReview
<1>3. ASSUME NEW r \in Chat, SaveContext(r) PROVE LogistInv'
  <2> DEFINE u == chats[r].who
             text == chats[r].text
             said == due[u] \o <<text>>
  <2>1. chats[r] \in UnderWay /\ chats[r].step = "save" /\ HasRead(chats[r]) /\ ToStore(chats[r])
    BY <1>0, <1>3, QuietFields DEF SaveContext, Chats, HasRead, ToStore
  <2>2. u \in Chatter /\ text \in Message /\ chats[r].seen \in Seq(Message)
    BY <2>1 DEF UnderWay
  <2>3. UNCHANGED mixed /\ UNCHANGED Model /\ UNCHANGED Review
    BY <1>3 DEF SaveContext
  <2>4. said \in Seq(Message) /\ chats[r].seen \o <<text>> \in Seq(Message)
    BY <1>0, <2>2
  <2> DEFINE now == Newest(chats[r].seen \o <<text>>)
             owed == Newest(said)
  <2>5. \/ context' = [context EXCEPT ![u] = now] /\ due' = [due EXCEPT ![u] = owed]
        \/ UNCHANGED <<context, due>>
    <3>1. owed = SubSeq(said, IF Len(said) > CtxMessages THEN Len(said) - CtxMessages + 1 ELSE 1,
                        Len(said))
      BY <2>4, NewestIsLast
    <3> HIDE DEF owed
    <3> QED BY <1>3, <3>1, Zenon DEF SaveContext
  <2>6. now \in Seq(Message) /\ owed \in Seq(Message)
    BY <2>4, NewestIsLast
  <2> DEFINE new == IF chats[r].kind = "ask" THEN [chats[r] EXCEPT !.step = "cache"] ELSE Quiet
  <2>7. chats' = [chats EXCEPT ![r] = new]
    BY <1>3 DEF SaveContext
  <2>8. /\ new \in Chats /\ new.step # "model"
        /\ HasRead(new) => new.who = u /\ ~ToStore(new)
    <3>1. CASE chats[r].kind = "ask"
      <4>1. /\ new \in UnderWay /\ new.step = "cache" /\ new.kind = "ask" /\ new.who = u
        BY <2>1, <3>1 DEF UnderWay
      <4> HIDE DEF new
      <4> QED BY <4>1 DEF Chats, ToStore
    <3>2. CASE chats[r].kind # "ask"
      <4>1. new = Quiet
        BY <3>2
      <4> HIDE DEF new
      <4> QED BY <4>1, QuietFields DEF Chats
    <3> QED BY <3>1, <3>2
  <2> HIDE DEF new
  <2>9. Cardinality(AtModel(chats')) = places + 0 - 0 /\ places \in Nat /\ chats' \in [Chat -> Chats]
    BY <2>1, <2>7, <2>8, PlacesAfter
  <2>10. /\ context' \in [Chatter -> Seq(Message)] /\ due' \in [Chatter -> Seq(Message)]
         /\ \A v \in Chatter : v # u => context'[v] = context[v] /\ due'[v] = due[v]
         /\ \/ context'[u] = now /\ due'[u] = owed
            \/ context'[u] = context[u] /\ due'[u] = due[u]
    <3> HIDE DEF now, owed
    <3> QED BY <1>0, <2>2, <2>5, <2>6
  <2>11. SessionsHold(context', due', mixed', chats')
    <3> SUFFICES ASSUME NEW v \in Chatter \ mixed
                 PROVE  /\ context'[v] = due'[v]
                        /\ \A x \in Chat : chats'[x].who = v /\ HasRead(chats'[x]) =>
                             /\ \A s \in Chat : chats'[s].who = v /\ HasRead(chats'[s]) => s = x
                             /\ ToStore(chats'[x]) => chats'[x].seen = context'[v]
      BY <2>3 DEF SessionsHold
    <3>1. \A s \in Chat : chats'[s] = IF s = r THEN new ELSE chats[s]
      BY <1>0, <2>7
    <3>2. CASE v # u
      <4>1. \A s \in Chat : chats'[s].who = v /\ HasRead(chats'[s]) => s # r /\ chats'[s] = chats[s]
        BY <2>8, <3>1, <3>2
      <4> QED BY <1>0, <2>10, <3>2, <4>1 DEF SessionsHold
    <3>3. CASE v = u
      <4>1. /\ context[u] = due[u] /\ chats[r].seen = context[u]
            /\ \A s \in Chat : chats[s].who = u /\ HasRead(chats[s]) => s = r
        BY <1>0, <2>1, <3>3 DEF SessionsHold
      <4>2. now = owed
        BY <4>1
      <4>3. context'[v] = due'[v]
        <5> HIDE DEF now, owed
        <5> QED BY <2>10, <3>3, <4>1, <4>2
      <4>4. \A s \in Chat : chats'[s].who = v /\ HasRead(chats'[s]) => s = r /\ ~ToStore(chats'[s])
        BY <2>8, <3>1, <3>3, <4>1
      <4> QED BY <4>3, <4>4
    <3> QED BY <3>2, <3>3
  <2> QED BY <1>0, <2>3, <2>9, <2>10, <2>11 DEF LogistInv, Model, Review, WaitForReview
<1>4. ASSUME NEW u \in Chatter, ExpireSession(u) PROVE LogistInv'
  <2>1. /\ context' = [context EXCEPT ![u] = <<>>] /\ due' = [due EXCEPT ![u] = <<>>]
        /\ mixed' = IF \E r \in Chat : chats[r].who = u THEN mixed \cup {u} ELSE mixed \ {u}
        /\ UNCHANGED chats /\ UNCHANGED Model /\ UNCHANGED Review
    BY <1>4 DEF ExpireSession
  <2>2. context' \in [Chatter -> Seq(Message)] /\ due' \in [Chatter -> Seq(Message)]
    BY <1>0, <2>1
  <2>3. SessionsHold(context', due', mixed', chats')
    <3> SUFFICES ASSUME NEW v \in Chatter \ mixed'
                 PROVE  /\ context'[v] = due'[v]
                        /\ \A x \in Chat : chats[x].who = v /\ HasRead(chats[x]) =>
                             /\ \A s \in Chat : chats[s].who = v /\ HasRead(chats[s]) => s = x
                             /\ ToStore(chats[x]) => chats[x].seen = context'[v]
      BY <2>1 DEF SessionsHold
    <3>1. CASE v = u
      <4>1. \A x \in Chat : chats[x].who # v
        BY <2>1, <3>1
      <4>2. context'[v] = <<>> /\ due'[v] = <<>>
        BY <1>0, <2>1, <3>1
      <4> QED BY <4>1, <4>2
    <3>2. CASE v # u
      <4>1. v \in Chatter \ mixed /\ context'[v] = context[v] /\ due'[v] = due[v]
        BY <1>0, <2>1, <3>2
      <4> QED BY <1>0, <4>1 DEF SessionsHold
    <3> QED BY <3>1, <3>2
  <2> QED BY <1>0, <2>1, <2>2, <2>3 DEF LogistInv, Model, Review, WaitForReview
<1>5. ASSUME NEW r \in Chat, AnswerKept(r) PROVE LogistInv'
  <2>1. /\ HasRead(chats[r]) /\ chats[r].step # "model" /\ Goes(r, "rate")
        /\ UNCHANGED Session /\ UNCHANGED Model /\ UNCHANGED Review
    BY <1>5 DEF AnswerKept, HasRead
  <2>2. /\ SessionsHold(context, due, mixed, chats') /\ chats' \in [Chat -> Chats]
        /\ places \in Nat /\ Cardinality(AtModel(chats')) = places + 0 - 0
    BY <2>1, MovesOn
  <2> QED BY <1>0, <1>a, <2>1, <2>2 DEF Model
<1>6. ASSUME NEW r \in Chat, CacheMiss(r) \/ ModelUp(r) PROVE LogistInv'
  <2>1. PICK step \in {"status", "place"} :
           /\ HasRead(chats[r]) /\ chats[r].step # "model" /\ Goes(r, step)
           /\ UNCHANGED Session /\ UNCHANGED Model /\ UNCHANGED Review
    BY <1>6 DEF CacheMiss, ModelUp, HasRead
  <2>2. /\ SessionsHold(context, due, mixed, chats') /\ chats' \in [Chat -> Chats]
        /\ places \in Nat /\ Cardinality(AtModel(chats')) = places + 0 - 0
    BY <2>1, MovesOn
  <2> QED BY <1>0, <1>a, <2>1, <2>2 DEF Model
<1>7. ASSUME NEW r \in Chat, ModelDown(r) PROVE LogistInv'
  <2>1. /\ HasRead(chats[r]) /\ chats[r].step # "model" /\ WithoutAnswer(r)
        /\ UNCHANGED Session /\ UNCHANGED Model /\ UNCHANGED Review
    BY <1>7 DEF ModelDown, HasRead
  <2>2. /\ SessionsHold(context, due, mixed, chats') /\ chats' \in [Chat -> Chats]
        /\ places \in Nat /\ Cardinality(AtModel(chats')) = places - 0
    BY <2>1, EndsWithoutAnswer
  <2> QED BY <1>0, <1>a, <2>1, <2>2 DEF Model
<1>8. ASSUME NEW r \in Chat, TakePlace(r) PROVE LogistInv'
  <2>1. /\ HasRead(chats[r]) /\ chats[r].step # "model"
        /\ UNCHANGED <<kept, uttered>> /\ UNCHANGED Session /\ UNCHANGED Review
    BY <1>8 DEF TakePlace, HasRead
  <2>2. CASE places' = places + 1 /\ Goes(r, "model")
    <3>1. /\ SessionsHold(context, due, mixed, chats') /\ chats' \in [Chat -> Chats]
          /\ places \in Nat /\ Cardinality(AtModel(chats')) = places + 1 - 0
      BY <2>1, <2>2, MovesOn
    <3> QED BY <1>0, <1>a, <2>1, <2>2, <3>1
  <2>3. CASE places' = places /\ WithoutAnswer(r)
    <3>1. /\ SessionsHold(context, due, mixed, chats') /\ chats' \in [Chat -> Chats]
          /\ places \in Nat /\ Cardinality(AtModel(chats')) = places - 0
      BY <2>1, <2>3, EndsWithoutAnswer
    <3> QED BY <1>0, <1>a, <2>1, <2>3, <3>1
  <2> QED BY <1>8, <2>2, <2>3 DEF TakePlace
<1>9. ASSUME NEW r \in Chat, ModelAnswers(r) PROVE LogistInv'
  <2>1. /\ HasRead(chats[r]) /\ chats[r].step = "model" /\ places' = places - 1
        /\ uttered' = uttered \cup {chats[r].text} /\ UNCHANGED Session /\ UNCHANGED Review
    BY <1>9 DEF ModelAnswers, HasRead
  <2>2. kept' \subseteq uttered'
    BY <1>0, <1>9, <2>1 DEF ModelAnswers
  <2>3. chats[r].kind \in {"ask", "intent"}
    BY <1>0, <2>1, QuietFields DEF Chats, UnderWay
  <2>4. PICK step \in {"rate", "save"} : Goes(r, step) /\ (step = "save" => chats[r].kind = "intent")
    BY <1>9, <2>3 DEF ModelAnswers
  <2>5. /\ SessionsHold(context, due, mixed, chats') /\ chats' \in [Chat -> Chats]
        /\ places \in Nat /\ Cardinality(AtModel(chats')) = places + 0 - 1
    BY <2>1, <2>4, MovesOn
  <2> QED BY <1>a, <2>1, <2>2, <2>5
<1>10. ASSUME NEW r \in Chat, ModelFails(r) PROVE LogistInv'
  <2>1. /\ HasRead(chats[r]) /\ chats[r].step = "model" /\ places' = places - 1 /\ WithoutAnswer(r)
        /\ UNCHANGED <<kept, uttered>> /\ UNCHANGED Session /\ UNCHANGED Review
    BY <1>10 DEF ModelFails, HasRead
  <2>2. /\ SessionsHold(context, due, mixed, chats') /\ chats' \in [Chat -> Chats]
        /\ places \in Nat /\ Cardinality(AtModel(chats')) = places - 1
    BY <2>1, EndsWithoutAnswer
  <2> QED BY <1>0, <1>a, <2>1, <2>2
<1>11. ASSUME NEW m \in Message, Uncache(m) PROVE LogistInv'
  BY <1>0, <1>a, <1>11 DEF Uncache, Session, Review
<1>12. ASSUME NEW r \in Chat, OpenRating(r) PROVE LogistInv'
  <2>1. /\ chats[r].step # "model" /\ chats' = [chats EXCEPT ![r] = Quiet]
        /\ UNCHANGED <<pending, known, rating, rated, down, cleared>>
        /\ UNCHANGED Session /\ UNCHANGED Model
    BY <1>12 DEF OpenRating
  <2>2. /\ SessionsHold(context, due, mixed, chats') /\ chats' \in [Chat -> Chats]
        /\ places \in Nat /\ Cardinality(AtModel(chats')) = places - 0
    BY <2>1, Ends
  <2> QED BY <1>0, <2>1, <2>2 DEF LogistInv, Model, Session, WaitForReview
<1>13. ASSUME NEW a \in Answer,
              \/ Rate(a, "up") \/ Rate(a, "down") \/ WriteRating(a) \/ RatingFails(a)
              \/ ExpireRecord(a) \/ Unlearn(a)
       PROVE LogistInv'
  <2>1. /\ UNCHANGED <<pending, down, cleared, chats>> /\ UNCHANGED Session /\ UNCHANGED Model
    BY <1>13 DEF Rate, WriteRating, RatingFails, ExpireRecord, Unlearn
  <2> QED BY <1>0, <1>b, <2>1 DEF WaitForReview
<1>14. ASSUME NEW a \in Answer, PushForReview(a) PROVE LogistInv'
  <2>1. /\ pending' = <<a>> \o pending /\ down' = down \cup {a} /\ cleared' = cleared \ {a}
        /\ UNCHANGED chats /\ UNCHANGED Session /\ UNCHANGED Model
    BY <1>14 DEF PushForReview
  <2>2. /\ pending' \in Seq(Answer) /\ Len(pending') = Len(pending) + 1 /\ Len(pending) \in Nat
        /\ pending'[1] = a /\ \A i \in 1..Len(pending) : pending'[i + 1] = pending[i]
    BY <1>0, <2>1
  <2>3. ASSUME NEW b \in down' \ cleared' PROVE \E i \in 1..Len(pending') : pending'[i] = b
    <3>1. CASE b = a
      BY <2>2, <3>1
    <3>2. CASE b # a
      <4>1. PICK i \in 1..Len(pending) : pending[i] = b
        BY <1>0, <2>1, <3>2 DEF WaitForReview
      <4>2. i + 1 \in 1..Len(pending') /\ pending'[i + 1] = b
        BY <2>2, <4>1
      <4> QED BY <4>2
    <3> QED BY <3>1, <3>2
  <2>4. WaitForReview'
    BY <2>3 DEF WaitForReview
  <2> QED BY <1>b, <2>1, <2>2, <2>4
<1>15. ASSUME NEW a \in Answer, CutList(a) PROVE LogistInv'
  <2> DEFINE size == IF Len(pending) < MaxPending THEN Len(pending) ELSE MaxPending
  <2>1. /\ pending' = SubSeq(pending, 1, size)
        /\ cleared' = cleared \cup (ToSet(pending) \ ToSet(pending'))
        /\ UNCHANGED <<chats, down>> /\ UNCHANGED Session /\ UNCHANGED Model
    BY <1>15 DEF CutList
  <2>2. size \in 0..Len(pending)
    BY <1>0, LogistAssumption
  <2> HIDE DEF size
  <2>3. pending' \in Seq(Answer)
    BY <1>0, <2>1, <2>2
  <2>4. ASSUME NEW b \in down' \ cleared' PROVE \E i \in 1..Len(pending') : pending'[i] = b
    <3>1. b \in down \ cleared
      BY <2>1
    <3>2. b \in ToSet(pending)
      BY <1>0, <3>1 DEF WaitForReview, ToSet
    <3>3. b \in ToSet(pending')
      BY <2>1, <3>2
    <3> QED BY <2>3, <3>3 DEF ToSet
  <2>5. WaitForReview'
    BY <2>4 DEF WaitForReview
  <2> QED BY <1>b, <2>1, <2>3, <2>5
<1>16. ASSUME NEW a \in Answer, Approve(a) PROVE LogistInv'
  <2>1. UNCHANGED <<chats, down>> /\ UNCHANGED Session /\ UNCHANGED Model
    BY <1>16 DEF Approve
  <2>2. CASE UNCHANGED <<pending, cleared>>
    BY <1>0, <1>b, <2>1, <2>2 DEF WaitForReview
  <2>3. CASE pending' = Without(pending, a) /\ cleared' = cleared \cup {a}
    <3>1. /\ pending' \in Seq(Answer)
          /\ \A j \in 1..Len(pending) : pending[j] # a =>
               \E i \in 1..Len(pending') : pending'[i] = pending[j]
      BY <1>0, <2>3, WithoutKeeps
    <3>2. ASSUME NEW b \in down' \ cleared' PROVE \E i \in 1..Len(pending') : pending'[i] = b
      <4>1. b \in down \ cleared /\ b # a
        BY <2>1, <2>3
      <4>2. PICK j \in 1..Len(pending) : pending[j] = b
        BY <1>0, <4>1 DEF WaitForReview
      <4> QED BY <3>1, <4>1, <4>2
    <3>3. WaitForReview'
      BY <3>2 DEF WaitForReview
    <3> QED BY <1>b, <2>1, <3>1, <3>3
  <2> QED BY <1>16, <2>2, <2>3 DEF Approve
<1>17. CASE UNCHANGED logistVars
  BY <1>0, <1>17 DEF LogistInv, logistVars, Session, Model, Review, WaitForReview
<1> QED BY <1>1, <1>2, <1>3, <1>4, <1>5, <1>6, <1>7, <1>8, <1>9, <1>10, <1>11, <1>12, <1>13, <1>14,
           <1>15, <1>16, <1>17 DEF LogistNext

\* A session that one request asked a time went on is as it was said, every place
\* taken is given back, and what is to be reviewed waits (ask_logist, chat,
\* post_feedback, review_approve).
THEOREM LogistInvariance == LogistSpec => []LogistInv
BY LogistInitInv, LogistNextInv, PTL DEF LogistSpec
=============================================================================
