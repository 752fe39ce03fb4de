---------------------------- MODULE SearchProofs ----------------------------
(***************************************************************************)
(* Theorems of the parts that look something up for somebody, the feed a    *)
(* reader pages through (Feed), the two sides of a match (Match) and the    *)
(* trucks on offer (Trucks), and then of the types of all the parts         *)
(* (MCPlatform); for every value of their constants.                        *)
(*                                                                          *)
(* The rows of a query come in an order that is total on them, so the first *)
(* n of them are ahead of all the rest (FirstAreAhead): whatever a page     *)
(* leaves out is behind its last row.  What the pages of the feed have      *)
(* passed over and not shown is therefore still below the cursor, or newer  *)
(* than a hot deal that came ahead of it (NothingSkipped).  The score of a  *)
(* vehicle and a cargo of the feed is the carrier's score of the cargo and  *)
(* what the feed adds to it, so one side sees whom the other is shown       *)
(* (BothSides); and a guarantee that was told was paid when it was looked   *)
(* up (ViewOK).  What has fitted a search for a truck since it began fits   *)
(* still, and no level of criteria has passed it over (NotPassedOver); the  *)
(* contacts shown are those of trucks the reader owns (ContactsOf).         *)
(***************************************************************************)
EXTENDS PlatformProofs

-----------------------------------------------------------------------------
(* Rows in order.                                                           *)

Orders(ahead, S) ==
  /\ \A x \in S : <<x, x>> \notin ahead
  /\ \A x, y, z \in S : <<x, y>> \in ahead /\ <<y, z>> \in ahead => <<x, z>> \in ahead
  /\ \A x, y \in S : x # y => <<x, y>> \in ahead \/ <<y, x>> \in ahead

LEMMA WholesInOrder ==
  ASSUME NEW S, S \subseteq Int
  PROVE  Orders(Ascending, S) /\ Orders(Descending, S)
BY DEF Orders, Ascending, Descending

LEMMA PlaceIsNat ==
  ASSUME NEW S, NEW ahead, NEW x \in S, IsFiniteSet(S), Orders(ahead, S)
  PROVE  Place(x, S, ahead) \in 0..Cardinality(S) - 1
<1> DEFINE A == {y \in S : <<y, x>> \in ahead}
<1>1. IsFiniteSet(A) /\ Cardinality(A) \in Nat /\ A \subseteq S \ {x}
  BY FS_Subset, FS_CardinalityType DEF Orders
<1>2. /\ IsFiniteSet(S \ {x}) /\ Cardinality(S \ {x}) = Cardinality(S) - 1
      /\ Cardinality(S) \in Nat
  BY FS_RemoveElement, FS_CardinalityType
<1> HIDE DEF A
<1>3. Cardinality(A) <= Cardinality(S) - 1
  BY <1>1, <1>2, FS_Subset
<1>4. Cardinality(A) \in 0..Cardinality(S) - 1
  BY <1>1, <1>2, <1>3
<1> QED BY <1>4 DEF Place, A

LEMMA PlaceGrows ==
  ASSUME NEW S, NEW ahead, NEW x \in S, NEW y \in S, IsFiniteSet(S), Orders(ahead, S),
         <<x, y>> \in ahead
  PROVE  Place(x, S, ahead) < Place(y, S, ahead)
<1> DEFINE A == {z \in S : <<z, x>> \in ahead}
           B == {z \in S : <<z, y>> \in ahead}
<1>1. IsFiniteSet(A) /\ IsFiniteSet(B)
  BY FS_Subset
<1>2. x \notin A /\ A \cup {x} \subseteq B
  BY DEF Orders
<1> HIDE DEF A, B
<1>3. IsFiniteSet(A \cup {x}) /\ Cardinality(A \cup {x}) = Cardinality(A) + 1
  BY <1>1, <1>2, FS_AddElement
<1>4. Cardinality(A \cup {x}) <= Cardinality(B) /\ Cardinality(A) \in Nat /\ Cardinality(B) \in Nat
  BY <1>1, <1>2, FS_Subset, FS_CardinalityType
<1>5. Cardinality(A) < Cardinality(B)
  BY <1>3, <1>4
<1> QED BY <1>5 DEF Place, A, B

\* Places decide which is ahead.
LEMMA PlaceDecides ==
  ASSUME NEW S, NEW ahead, NEW x \in S, NEW y \in S, IsFiniteSet(S), Orders(ahead, S)
  PROVE  /\ Place(x, S, ahead) = Place(y, S, ahead) => x = y
         /\ Place(x, S, ahead) < Place(y, S, ahead) => <<x, y>> \in ahead
<1>1. Place(x, S, ahead) \in Int /\ Place(y, S, ahead) \in Int
  BY PlaceIsNat
<1>2. <<x, y>> \in ahead => Place(x, S, ahead) < Place(y, S, ahead)
  BY PlaceGrows
<1>3. <<y, x>> \in ahead => Place(y, S, ahead) < Place(x, S, ahead)
  BY PlaceGrows
<1>4. x = y \/ <<x, y>> \in ahead \/ <<y, x>> \in ahead
  BY DEF Orders
<1> QED BY <1>1, <1>2, <1>3, <1>4

LEMMA AllInOrder ==
  ASSUME NEW S, NEW ahead, IsFiniteSet(S), Orders(ahead, S)
  PROVE  /\ InOrder(S, ahead) \in Seq(S) /\ Len(InOrder(S, ahead)) = Cardinality(S)
         /\ DOMAIN InOrder(S, ahead) = 1..Cardinality(S)
         /\ \A k \in 1..Cardinality(S) : /\ InOrder(S, ahead)[k] \in S
                                         /\ Place(InOrder(S, ahead)[k], S, ahead) = k - 1
         /\ \A x \in S : /\ Place(x, S, ahead) + 1 \in 1..Cardinality(S)
                         /\ InOrder(S, ahead)[Place(x, S, ahead) + 1] = x
<1> DEFINE n == Cardinality(S)
           f == [x \in S |-> Place(x, S, ahead) + 1]
           order == InOrder(S, ahead)
<1>1. n \in Nat
  BY FS_CardinalityType
<1>2. \A x \in S : Place(x, S, ahead) \in 0..n - 1
  BY PlaceIsNat
<1>3. f \in [S -> 1..n]
  BY <1>1, <1>2
<1>4. \A x, y \in S : Place(x, S, ahead) = Place(y, S, ahead) => x = y
  BY PlaceDecides
<1>5. f \in Injection(S, 1..n)
  BY <1>2, <1>3, <1>4 DEF Injection, IsInjective
<1>6. IsFiniteSet(1..n) /\ Cardinality(1..n) = n
  BY <1>1, FS_Interval
<1>7. f \in Surjection(S, 1..n)
  BY <1>5, <1>6, FS_Injection
<1>8. \A k \in 1..n : \E x \in S : Place(x, S, ahead) = k - 1
  <2> TAKE k \in 1..n
  <2>1. PICK x \in S : f[x] = k
    BY <1>7 DEF Surjection
  <2>2. Place(x, S, ahead) + 1 = k /\ Place(x, S, ahead) \in Int
    BY <1>2, <2>1
  <2> QED BY <2>2
<1> HIDE DEF n
<1>9. order = [k \in 1..n |-> CHOOSE x \in S : Place(x, S, ahead) = k - 1]
  BY DEF InOrder, n
<1>10. \A k \in 1..n : order[k] \in S /\ Place(order[k], S, ahead) = k - 1
  BY <1>8, <1>9
<1> HIDE DEF order
<1>11. order \in [1..n -> S]
  BY <1>9, <1>10
<1>12. order \in Seq(S) /\ Len(order) = n /\ DOMAIN order = 1..n
  BY <1>1, <1>11
<1>13. \A x \in S : Place(x, S, ahead) + 1 \in 1..n /\ order[Place(x, S, ahead) + 1] = x
  <2> TAKE x \in S
  <2>1. Place(x, S, ahead) + 1 \in 1..n
    BY <1>1, <1>2
  <2>2. Place(order[Place(x, S, ahead) + 1], S, ahead) = Place(x, S, ahead)
    BY <1>2, <1>10, <2>1
  <2> QED BY <1>4, <1>10, <2>1, <2>2
<1> QED BY <1>10, <1>12, <1>13 DEF n, order

\* Who is not among the first n is behind all of them, and they are n.
LEMMA FirstAreAhead ==
  ASSUME NEW S, NEW ahead, NEW n \in Nat, NEW e \in S, IsFiniteSet(S), Orders(ahead, S),
         e \notin FirstOf(S, n, ahead)
  PROVE  /\ \A x \in FirstOf(S, n, ahead) : <<x, e>> \in ahead
         /\ n <= Cardinality(FirstOf(S, n, ahead))
<1> DEFINE F == FirstOf(S, n, ahead)
           order == InOrder(S, ahead)
           size == Cardinality(S)
<1>1. F \subseteq S /\ IsFiniteSet(F) /\ Cardinality(F) \in Nat
  BY FS_Subset, FS_CardinalityType DEF FirstOf
<1>2. \A x \in S : Place(x, S, ahead) \in Int
  BY PlaceIsNat
<1>3. n <= Place(e, S, ahead)
  BY <1>2 DEF FirstOf
<1>4. \A x \in F : Place(x, S, ahead) < n
  BY DEF FirstOf
<1>5. \A x \in F : Place(x, S, ahead) < Place(e, S, ahead)
  BY <1>1, <1>2, <1>3, <1>4
<1>6. \A x \in F : <<x, e>> \in ahead
  BY <1>1, <1>5, PlaceDecides
<1>7. size \in Nat /\ n <= size - 1
  BY <1>3, PlaceIsNat, FS_CardinalityType
<1>8. \A k \in 1..size : order[k] \in S /\ Place(order[k], S, ahead) = k - 1
  BY AllInOrder
<1> HIDE DEF order, size
<1>9. \A k \in 1..n : order[k] \in F /\ Place(order[k], S, ahead) = k - 1
  BY <1>7, <1>8 DEF FirstOf
<1> DEFINE g == [k \in 1..n |-> order[k]]
<1>10. g \in [1..n -> F] /\ \A k \in 1..n : Place(g[k], S, ahead) = k - 1
  BY <1>9
<1> HIDE DEF g
<1>11. g \in Injection(1..n, F)
  BY <1>10 DEF Injection, IsInjective
<1>12. Cardinality(1..n) = n
  BY FS_Interval
<1>13. n <= Cardinality(F)
  BY <1>1, <1>11, <1>12, FS_Injection
<1> QED BY <1>6, <1>13

\* Unless it is beyond, all are among the first n.
LEMMA FirstAreSome ==
  ASSUME NEW S, NEW ahead, NEW n \in Nat \ {0}, IsFiniteSet(S), Orders(ahead, S)
  PROVE  /\ FirstOf(S, n, ahead) \subseteq S
         /\ FirstOf(S, n, ahead) = {} => S = {}
<1>1. ASSUME NEW e \in S, FirstOf(S, n, ahead) = {} PROVE FALSE
  <2>1. n <= Cardinality(FirstOf(S, n, ahead))
    BY <1>1, FirstAreAhead
  <2>2. Cardinality({}) = 0
    BY FS_EmptySet
  <2> QED BY <1>1, <2>1, <2>2
<1> QED BY <1>1 DEF FirstOf

-----------------------------------------------------------------------------
(* Scrolling the feed.                                                      *)

Scrolls == [step : {"idle", "reading", "end"}, cursor : 1..Top, shown : SUBSET Id, through : SUBSET Id]
HotBelow(e) == \E h \in Ids : h < e /\ events[h].hot

\* What the pages have passed over is still ahead of the cursor, or newer than a hot deal.
NothingSkipped ==
  \A e \in scroll.through \ scroll.shown :
    HotBelow(e) \/ (scroll.step # "end" /\ e < scroll.cursor)

ScrollInv ==
  FilingInv /\ scroll \in Scrolls /\ scroll.through \subseteq Visible /\ NothingSkipped

LEMMA HotStays ==
  ASSUME FilingInv, [FeedNext]_feedVars
  PROVE  Ids \subseteq Ids' /\ \A e \in Ids : events'[e].hot = events[e].hot
<1>0. /\ events \in Seq(FeedRow) /\ Len(events) \in Nat
      /\ \A e \in Ids : events[e] \in FeedRow /\ e \in 1..Len(events)
  BY DEF FilingInv, FeedTypes, Ids
<1>1. CASE events' = events
  BY <1>1 DEF Ids
<1>2. ASSUME NEW hot \in BOOLEAN, NEW manual \in BOOLEAN, NEW p \in Phone, NEW s \in Status,
             Arrive(hot, manual, p, s)
      PROVE  Ids \subseteq Ids' /\ \A e \in Ids : events'[e].hot = events[e].hot
  <2> DEFINE row == [hot |-> hot, manual |-> manual, phone |-> p, status |-> s, spam |-> FALSE]
  <2>1. row \in FeedRow /\ events' = Append(events, row)
    BY <1>2 DEF Arrive, FeedRow
  <2> HIDE DEF row
  <2> QED BY <1>0, <2>1 DEF Ids
<1>3. ASSUME NEW u \in Reader, CommitComplaint(u)
      PROVE  Ids \subseteq Ids' /\ \A e \in Ids : events'[e].hot = events[e].hot
  <2> DEFINE i == filing[u].id
  <2>1. i \in Ids
    BY <1>3 DEF FilingInv, FeedTypes, CommitComplaint, Calm
  <2>2. events' = events \/ events' = [events EXCEPT ![i] = [events[i] EXCEPT !.spam = TRUE]]
    BY <1>0, <1>3, <2>1 DEF CommitComplaint
  <2> DEFINE row == [events[i] EXCEPT !.spam = TRUE]
  <2>3. row.hot = events[i].hot
    BY <1>0, <2>1 DEF FeedRow
  <2> HIDE DEF i, row
  <2>4. CASE events' = [events EXCEPT ![i] = row]
    BY <1>0, <2>1, <2>3, <2>4 DEF Ids
  <2> QED BY <1>1, <2>2, <2>4 DEF row
<1>4. ASSUME NEW a \in Admin, NEW status, NEW spam, AdminCommits(a, status, spam), admin[a] # Calm
      PROVE  Ids \subseteq Ids' /\ \A e \in Ids : events'[e].hot = events[e].hot
  <2> DEFINE i == admin[a].id
             row == SetChanged(events[i], admin[a].seen, status, spam)
  <2>1. i \in Ids
    BY <1>4 DEF FilingInv, FeedTypes
  <2>2. events' = [events EXCEPT ![i] = row]
    BY <1>0, <1>4, <2>1 DEF AdminCommits
  <2>3. row.hot = events[i].hot
    BY <1>0, <2>1 DEF FeedRow, SetChanged
  <2> HIDE DEF i, row
  <2> QED BY <1>0, <2>1, <2>2, <2>3 DEF Ids
<1>5. ASSUME NEW a \in Admin,
             Publish(a) \/ Dismiss(a) \/ RetryTaken(a) \/ RetryUnrouted(a) \/ RetryFails(a)
      PROVE  Ids \subseteq Ids' /\ \A e \in Ids : events'[e].hot = events[e].hot
  <2>1. admin[a] # Calm
    <3>1. Calm.step = "idle"
      BY DEF Calm
    <3>2. admin[a].step \in {"publish", "ignore", "retry"}
      BY <1>5 DEF Publish, Dismiss, RetryTaken, RetryUnrouted, RetryFails
    <3> QED BY <3>1, <3>2
  <2> QED BY <1>4, <1>5, <2>1 DEF Publish, Dismiss, RetryTaken, RetryUnrouted, RetryFails
<1> QED BY <1>1, <1>2, <1>3, <1>5
        DEF FeedNext, feedVars, Open, NextPage, BeginComplaint, CountComplaint, AdminLoads

\* The two orders of the feed.
LEMMA FeedOrders ==
  ASSUME FilingInv, NEW S, S \subseteq Ids
  PROVE  IsFiniteSet(S) /\ Orders(HotFirst, S) /\ Orders(NewestFirst, S)
<1>1. IsFiniteSet(Ids) /\ Ids \subseteq Int /\ \A e \in Ids : events[e].hot \in BOOLEAN
  <2>1. Len(events) \in Nat /\ \A e \in Ids : events[e] \in FeedRow
    BY DEF FilingInv, FeedTypes, Ids
  <2>2. IsFiniteSet(Ids) /\ Ids \subseteq Int
    BY <2>1, FS_Interval DEF Ids
  <2> QED BY <2>1, <2>2 DEF FeedRow
<1>2. IsFiniteSet(S)
  BY <1>1, FS_Subset
<1>3. \A x, y \in S : <<x, y>> \in HotFirst <=>
        IF events[x].hot = events[y].hot THEN x > y ELSE events[x].hot
  BY DEF HotFirst
<1>4. Orders(HotFirst, S)
  BY <1>1, <1>3 DEF Orders
<1>5. Orders(NewestFirst, S)
  BY <1>1, WholesInOrder DEF NewestFirst
<1> QED BY <1>2, <1>4, <1>5

LEMMA PageIsRows == ASSUME FilingInv, NEW c PROVE RowsFor(c) \in Seq(Ids)
<1> DEFINE found == FirstOf({x \in Visible : x < c}, Limit + 1, HotFirst)
           own == FirstOf({x \in Visible : events[x].manual}, Limit + 5, NewestFirst)
           U == found \cup own
           order == IF own = {} THEN HotFirst ELSE NewestFirst
<1>1. U \subseteq Ids
  BY DEF Visible, FirstOf
<1>2. IsFiniteSet(U) /\ Orders(order, U)
  BY <1>1, FeedOrders
<1>3. RowsFor(c) = InOrder(U, order)
  BY DEF RowsFor
<1> HIDE DEF U, order
<1>4. RowsFor(c) \in Seq(U)
  BY <1>2, <1>3, AllInOrder
<1> QED BY <1>1, <1>4

\* A page, its last row, and what is neither on it nor before.
LEMMA PagePassesNone ==
  ASSUME FilingInv, NEW c \in 1..Top, NEW e \in Visible, e < c, ~HotBelow(e)
  PROVE  LET sheet == RowsFor(c) IN
         \/ \E k \in 1..Min({Limit, Len(sheet)}) : sheet[k] = e
         \/ Len(sheet) > Limit /\ e < sheet[Limit]
<1> DEFINE V == {x \in Visible : x < c}
           M == {x \in Visible : events[x].manual}
           found == FirstOf(V, Limit + 1, HotFirst)
           own == FirstOf(M, Limit + 5, NewestFirst)
           U == found \cup own
           order == IF own = {} THEN HotFirst ELSE NewestFirst
           sheet == RowsFor(c)
<1>1. Limit \in Nat \ {0}
  BY FeedAssumption
<1>2. V \subseteq Ids /\ M \subseteq Ids /\ found \subseteq V /\ own \subseteq M /\ U \subseteq Ids /\ e \in V
  BY DEF Visible, FirstOf
<1>3. Ids \subseteq Int /\ e \in Ids
  BY <1>2 DEF Ids
<1>4. sheet = InOrder(U, order)
  BY DEF RowsFor
<1>5. IsFiniteSet(U) /\ Orders(order, U)
  BY <1>2, FeedOrders
<1>6. IsFiniteSet(V) /\ Orders(HotFirst, V)
  BY <1>2, FeedOrders
<1> DEFINE size == Cardinality(U)
<1>7. size \in Nat /\ IsFiniteSet(found) /\ Cardinality(found) \in Nat /\ Cardinality(found) <= size
  <2>1. found \subseteq U
    OBVIOUS
  <2> HIDE DEF found, U
  <2> QED BY <1>5, <2>1, FS_Subset, FS_CardinalityType
<1>8. \A x \in Ids : <<x, e>> \in HotFirst => x > e
  BY <1>3 DEF HotFirst, HotBelow
<1>9. \A x \in Ids : <<x, e>> \in NewestFirst => x > e
  BY DEF NewestFirst, Descending
<1>10. e \in found \/ (Limit + 1 <= Cardinality(found) /\ \A x \in found : x > e)
  <2> SUFFICES ASSUME e \notin found PROVE Limit + 1 <= Cardinality(found) /\ \A x \in found : x > e
    OBVIOUS
  <2> HIDE DEF V
  <2>1. Limit + 1 \in Nat
    BY <1>1
  <2>2. Limit + 1 <= Cardinality(found) /\ \A x \in found : <<x, e>> \in HotFirst
    BY <1>2, <1>6, <2>1, FirstAreAhead
  <2> QED BY <1>2, <1>8, <2>2
<1> HIDE DEF found, own, V, M, sheet
<1>11. /\ sheet \in Seq(U) /\ Len(sheet) = size
       /\ \A k \in 1..size : sheet[k] \in U /\ Place(sheet[k], U, order) = k - 1
       /\ \A x \in U : Place(x, U, order) + 1 \in 1..size /\ sheet[Place(x, U, order) + 1] = x
  <2> HIDE DEF U, order
  <2> QED BY <1>4, <1>5, AllInOrder
<1>12. sheet \in Seq(Ids)
  BY <1>2, <1>11
<1> DEFINE most == Min({Limit, Len(sheet)})
<1>13. most = IF Limit <= size THEN Limit ELSE size
  BY <1>1, <1>7, <1>11 DEF Min
<1> HIDE DEF most
<1>14. CASE \E k \in 1..most : sheet[k] = e
  BY <1>12, <1>14 DEF sheet, most
<1>15. CASE ~\E k \in 1..most : sheet[k] = e
  <2>1. e \in U => most <= Place(e, U, order)
    <3> HIDE DEF U, order
    <3> SUFFICES ASSUME e \in U PROVE most <= Place(e, U, order)
      OBVIOUS
    <3>1. Place(e, U, order) + 1 \in 1..size /\ sheet[Place(e, U, order) + 1] = e
      BY <1>11
    <3>2. Place(e, U, order) \in Int
      BY <1>5, PlaceIsNat
    <3>3. Place(e, U, order) + 1 \notin 1..most
      BY <1>15, <3>1
    <3> QED BY <1>1, <1>7, <1>13, <3>1, <3>2, <3>3
  <2>2. size > Limit
    <3>1. CASE e \in found
      <4>1. e \in U
        BY <3>1
      <4>2. most <= Place(e, U, order) /\ Place(e, U, order) \in 0..size - 1
        BY <1>5, <2>1, <4>1, PlaceIsNat
      <4> HIDE DEF U, order, size
      <4> QED BY <1>1, <1>7, <1>13, <4>2
    <3>2. CASE e \notin found
      BY <1>1, <1>7, <1>10, <3>2
    <3> QED BY <3>1, <3>2
  <2> DEFINE r == sheet[Limit]
  <2>3. most = Limit /\ r \in U /\ Place(r, U, order) = Limit - 1 /\ r \in Ids
    <3> HIDE DEF U, order, size
    <3>1. most = Limit /\ Limit \in 1..size
      BY <1>1, <1>7, <1>13, <2>2
    <3> QED BY <1>2, <1>11, <3>1
  <2> HIDE DEF r
  <2>4. e < r
    <3>1. CASE e \in U
      <4>1. Place(r, U, order) < Place(e, U, order)
        <5>1. Place(e, U, order) \in Int
          BY <1>5, <3>1, PlaceIsNat
        <5> HIDE DEF U, order
        <5> QED BY <1>1, <2>1, <2>3, <3>1, <5>1
      <4>2. <<r, e>> \in order
        BY <1>5, <2>3, <3>1, <4>1, PlaceDecides
      <4> QED BY <1>8, <1>9, <2>3, <4>2
    <3>2. CASE e \notin U /\ own = {}
      <4>1. r \in found
        BY <2>3, <3>2
      <4> QED BY <1>10, <3>2, <4>1
    <3>3. CASE e \notin U /\ own # {} /\ ~(e < r)
      <4> DEFINE A == {y \in U : <<y, r>> \in order}
      <4>1. found \subseteq A
        <5> SUFFICES ASSUME NEW x \in found PROVE x \in U /\ <<x, r>> \in NewestFirst
          BY <3>3
        <5>1. x > e /\ x \in Ids /\ x \in U
          BY <1>2, <1>10, <3>3
        <5>2. x > r
          BY <1>3, <2>3, <3>3, <5>1
        <5> QED BY <1>3, <2>3, <5>1, <5>2 DEF NewestFirst, Descending
      <4>2. IsFiniteSet(A)
        BY <1>5, FS_Subset
      <4>3. Cardinality(A) = Limit - 1
        BY <2>3 DEF Place
      <4> HIDE DEF A
      <4>4. Cardinality(found) <= Cardinality(A)
        BY <4>1, <4>2, FS_Subset
      <4>5. Limit + 1 <= Cardinality(found)
        BY <1>10, <3>3
      <4> QED BY <1>1, <1>7, <4>3, <4>4, <4>5
    <3> QED BY <3>1, <3>2, <3>3
  <2> QED BY <1>11, <1>12, <2>2, <2>4 DEF r, sheet
<1> QED BY <1>14, <1>15

LEMMA ScrollInitInv == FeedInit => ScrollInv
<1> SUFFICES ASSUME FeedInit PROVE ScrollInv
  OBVIOUS
<1>1. scroll = [step |-> "idle", cursor |-> Top, shown |-> {}, through |-> {}]
  BY DEF FeedInit, NoScroll
<1>2. Top \in 1..Top
  BY FeedAssumption DEF Top
<1>3. scroll \in Scrolls
  BY <1>1, <1>2 DEF Scrolls
<1> QED BY <1>1, <1>3, FilingInitInv DEF ScrollInv, NothingSkipped

LEMMA VisibleAreIds ==
  ASSUME FilingInv
  PROVE  Visible \subseteq Ids /\ Ids \subseteq Id /\ Ids \subseteq Int /\ Id \subseteq 1..Top
BY FeedAssumption DEF FilingInv, FeedTypes, Visible, Ids, Id, Top

LEMMA ScrollStep == ASSUME ScrollInv, [FeedNext]_feedVars PROVE ScrollInv'
<1>0. /\ FilingInv /\ FilingInv' /\ scroll \in Scrolls /\ scroll.through \subseteq Visible
      /\ NothingSkipped
  BY FeedStep DEF ScrollInv
<1>1. \A e \in Ids : HotBelow(e) => HotBelow(e)'
  BY <1>0, HotStays DEF HotBelow
<1>2. /\ Visible \subseteq Ids /\ Ids \subseteq Id /\ Ids \subseteq Int /\ Id \subseteq 1..Top
      /\ Visible' \subseteq Ids'
  BY <1>0, VisibleAreIds DEF Visible
<1>3. CASE scroll' = scroll /\ Visible \subseteq Visible'
  BY <1>0, <1>1, <1>2, <1>3 DEF ScrollInv, NothingSkipped, Scrolls
<1>4. CASE UNCHANGED <<events, scroll>>
  BY <1>3, <1>4 DEF Visible, Ids
<1>5. ASSUME NEW hot \in BOOLEAN, NEW manual \in BOOLEAN, NEW p \in Phone, NEW s \in Status,
             Arrive(hot, manual, p, s)
      PROVE  ScrollInv'
  <2> DEFINE row == [hot |-> hot, manual |-> manual, phone |-> p, status |-> s, spam |-> FALSE]
  <2>1. row \in FeedRow /\ events' = Append(events, row) /\ scroll' = scroll
    BY <1>5 DEF Arrive, FeedRow
  <2> HIDE DEF row
  <2>2. events \in Seq(FeedRow) /\ Len(events) \in Nat
    BY <1>0 DEF FilingInv, FeedTypes
  <2>3. Visible \subseteq Visible'
    BY <2>1, <2>2 DEF Visible, Ids
  <2> QED BY <1>3, <2>1, <2>3
<1>6. CASE scroll' = StillThere
  <2>1. scroll' = [scroll EXCEPT !.through = scroll.through \cap Visible']
    BY <1>0, <1>6 DEF StillThere, Scrolls
  <2>2. /\ scroll' \in Scrolls /\ scroll'.through = scroll.through \cap Visible'
        /\ scroll'.step = scroll.step /\ scroll'.cursor = scroll.cursor
        /\ scroll'.shown = scroll.shown
    BY <1>0, <2>1 DEF Scrolls
  <2>3. NothingSkipped'
    BY <1>0, <1>1, <1>2, <2>2 DEF NothingSkipped
  <2> QED BY <1>0, <2>2, <2>3 DEF ScrollInv
<1>7. CASE Open
  <2>1. /\ scroll' = [step |-> "reading", cursor |-> Top, shown |-> {}, through |-> Visible]
        /\ events' = events
    BY <1>7 DEF Open, NoScroll
  <2>2. Top \in 1..Top /\ Visible \subseteq Id
    BY <1>2, FeedAssumption DEF Top
  <2>3. scroll' \in Scrolls
    BY <2>1, <2>2 DEF Scrolls
  <2>4. \A e \in Visible : e < Top
    BY <1>2, FeedAssumption DEF Top, Id
  <2>5. Visible' = Visible
    BY <2>1 DEF Visible, Ids
  <2> QED BY <1>0, <2>1, <2>3, <2>4, <2>5 DEF ScrollInv, NothingSkipped
<1>8. CASE NextPage
  <2> DEFINE sheet == RowsFor(scroll.cursor)
             on == {sheet[k] : k \in 1..Min({Limit, Len(sheet)})}
             more == Len(sheet) > Limit
  <2>1. scroll.cursor \in 1..Top
    BY <1>0 DEF Scrolls
  <2>2. PICK c \in 1..Top : c = scroll.cursor
    BY <2>1
  <2>3. /\ RowsFor(c) \in Seq(Ids)
        /\ \A e \in Visible : e < c /\ ~HotBelow(e) =>
             \/ \E k \in 1..Min({Limit, Len(RowsFor(c))}) : RowsFor(c)[k] = e
             \/ Len(RowsFor(c)) > Limit /\ e < RowsFor(c)[Limit]
    <3>1. RowsFor(c) \in Seq(Ids)
      BY <1>0, PageIsRows
    <3> QED BY <1>0, <3>1, PagePassesNone
  <2>4. /\ scroll' = [scroll EXCEPT !.shown = scroll.shown \cup on,
                                    !.step = IF more THEN "reading" ELSE "end",
                                    !.cursor = IF more THEN sheet[Limit] ELSE scroll.cursor]
        /\ events' = events /\ scroll.step = "reading"
    BY <1>0, <1>8 DEF NextPage, NextCursor, Scrolls
  <2>5. /\ sheet \in Seq(Ids)
        /\ \A e \in Visible : e < scroll.cursor /\ ~HotBelow(e) =>
             e \in on \/ (more /\ e < sheet[Limit])
    BY <2>2, <2>3
  <2>6. Limit \in Nat \ {0} /\ Len(sheet) \in Nat
    BY <2>5, FeedAssumption
  <2>7. on \subseteq Ids /\ (more => sheet[Limit] \in 1..Top)
    <3>1. Min({Limit, Len(sheet)}) = IF Limit <= Len(sheet) THEN Limit ELSE Len(sheet)
      BY <2>6 DEF Min
    <3>2. \A k \in 1..Len(sheet) : sheet[k] \in Ids
      BY <2>5
    <3> HIDE DEF sheet
    <3>3. \A k \in 1..Min({Limit, Len(sheet)}) : k \in 1..Len(sheet)
      BY <2>6, <3>1
    <3>4. more => Limit \in 1..Len(sheet)
      BY <2>6
    <3>5. on \subseteq Ids
      BY <3>2, <3>3
    <3> HIDE DEF on
    <3> QED BY <1>2, <3>2, <3>4, <3>5
  <2> HIDE DEF sheet, on, more
  <2>8. /\ scroll'.shown = scroll.shown \cup on /\ scroll'.through = scroll.through
        /\ scroll'.step = IF more THEN "reading" ELSE "end"
        /\ scroll'.cursor = IF more THEN sheet[Limit] ELSE scroll.cursor
        /\ scroll' \in Scrolls
    BY <1>0, <1>2, <2>4, <2>7 DEF Scrolls
  <2>9. Visible' = Visible /\ (\A e \in Ids : HotBelow(e)' <=> HotBelow(e))
    BY <2>4 DEF Visible, Ids, HotBelow
  <2>10. NothingSkipped'
    <3> SUFFICES ASSUME NEW e \in scroll'.through \ scroll'.shown
        PROVE  HotBelow(e)' \/ (scroll'.step # "end" /\ e < scroll'.cursor)
      BY DEF NothingSkipped
    <3>1. e \in Visible /\ e \in Ids /\ e \notin on /\ e \in scroll.through \ scroll.shown
      BY <1>0, <1>2, <2>8
    <3>2. HotBelow(e) \/ e < scroll.cursor
      BY <1>0, <3>1 DEF NothingSkipped
    <3>3. HotBelow(e) \/ (more /\ e < sheet[Limit])
      BY <2>5, <3>1, <3>2
    <3> QED BY <2>8, <2>9, <3>1, <3>3
  <2> QED BY <1>0, <2>8, <2>9, <2>10 DEF ScrollInv
<1> QED
  BY <1>4, <1>5, <1>6, <1>7, <1>8
  DEF FeedNext, feedVars, BeginComplaint, CountComplaint, CommitComplaint, AdminLoads, Publish,
      Dismiss, RetryTaken, RetryUnrouted, RetryFails, AdminCommits

\* What the pages have passed over and not shown is still ahead of the cursor or newer than a
\* hot deal, whatever arrives, is hidden or shown again between two pages (get_feed).
THEOREM ScrollInvariance == FeedSpec => []ScrollInv
BY ScrollInitInv, ScrollStep, PTL DEF FeedSpec

LEMMA ScrollHolds == ScrollInv => ScrollIsComplete
BY VisibleAreIds DEF ScrollInv, NothingSkipped, ScrollIsComplete, HotBelow

-----------------------------------------------------------------------------
(* Matching.                                                                *)

Scored == {NoMatch} \cup 0..100

LEMMA LeastOfTwo == \A a, b \in Int : Min({a, b}) = IF a <= b THEN a ELSE b
BY DEF Min

LEMMA GreatestOfTwo == \A a, b \in Int : Max({a, b}) = IF a >= b THEN a ELSE b
BY DEF Max

LEMMA ClippedIs ==
  \A n \in Int : Clipped(n) = IF n < 0 THEN 0 ELSE IF n > 100 THEN 100 ELSE n
<1> TAKE n \in Int
<1>1. Min({100, n}) = IF 100 <= n THEN 100 ELSE n
  BY LeastOfTwo
<1>2. Min({100, n}) \in Int
  BY <1>1
<1> DEFINE m == Min({100, n})
<1> HIDE DEF m
<1>3. m \in Int /\ Max({0, m}) = IF 0 >= m THEN 0 ELSE m
  BY <1>2, GreatestOfTwo DEF m
<1>4. Clipped(n) = Max({0, m})
  BY DEF Clipped, m
<1>5. m = IF 100 <= n THEN 100 ELSE n
  BY <1>1 DEF m
<1> QED BY <1>3, <1>4, <1>5

\* What the way to the pickup is worth, for both scores.
LEMMA ReachIs ==
  ASSUME NEW v, NEW town, NEW located, NEW same, NEW unknown \in Int
  PROVE  Reach(v, town, located, same, unknown) \in {NoMatch, 30, 22, 15, 0, unknown}
<1>1. Nearness(KmOf[v.town, town]) \in {20, 12, 5, -10}
  BY DEF Nearness
<1> DEFINE near == Nearness(KmOf[v.town, town])
           far == KmOf[v.town, town] > 500
           weigh == v.town # "" /\ town # "" /\ {v.town, town} \subseteq located
<1>2. Reach(v, town, located, same, unknown) =
        IF weigh THEN (IF far THEN NoMatch ELSE 10 + near) ELSE IF same THEN unknown ELSE NoMatch
  BY DEF Reach
<1>3. near \in {20, 12, 5, -10}
  BY <1>1
<1> HIDE DEF near, far, weigh
<1>4. 10 + near \in {30, 22, 15, 0}
  BY <1>3
<1> QED BY <1>2, <1>4

LEMMA ItemScoreIs ==
  ASSUME NEW v, NEW i, NEW located
  PROVE  LET way == ItemWay(v, i, located)
             weigh == IF v.kg # 0 /\ i.kg # 0 THEN 25 ELSE 10
             rest == (IF i.rate > 0 THEN 2 ELSE 0) + Trusted(i) + (IF i.hot THEN 5 ELSE 0)
             sum == 30 + weigh + way + rest
             out == ~i.listed \/ ~Bears(v, i.kg) \/ ~SuitsBody(v.body, i.body) \/ way = NoMatch
         IN /\ way \in {NoMatch, 30, 22, 15, 10, 0} /\ rest \in 0..12
            /\ ItemScore(v, i, located) =
                 IF out THEN NoMatch ELSE IF sum > 100 THEN 100 ELSE sum
<1> DEFINE way == ItemWay(v, i, located)
           weigh == IF v.kg # 0 /\ i.kg # 0 THEN 25 ELSE 10
           r == IF i.rate > 0 THEN 2 ELSE 0
           t == Trusted(i)
           h == IF i.hot THEN 5 ELSE 0
           out == ~i.listed \/ ~Bears(v, i.kg) \/ ~SuitsBody(v.body, i.body) \/ way = NoMatch
<1>1. way \in {NoMatch, 30, 22, 15, 10, 0}
  <2> DEFINE same == i.town # "" /\ v.town = i.town
             reach == Reach(v, i.at, located \cup {i.at}, same, 22)
  <2>1. reach \in {NoMatch, 30, 22, 15, 0}
    <3> HIDE DEF same
    <3> QED BY ReachIs
  <2>2. way = IF v.town = "" THEN 10 ELSE reach
    BY DEF ItemWay
  <2> HIDE DEF reach, way
  <2> QED BY <2>1, <2>2
<1>2. r \in {0, 2} /\ t \in {0, 2, 5} /\ h \in {0, 5} /\ weigh \in {10, 25}
  BY DEF Trusted
<1>3. ItemScore(v, i, located) =
        IF out THEN NoMatch ELSE Clipped(30 + weigh + way + r + t + h)
  BY DEF ItemScore
<1> HIDE DEF way, weigh, r, t, h, out
<1>4. r + t + h \in 0..12
  BY <1>2
<1>5. out \in BOOLEAN => TRUE
  OBVIOUS
<1>6. way # NoMatch => /\ 30 + weigh + way + r + t + h \in Nat
                       /\ 30 + weigh + way + (r + t + h) = 30 + weigh + way + r + t + h
  BY <1>1, <1>2 DEF NoMatch
<1>7. way # NoMatch =>
        Clipped(30 + weigh + way + r + t + h) =
          IF 30 + weigh + way + (r + t + h) > 100 THEN 100 ELSE 30 + weigh + way + (r + t + h)
  BY <1>6, ClippedIs
<1>8. way = NoMatch => out
  BY DEF out
<1>9. ItemScore(v, i, located) =
        IF out THEN NoMatch
        ELSE IF 30 + weigh + way + (r + t + h) > 100 THEN 100 ELSE 30 + weigh + way + (r + t + h)
  BY <1>3, <1>7, <1>8
<1> QED BY <1>1, <1>4, <1>9 DEF way, weigh, r, t, h, out

LEMMA FreightScoreIs ==
  ASSUME NEW c, NEW v, NEW located
  PROVE  LET way == FreightWay(v, c, located)
             sum == 55 + way + (IF c.guaranteed THEN 10 ELSE 0)
             out == ~v.free \/ ~Bears(v, c.kg) \/ ~SuitsBody(v.body, c.body) \/ way = NoMatch
         IN /\ way \in {NoMatch, 30, 22, 15, 10, 0}
            /\ ForFreight(c, v, located) = IF out THEN NoMatch ELSE sum
<1> DEFINE way == FreightWay(v, c, located)
           g == IF c.guaranteed THEN 10 ELSE 0
           out == ~v.free \/ ~Bears(v, c.kg) \/ ~SuitsBody(v.body, c.body) \/ way = NoMatch
<1>1. way \in {NoMatch, 30, 22, 15, 10, 0}
  <2> DEFINE reach == Reach(v, c.town, located, v.town = c.town, 10)
  <2>1. reach \in {NoMatch, 30, 22, 15, 0, 10}
    BY ReachIs
  <2>2. way = IF v.town = "" \/ c.town = "" THEN 10 ELSE reach
    BY DEF FreightWay
  <2> HIDE DEF reach, way
  <2> QED BY <2>1, <2>2
<1>2. g \in {0, 10}
  OBVIOUS
<1>3. ForFreight(c, v, located) =
        IF out \/ ~Shows(Clipped(55 + way + g)) THEN NoMatch ELSE Clipped(55 + way + g)
  BY DEF ForFreight
<1>4. way = NoMatch => out
  OBVIOUS
<1> HIDE DEF way, g, out
<1>5. way # NoMatch => 55 + way + g \in 55..95
  BY <1>1, <1>2 DEF NoMatch
<1>6. way # NoMatch => Clipped(55 + way + g) = 55 + way + g /\ Shows(55 + way + g)
  BY <1>5, ClippedIs DEF Shows
<1>7. ForFreight(c, v, located) = IF out THEN NoMatch ELSE 55 + way + g
  BY <1>3, <1>4, <1>6
<1> QED BY <1>1, <1>7 DEF way, g, out

LEMMA ForVehicleIs ==
  ASSUME NEW v, NEW i, NEW paid, NEW located
  PROVE  LET score == ItemScore(v, i, located)
             bonus == IF i.freight \in paid THEN 10 ELSE 0
             more == IF score + bonus > 100 THEN 100 ELSE score + bonus
         IN /\ score \in Scored
            /\ ForVehicle(v, i, paid, located) =
                 IF score # NoMatch /\ more >= 35 THEN more ELSE NoMatch
<1> DEFINE score == ItemScore(v, i, located)
           bonus == IF i.freight \in paid THEN 10 ELSE 0
           more == IF score + bonus > 100 THEN 100 ELSE score + bonus
           said == IF score # NoMatch /\ i.freight \in paid THEN Min({100, score + 10}) ELSE score
<1>1. score \in Scored
  <2> DEFINE way == ItemWay(v, i, located)
             weigh == IF v.kg # 0 /\ i.kg # 0 THEN 25 ELSE 10
             rest == (IF i.rate > 0 THEN 2 ELSE 0) + Trusted(i) + (IF i.hot THEN 5 ELSE 0)
             out == ~i.listed \/ ~Bears(v, i.kg) \/ ~SuitsBody(v.body, i.body) \/ way = NoMatch
  <2>1. /\ way \in {NoMatch, 30, 22, 15, 10, 0} /\ rest \in 0..12
        /\ score = IF out THEN NoMatch
                   ELSE IF 30 + weigh + way + rest > 100 THEN 100 ELSE 30 + weigh + way + rest
    BY ItemScoreIs
  <2>2. weigh \in {10, 25} /\ (way = NoMatch => out)
    OBVIOUS
  <2> HIDE DEF way, weigh, rest, out, score
  <2> QED BY <2>1, <2>2 DEF Scored, NoMatch
<1>2. ForVehicle(v, i, paid, located) = IF said >= 35 THEN said ELSE NoMatch
  BY DEF ForVehicle, Shows
<1> HIDE DEF score
<1>3. score # NoMatch =>
        /\ Min({100, score + 10}) = IF score + 10 > 100 THEN 100 ELSE score + 10
        /\ score \in 0..100
  BY <1>1, LeastOfTwo DEF Scored, NoMatch
<1>4. ForVehicle(v, i, paid, located) = IF score # NoMatch /\ more >= 35 THEN more ELSE NoMatch
  <2>1. CASE score = NoMatch
    BY <1>2, <2>1 DEF NoMatch
  <2>2. CASE score # NoMatch
    <3>1. said = more
      BY <1>3, <2>2
    <3> HIDE DEF said, more
    <3> QED BY <1>2, <2>2, <3>1
  <2> QED BY <2>1, <2>2
<1> QED BY <1>1, <1>4 DEF score

\* The two scores of a vehicle and a cargo agree, whatever the rows say.
LEMMA BothSides == BothSidesSee
<1>0. SUFFICES ASSUME NEW w \in Wheels, NEW c \in Freight,
                    wheels[w].town \in Local, freight[c].town \in Local,
                    ForFreight(freight[c], wheels[w], Local) # NoMatch
    PROVE  /\ \A i \in Item :
                item[i].listed /\ item[i].freight = c /\ Mirrors(item[i], freight[c]) =>
                  /\ ForVehicle(wheels[w], item[i], Guaranteed, Local) # NoMatch
                  /\ wheels[w].kg # 0 /\ freight[c].kg # 0 =>
                       ForVehicle(wheels[w], item[i], Guaranteed, Local) >=
                         ForFreight(freight[c], wheels[w], Local)
           /\ freight[c].status = "new" /\ wheels[w].town = freight[c].town /\ wheels[w].kg # 0 =>
                OnBoard(wheels[w], freight[c])
  BY DEF BothSidesSee
<1> DEFINE v == wheels[w]
           f == freight[c]
           way == FreightWay(v, f, Local)
           g == IF f.guaranteed THEN 10 ELSE 0
           offered == ForFreight(f, v, Local)
           no == ~v.free \/ ~Bears(v, f.kg) \/ ~SuitsBody(v.body, f.body) \/ way = NoMatch
<1>1. /\ way \in {NoMatch, 30, 22, 15, 10, 0} /\ offered = IF no THEN NoMatch ELSE 55 + way + g
      /\ offered # NoMatch
  BY <1>0, FreightScoreIs
<1>2. Bears(v, f.kg) /\ SuitsBody(v.body, f.body) /\ way # NoMatch /\ offered = 55 + way + g
  BY <1>1
<1>3. ASSUME NEW i \in Item, item[i].listed, item[i].freight = c, Mirrors(item[i], f)
      PROVE  LET gets == ForVehicle(v, item[i], Guaranteed, Local) IN
             gets # NoMatch /\ (v.kg # 0 /\ f.kg # 0 => gets >= offered)
  <2> DEFINE it == item[i]
             itsWay == ItemWay(v, it, Local)
             weigh == IF v.kg # 0 /\ it.kg # 0 THEN 25 ELSE 10
             rest == (IF it.rate > 0 THEN 2 ELSE 0) + Trusted(it) + (IF it.hot THEN 5 ELSE 0)
             out == ~it.listed \/ ~Bears(v, it.kg) \/ ~SuitsBody(v.body, it.body) \/ itsWay = NoMatch
             score == ItemScore(v, it, Local)
             bonus == IF it.freight \in Guaranteed THEN 10 ELSE 0
             more == IF score + bonus > 100 THEN 100 ELSE score + bonus
             gets == ForVehicle(v, it, Guaranteed, Local)
  <2>1. it.kg = f.kg /\ it.body = f.body /\ it.town = f.town /\ it.at = f.town /\ f.town # ""
    BY <1>3 DEF Mirrors
  <2>2. itsWay = way
    <3>1. Local \cup {it.at} = Local
      BY <1>0, <2>1
    <3>2. CASE v.town = ""
      BY <3>2 DEF ItemWay, FreightWay
    <3>3. CASE v.town # ""
      BY <2>1, <3>1, <3>3 DEF ItemWay, FreightWay, Reach
    <3> QED BY <3>2, <3>3
  <2>3. /\ rest \in 0..12
        /\ score = IF out THEN NoMatch
                   ELSE IF 30 + weigh + itsWay + rest > 100 THEN 100 ELSE 30 + weigh + itsWay + rest
    BY ItemScoreIs
  <2>4. ~out
    BY <1>2, <1>3, <2>1, <2>2
  <2>5. gets = IF score # NoMatch /\ more >= 35 THEN more ELSE NoMatch
    <3> HIDE DEF v, it
    <3> QED BY ForVehicleIs
  <2>6. bonus = g /\ g \in {0, 10}
    BY <1>3 DEF Guaranteed
  <2>7. weigh \in {10, 25}
    OBVIOUS
  <2>8. score = IF 30 + weigh + way + rest > 100 THEN 100 ELSE 30 + weigh + way + rest
    <3> HIDE DEF way, itsWay, weigh, rest, out, score
    <3> QED BY <2>2, <2>3, <2>4
  <2>9. way \in {30, 22, 15, 10, 0}
    BY <1>1, <1>2
  <2>10. bonus \in {0, 10} /\ rest \in 0..12
    BY <2>3, <2>6
  <2>11. offered = 55 + way + bonus
    BY <1>2, <2>6
  <2>12. v.kg # 0 /\ f.kg # 0 => weigh = 25
    BY <2>1
  <2> HIDE DEF way, weigh, rest, bonus, score, gets, offered, v, f, it, g, out, more, itsWay, no
  <2>13. score \in 40..100 /\ (weigh = 25 => score >= 55 + way \/ score = 100)
    BY <2>7, <2>8, <2>9, <2>10
  <2>14. 55 + way + bonus <= 95
    BY <2>9, <2>10
  <2>15. more \in 35..100 /\ (weigh = 25 => more >= 55 + way + bonus)
    BY <2>9, <2>10, <2>13, <2>14 DEF more
  <2>16. gets = more
    BY <2>5, <2>13, <2>15 DEF NoMatch
  <2>17. gets # NoMatch
    BY <2>15, <2>16 DEF NoMatch
  <2>18. ASSUME v.kg # 0, f.kg # 0 PROVE gets >= offered
    BY <2>11, <2>12, <2>15, <2>16, <2>18
  <2> QED BY <2>17, <2>18 DEF v, f, it, gets, offered
<1>4. ASSUME f.status = "new", v.town = f.town, v.kg # 0 PROVE OnBoard(v, f)
  <2>1. v.town # ""
    BY <1>0, MatchAssumption
  <2>2. f.kg = 0 \/ f.kg <= v.kg
    BY <1>2, <1>4 DEF Bears
  <2> QED BY <1>4, <2>1, <2>2 DEF OnBoard
<1> QED BY <1>3, <1>4
-----------------------------------------------------------------------------
(* What a request reads, and what it says of a payment.                     *)

LEMMA RowScores ==
  ASSUME NEW v, NEW x, NEW paid, NEW located
  PROVE  /\ ForVehicle(v, x, paid, located) \in {NoMatch} \cup 35..100
         /\ ForFreight(x, v, located) \in {NoMatch} \cup 35..100
<1> DEFINE score == ItemScore(v, x, located)
           bonus == IF x.freight \in paid THEN 10 ELSE 0
           more == IF score + bonus > 100 THEN 100 ELSE score + bonus
           way == FreightWay(v, x, located)
           g == IF x.guaranteed THEN 10 ELSE 0
           out == ~v.free \/ ~Bears(v, x.kg) \/ ~SuitsBody(v.body, x.body) \/ way = NoMatch
<1>1. /\ score \in Scored
      /\ ForVehicle(v, x, paid, located) = IF score # NoMatch /\ more >= 35 THEN more ELSE NoMatch
  BY ForVehicleIs
<1>2. /\ way \in {NoMatch, 30, 22, 15, 10, 0}
      /\ ForFreight(x, v, located) = IF out THEN NoMatch ELSE 55 + way + g
  BY FreightScoreIs
<1>3. bonus \in {0, 10} /\ g \in {0, 10}
  OBVIOUS
<1>4. way = NoMatch => out
  OBVIOUS
<1> HIDE DEF score, bonus, way, g, out
<1>5. ForVehicle(v, x, paid, located) \in {NoMatch} \cup 35..100
  <2>1. score # NoMatch => more \in 0..100
    BY <1>1, <1>3 DEF Scored, NoMatch
  <2> HIDE DEF more
  <2> QED BY <1>1, <2>1
<1>6. way # NoMatch => 55 + way + g \in 35..100
  BY <1>2, <1>3
<1> QED BY <1>2, <1>4, <1>5, <1>6

Scores == {NoMatch} \cup 35..100
MarkedRow == [score : Scores, of : Int, rate : Nat, sure : BOOLEAN]

\* The order of the answer is one: of two different rows one is ahead.
LEMMA AheadOrders ==
  ASSUME NEW all \in Seq(MarkedRow), NEW fit, fit \subseteq DOMAIN all
  PROVE  Orders({p \in fit \X fit : Ahead(all, p[1], p[2])}, fit)
<1> DEFINE ahead == {p \in fit \X fit : Ahead(all, p[1], p[2])}
<1>1. ASSUME NEW i \in fit
      PROVE  i \in Int /\ all[i].score \in Int /\ all[i].rate \in Int
  <2>1. i \in Nat /\ all[i] \in MarkedRow
    OBVIOUS
  <2>2. all[i].score \in Scores /\ all[i].rate \in Nat
    BY <2>1 DEF MarkedRow
  <2>3. Scores \subseteq Int /\ Nat \subseteq Int
    BY DEF Scores, NoMatch
  <2> QED BY <2>1, <2>2, <2>3, Zenon
<1>2. \A i, j \in fit : <<i, j>> \in ahead <=> Ahead(all, i, j)
  OBVIOUS
<1> HIDE DEF ahead
<1>3. ASSUME NEW i \in fit PROVE <<i, i>> \notin ahead
  BY <1>1, <1>2 DEF Ahead
<1>4. ASSUME NEW i \in fit, NEW j \in fit, i # j
      PROVE  <<i, j>> \in ahead \/ <<j, i>> \in ahead
  <2>1. /\ i \in Int /\ all[i].score \in Int /\ all[i].rate \in Int
        /\ j \in Int /\ all[j].score \in Int /\ all[j].rate \in Int
    BY <1>1
  <2> DEFINE a == all[i]
             b == all[j]
  <2>2. /\ Ahead(all, i, j) <=>
             \/ a.score > b.score
             \/ /\ a.score = b.score
                /\ \/ a.sure /\ ~b.sure
                   \/ (a.sure <=> b.sure) /\ (a.rate > b.rate \/ (a.rate = b.rate /\ i < j))
        /\ Ahead(all, j, i) <=>
             \/ b.score > a.score
             \/ /\ b.score = a.score
                /\ \/ b.sure /\ ~a.sure
                   \/ (b.sure <=> a.sure) /\ (b.rate > a.rate \/ (b.rate = a.rate /\ j < i))
    BY DEF Ahead
  <2>3. a.score > b.score \/ b.score > a.score \/ a.score = b.score
    BY <2>1
  <2>4. a.rate > b.rate \/ b.rate > a.rate \/ a.rate = b.rate
    BY <2>1
  <2>5. i < j \/ j < i
    BY <1>4, <2>1
  <2>6. Ahead(all, i, j) \/ Ahead(all, j, i)
    <3> DEFINE P == a.score > b.score
               Q == b.score > a.score
               E == a.score = b.score
               X == a.rate > b.rate
               Y == b.rate > a.rate
               Z == a.rate = b.rate
               I == i < j
               J == j < i
    <3>1. Ahead(all, i, j) <=> P \/ (E /\ ((a.sure /\ ~b.sure) \/ ((a.sure <=> b.sure) /\ (X \/ (Z /\ I)))))
      BY <2>2
    <3>2. Ahead(all, j, i) <=> Q \/ (E /\ ((b.sure /\ ~a.sure) \/ ((a.sure <=> b.sure) /\ (Y \/ (Z /\ J)))))
      BY <2>2
    <3>3. (P \/ Q \/ E) /\ (X \/ Y \/ Z) /\ (I \/ J)
      BY <2>3, <2>4, <2>5
    <3> HIDE DEF P, Q, E, X, Y, Z, I, J
    <3> QED BY <3>1, <3>2, <3>3, Zenon
  <2> QED BY <1>2, <2>6
<1>5. ASSUME NEW i \in fit, NEW j \in fit, NEW k \in fit, <<i, j>> \in ahead, <<j, k>> \in ahead
      PROVE  <<i, k>> \in ahead
  <2>1. /\ i \in Int /\ all[i].score \in Int /\ all[i].rate \in Int
        /\ j \in Int /\ all[j].score \in Int /\ all[j].rate \in Int
        /\ k \in Int /\ all[k].score \in Int /\ all[k].rate \in Int
    BY <1>1
  <2>2. Ahead(all, i, j) /\ Ahead(all, j, k)
    BY <1>2, <1>5
  <2>3. Ahead(all, i, k)
    BY <2>1, <2>2 DEF Ahead
  <2> QED BY <1>2, <2>3
<1>6. Orders(ahead, fit)
  BY <1>3, <1>4, <1>5 DEF Orders
<1> QED BY <1>6 DEF ahead

\* The rows of a query, in the order it gives them.
LEMMA LatestAreSome ==
  ASSUME NEW S, IsFiniteSet(S), S \subseteq Int, LastRows \in Nat
  PROVE  Latest(S) \in Seq(S)
<1> DEFINE F == FirstOf(S, LastRows, Descending)
<1>1. F \subseteq S
  BY DEF FirstOf
<1>2. IsFiniteSet(F) /\ Orders(Descending, F)
  BY <1>1, FS_Subset, WholesInOrder
<1> HIDE DEF F
<1>3. InOrder(F, Descending) \in Seq(F)
  BY <1>2, AllInOrder
<1> QED BY <1>1, <1>3, SeqMonotonic DEF Latest, F

LEMMA AllInSeq ==
  ASSUME NEW S, IsFiniteSet(S)
  PROVE  SetToSeq(S) \in Seq(S)
<1>1. Cardinality(S) \in Nat /\ \E f \in [1..Cardinality(S) -> S] : IsInjective(f)
  BY FS_CardinalityType DEF ExistsBijection, Bijection, Injection, IsInjective
<1> QED BY <1>1 DEF SetToSeq, IsInjective
-----------------------------------------------------------------------------
(* The invariant of the requests.                                           *)

MatchJobs ==
  [for : {"vehicle"}, row : WheelsRow, limit : Nat]
    \cup [for : {"cargo"}, row : FreightRow, limit : Nat]
Marks == [score : 35..100, of : Int, rate : Nat, sure : BOOLEAN]
Views ==
  [step : {"idle", "look", "pay", "score", "told"}, jobs : Seq(MatchJobs),
   rows : Seq(ItemRow \cup WheelsRow), paid : SUBSET Freight, ever : SUBSET Freight,
   told : Seq(Marks)]

ViewOK(s, now) ==
  /\ s.step \in {"look", "pay", "score"} => s.jobs # <<>>
  /\ s.step = "pay" => Head(s.jobs).for = "vehicle"
  /\ s.step \in {"pay", "score"} =>
       s.rows \in Seq(IF Head(s.jobs).for = "vehicle" THEN ItemRow ELSE WheelsRow)
  /\ s.paid \subseteq s.ever
  /\ s.step # "idle" => now \subseteq s.ever
  /\ \A k \in DOMAIN s.told : s.told[k].sure => s.told[k].of \in s.ever

RowsOK ==
  /\ wheels \in [Wheels -> WheelsRow] /\ freight \in [Freight -> FreightRow]
  /\ item \in [Item -> ItemRow] /\ changes \in 0..MostChanges

MatchInv ==
  /\ RowsOK
  /\ view \in [Viewer -> Views]
  /\ \A r \in Viewer : ViewOK(view[r], Guaranteed)

LEMMA NoViewIs == NoView \in Views /\ \A now : ViewOK(NoView, now)
<1>1. NoView \in Views
  BY EmptySeq DEF NoView, Views
<1>2. ASSUME NEW now PROVE ViewOK(NoView, now)
  <2>1. /\ NoView.step = "idle" /\ NoView.paid = {} /\ NoView.told = <<>>
    BY DEF NoView
  <2>2. DOMAIN NoView.told = {}
    <3>1. DOMAIN <<>> = {}
      OBVIOUS
    <3> QED BY <2>1, <3>1
  <2> QED BY <2>1, <2>2 DEF ViewOK
<1> QED BY <1>1, <1>2

LEMMA MatchStarts == MatchInit => MatchInv
<1> SUFFICES ASSUME MatchInit PROVE MatchInv
  OBVIOUS
<1>1. RowsOK
  <2>1. 0 \in 0..MostChanges
    <3>1. MostChanges \in Nat
      BY MatchAssumption
    <3> QED BY <3>1
  <2>2. /\ wheels \in [Wheels -> WheelsRow] /\ freight \in [Freight -> FreightRow]
        /\ item \in [Item -> ItemRow]
    <3>1. /\ WheelsMayBe \subseteq WheelsRow /\ FreightMayBe \subseteq FreightRow
          /\ ItemMayBe \subseteq ItemRow
      BY MatchAssumption
    <3>2. /\ wheels \in [Wheels -> WheelsMayBe] /\ freight \in [Freight -> FreightMayBe]
          /\ item \in [Item -> ItemMayBe]
      BY DEF MatchInit
    <3> QED BY <3>1, <3>2, Zenon
  <2> QED BY <2>1, <2>2 DEF MatchInit, RowsOK
<1> QED BY <1>1, NoViewIs DEF MatchInit, MatchInv

\* A request that begins.
LEMMA JobBegins ==
  ASSUME MatchInv, NEW r \in Viewer, NEW jobs \in Seq(MatchJobs), Begun(r, jobs)
  PROVE  MatchInv'
<1> DEFINE st == IF jobs = <<>> THEN "told" ELSE "look"
           s == [NoView EXCEPT !.step = st, !.jobs = jobs, !.ever = Guaranteed]
<1>1. /\ view' = [view EXCEPT ![r] = s] /\ RowsOK' /\ Guaranteed' = Guaranteed
      /\ Guaranteed \subseteq Freight
  <2>1. view' = [view EXCEPT ![r] = s] /\ UNCHANGED <<wheels, freight, item, changes>>
    BY DEF Begun
  <2>2. RowsOK
    BY DEF MatchInv
  <2> HIDE DEF s
  <2> QED BY <2>1, <2>2 DEF RowsOK, Guaranteed
<1>2. st \in {"told", "look"} /\ (st = "look" => jobs # <<>>)
  OBVIOUS
<1> HIDE DEF st
<1>3. /\ s \in Views /\ s.step = st /\ s.jobs = jobs /\ s.ever = Guaranteed
      /\ s.paid = {} /\ s.told = <<>>
  <2>1. NoView \in Views /\ NoView.paid = {} /\ NoView.told = <<>>
    BY NoViewIs DEF NoView
  <2> QED BY <1>1, <1>2, <2>1 DEF Views
<1> HIDE DEF s
<1>4. ViewOK(s, Guaranteed)
  <2>1. \A k \in DOMAIN s.told : FALSE
    <3>1. DOMAIN <<>> = {}
      OBVIOUS
    <3> QED BY <1>3, <3>1
  <2> QED BY <1>2, <1>3, <2>1 DEF ViewOK
<1> QED BY <1>1, <1>3, <1>4 DEF MatchInv

\* A request that goes on, the rows as they are.
LEMMA GoesOn ==
  ASSUME MatchInv, NEW r \in Viewer, NEW s \in Views, ViewOK(s, Guaranteed), Reads(r, s)
  PROVE  MatchInv'
<1>1. view' = [view EXCEPT ![r] = s] /\ RowsOK' /\ Guaranteed' = Guaranteed
  BY DEF Reads, MatchInv, RowsOK, Guaranteed
<1> QED BY <1>1 DEF MatchInv

\* The rows change: what is guaranteed now is noted, all the rest stays.
LEMMA Sees ==
  ASSUME MatchInv, RowsOK', Seeing PROVE MatchInv'
<1> DEFINE t(r) == [view[r] EXCEPT !.ever = @ \cup Guaranteed']
<1>1. Guaranteed' \subseteq Freight /\ view' = [r \in Viewer |-> t(r)]
  BY DEF Guaranteed, Seeing
<1>2. ASSUME NEW r \in Viewer PROVE t(r) \in Views /\ ViewOK(t(r), Guaranteed')
  <2>1. view[r] \in Views /\ ViewOK(view[r], Guaranteed)
    BY DEF MatchInv
  <2>2. /\ t(r) \in Views /\ t(r).ever = view[r].ever \cup Guaranteed'
        /\ t(r).step = view[r].step /\ t(r).jobs = view[r].jobs /\ t(r).rows = view[r].rows
        /\ t(r).paid = view[r].paid /\ t(r).told = view[r].told
    BY <1>1, <2>1 DEF Views
  <2> HIDE DEF t
  <2> QED BY <2>1, <2>2 DEF ViewOK
<1> HIDE DEF t
<1> QED BY <1>1, <1>2 DEF MatchInv

LEMMA SameView ==
  ASSUME MatchInv, RowsOK', UNCHANGED view, Guaranteed' = Guaranteed PROVE MatchInv'
BY DEF MatchInv
\* The jobs of a request.
LEMMA JobsAre ==
  ASSUME RowsOK, NEW n \in Nat
  PROVE  /\ \A w \in Wheels : JobOf(wheels[w], n) \in MatchJobs
         /\ \A c \in Freight : JobFor(freight[c], n) \in MatchJobs
<1>1. /\ \A w \in Wheels : wheels[w] \in WheelsRow
      /\ \A c \in Freight : freight[c] \in FreightRow
  BY DEF RowsOK
<1> HIDE DEF RowsOK
<1>2. ASSUME NEW v \in WheelsRow PROVE JobOf(v, n) \in MatchJobs
  BY DEF JobOf, MatchJobs
<1>3. ASSUME NEW c \in FreightRow PROVE JobFor(c, n) \in MatchJobs
  BY DEF JobFor, MatchJobs
<1> QED BY <1>1, <1>2, <1>3

LEMMA StepBegins ==
  ASSUME MatchInv, NEW r \in Viewer, NEW u,
         \/ \E w \in Wheels : ViewVehicle(r, u, w)
         \/ \E c \in Freight : ViewFreight(r, u, c)
         \/ ViewSummary(r, u)
  PROVE  MatchInv'
<1>1. RowsOK
  BY DEF MatchInv
<1>2. CASE \E w \in Wheels : ViewVehicle(r, u, w)
  <2>1. PICK w \in Wheels : Begun(r, <<JobOf(wheels[w], 10)>>)
    BY <1>2 DEF ViewVehicle
  <2>2. JobOf(wheels[w], 10) \in MatchJobs
    BY <1>1, JobsAre
  <2>3. <<JobOf(wheels[w], 10)>> \in Seq(MatchJobs)
    BY <2>2
  <2> QED BY <2>1, <2>3, JobBegins
<1>3. CASE \E c \in Freight : ViewFreight(r, u, c)
  <2>1. PICK c \in Freight : Begun(r, <<JobFor(freight[c], 10)>>)
    BY <1>3 DEF ViewFreight
  <2>2. JobFor(freight[c], 10) \in MatchJobs
    BY <1>1, JobsAre
  <2>3. <<JobFor(freight[c], 10)>> \in Seq(MatchJobs)
    BY <2>2
  <2> QED BY <2>1, <2>3, JobBegins
<1>4. CASE ViewSummary(r, u)
  <2> DEFINE M == {w \in Wheels : wheels[w].owner = u /\ wheels[w].free}
             G == {c \in Freight : freight[c].owner = u /\ freight[c].status # "archived"}
             mine == SetToSeq(M)
             goods == SetToSeq(G)
             ours == [k \in DOMAIN mine |-> JobOf(wheels[mine[k]], 3)]
             loads == [k \in DOMAIN goods |-> JobFor(freight[goods[k]], 3)]
  <2>1. Begun(r, ours \o loads)
    BY <1>4 DEF ViewSummary
  <2>2. IsFiniteSet(M) /\ IsFiniteSet(G)
    BY MatchAssumption, FS_Subset
  <2>3. M \subseteq Wheels /\ G \subseteq Freight
    OBVIOUS
  <2> HIDE DEF M, G
  <2>4. mine \in Seq(M) /\ goods \in Seq(G)
    BY <2>2, AllInSeq
  <2> HIDE DEF mine, goods
  <2>5. /\ \A k \in DOMAIN mine : JobOf(wheels[mine[k]], 3) \in MatchJobs
        /\ \A k \in DOMAIN goods : JobFor(freight[goods[k]], 3) \in MatchJobs
    BY <1>1, <2>3, <2>4, JobsAre
  <2>6. ours \in Seq(MatchJobs)
    BY <2>4, <2>5
  <2>7. loads \in Seq(MatchJobs)
    BY <2>4, <2>5
  <2> HIDE DEF ours, loads
  <2>8. ours \o loads \in Seq(MatchJobs)
    BY <2>6, <2>7
  <2> QED BY <2>1, <2>8, JobBegins
<1> QED BY <1>2, <1>3, <1>4

\* The rows a job reads are of the kind it weighs.
LEMMA StepReads ==
  ASSUME MatchInv, NEW r \in Viewer, ReadRows(r) \/ ReadPayments(r)
  PROVE  MatchInv'
<1>1. RowsOK /\ view[r] \in Views /\ ViewOK(view[r], Guaranteed)
  BY DEF MatchInv
<1>2. LastRows \in Nat /\ Wheels \subseteq Int /\ Item \subseteq Int
  <2>1. LastRows \in Nat /\ Wheels \subseteq Nat /\ Item \subseteq Nat
    BY MatchAssumption
  <2> QED BY <2>1
<1>3. Guaranteed \subseteq Freight
  BY DEF Guaranteed
<1> DEFINE s == view[r]
<1>4. CASE ReadRows(r)
  <2>1. s.step = "look" /\ s.jobs # <<>> /\ s.jobs \in Seq(MatchJobs)
    BY <1>1, <1>4 DEF ReadRows, ViewOK, Views
  <2>2. CASE Head(s.jobs).for = "cargo"
    <3> DEFINE F == {w \in Wheels : wheels[w].free}
               all == [k \in DOMAIN Latest(F) |-> wheels[Latest(F)[k]]]
               t == [s EXCEPT !.step = "score", !.rows = all]
    <3>1. Reads(r, t)
      BY <1>4, <2>2 DEF ReadRows
    <3>2. F \subseteq Wheels /\ IsFiniteSet(F)
      BY MatchAssumption, FS_Subset
    <3> HIDE DEF F
    <3>3. Latest(F) \in Seq(F)
      BY <1>2, <3>2, LatestAreSome
    <3>4. all \in Seq(WheelsRow)
      BY <1>1, <3>2, <3>3 DEF RowsOK
    <3>5. all \in Seq(ItemRow \cup WheelsRow)
      BY <3>4, SeqMonotonic
    <3> HIDE DEF all
    <3>6. /\ t \in Views /\ t.step = "score" /\ t.rows = all /\ t.jobs = s.jobs
          /\ t.paid = s.paid /\ t.ever = s.ever /\ t.told = s.told
      BY <1>1, <3>5 DEF Views
    <3>7. Head(s.jobs).for # "vehicle"
      BY <2>2
    <3> HIDE DEF t, s
    <3>8. ViewOK(t, Guaranteed)
      BY <1>1, <2>1, <3>4, <3>6, <3>7 DEF ViewOK, s
    <3> QED BY <3>1, <3>6, <3>8, GoesOn
  <2>3. CASE Head(s.jobs).for # "cargo"
    <3> DEFINE F == IF Head(s.jobs).row.town = "" THEN {} ELSE {i \in Item : item[i].listed}
               all == [k \in DOMAIN Latest(F) |-> item[Latest(F)[k]]]
               t == [s EXCEPT !.step = "pay", !.rows = all]
    <3>1. Reads(r, t)
      BY <1>4, <2>3 DEF ReadRows
    <3>2. F \subseteq Item /\ IsFiniteSet(F)
      BY MatchAssumption, FS_Subset
    <3> HIDE DEF F
    <3>3. Latest(F) \in Seq(F)
      BY <1>2, <3>2, LatestAreSome
    <3>4. all \in Seq(ItemRow)
      BY <1>1, <3>2, <3>3 DEF RowsOK
    <3>5. all \in Seq(ItemRow \cup WheelsRow)
      BY <3>4, SeqMonotonic
    <3> HIDE DEF all
    <3>6. /\ t \in Views /\ t.step = "pay" /\ t.rows = all /\ t.jobs = s.jobs
          /\ t.paid = s.paid /\ t.ever = s.ever /\ t.told = s.told
      BY <1>1, <3>5 DEF Views
    <3>7. Head(s.jobs).for = "vehicle"
      <4>1. Head(s.jobs) \in MatchJobs
        BY <2>1
      <4> QED BY <2>3, <4>1 DEF MatchJobs
    <3> HIDE DEF t, s
    <3>8. ViewOK(t, Guaranteed)
      BY <1>1, <2>1, <3>4, <3>6, <3>7 DEF ViewOK, s
    <3> QED BY <3>1, <3>6, <3>8, GoesOn
  <2> QED BY <2>2, <2>3
<1>5. CASE ReadPayments(r)
  <2> DEFINE t == [s EXCEPT !.step = "score", !.paid = Guaranteed]
  <2>1. Reads(r, t) /\ s.step = "pay"
    BY <1>5 DEF ReadPayments
  <2>2. /\ t \in Views /\ t.step = "score" /\ t.rows = s.rows /\ t.jobs = s.jobs
        /\ t.paid = Guaranteed /\ t.ever = s.ever /\ t.told = s.told
    BY <1>1, <1>3 DEF Views
  <2> HIDE DEF t, s
  <2>3. ViewOK(t, Guaranteed)
    BY <1>1, <2>1, <2>2 DEF ViewOK, s
  <2> QED BY <2>1, <2>2, <2>3, GoesOn
<1> QED BY <1>4, <1>5
\* What is weighed is said with the payments of the same request.
LEMMA MoreAreLeft ==
  ASSUME NEW S, NEW j \in Seq(S), Len(j) > 1
  PROVE  Tail(j) # <<>>
<1>1. j # <<>> /\ Len(Tail(j)) = Len(j) - 1 /\ Len(j) \in Nat
  BY EmptySeq, HeadTailProperties
<1>2. Tail(j) \in Seq(S) /\ Len(Tail(j)) # 0
  BY <1>1
<1>3. \A t \in Seq(S) : (t = <<>>) <=> (Len(t) = 0)
  BY EmptySeq
<1> QED BY <1>2, <1>3

LEMMA StepWeighs ==
  ASSUME MatchInv, NEW r \in Viewer, Weigh(r)
  PROVE  MatchInv'
<1> DEFINE s == view[r]
           job == Head(s.jobs)
           limit == Head(s.jobs).limit
<1>1. s \in Views /\ ViewOK(s, Guaranteed)
  BY DEF MatchInv
<1>2. PICK found \in SUBSET (Town \ Local) :
        LET scoreOf(x) ==
              IF job.for = "vehicle" THEN ForVehicle(job.row, x, s.paid, Located(found))
              ELSE ForFreight(job.row, x, Located(found))
            marks(x) == IF job.for = "vehicle"
                        THEN [score |-> scoreOf(x), of |-> x.freight, rate |-> x.rate,
                              sure |-> x.freight \in s.paid]
                        ELSE [score |-> scoreOf(x), of |-> NoMatch, rate |-> 0, sure |-> FALSE]
            all == [k \in DOMAIN s.rows |-> marks(s.rows[k])]
            fit == {k \in DOMAIN all : all[k].score # NoMatch}
            best == InOrder(fit, {p \in fit \X fit : Ahead(all, p[1], p[2])})
        IN Reads(r, [s EXCEPT !.told = @ \o [n \in 1..Min({limit, Len(best)}) |-> all[best[n]]],
                              !.jobs = Tail(@), !.rows = <<>>, !.paid = {},
                              !.step = IF Len(s.jobs) > 1 THEN "look" ELSE "told"])
  BY Zenon DEF Weigh
<1>3. s.step = "score"
  BY DEF Weigh
<1> DEFINE scoreOf(x) ==
             IF job.for = "vehicle" THEN ForVehicle(job.row, x, s.paid, Located(found))
             ELSE ForFreight(job.row, x, Located(found))
           marks(x) == IF job.for = "vehicle"
                       THEN [score |-> scoreOf(x), of |-> x.freight, rate |-> x.rate,
                             sure |-> x.freight \in s.paid]
                       ELSE [score |-> scoreOf(x), of |-> NoMatch, rate |-> 0, sure |-> FALSE]
           all == [k \in DOMAIN s.rows |-> marks(s.rows[k])]
           fit == {k \in DOMAIN all : all[k].score # NoMatch}
           best == InOrder(fit, {p \in fit \X fit : Ahead(all, p[1], p[2])})
           more == [n \in 1..Min({limit, Len(best)}) |-> all[best[n]]]
           st == IF Len(s.jobs) > 1 THEN "look" ELSE "told"
           t == [s EXCEPT !.told = s.told \o more, !.jobs = Tail(s.jobs), !.rows = <<>>, !.paid = {},
                          !.step = st]
<1>4. Reads(r, t)
  BY <1>2
<1>5. /\ s.jobs # <<>> /\ s.jobs \in Seq(MatchJobs) /\ s.told \in Seq(Marks)
      /\ s.rows \in Seq(IF job.for = "vehicle" THEN ItemRow ELSE WheelsRow)
      /\ s.paid \subseteq s.ever /\ Guaranteed \subseteq s.ever /\ s.ever \subseteq Freight
      /\ \A k \in DOMAIN s.told : s.told[k].sure => s.told[k].of \in s.ever
  BY <1>1, <1>3 DEF ViewOK, Views
<1>6. job \in MatchJobs /\ limit \in Nat /\ Tail(s.jobs) \in Seq(MatchJobs)
  <2>1. job \in MatchJobs /\ Tail(s.jobs) \in Seq(MatchJobs)
    BY <1>5
  <2> QED BY <2>1 DEF MatchJobs
<1>7. \A k \in DOMAIN s.rows : marks(s.rows[k]) \in MarkedRow
                               /\ (marks(s.rows[k]).sure => marks(s.rows[k]).of \in s.paid)
  <2> SUFFICES ASSUME NEW k \in DOMAIN s.rows
               PROVE  marks(s.rows[k]) \in MarkedRow
                      /\ (marks(s.rows[k]).sure => marks(s.rows[k]).of \in s.paid)
    OBVIOUS
  <2> DEFINE x == s.rows[k]
  <2>1. scoreOf(x) \in Scores
    <3>1. /\ ForVehicle(job.row, x, s.paid, Located(found)) \in {NoMatch} \cup 35..100
          /\ ForFreight(x, job.row, Located(found)) \in {NoMatch} \cup 35..100
          /\ ForFreight(job.row, x, Located(found)) \in {NoMatch} \cup 35..100
      BY RowScores
    <3> QED BY <3>1 DEF Scores
  <2>2. job.for = "vehicle" => x.freight \in Int /\ x.rate \in Nat
    <3>1. job.for = "vehicle" => x \in ItemRow
      BY <1>5
    <3> QED BY <3>1 DEF ItemRow
  <2>3. NoMatch \in Int
    BY DEF NoMatch
  <2> HIDE DEF scoreOf, x, s, job
  <2>4. CASE job.for = "vehicle"
    <3>1. marks(x) = [score |-> scoreOf(x), of |-> x.freight, rate |-> x.rate,
                      sure |-> x.freight \in s.paid]
      BY <2>4
    <3>2. marks(x) \in MarkedRow
      BY <2>1, <2>2, <2>4, <3>1 DEF MarkedRow
    <3>3. marks(x).sure => marks(x).of \in s.paid
      BY <3>1
    <3> QED BY <3>2, <3>3 DEF x
  <2>5. CASE job.for # "vehicle"
    <3>1. marks(x) = [score |-> scoreOf(x), of |-> NoMatch, rate |-> 0, sure |-> FALSE]
      BY <2>5
    <3>2. marks(x) \in MarkedRow
      BY <2>1, <2>3, <3>1 DEF MarkedRow
    <3>3. ~marks(x).sure
      BY <3>1
    <3> QED BY <3>2, <3>3 DEF x
  <2> QED BY <2>4, <2>5
<1> HIDE DEF scoreOf, marks
<1>8. all \in Seq(MarkedRow) /\ \A k \in DOMAIN all : all[k].sure => all[k].of \in s.paid
  BY <1>5, <1>7
<1> HIDE DEF all
<1>9. best \in Seq(fit)
  <2> DEFINE ahead == {p \in fit \X fit : Ahead(all, p[1], p[2])}
  <2>1. fit \subseteq 1..Len(all) /\ fit \subseteq DOMAIN all /\ Len(all) \in Nat
    BY <1>8
  <2>2. IsFiniteSet(fit)
    BY <2>1, FS_Interval, FS_Subset
  <2>3. Orders(ahead, fit)
    BY <1>8, <2>1, AheadOrders
  <2> HIDE DEF ahead, fit
  <2>4. InOrder(fit, ahead) \in Seq(fit)
    BY <2>2, <2>3, AllInOrder
  <2> QED BY <2>4 DEF ahead
<1> HIDE DEF best
<1>10. /\ more \in Seq(Marks)
       /\ \A k \in DOMAIN more : more[k].sure => more[k].of \in s.ever
  <2> DEFINE m == Min({limit, Len(best)})
  <2>1. m \in Nat /\ m <= Len(best)
    <3>1. Len(best) \in Int /\ limit \in Int /\ Len(best) \in Nat
      BY <1>6, <1>9
    <3>2. m = IF limit <= Len(best) THEN limit ELSE Len(best)
      BY <3>1, LeastOfTwo
    <3> HIDE DEF m, limit
    <3> QED BY <1>6, <3>1, <3>2
  <2> HIDE DEF m
  <2>2. ASSUME NEW n \in 1..m
        PROVE  all[best[n]] \in Marks /\ (all[best[n]].sure => all[best[n]].of \in s.ever)
    <3>1. best[n] \in DOMAIN all /\ all[best[n]].score # NoMatch
      BY <1>9, <2>1
    <3>2. all[best[n]] \in MarkedRow
      BY <1>8, <3>1
    <3>3. all[best[n]].score \in 35..100
      BY <3>1, <3>2 DEF MarkedRow, Scores
    <3>4. all[best[n]] \in Marks
      BY <3>2, <3>3 DEF MarkedRow, Marks
    <3> QED BY <1>5, <1>8, <3>1, <3>4
  <2>3. more = [n \in 1..m |-> all[best[n]]]
    BY DEF m
  <2> HIDE DEF more
  <2>4. DOMAIN more = 1..m /\ \A n \in 1..m : more[n] = all[best[n]]
    BY <2>3
  <2>5. more \in Seq(Marks)
    BY <2>1, <2>2, <2>3
  <2> QED BY <2>2, <2>4, <2>5
<1> HIDE DEF more, limit, job
<1>11. /\ s.told \o more \in Seq(Marks)
       /\ \A k \in DOMAIN (s.told \o more) :
            (s.told \o more)[k].sure => (s.told \o more)[k].of \in s.ever
  <2>1. s.told \in Seq(Marks) /\ more \in Seq(Marks)
    BY <1>5, <1>10
  <2> DEFINE u == s.told
  <2>2. \A k \in DOMAIN u : u[k].sure => u[k].of \in s.ever
    BY <1>5
  <2> HIDE DEF u
  <2>3. u \in Seq(Marks)
    BY <2>1 DEF u
  <2>4. /\ u \o more \in Seq(Marks) /\ Len(u \o more) = Len(u) + Len(more)
        /\ \A k \in 1..Len(u) + Len(more) :
             (u \o more)[k] = IF k <= Len(u) THEN u[k] ELSE more[k - Len(u)]
    BY <2>1, <2>3, ConcatProperties
  <2>5. ASSUME NEW k \in DOMAIN (u \o more), (u \o more)[k].sure
        PROVE  (u \o more)[k].of \in s.ever
    <3>1. k \in 1..Len(u) + Len(more) /\ Len(u) \in Nat /\ Len(more) \in Nat
      BY <2>1, <2>3, <2>4
    <3>2. CASE k <= Len(u)
      <4>1. k \in DOMAIN u /\ (u \o more)[k] = u[k]
        BY <2>3, <2>4, <3>1, <3>2
      <4> QED BY <2>2, <2>5, <4>1
    <3>3. CASE ~(k <= Len(u))
      <4>1. k - Len(u) \in DOMAIN more /\ (u \o more)[k] = more[k - Len(u)]
        BY <2>1, <2>4, <3>1, <3>3
      <4> QED BY <1>10, <2>5, <4>1
    <3> QED BY <3>2, <3>3
  <2> QED BY <2>4, <2>5 DEF u
<1>12. st \in {"look", "told"} /\ (st = "look" => Tail(s.jobs) # <<>>)
  <2> DEFINE j == s.jobs
  <2>1. j \in Seq(MatchJobs) /\ j # <<>>
    BY <1>5
  <2> HIDE DEF j
  <2>2. Len(j) > 1 => Tail(j) # <<>>
    BY <2>1, MoreAreLeft
  <2> QED BY <2>2 DEF j
<1> DEFINE told2 == s.told \o more
<1>13. told2 \in Seq(Marks) /\ \A k \in DOMAIN told2 : told2[k].sure => told2[k].of \in s.ever
  BY <1>11
<1> HIDE DEF st, told2, s
<1>14. /\ t \in Views /\ t.step = st /\ t.rows = <<>> /\ t.jobs = Tail(s.jobs)
       /\ t.paid = {} /\ t.ever = s.ever /\ t.told = told2
  <2>1. <<>> \in Seq(ItemRow \cup WheelsRow)
    BY EmptySeq
  <2>2. t = [s EXCEPT !.told = told2, !.jobs = Tail(s.jobs), !.rows = <<>>, !.paid = {},
                      !.step = st]
    BY DEF told2
  <2> QED BY <1>1, <1>5, <1>6, <1>12, <1>13, <2>1, <2>2 DEF Views
<1> HIDE DEF t
<1>15. ViewOK(t, Guaranteed)
  BY <1>5, <1>12, <1>13, <1>14 DEF ViewOK
<1> QED BY <1>4, <1>14, <1>15, GoesOn

LEMMA StirsAreCounted ==
  ASSUME RowsOK, Stirs PROVE changes' \in 0..MostChanges
<1>1. MostChanges \in Nat
  BY MatchAssumption
<1>2. changes \in 0..MostChanges /\ changes < MostChanges /\ changes' = changes + 1
  BY DEF RowsOK, Stirs
<1> QED BY <1>1, <1>2

\* Escrow, moderation and the drivers change the rows meanwhile.
LEMMA StepStirs ==
  ASSUME MatchInv,
         \/ \E c \in Freight : Secure(c)
         \/ \E i \in Item : Relist(i)
         \/ \E w \in Wheels, t \in Town \cup {""} : Park(w, t)
  PROVE  MatchInv'
<1>1. RowsOK
  BY DEF MatchInv
<1>2. Stirs => changes' \in 0..MostChanges
  BY <1>1, StirsAreCounted
<1>3. CASE \E c \in Freight : Secure(c)
  <2>1. PICK c \in Freight : Secure(c)
    BY <1>3
  <2>2. freight' \in [Freight -> FreightRow]
    <3>1. freight[c] \in FreightRow /\ freight \in [Freight -> FreightRow]
      BY <1>1 DEF RowsOK
    <3>2. [freight[c] EXCEPT !.guaranteed = ~freight[c].guaranteed] \in FreightRow
      BY <3>1 DEF FreightRow
    <3>3. freight' = [freight EXCEPT ![c] = [freight[c] EXCEPT !.guaranteed = ~freight[c].guaranteed]]
      BY <2>1 DEF Secure
    <3> QED BY <3>1, <3>2, <3>3
  <2>3. Stirs /\ Seeing /\ UNCHANGED <<wheels, item>>
    BY <2>1 DEF Secure
  <2>4. RowsOK'
    BY <1>1, <1>2, <2>2, <2>3 DEF RowsOK
  <2> QED BY <2>3, <2>4, Sees
<1>4. CASE \E i \in Item : Relist(i)
  <2>1. PICK i \in Item : Relist(i)
    BY <1>4
  <2>2. item' \in [Item -> ItemRow]
    <3>1. item[i] \in ItemRow /\ item \in [Item -> ItemRow]
      BY <1>1 DEF RowsOK
    <3>2. [item[i] EXCEPT !.listed = ~item[i].listed] \in ItemRow
      BY <3>1 DEF ItemRow
    <3>3. item' = [item EXCEPT ![i] = [item[i] EXCEPT !.listed = ~item[i].listed]]
      BY <2>1 DEF Relist
    <3> QED BY <3>1, <3>2, <3>3
  <2>3. Stirs /\ UNCHANGED <<wheels, freight, view>>
    BY <2>1 DEF Relist
  <2>4. RowsOK' /\ Guaranteed' = Guaranteed
    BY <1>1, <1>2, <2>2, <2>3 DEF RowsOK, Guaranteed
  <2> QED BY <2>3, <2>4, SameView
<1>5. CASE \E w \in Wheels, t \in Town \cup {""} : Park(w, t)
  <2>1. PICK w \in Wheels, t \in Town \cup {""} : Park(w, t)
    BY <1>5
  <2>2. wheels' \in [Wheels -> WheelsRow]
    <3> DEFINE town == IF t = "" THEN wheels[w].town ELSE t
               row == [wheels[w] EXCEPT !.free = t # "", !.town = town]
    <3>1. wheels[w] \in WheelsRow /\ wheels \in [Wheels -> WheelsRow]
      BY <1>1 DEF RowsOK
    <3>2. town \in Town \cup {""}
      BY <2>1, <3>1 DEF WheelsRow
    <3>3. wheels' = [wheels EXCEPT ![w] = row]
      BY <2>1, <3>1 DEF Park
    <3> HIDE DEF town
    <3>4. row \in WheelsRow
      BY <3>1, <3>2 DEF WheelsRow
    <3> QED BY <3>1, <3>3, <3>4
  <2>3. Stirs /\ UNCHANGED <<freight, item, view>>
    BY <2>1 DEF Park
  <2>4. RowsOK' /\ Guaranteed' = Guaranteed
    BY <1>1, <1>2, <2>2, <2>3 DEF RowsOK, Guaranteed
  <2> QED BY <2>3, <2>4, SameView
<1> QED BY <1>3, <1>4, <1>5

LEMMA MatchStep == MatchInv /\ [MatchNext]_matchVars => MatchInv'
<1> SUFFICES ASSUME MatchInv, [MatchNext]_matchVars PROVE MatchInv'
  OBVIOUS
<1>1. CASE \E r \in Viewer : ReadRows(r) \/ ReadPayments(r) \/ Weigh(r)
  BY <1>1, StepReads, StepWeighs
<1>2. CASE \E r \in Viewer, w \in Wheels : ViewVehicle(r, wheels[w].owner, w)
  BY <1>2, StepBegins
<1>3. CASE \E r \in Viewer, c \in Freight :
             ViewFreight(r, freight[c].owner, c) \/ ViewSummary(r, freight[c].owner)
  BY <1>3, StepBegins
<1>4. CASE \/ \E c \in Freight : Secure(c)
           \/ \E i \in Item : Relist(i)
           \/ \E w \in Wheels, t \in Town \cup {""} : Park(w, t)
  BY <1>4, StepStirs
<1>5. CASE UNCHANGED matchVars
  <2>1. UNCHANGED <<wheels, freight, item, view, changes>>
    BY <1>5 DEF matchVars
  <2>2. RowsOK' /\ Guaranteed' = Guaranteed
    BY <2>1 DEF MatchInv, RowsOK, Guaranteed
  <2> QED BY <2>1, <2>2, SameView
<1> QED BY <1>1, <1>2, <1>3, <1>4, <1>5 DEF MatchNext

LEMMA MatchHolds == MatchInv => MatchTypeOK /\ BothSidesSee /\ GuaranteeWasTrue
<1> SUFFICES ASSUME MatchInv PROVE MatchTypeOK /\ GuaranteeWasTrue
  BY BothSides
<1>1. \A r \in Viewer : view[r] \in Views /\ ViewOK(view[r], Guaranteed)
  BY DEF MatchInv
<1>2. GuaranteeWasTrue
  BY <1>1 DEF ViewOK, GuaranteeWasTrue
<1>3. ASSUME NEW r \in Viewer
      PROVE  /\ view[r].step \in {"idle", "look", "pay", "score", "told"}
             /\ \A k \in DOMAIN view[r].told : view[r].told[k].score \in 35..100
  <2>1. view[r].told \in Seq(Marks) /\ view[r].step \in {"idle", "look", "pay", "score", "told"}
    BY <1>1 DEF Views
  <2>2. \A k \in DOMAIN view[r].told : view[r].told[k] \in Marks
    BY <2>1
  <2> QED BY <2>1, <2>2 DEF Marks
<1> QED BY <1>2, <1>3 DEF MatchInv, RowsOK, MatchTypeOK

-----------------------------------------------------------------------------
(* Trucks.                                                                  *)

\* What is read in an ad has a weight.
LEMMA OverIs ==
  ASSUME NEW a, NEW b, a.kg \in Nat, b.kg \in Nat
  PROVE  Over(a, b).kg \in Nat
<1>1. "kg" \in Facts
  BY DEF Facts
<1>2. Over(a, b)["kg"] = IF a["kg"] # Nothing("kg") THEN a["kg"] ELSE b["kg"]
  BY <1>1 DEF Over
<1> QED BY <1>2

LEMMA ReadingIs ==
  ASSUME NEW t \in Ad, NEW said \in ModelOf[t] \cup {NoReading}
  PROVE  Reading(t, said).kg \in Nat
<1>1. RegexOf[t].kg \in Nat /\ (said \in ModelOf[t] => said.kg \in Nat)
  BY TrucksAssumption
<1>2. CASE said = NoReading
  BY <1>1, <1>2 DEF Reading
<1>3. CASE said # NoReading
  BY <1>1, <1>3, OverIs DEF Reading
<1> QED BY <1>2, <1>3

LEMMA ParamsIs ==
  ASSUME NEW x \in Texts PROVE Params(x).kg \in Nat
<1> DEFINE m == IF x.parsed.max # 0 THEN x.parsed.max ELSE x.parsed.min
           kg == IF x.kg # 0 THEN x.kg ELSE Kg(m)
<1>1. x.kg \in Nat /\ x.parsed.max \in Nat /\ x.parsed.min \in Nat
  BY TrucksAssumption
<1>2. m \in Nat
  BY <1>1
<1> HIDE DEF m
<1>3. Kg(m) \in Nat
  BY <1>2 DEF Kg
<1>4. kg \in Nat
  BY <1>1, <1>3
<1>5. Params(x).kg \in {0, kg}
  BY DEF Params, NoQuery, m
<1> QED BY <1>4, <1>5

LEMMA NoFactsWeighNothing == NoFacts.kg = 0
BY DEF NoFacts, Facts, Nothing

\* An element taken out of a sequence that holds it once.
LEMMA RemoveFirstIs ==
  ASSUME NEW S, NEW s \in Seq(S), IsInjective(s), NEW e
  PROVE  /\ RemoveFirst(s, e) \in Seq(S)
         /\ Range(RemoveFirst(s, e)) = Range(s) \ {e}
         /\ IsInjective(RemoveFirst(s, e))
<1> DEFINE r == RemoveFirst(s, e)
           n == Len(s)
<1>1. n \in Nat /\ DOMAIN s = 1..n
  OBVIOUS
<1>2. CASE ~\E i \in 1..n : s[i] = e
  <2>1. r = s
    BY <1>2 DEF RemoveFirst
  <2> QED BY <1>1, <1>2, <2>1 DEF Range
<1>3. CASE \E i \in 1..n : s[i] = e
  <2>1. PICK k \in 1..n : s[k] = e
    BY <1>3
  <2>2. {i \in 1..n : s[i] = e} = {k}
    BY <1>1, <2>1 DEF IsInjective
  <2>3. Min({k}) = k
    BY <2>1 DEF Min
  <2>4. SelectInSeq(s, LAMBDA v : v = e) = k
    BY <2>2, <2>3 DEF SelectInSeq
  <2>5. r = SubSeq(s, 1, k - 1) \o SubSeq(s, k + 1, n)
    BY <1>3, <2>4 DEF RemoveFirst, RemoveAt
  <2> DEFINE a == SubSeq(s, 1, k - 1)
             b == SubSeq(s, k + 1, n)
  <2>6. /\ a \in Seq(S) /\ Len(a) = k - 1
        /\ \A i \in 1..k - 1 : a[i] = s[i]
    BY <1>1, <2>1
  <2>7. /\ b \in Seq(S) /\ Len(b) = n - k
        /\ \A i \in 1..n - k : b[i] = s[k + i]
    BY <1>1, <2>1
  <2> HIDE DEF a, b, r, n
  <2>8. /\ r \in Seq(S) /\ Len(r) = n - 1
        /\ \A i \in 1..n - 1 : r[i] = IF i < k THEN s[i] ELSE s[i + 1]
    <3>1. r = a \o b
      BY <2>5 DEF a, b, n
    <3>2. /\ r \in Seq(S) /\ Len(r) = Len(a) + Len(b)
          /\ \A i \in 1..Len(a) + Len(b) : r[i] = IF i <= Len(a) THEN a[i] ELSE b[i - Len(a)]
      BY <2>6, <2>7, <3>1, ConcatProperties
    <3>3. ASSUME NEW i \in 1..n - 1 PROVE r[i] = IF i < k THEN s[i] ELSE s[i + 1]
      <4>1. CASE i < k
        BY <1>1, <2>1, <2>6, <2>7, <3>2, <3>3, <4>1
      <4>2. CASE ~(i < k)
        <5>1. i - (k - 1) \in 1..n - k /\ k + (i - (k - 1)) = i + 1
          BY <1>1, <2>1, <3>3, <4>2
        <5>2. r[i] = b[i - (k - 1)]
          BY <1>1, <2>1, <2>6, <2>7, <3>2, <3>3, <4>2
        <5> QED BY <2>7, <4>2, <5>1, <5>2
      <4> QED BY <4>1, <4>2
    <3> QED BY <1>1, <2>1, <2>6, <2>7, <3>2, <3>3
  <2>9. DOMAIN r = 1..n - 1
    BY <2>8
  <2>10. IsInjective(r)
    <3> SUFFICES ASSUME NEW i \in 1..n - 1, NEW j \in 1..n - 1, r[i] = r[j] PROVE i = j
      BY <2>9 DEF IsInjective
    <3> DEFINE back(x) == IF x < k THEN x ELSE x + 1
    <3>1. /\ back(i) \in 1..n /\ back(j) \in 1..n /\ (back(i) = back(j) => i = j)
      BY <1>1, <2>1
    <3>2. r[i] = s[back(i)] /\ r[j] = s[back(j)]
      BY <2>8
    <3> HIDE DEF back
    <3> QED BY <1>1, <3>1, <3>2 DEF IsInjective
  <2>11. Range(r) = Range(s) \ {e}
    <3>1. ASSUME NEW i \in 1..n - 1 PROVE r[i] \in Range(s) \ {e}
      <4>1. PICK j \in 1..n : r[i] = s[j] /\ j # k
        <5>1. CASE i < k
          BY <1>1, <2>1, <2>8, <3>1, <5>1
        <5>2. CASE ~(i < k)
          <6>1. i + 1 \in 1..n /\ i + 1 # k
            BY <1>1, <2>1, <3>1, <5>2
          <6> QED BY <2>8, <3>1, <5>2, <6>1
        <5> QED BY <5>1, <5>2
      <4>2. s[j] # e
        BY <1>1, <2>1, <4>1 DEF IsInjective
      <4> QED BY <1>1, <4>1, <4>2 DEF Range
    <3>2. ASSUME NEW j \in 1..n, s[j] # e PROVE \E i \in 1..n - 1 : r[i] = s[j]
      <4>1. j # k
        BY <2>1, <3>2
      <4>2. CASE j < k
        BY <1>1, <2>1, <2>8, <3>2, <4>2
      <4>3. CASE j > k
        <5>1. j - 1 \in 1..n - 1 /\ ~(j - 1 < k) /\ (j - 1) + 1 = j
          BY <1>1, <2>1, <3>2, <4>3
        <5>2. r[j - 1] = s[j]
          BY <2>8, <5>1
        <5> QED BY <5>1, <5>2
      <4> QED BY <1>1, <2>1, <4>1, <4>2, <4>3
    <3>3. ASSUME NEW y \in Range(r) PROVE y \in Range(s) \ {e}
      <4>1. PICK i \in 1..n - 1 : y = r[i]
        BY <2>9, <3>3 DEF Range
      <4> QED BY <3>1, <4>1
    <3>4. ASSUME NEW y \in Range(s) \ {e} PROVE y \in Range(r)
      <4>1. PICK j \in 1..n : y = s[j]
        BY <1>1, <3>4 DEF Range
      <4>2. PICK i \in 1..n - 1 : r[i] = s[j]
        BY <3>2, <3>4, <4>1
      <4> QED BY <2>9, <4>1, <4>2 DEF Range
    <3> QED BY <3>3, <3>4
  <2> QED BY <2>8, <2>10, <2>11 DEF r
<1> QED BY <1>2, <1>3
-----------------------------------------------------------------------------
(* What a query gives.                                                      *)

Nearest(fit, apart, kg) ==
  {p \in fit \X fit : IF apart[p[1]] # apart[p[2]] THEN apart[p[1]] < apart[p[2]]
                      ELSE IF kg[p[1]] # kg[p[2]] THEN kg[p[1]] > kg[p[2]]
                      ELSE p[1] < p[2]}

LEMMA NearestOrders ==
  ASSUME NEW fit, fit \subseteq Int, NEW apart, NEW kg,
         \A i \in fit : apart[i] \in Int /\ kg[i] \in Int
  PROVE  Orders(Nearest(fit, apart, kg), fit)
<1> DEFINE nearest == Nearest(fit, apart, kg)
<1>1. \A i, j \in fit :
        <<i, j>> \in nearest <=>
          \/ apart[i] < apart[j]
          \/ apart[i] = apart[j] /\ (kg[i] > kg[j] \/ (kg[i] = kg[j] /\ i < j))
  BY DEF Nearest
<1> HIDE DEF nearest
<1>2. \A i \in fit : <<i, i>> \notin nearest
  BY <1>1
<1>3. \A i, j \in fit : i # j => <<i, j>> \in nearest \/ <<j, i>> \in nearest
  BY <1>1
<1>4. \A i, j, k \in fit : <<i, j>> \in nearest /\ <<j, k>> \in nearest => <<i, k>> \in nearest
  BY <1>1
<1>5. Orders(nearest, fit)
  BY <1>2, <1>3, <1>4 DEF Orders
<1> QED BY <1>5 DEF nearest

\* A query gives ads with a row, and none only where none fits.
LEMMA CandidatesAre ==
  ASSUME recent \in Seq(Ad), \A t \in Ad : offers[t].kg \in Nat, NEW q, q.kg \in Nat, NEW l
  PROVE  /\ Candidates(q, l) \in Seq(Ad)
         /\ Candidates(q, l) = <<>> =>
              \A t \in Range(recent) : ~Fits(offers[t], q, l)
<1> DEFINE able == {i \in DOMAIN recent : Fits(offers[recent[i]], q, l)}
           fit == FirstOf(able, CandidateLimit, Ascending)
           kg(i) == offers[recent[i]].kg
           apart(i) == Apart(kg(i), q.kg)
           nearest == {p \in fit \X fit : IF apart(p[1]) # apart(p[2]) THEN apart(p[1]) < apart(p[2])
                                          ELSE IF kg(p[1]) # kg(p[2]) THEN kg(p[1]) > kg(p[2])
                                          ELSE p[1] < p[2]}
           order == IF LowerKg(l) /\ q.kg > 0 THEN nearest ELSE Ascending
           picked == InOrder(fit, order)
<1>1. Candidates(q, l) = [k \in DOMAIN picked |-> recent[picked[k]]]
  BY DEF Candidates
<1>2. able \subseteq 1..Len(recent) /\ Len(recent) \in Nat /\ DOMAIN recent = 1..Len(recent)
  OBVIOUS
<1>3. IsFiniteSet(able) /\ able \subseteq Int
  <2> HIDE DEF able
  <2>1. IsFiniteSet(1..Len(recent))
    BY <1>2, FS_Interval
  <2>2. IsFiniteSet(able)
    BY <1>2, <2>1, FS_Subset
  <2>3. 1..Len(recent) \subseteq Int
    OBVIOUS
  <2> QED BY <1>2, <2>2, <2>3, Zenon
<1>4. CandidateLimit \in Nat \ {0}
  BY TrucksAssumption
<1>5. Orders(Ascending, able)
  BY <1>3, WholesInOrder
<1>6. fit \subseteq able /\ (fit = {} => able = {})
  <2> HIDE DEF able
  <2> QED BY <1>3, <1>4, <1>5, FirstAreSome
<1>7. IsFiniteSet(fit) /\ fit \subseteq Int /\ Cardinality(fit) \in Nat
  BY <1>3, <1>6, FS_Subset, FS_CardinalityType
<1>8. \A i \in fit : kg(i) \in Int /\ apart(i) \in Int
  <2>1. ASSUME NEW i \in fit PROVE kg(i) \in Nat
    BY <1>2, <1>6
  <2>2. ASSUME NEW i \in fit PROVE apart(i) \in Int
    <3> HIDE DEF kg
    <3> QED BY <2>1 DEF Apart
  <2> QED BY <2>1, <2>2
<1> DEFINE kgs == [i \in fit |-> kg(i)]
           aparts == [i \in fit |-> apart(i)]
<1>9. Orders(nearest, fit)
  <2>1. \A i \in fit : aparts[i] = apart(i) /\ kgs[i] = kg(i)
    OBVIOUS
  <2> HIDE DEF aparts, kgs, apart, kg, fit
  <2>2. Orders(Nearest(fit, aparts, kgs), fit)
    BY <1>7, <1>8, <2>1, NearestOrders
  <2>3. Nearest(fit, aparts, kgs) = nearest
    BY <2>1 DEF Nearest
  <2> HIDE DEF nearest
  <2> QED BY <2>2, <2>3
<1>10. Orders(order, fit)
  <2>1. Orders(Ascending, fit)
    BY <1>7, WholesInOrder
  <2> HIDE DEF nearest, fit
  <2> QED BY <1>9, <2>1
<1> HIDE DEF order, fit
<1>11. /\ picked \in Seq(fit) /\ DOMAIN picked = 1..Cardinality(fit)
       /\ Len(picked) = Cardinality(fit)
  BY <1>7, <1>10, AllInOrder
<1> HIDE DEF picked
<1>12. \A k \in DOMAIN picked : recent[picked[k]] \in Ad
  BY <1>2, <1>6, <1>11
<1>13. Candidates(q, l) \in Seq(Ad)
  BY <1>1, <1>11, <1>12
<1>14. ASSUME Candidates(q, l) = <<>> PROVE able = {}
  <2>1. DOMAIN Candidates(q, l) = 1..Cardinality(fit)
    BY <1>1, <1>11
  <2>2. DOMAIN <<>> = {}
    OBVIOUS
  <2>3. 1..Cardinality(fit) = {}
    BY <1>14, <2>1, <2>2
  <2>4. Cardinality(fit) = 0
    BY <1>7, <2>3
  <2>5. fit = {}
    BY <1>7, <2>4, FS_EmptySet
  <2> QED BY <1>6, <2>5
<1>15. ASSUME able = {}, NEW t \in Range(recent) PROVE ~Fits(offers[t], q, l)
  <2>1. PICK i \in DOMAIN recent : t = recent[i]
    BY <1>15 DEF Range
  <2> QED BY <1>15, <2>1
<1> QED BY <1>13, <1>14, <1>15

\* The answer is of what was found, and not empty where something was.
LEMMA RankedAre ==
  ASSUME NEW got \in Seq(Ad), NEW top \in Ranked(got)
  PROVE  top \in Seq(Ad) /\ (top = <<>> => got = <<>>)
<1>1. TopN \in Nat \ {0}
  BY TrucksAssumption
<1>2. Leading(got, TopN) \in Seq(Ad) /\ (Leading(got, TopN) = <<>> => got = <<>>)
  <2> DEFINE m == Min({TopN, Len(got)})
  <2>1. TopN \in Int /\ Len(got) \in Int /\ Len(got) \in Nat
    BY <1>1
  <2>2. m = IF TopN <= Len(got) THEN TopN ELSE Len(got)
    BY <2>1, LeastOfTwo
  <2> HIDE DEF m
  <2>3. m \in 0..Len(got) /\ (m = 0 => Len(got) = 0)
    BY <1>1, <2>1, <2>2
  <2>4. SubSeq(got, 1, m) \in Seq(Ad) /\ Len(SubSeq(got, 1, m)) = m
    BY <2>1, <2>3
  <2>5. Leading(got, TopN) = SubSeq(got, 1, m)
    BY DEF Leading, m
  <2>6. Leading(got, TopN) = <<>> => m = 0
    <3>1. Len(<<>>) = 0
      OBVIOUS
    <3> QED BY <2>4, <2>5, <3>1
  <2>7. Len(got) = 0 => got = <<>>
    BY EmptySeq
  <2> QED BY <2>3, <2>4, <2>5, <2>6, <2>7
<1>3. CASE top = Leading(got, TopN)
  BY <1>2, <1>3
<1>4. CASE top # Leading(got, TopN)
  <2>1. PICK n \in 1..TopN : top \in {[i \in 1..n |-> got[pick[i]]] : pick \in [1..n -> 1..Len(got)]}
    BY <1>4 DEF Ranked
  <2>2. PICK pick \in [1..n -> 1..Len(got)] : top = [i \in 1..n |-> got[pick[i]]]
    BY <2>1
  <2>3. n \in Nat /\ n >= 1
    BY <1>1, <2>1
  <2>4. \A i \in 1..n : got[pick[i]] \in Ad
    BY <2>2
  <2>5. top \in Seq(Ad) /\ DOMAIN top = 1..n
    BY <2>2, <2>3, <2>4
  <2>6. top # <<>>
    <3>1. DOMAIN <<>> = {}
      OBVIOUS
    <3> QED BY <2>3, <2>5, <3>1
  <2> QED BY <2>5, <2>6
<1> QED BY <1>3, <1>4
-----------------------------------------------------------------------------
(* The invariant of the searches.                                           *)

SearchFields ==
  {"step", "via", "query", "level", "found", "top", "premium", "open", "steady", "owned"}

SearchShape(s) ==
  /\ DOMAIN s = SearchFields
  /\ s.step \in {"idle", "user", "find", "rank", "unlocks", "shown"}
  /\ s.via \in {"api", "bot"} /\ s.premium \in BOOLEAN
  /\ s.query.kg \in Nat /\ s.level \in Levels /\ s.found \in Seq(Ad) /\ s.top \in Seq(Ad)

\* What has fitted from the beginning fits now, and no level passed it over.
NotPassedOver(s, rws, there) ==
  /\ s.steady \subseteq FitPairs(s.query, rws, there)
  /\ \A p \in s.steady : s.level <= p[1]
  /\ s.step = "rank" /\ s.found = <<>> => s.steady = {}
  /\ (s.step \in {"unlocks", "shown"} \/ (s.step = "user" /\ s.via = "bot")) /\ s.top = <<>> =>
       s.steady = {}

ContactsOf(s, mine) ==
  /\ s.owned \subseteq mine /\ s.open \subseteq mine
  /\ s.step = "shown" /\ ~s.premium => s.owned \cap Range(s.top) \subseteq s.open

SearchOK(s, mine, rws, there) ==
  SearchShape(s) /\ NotPassedOver(s, rws, there) /\ ContactsOf(s, mine)

RowsStand ==
  /\ recent \in Seq(Ad) /\ IsInjective(recent) /\ DOMAIN offers = Ad
  /\ \A t \in Ad : offers[t].kg \in Nat
  /\ \A t \in Ad \ Range(recent) : offers[t] = NoFacts

CycleOK ==
  /\ cycle.step \in {"rest", "walk", "add"} /\ cycle.left \subseteq Ad
  /\ cycle.step = "add" => cycle.ad \in Ad

CollectOK ==
  /\ seen \subseteq Ad /\ lost \subseteq Ad /\ queue \in [Ad -> Nat] /\ CycleOK

PayOK ==
  /\ draft \subseteq Seeker /\ paidUp \subseteq Seeker /\ unlocked \subseteq Seeker \X Ad
  /\ invoices \in [Seeker \X Ad -> 0..MostInvoices]

SearchesOK ==
  /\ DOMAIN search = Seeker
  /\ \A u \in Seeker : SearchOK(search[u], Owned(u), offers, Range(recent))

TrucksInv == RowsStand /\ CollectOK /\ AdsAreKept /\ PayOK /\ SearchesOK

LEMMA NoSearchIs ==
  \A mine, rws, there : SearchOK(NoSearch, mine, rws, there)
<1> SUFFICES ASSUME NEW mine, NEW rws, NEW there PROVE SearchOK(NoSearch, mine, rws, there)
  OBVIOUS
<1>1. /\ NoSearch.step = "idle" /\ NoSearch.via = "api" /\ NoSearch.premium = FALSE
      /\ NoSearch.level = 1 /\ NoSearch.found = <<>> /\ NoSearch.top = <<>>
      /\ NoSearch.steady = {} /\ NoSearch.owned = {} /\ NoSearch.open = {}
      /\ NoSearch.query.kg = 0
  BY DEF NoSearch, NoQuery
<1>2. <<>> \in Seq(Ad) /\ 1 \in Levels
  BY EmptySeq DEF Levels
<1>3. SearchShape(NoSearch)
  <2>1. DOMAIN NoSearch = SearchFields
    BY DEF NoSearch, SearchFields
  <2>2. NoSearch.premium \in BOOLEAN
    BY <1>1
  <2>3. NoSearch.query.kg \in Nat /\ NoSearch.level \in Levels
    BY <1>1, <1>2
  <2> QED BY <1>1, <1>2, <2>1, <2>2, <2>3 DEF SearchShape
<1>4. NotPassedOver(NoSearch, rws, there)
  BY <1>1 DEF NotPassedOver
<1>5. ContactsOf(NoSearch, mine)
  BY <1>1 DEF ContactsOf
<1> QED BY <1>3, <1>4, <1>5 DEF SearchOK

LEMMA TrucksStart == TrucksInit => TrucksInv
<1> SUFFICES ASSUME TrucksInit PROVE TrucksInv
  OBVIOUS
<1>1. RowsStand
  <2>1. recent = <<>> /\ offers = [t \in Ad |-> NoFacts]
    BY DEF TrucksInit
  <2>2. <<>> \in Seq(Ad) /\ DOMAIN <<>> = {}
    BY EmptySeq
  <2> QED BY <2>1, <2>2, NoFactsWeighNothing DEF RowsStand, IsInjective
<1>2. CollectOK
  BY DEF TrucksInit, CollectOK, CycleOK, AtRest
<1>3. AdsAreKept
  BY DEF TrucksInit, AdsAreKept
<1>4. PayOK
  <2>1. MostInvoices \in Nat
    BY TrucksAssumption
  <2>2. 0 \in 0..MostInvoices
    BY <2>1
  <2> QED BY <2>2 DEF TrucksInit, PayOK
<1>5. SearchesOK
  <2>1. search = [u \in Seeker |-> NoSearch]
    BY DEF TrucksInit
  <2> QED BY <2>1, NoSearchIs DEF SearchesOK
<1> QED BY <1>1, <1>2, <1>3, <1>4, <1>5 DEF TrucksInv

-----------------------------------------------------------------------------
(* Collecting and paying.                                                   *)

LEMMA SearchesStay ==
  ASSUME SearchesOK, UNCHANGED <<offers, recent, search>>,
         \A u \in Seeker : Owned(u) \subseteq Owned(u)'
  PROVE  SearchesOK'
<1>1. ASSUME NEW u \in Seeker PROVE SearchOK(search[u], Owned(u)', offers, Range(recent))
  BY <1>1 DEF SearchesOK, SearchOK, ContactsOf
<1> QED BY <1>1 DEF SearchesOK

LEMMA StepCollects ==
  ASSUME TrucksInv,
         \/ \E S \in SUBSET Ad : Scrape(S)
         \/ Enqueue \/ CycleFails
         \/ \E t \in Ad : Mark(t) \/ SeenExpires(t) \/ SaveFails(t)
  PROVE  TrucksInv'
<1>1. UNCHANGED <<offers, recent, search, paidUp, unlocked, invoices, draft>>
  BY DEF Scrape, Enqueue, CycleFails, Mark, SeenExpires, SaveFails, paying
<1>2. RowsStand' /\ PayOK'
  BY <1>1 DEF TrucksInv, RowsStand, PayOK
<1>3. SearchesOK'
  BY <1>1, SearchesStay DEF TrucksInv, Owned
<1>4. CollectOK /\ AdsAreKept
  BY DEF TrucksInv
<1>5. CASE \E S \in SUBSET Ad : Scrape(S)
  <2>1. PICK S \in SUBSET Ad : Scrape(S)
    BY <1>5
  <2>2. CollectOK'
    BY <1>4, <2>1 DEF Scrape, CollectOK, CycleOK, Walking, AtRest
  <2>3. AdsAreKept'
    BY <1>4, <2>1 DEF Scrape, AdsAreKept, AtRest
  <2> QED BY <1>2, <1>3, <2>2, <2>3 DEF TrucksInv
<1>6. CASE Enqueue
  <2>1. cycle.ad \in Ad /\ queue[cycle.ad] \in Nat
    BY <1>4, <1>6 DEF Enqueue, CollectOK, CycleOK
  <2>2. CollectOK'
    BY <1>4, <1>6, <2>1 DEF Enqueue, CollectOK, CycleOK, Walking, AtRest
  <2>3. AdsAreKept'
    BY <1>4, <1>6, <2>1 DEF Enqueue, AdsAreKept, CollectOK
  <2> QED BY <1>2, <1>3, <2>2, <2>3 DEF TrucksInv
<1>7. CASE CycleFails
  <2>1. CollectOK'
    BY <1>4, <1>7 DEF CycleFails, CollectOK, CycleOK, AtRest
  <2>2. AdsAreKept'
    BY <1>4, <1>7 DEF CycleFails, AdsAreKept, AtRest
  <2> QED BY <1>2, <1>3, <2>1, <2>2 DEF TrucksInv
<1>8. CASE \E t \in Ad : Mark(t)
  <2>1. PICK t \in Ad : Mark(t)
    BY <1>8
  <2>2. CollectOK'
    BY <1>4, <2>1 DEF Mark, CollectOK, CycleOK, Walking, AtRest
  <2>3. AdsAreKept'
    BY <1>4, <2>1 DEF Mark, AdsAreKept
  <2> QED BY <1>2, <1>3, <2>2, <2>3 DEF TrucksInv
<1>9. CASE \E t \in Ad : SeenExpires(t)
  <2>1. PICK t \in Ad : SeenExpires(t)
    BY <1>9
  <2>2. CollectOK'
    BY <1>4, <2>1 DEF SeenExpires, CollectOK, CycleOK
  <2>3. AdsAreKept'
    BY <1>4, <2>1 DEF SeenExpires, AdsAreKept
  <2> QED BY <1>2, <1>3, <2>2, <2>3 DEF TrucksInv
<1>10. CASE \E t \in Ad : SaveFails(t)
  <2>1. PICK t \in Ad : SaveFails(t)
    BY <1>10
  <2>2. queue' = [queue EXCEPT ![t] = queue[t] - 1] /\ queue[t] - 1 \in Nat
    BY <1>4, <2>1 DEF SaveFails, CollectOK
  <2>3. CollectOK'
    BY <1>4, <2>1, <2>2 DEF SaveFails, CollectOK, CycleOK
  <2>4. AdsAreKept'
    BY <1>4, <2>1, <2>2 DEF SaveFails, AdsAreKept, CollectOK
  <2> QED BY <1>2, <1>3, <2>3, <2>4 DEF TrucksInv
<1> QED BY <1>5, <1>6, <1>7, <1>8, <1>9, <1>10

LEMMA StepPays ==
  ASSUME TrucksInv, NEW u \in Seeker,
         TurnPremium(u) \/ DraftExpires(u) \/ \E t \in Ad : Invoice(u, t) \/ PayInvoice(u, t)
  PROVE  TrucksInv'
<1>1. UNCHANGED <<seen, cycle, queue, lost, offers, recent, search>> /\ unlocked \subseteq unlocked'
  BY DEF TurnPremium, DraftExpires, Invoice, PayInvoice, collecting, paying
<1>2. RowsStand' /\ CollectOK' /\ AdsAreKept'
  BY <1>1 DEF TrucksInv, RowsStand, CollectOK, CycleOK, AdsAreKept
<1>3. SearchesOK'
  BY <1>1, SearchesStay DEF TrucksInv, Owned
<1>4. PayOK
  BY DEF TrucksInv
<1>5. CASE TurnPremium(u) \/ DraftExpires(u)
  <2>1. PayOK'
    BY <1>4, <1>5 DEF PayOK, TurnPremium, DraftExpires, paying
  <2> QED BY <1>2, <1>3, <2>1 DEF TrucksInv
<1>6. CASE \E t \in Ad : Invoice(u, t) \/ PayInvoice(u, t)
  <2>1. PICK t \in Ad : Invoice(u, t) \/ PayInvoice(u, t)
    BY <1>6
  <2>2. MostInvoices \in Nat /\ invoices[<<u, t>>] \in 0..MostInvoices
    <3>1. <<u, t>> \in Seeker \X Ad
      OBVIOUS
    <3> QED BY <1>4, <3>1, TrucksAssumption DEF PayOK
  <2>3. PayOK'
    <3>1. CASE Invoice(u, t)
      <4>1. /\ invoices[<<u, t>>] < MostInvoices
            /\ invoices' = [invoices EXCEPT ![<<u, t>>] = invoices[<<u, t>>] + 1]
            /\ UNCHANGED <<paidUp, unlocked, draft>>
        BY <3>1 DEF Invoice
      <4>2. invoices[<<u, t>>] + 1 \in 0..MostInvoices
        BY <2>2, <4>1
      <4> QED BY <1>4, <4>1, <4>2 DEF PayOK
    <3>2. CASE PayInvoice(u, t)
      <4>1. /\ invoices[<<u, t>>] > 0
            /\ invoices' = [invoices EXCEPT ![<<u, t>>] = invoices[<<u, t>>] - 1]
            /\ unlocked' = unlocked \cup {<<u, t>>} /\ UNCHANGED <<paidUp, draft>>
        BY <3>2 DEF PayInvoice
      <4>2. invoices[<<u, t>>] - 1 \in 0..MostInvoices
        BY <2>2, <4>1
      <4> QED BY <1>4, <4>1, <4>2 DEF PayOK
    <3> QED BY <2>1, <3>1, <3>2
  <2> QED BY <1>2, <1>3, <2>3 DEF TrucksInv
<1> QED BY <1>5, <1>6
-----------------------------------------------------------------------------
(* Saving and searching.                                                    *)

LEMMA InFront ==
  ASSUME NEW S, NEW t \in S, NEW r \in Seq(S), IsInjective(r), t \notin Range(r)
  PROVE  /\ <<t>> \o r \in Seq(S) /\ IsInjective(<<t>> \o r)
         /\ Range(<<t>> \o r) = {t} \cup Range(r)
<1> DEFINE q == <<t>> \o r
           n == Len(r)
<1>1. n \in Nat /\ DOMAIN r = 1..n
  OBVIOUS
<1>2. /\ q \in Seq(S) /\ DOMAIN q = 1..n + 1
      /\ \A i \in 1..n + 1 : q[i] = IF i = 1 THEN t ELSE r[i - 1]
  <2>1. <<t>> \in Seq(S) /\ Len(<<t>>) = 1 /\ <<t>>[1] = t
    OBVIOUS
  <2>2. /\ q \in Seq(S) /\ Len(q) = Len(<<t>>) + Len(r)
        /\ \A i \in 1..Len(<<t>>) + Len(r) :
             q[i] = IF i <= Len(<<t>>) THEN <<t>>[i] ELSE r[i - Len(<<t>>)]
    BY <2>1, ConcatProperties
  <2> HIDE DEF q
  <2>3. Len(q) = n + 1 /\ DOMAIN q = 1..n + 1
    BY <1>1, <2>1, <2>2
  <2> QED BY <1>1, <2>1, <2>2, <2>3
<1> HIDE DEF q, n
<1>3. \A i \in 1..n : r[i] # t
  BY <1>1 DEF Range
<1>4. IsInjective(q)
  <2> SUFFICES ASSUME NEW i \in 1..n + 1, NEW j \in 1..n + 1, q[i] = q[j] PROVE i = j
    BY <1>2 DEF IsInjective
  <2>1. CASE i = 1 /\ j = 1
    BY <2>1
  <2>2. CASE i = 1 /\ j # 1
    <3>1. j - 1 \in 1..n
      BY <1>1, <2>2
    <3> QED BY <1>2, <1>3, <2>2, <3>1
  <2>3. CASE i # 1 /\ j = 1
    <3>1. i - 1 \in 1..n
      BY <1>1, <2>3
    <3> QED BY <1>2, <1>3, <2>3, <3>1
  <2>4. CASE i # 1 /\ j # 1
    <3>1. i - 1 \in 1..n /\ j - 1 \in 1..n /\ (i - 1 = j - 1 => i = j)
      BY <1>1, <2>4
    <3>2. r[i - 1] = r[j - 1]
      BY <1>2, <2>4
    <3>3. i - 1 = j - 1
      BY <1>1, <3>1, <3>2 DEF IsInjective
    <3> QED BY <3>1, <3>3
  <2> QED BY <2>1, <2>2, <2>3, <2>4
<1>5. ASSUME NEW y \in Range(q) PROVE y \in {t} \cup Range(r)
  <2>1. PICK i \in 1..n + 1 : y = q[i]
    BY <1>2, <1>5 DEF Range
  <2>2. CASE i = 1
    BY <1>2, <2>1, <2>2
  <2>3. CASE i # 1
    <3>1. i - 1 \in 1..n
      BY <1>1, <2>3
    <3> QED BY <1>1, <1>2, <2>1, <2>3, <3>1 DEF Range
  <2> QED BY <2>2, <2>3
<1>6. ASSUME NEW y \in {t} \cup Range(r) PROVE y \in Range(q)
  <2>1. CASE y = t
    <3>1. 1 \in 1..n + 1 /\ q[1] = t
      BY <1>1, <1>2
    <3> QED BY <1>2, <2>1, <3>1 DEF Range
  <2>2. CASE y # t
    <3>1. PICK i \in 1..n : y = r[i]
      BY <1>1, <1>6, <2>2 DEF Range
    <3>2. i + 1 \in 1..n + 1 /\ i + 1 # 1 /\ (i + 1) - 1 = i
      BY <1>1, <3>1
    <3>3. q[i + 1] = r[i]
      BY <1>2, <3>2
    <3> QED BY <1>2, <3>1, <3>2, <3>3 DEF Range
  <2> QED BY <2>1, <2>2
<1> QED BY <1>2, <1>4, <1>5, <1>6 DEF q

LEMMA StepSaves ==
  ASSUME TrucksInv, NEW t \in Ad, NEW said \in ModelOf[t] \cup {NoReading}, SaveTruck(t, said)
  PROVE  TrucksInv'
<1>1. RowsStand /\ CollectOK /\ AdsAreKept /\ PayOK /\ SearchesOK
  BY DEF TrucksInv
<1>2. /\ queue[t] > 0 /\ offers' = [offers EXCEPT ![t] = Over(Reading(t, said), offers[t])]
      /\ recent' = <<t>> \o RemoveFirst(recent, t) /\ queue' = [queue EXCEPT ![t] = queue[t] - 1]
      /\ search' = StillFit /\ UNCHANGED <<seen, cycle, lost, paidUp, unlocked, invoices, draft>>
  BY DEF SaveTruck, paying
<1>3. /\ recent' \in Seq(Ad) /\ IsInjective(recent')
      /\ Range(recent') = Range(recent) \cup {t}
  <2> DEFINE r == RemoveFirst(recent, t)
  <2>1. r \in Seq(Ad) /\ Range(r) = Range(recent) \ {t} /\ IsInjective(r)
    BY <1>1, RemoveFirstIs DEF RowsStand
  <2> HIDE DEF r
  <2>2. /\ <<t>> \o r \in Seq(Ad) /\ IsInjective(<<t>> \o r)
        /\ Range(<<t>> \o r) = {t} \cup Range(r)
    BY <2>1, InFront
  <2>3. recent' = <<t>> \o r
    BY <1>2 DEF r
  <2>4. {t} \cup Range(r) = Range(recent) \cup {t}
    BY <2>1
  <2> QED BY <2>2, <2>3, <2>4
<1>4. Over(Reading(t, said), offers[t]).kg \in Nat
  BY <1>1, ReadingIs, OverIs DEF RowsStand
<1>5. RowsStand'
  BY <1>1, <1>2, <1>3, <1>4 DEF RowsStand
<1>6. CollectOK'
  <2>1. queue[t] - 1 \in Nat
    BY <1>1, <1>2 DEF CollectOK
  <2> QED BY <1>1, <1>2, <2>1 DEF CollectOK, CycleOK
<1>7. AdsAreKept'
  BY <1>1, <1>2, <1>3 DEF AdsAreKept, CollectOK
<1>8. PayOK'
  BY <1>1, <1>2 DEF PayOK
<1>9. SearchesOK'
  <2> DEFINE now(u) == [search[u] EXCEPT
                          !.steady = search[u].steady
                                     \cap FitPairs(search[u].query, offers', Range(recent'))]
  <2>1. search' = [u \in Seeker |-> now(u)]
    BY <1>2 DEF StillFit
  <2>2. ASSUME NEW u \in Seeker
        PROVE  SearchOK(now(u), Owned(u), offers', Range(recent'))
    <3> DEFINE s == search[u]
               n == now(u)
    <3>1. SearchShape(s) /\ NotPassedOver(s, offers, Range(recent)) /\ ContactsOf(s, Owned(u))
      BY <1>1 DEF SearchesOK, SearchOK
    <3>2. DOMAIN s = SearchFields /\ {"steady", "step"} \subseteq SearchFields
      BY <3>1 DEF SearchShape, SearchFields
    <3>3. /\ DOMAIN n = SearchFields /\ n.step = s.step /\ n.via = s.via /\ n.query = s.query
          /\ n.level = s.level /\ n.found = s.found /\ n.top = s.top /\ n.premium = s.premium
          /\ n.open = s.open /\ n.owned = s.owned
          /\ n.steady = s.steady \cap FitPairs(s.query, offers', Range(recent'))
      BY <3>2 DEF SearchFields
    <3> HIDE DEF s, n
    <3>4. SearchShape(n)
      BY <3>1, <3>3 DEF SearchShape
    <3>5. NotPassedOver(n, offers', Range(recent'))
      BY <3>1, <3>3 DEF NotPassedOver
    <3>6. ContactsOf(n, Owned(u))
      BY <3>1, <3>3 DEF ContactsOf
    <3> QED BY <3>4, <3>5, <3>6 DEF SearchOK, n
  <2>3. \A u \in Seeker : Owned(u)' = Owned(u)
    BY <1>2 DEF Owned
  <2> HIDE DEF now
  <2> QED BY <2>1, <2>2, <2>3 DEF SearchesOK
<1> QED BY <1>5, <1>6, <1>7, <1>8, <1>9 DEF TrucksInv

\* One search goes on, the rows and the payments as they are.
LEMMA OneGoesOn ==
  ASSUME TrucksInv, NEW u \in Seeker, NEW s, SearchOK(s, Owned(u), offers, Range(recent)),
         search' = [search EXCEPT ![u] = s],
         UNCHANGED <<collecting, offers, recent, paying>>, draft' \subseteq draft \cup {u}
  PROVE  TrucksInv'
<1>1. UNCHANGED <<seen, cycle, queue, lost, offers, recent, paidUp, unlocked, invoices>>
  BY DEF collecting, paying
<1>2. RowsStand' /\ CollectOK' /\ AdsAreKept' /\ PayOK'
  BY <1>1 DEF TrucksInv, RowsStand, CollectOK, CycleOK, AdsAreKept, PayOK
<1>3. SearchesOK'
  BY <1>1 DEF TrucksInv, SearchesOK, Owned
<1> QED BY <1>2, <1>3 DEF TrucksInv
LEMMA StepBeginsSearch ==
  ASSUME TrucksInv, NEW u \in Seeker, NEW via \in {"api", "bot"}, NEW q, q.kg \in Nat,
         BeginSearch(u, via, q)
  PROVE  TrucksInv'
<1> DEFINE st == IF via = "api" THEN "user" ELSE "find"
           fits == FitPairs(q, offers, Range(recent))
           s == [NoSearch EXCEPT !.step = st, !.via = via, !.query = q, !.steady = fits,
                                 !.owned = Owned(u)]
<1>1. /\ search' = [search EXCEPT ![u] = s]
      /\ UNCHANGED <<collecting, offers, recent, paying, draft>>
  BY DEF BeginSearch
<1>2. (st = "user" /\ via = "api") \/ st = "find"
  OBVIOUS
<1> HIDE DEF st, fits
<1>3. /\ DOMAIN s = SearchFields /\ s.step = st /\ s.via = via /\ s.query = q /\ s.level = 1
      /\ s.found = <<>> /\ s.top = <<>> /\ s.premium = FALSE /\ s.open = {} /\ s.steady = fits
      /\ s.owned = Owned(u)
  BY DEF NoSearch, SearchFields
<1> HIDE DEF s
<1>4. SearchShape(s)
  <2>1. <<>> \in Seq(Ad) /\ 1 \in Levels
    BY EmptySeq DEF Levels
  <2>2. s.premium \in BOOLEAN
    BY <1>3
  <2>3. s.step \in {"idle", "user", "find", "rank", "unlocks", "shown"}
    BY <1>2, <1>3
  <2> QED BY <1>3, <2>1, <2>2, <2>3 DEF SearchShape
<1>5. NotPassedOver(s, offers, Range(recent))
  <2>1. \A p \in fits : 1 <= p[1]
    BY DEF fits, FitPairs, Levels
  <2> QED BY <1>2, <1>3, <2>1 DEF NotPassedOver, fits
<1>6. ContactsOf(s, Owned(u))
  BY <1>2, <1>3 DEF ContactsOf
<1> QED BY <1>1, <1>4, <1>5, <1>6, OneGoesOn DEF SearchOK

LEMMA StepReadsUser ==
  ASSUME TrucksInv, NEW u \in Seeker, ReadUser(u)
  PROVE  TrucksInv'
<1> DEFINE s == search[u]
           st == IF s.via = "api" THEN "find" ELSE "unlocks"
           bought == u \in paidUp
           n == [s EXCEPT !.premium = bought, !.step = st]
<1>1. SearchShape(s) /\ NotPassedOver(s, offers, Range(recent)) /\ ContactsOf(s, Owned(u))
  BY DEF TrucksInv, SearchesOK, SearchOK
<1>2. /\ s.step = "user" /\ search' = [search EXCEPT ![u] = n]
      /\ UNCHANGED <<collecting, offers, recent, paying, draft>>
  BY DEF ReadUser, SearchGoes
<1>3. bought \in BOOLEAN
  OBVIOUS
<1>4. (s.via = "api" /\ st = "find") \/ (s.via = "bot" /\ st = "unlocks")
  BY <1>1 DEF SearchShape
<1>5. DOMAIN s = SearchFields
  BY <1>1 DEF SearchShape
<1> HIDE DEF bought, st, s
<1>6. /\ DOMAIN n = SearchFields /\ n.step = st /\ n.via = s.via /\ n.query = s.query
      /\ n.level = s.level /\ n.found = s.found /\ n.top = s.top /\ n.premium = bought
      /\ n.open = s.open /\ n.owned = s.owned /\ n.steady = s.steady
  BY <1>5 DEF SearchFields
<1> HIDE DEF n
<1>7. SearchShape(n)
  BY <1>1, <1>3, <1>4, <1>6 DEF SearchShape
<1>8. NotPassedOver(n, offers, Range(recent))
  BY <1>1, <1>2, <1>4, <1>6 DEF NotPassedOver, s
<1>9. ContactsOf(n, Owned(u))
  BY <1>1, <1>4, <1>6 DEF ContactsOf
<1> QED BY <1>2, <1>7, <1>8, <1>9, OneGoesOn DEF SearchOK

LEMMA StepFinds ==
  ASSUME TrucksInv, NEW u \in Seeker, Find(u)
  PROVE  TrucksInv'
<1> DEFINE s == search[u]
           got == Candidates(s.query, s.level)
<1>1. SearchShape(s) /\ NotPassedOver(s, offers, Range(recent)) /\ ContactsOf(s, Owned(u))
  BY DEF TrucksInv, SearchesOK, SearchOK
<1>2. /\ s.step = "find" /\ UNCHANGED <<collecting, offers, recent, paying, draft>>
      /\ search' = [search EXCEPT ![u] = IF got = <<>> /\ s.level < 6
                      THEN [s EXCEPT !.level = LevelAfter(s.level)]
                      ELSE [s EXCEPT !.found = got, !.step = "rank"]]
  BY DEF Find, SearchGoes
<1>3. /\ got \in Seq(Ad)
      /\ got = <<>> => \A t \in Range(recent) : ~Fits(offers[t], s.query, s.level)
  <2>1. recent \in Seq(Ad) /\ (\A t \in Ad : offers[t].kg \in Nat)
    BY DEF TrucksInv, RowsStand
  <2>2. s.query.kg \in Nat
    BY <1>1 DEF SearchShape
  <2> HIDE DEF s
  <2> QED BY <2>1, <2>2, CandidatesAre
<1>4. DOMAIN s = SearchFields /\ s.level \in 1..6
  BY <1>1 DEF SearchShape, Levels
<1>5. \A p \in s.steady : p[1] \in 1..6 /\ s.level <= p[1]
  BY <1>1 DEF NotPassedOver, FitPairs, Levels
<1>6. ASSUME got = <<>>, NEW p \in s.steady PROVE p[1] # s.level
  <2>1. p \in FitPairs(s.query, offers, Range(recent))
    BY <1>1 DEF NotPassedOver
  <2>2. p[2] \in Range(recent) /\ Fits(offers[p[2]], s.query, p[1])
    BY <2>1 DEF FitPairs
  <2> HIDE DEF got
  <2> QED BY <1>3, <1>6, <2>2
<1> HIDE DEF s, got
<1>7. CASE got = <<>> /\ s.level < 6
  <2> DEFINE n == [s EXCEPT !.level = LevelAfter(s.level)]
  <2>1. search' = [search EXCEPT ![u] = n]
    BY <1>2, <1>7
  <2>2. LevelAfter(s.level) = s.level + 1 /\ s.level + 1 \in Levels
    BY <1>4, <1>7 DEF LevelAfter, Levels
  <2>3. /\ DOMAIN n = SearchFields /\ n.step = s.step /\ n.via = s.via /\ n.query = s.query
        /\ n.level = s.level + 1 /\ n.found = s.found /\ n.top = s.top /\ n.premium = s.premium
        /\ n.open = s.open /\ n.owned = s.owned /\ n.steady = s.steady
    BY <1>4, <2>2 DEF SearchFields
  <2> HIDE DEF n
  <2>4. SearchShape(n)
    BY <1>1, <2>2, <2>3 DEF SearchShape
  <2>5. \A p \in s.steady : s.level + 1 <= p[1]
    <3> SUFFICES ASSUME NEW p \in s.steady PROVE s.level + 1 <= p[1]
      OBVIOUS
    <3>1. p[1] \in 1..6 /\ s.level <= p[1] /\ p[1] # s.level
      BY <1>5, <1>6, <1>7
    <3> QED BY <1>4, <3>1
  <2>6. NotPassedOver(n, offers, Range(recent))
    BY <1>1, <1>2, <2>3, <2>5 DEF NotPassedOver, s
  <2>7. ContactsOf(n, Owned(u))
    BY <1>1, <2>3 DEF ContactsOf
  <2> QED BY <1>2, <2>1, <2>4, <2>6, <2>7, OneGoesOn DEF SearchOK
<1>8. CASE ~(got = <<>> /\ s.level < 6)
  <2> DEFINE n == [s EXCEPT !.found = got, !.step = "rank"]
  <2>1. search' = [search EXCEPT ![u] = n]
    BY <1>2, <1>8
  <2>2. /\ DOMAIN n = SearchFields /\ n.step = "rank" /\ n.via = s.via /\ n.query = s.query
        /\ n.level = s.level /\ n.found = got /\ n.top = s.top /\ n.premium = s.premium
        /\ n.open = s.open /\ n.owned = s.owned /\ n.steady = s.steady
    BY <1>4 DEF SearchFields
  <2> HIDE DEF n
  <2>3. SearchShape(n)
    BY <1>1, <1>3, <2>2 DEF SearchShape
  <2>4. ASSUME got = <<>> PROVE s.steady = {}
    <3> SUFFICES ASSUME NEW p \in s.steady PROVE FALSE
      OBVIOUS
    <3>1. p[1] \in 1..6 /\ s.level <= p[1] /\ p[1] # s.level
      BY <1>5, <1>6, <2>4
    <3>2. s.level = 6
      BY <1>4, <1>8, <2>4
    <3> QED BY <3>1, <3>2
  <2>5. NotPassedOver(n, offers, Range(recent))
    BY <1>1, <2>2, <2>4 DEF NotPassedOver
  <2>6. ContactsOf(n, Owned(u))
    BY <1>1, <2>2 DEF ContactsOf
  <2> QED BY <1>2, <2>1, <2>3, <2>5, <2>6, OneGoesOn DEF SearchOK
<1> QED BY <1>7, <1>8

LEMMA StepRanks ==
  ASSUME TrucksInv, NEW u \in Seeker, Rank(u)
  PROVE  TrucksInv'
<1> DEFINE s == search[u]
<1>1. SearchShape(s) /\ NotPassedOver(s, offers, Range(recent)) /\ ContactsOf(s, Owned(u))
  BY DEF TrucksInv, SearchesOK, SearchOK
<1>2. s.step = "rank" /\ draft' \subseteq draft \cup {u}
      /\ UNCHANGED <<collecting, offers, recent, paying>>
  BY DEF Rank, SearchGoes
<1>3. PICK top \in Ranked(s.found) :
        search' = [search EXCEPT ![u] =
          [s EXCEPT !.top = top,
                    !.step = IF s.via = "api" THEN IF s.premium THEN "shown" ELSE "unlocks"
                             ELSE IF top = <<>> THEN "shown" ELSE "user"]]
  BY DEF Rank, SearchGoes
<1> DEFINE st == IF s.via = "api" THEN IF s.premium THEN "shown" ELSE "unlocks"
                 ELSE IF top = <<>> THEN "shown" ELSE "user"
           n == [s EXCEPT !.top = top, !.step = st]
<1>4. search' = [search EXCEPT ![u] = n]
  BY <1>3
<1>5. DOMAIN s = SearchFields /\ s.found \in Seq(Ad) /\ s.via \in {"api", "bot"}
  BY <1>1 DEF SearchShape
<1>6. top \in Seq(Ad) /\ (top = <<>> => s.found = <<>>)
  <2> HIDE DEF s
  <2> QED BY <1>5, RankedAre
<1>7. \/ s.via = "api" /\ s.premium /\ st = "shown"
      \/ s.via = "api" /\ ~s.premium /\ st = "unlocks"
      \/ s.via = "bot" /\ top = <<>> /\ st = "shown"
      \/ s.via = "bot" /\ top # <<>> /\ st = "user"
  <2> HIDE DEF s
  <2> QED BY <1>5
<1> HIDE DEF st, s
<1>8. /\ DOMAIN n = SearchFields /\ n.step = st /\ n.via = s.via /\ n.query = s.query
      /\ n.level = s.level /\ n.found = s.found /\ n.top = top /\ n.premium = s.premium
      /\ n.open = s.open /\ n.owned = s.owned /\ n.steady = s.steady
  BY <1>5 DEF SearchFields
<1> HIDE DEF n
<1>9. SearchShape(n)
  <2>1. st \in {"idle", "user", "find", "rank", "unlocks", "shown"}
    BY <1>7
  <2> QED BY <1>1, <1>6, <1>8, <2>1 DEF SearchShape
<1>10. NotPassedOver(n, offers, Range(recent))
  <2>1. top = <<>> => s.steady = {}
    BY <1>1, <1>2, <1>6 DEF NotPassedOver, s
  <2>2. st # "rank"
    BY <1>7
  <2> QED BY <1>1, <1>8, <2>1, <2>2 DEF NotPassedOver
<1>11. ContactsOf(n, Owned(u))
  <2>1. Range(<<>>) = {}
    <3>1. DOMAIN <<>> = {}
      OBVIOUS
    <3> QED BY <3>1 DEF Range
  <2>2. st = "shown" /\ ~s.premium => Range(top) = {}
    BY <1>7, <2>1
  <2> QED BY <1>1, <1>8, <2>2 DEF ContactsOf
<1> QED BY <1>2, <1>4, <1>9, <1>10, <1>11, OneGoesOn DEF SearchOK

LEMMA StepUnlocks ==
  ASSUME TrucksInv, NEW u \in Seeker, ReadUnlocks(u)
  PROVE  TrucksInv'
<1> DEFINE s == search[u]
           paid == Range(s.top) \cap Owned(u)
           n == [s EXCEPT !.open = paid, !.step = "shown"]
<1>1. SearchShape(s) /\ NotPassedOver(s, offers, Range(recent)) /\ ContactsOf(s, Owned(u))
  BY DEF TrucksInv, SearchesOK, SearchOK
<1>2. /\ s.step = "unlocks" /\ search' = [search EXCEPT ![u] = n]
      /\ UNCHANGED <<collecting, offers, recent, paying, draft>>
  BY DEF ReadUnlocks, SearchGoes
<1>3. DOMAIN s = SearchFields
  BY <1>1 DEF SearchShape
<1>4. paid \subseteq Owned(u) /\ (s.owned \subseteq Owned(u) => s.owned \cap Range(s.top) \subseteq paid)
  OBVIOUS
<1> HIDE DEF paid, s
<1>5. /\ DOMAIN n = SearchFields /\ n.step = "shown" /\ n.via = s.via /\ n.query = s.query
      /\ n.level = s.level /\ n.found = s.found /\ n.top = s.top /\ n.premium = s.premium
      /\ n.open = paid /\ n.owned = s.owned /\ n.steady = s.steady
  BY <1>3 DEF SearchFields
<1> HIDE DEF n
<1>6. SearchShape(n)
  BY <1>1, <1>5 DEF SearchShape
<1>7. NotPassedOver(n, offers, Range(recent))
  BY <1>1, <1>2, <1>5 DEF NotPassedOver, s
<1>8. ContactsOf(n, Owned(u))
  BY <1>1, <1>4, <1>5 DEF ContactsOf
<1> QED BY <1>2, <1>6, <1>7, <1>8, OneGoesOn DEF SearchOK

LEMMA TrucksStep == TrucksInv /\ [TrucksNext]_truckVars => TrucksInv'
<1> SUFFICES ASSUME TrucksInv, [TrucksNext]_truckVars PROVE TrucksInv'
  OBVIOUS
<1>1. CASE \/ \E S \in SUBSET Ad : Scrape(S)
           \/ Enqueue \/ CycleFails
           \/ \E t \in Ad : Mark(t) \/ SeenExpires(t) \/ SaveFails(t)
  BY <1>1, StepCollects
<1>2. CASE \E t \in Ad : \E said \in ModelOf[t] \cup {NoReading} : SaveTruck(t, said)
  BY <1>2, StepSaves
<1>3. CASE \E u \in Seeker : ReadUser(u) \/ Find(u) \/ Rank(u) \/ ReadUnlocks(u)
  BY <1>3, StepReadsUser, StepFinds, StepRanks, StepUnlocks
<1>4. CASE \E u \in Seeker :
             TurnPremium(u) \/ DraftExpires(u) \/ \E t \in Ad : Invoice(u, t) \/ PayInvoice(u, t)
  BY <1>4, StepPays
<1>5. CASE \E u \in Seeker, via \in {"api", "bot"}, x \in Texts : AskInWords(u, via, x)
  <2>1. PICK u \in Seeker, via \in {"api", "bot"}, x \in Texts : AskInWords(u, via, x)
    BY <1>5
  <2>2. BeginSearch(u, via, Params(x)) /\ Params(x).kg \in Nat
    BY <2>1, ParamsIs DEF AskInWords
  <2> QED BY <2>2, StepBeginsSearch
<1>6. CASE \E u \in Seeker, via \in {"api", "bot"}, q \in Fields : AskByFields(u, via, q)
  <2>1. PICK u \in Seeker, via \in {"api", "bot"}, q \in Fields : AskByFields(u, via, q)
    BY <1>6
  <2>2. BeginSearch(u, via, q) /\ q.kg \in Nat
    BY <2>1, TrucksAssumption DEF AskByFields
  <2> QED BY <2>2, StepBeginsSearch
<1>7. CASE UNCHANGED truckVars
  <2>1. UNCHANGED <<seen, cycle, queue, offers, recent, lost, paidUp, unlocked, invoices, search,
                    draft>>
    BY <1>7 DEF truckVars
  <2> QED BY <2>1 DEF TrucksInv, RowsStand, CollectOK, CycleOK, AdsAreKept, PayOK, SearchesOK, Owned
<1> QED BY <1>1, <1>2, <1>3, <1>4, <1>5, <1>6, <1>7 DEF TrucksNext

LEMMA TrucksHolds == TrucksInv => TrucksTypeOK /\ StrictestFirst /\ ContactIsPaid /\ AdsAreKept
<1> SUFFICES ASSUME TrucksInv PROVE TrucksTypeOK /\ StrictestFirst /\ ContactIsPaid
  BY DEF TrucksInv
<1>1. \A u \in Seeker : /\ SearchShape(search[u]) /\ ContactsOf(search[u], Owned(u))
                        /\ NotPassedOver(search[u], offers, Range(recent))
  BY DEF TrucksInv, SearchesOK, SearchOK
<1>2. StrictestFirst
  BY <1>1 DEF StrictestFirst, Shown, NotPassedOver
<1>3. ContactIsPaid
  BY <1>1 DEF ContactIsPaid, Shown, ContactsOf
<1>4. \A u \in Seeker : search[u].level \in Levels /\ Range(search[u].top) \subseteq Ad
  <2> TAKE u \in Seeker
  <2>1. search[u].level \in Levels /\ search[u].top \in Seq(Ad)
    BY <1>1 DEF SearchShape
  <2> DEFINE top == search[u].top
  <2> HIDE DEF top
  <2>2. top \in Seq(Ad) => Range(top) \subseteq Ad
    BY DEF Range
  <2> QED BY <2>1, <2>2 DEF top
<1> QED BY <1>2, <1>3, <1>4 DEF TrucksInv, TrucksTypeOK, RowsStand, CollectOK, CycleOK, PayOK

-----------------------------------------------------------------------------
(* What searches promise.                                                   *)

\* What a viewer of matches is in the middle of agrees with the rows it has read, and a
\* guarantee it tells was there while it looked (find_matches_for_vehicle, build_match_summary).
THEOREM MatchInvariance == MatchSpec => []MatchInv
BY MatchStarts, MatchStep, PTL DEF MatchSpec

\* In the run the rows of matching are there when it is the part that moves.
LEMMA MatchRuns == PlatformSpec => [](part = "match" => MatchInv)
<1>1. PlatformInit => (part = "match" => MatchInv)
  BY MatchStarts, Zenon DEF PlatformInit
<1>2. ASSUME part = "match" => MatchInv, [PlatformNext]_platformVars
      PROVE  (part = "match" => MatchInv)'
  <2>1. part' = part
    BY <1>2, Zenon DEF PlatformNext, Others, platformVars
  <2>2. part = "match" => [MatchNext]_matchVars
    BY <1>2, Zenon DEF PlatformNext, Others, platformVars
  <2> QED BY <1>2, <2>1, <2>2, MatchStep, Zenon
<1> QED BY <1>1, <1>2, PTL DEF PlatformSpec

\* No level of criteria has passed over a truck that fitted the search from its beginning and
\* still does, and the contacts it shows are those of trucks the user owns, whatever ads are
\* saved, payments made and searches begun meanwhile (match_trucks, _serialize_trucks).
THEOREM TrucksInvariance == TrucksSpec => []TrucksInv
BY TrucksStart, TrucksStep, PTL DEF TrucksSpec

\* SearchesHold of MCPlatform for every number of events, advertisements, vehicles and
\* cargos: a reader who reaches the end of the feed has seen what stood there throughout,
\* a search for a truck begins with the strictest criteria and shows no contact that is not
\* paid for, and a guarantee is only given for a match both sides see (get_feed,
\* match_trucks, _serialize_trucks, matching_engine).
THEOREM SearchesStayTrue == PlatformSpec => []SearchesHold
<1>1. ASSUME ScrollInv, TrucksInv, part = "match" => MatchInv PROVE SearchesHold
  BY <1>1, ScrollHolds, TrucksHolds, MatchHolds, Zenon DEF SearchesHold
<1> QED BY <1>1, PartsRunAlone, ScrollInvariance, TrucksInvariance, MatchRuns, PTL

-----------------------------------------------------------------------------
(* Types.                                                                   *)

\* The logist.
LogistRest ==
  /\ \A u \in Chatter : Len(context[u]) <= CtxMessages
  /\ places <= Places /\ uttered \subseteq Message
  /\ record \in [Answer -> {"none", "open", "up", "down"}] /\ known \subseteq Answer
  /\ rating \in [Answer -> {"none", "up", "down", "push", "trim"}]
  /\ rated \in [Answer -> 0..MostRatings]
  /\ mixed \subseteq Chatter /\ down \subseteq Answer /\ cleared \subseteq Answer

LEMMA LogistRestStarts == LogistInit => LogistRest
<1> SUFFICES ASSUME LogistInit PROVE LogistRest
  OBVIOUS
<1>1. \A u \in Chatter : Len(context[u]) <= CtxMessages
  BY LogistAssumption DEF LogistInit
<1> QED BY <1>1, LogistAssumption DEF LogistInit, LogistRest

LEMMA NewestAreFew ==
  ASSUME NEW S, NEW s \in Seq(S)
  PROVE  Len(Newest(s)) <= CtxMessages
<1>1. CtxMessages \in Nat \ {0} /\ Len(s) \in Nat
  BY LogistAssumption
<1>2. CASE Len(s) > CtxMessages
  <2>1. Newest(s) = SubSeq(s, Len(s) - CtxMessages + 1, Len(s))
    BY <1>1, <1>2 DEF Newest
  <2> QED BY <1>1, <1>2, <2>1
<1>3. CASE ~(Len(s) > CtxMessages)
  BY <1>1, <1>3 DEF Newest
<1> QED BY <1>2, <1>3

LEMMA LogistRestStays ==
  ASSUME LogistInv, LogistRest, [LogistNext]_logistVars
  PROVE  LogistRest'
<1>0. /\ chats \in [Chat -> Chats] /\ pending \in Seq(Answer)
      /\ context \in [Chatter -> Seq(Message)]
      /\ places = Cardinality(AtModel(chats))
  BY DEF LogistInv
<1>i. places \in Nat
  <2>1. IsFiniteSet(AtModel(chats))
    BY LogistAssumption, FS_Subset DEF AtModel
  <2> QED BY <1>0, <2>1, FS_CardinalityType
<1>a. \A r \in Chat : chats[r] # Quiet => chats[r].who \in Chatter /\ chats[r].text \in Message
                                         /\ chats[r].seen \in Seq(Message)
  BY <1>0 DEF Chats, UnderWay
<1>b. ASSUME UNCHANGED Session, UNCHANGED Review, places' <= Places, uttered' \subseteq Message
      PROVE  LogistRest'
  BY <1>b DEF LogistRest, Session, Review
<1>c. ASSUME UNCHANGED Session, UNCHANGED Model,
             record' \in [Answer -> {"none", "open", "up", "down"}], known' \subseteq Answer,
             rating' \in [Answer -> {"none", "up", "down", "push", "trim"}],
             rated' \in [Answer -> 0..MostRatings], down' \subseteq Answer, cleared' \subseteq Answer
      PROVE  LogistRest'
  BY <1>c DEF LogistRest, Session, Model
<1>d. ASSUME UNCHANGED Model, UNCHANGED Review, mixed' \subseteq Chatter,
             \A u \in Chatter : Len(context'[u]) <= CtxMessages
      PROVE  LogistRest'
  BY <1>d DEF LogistRest, Model, Review
<1>1. ASSUME NEW r \in Chat,
             \/ \E u \in Chatter, m \in Message, kind \in {"ask", "intent"} : AskLogist(r, u, m, kind)
             \/ AnswerKept(r) \/ CacheMiss(r) \/ ModelUp(r) \/ ModelDown(r)
      PROVE  LogistRest'
  <2>1. UNCHANGED Session /\ UNCHANGED Review /\ UNCHANGED Model
    BY <1>1 DEF AskLogist, AnswerKept, CacheMiss, ModelUp, ModelDown
  <2> QED BY <1>b, <2>1 DEF LogistRest, Model
<1>2. ASSUME NEW r \in Chat, Load(r) PROVE LogistRest'
  <2>1. chats[r] # Quiet
    BY <1>2 DEF Load, Quiet
  <2>2. mixed' \subseteq mixed \cup {chats[r].who} /\ UNCHANGED <<context, due, Model, Review>>
    BY <1>2 DEF Load
  <2> QED BY <1>a, <1>d, <2>1, <2>2 DEF LogistRest
<1>3. ASSUME NEW r \in Chat, SaveContext(r) PROVE LogistRest'
  <2> DEFINE s == chats[r].seen \o <<chats[r].text>>
  <2>1. chats[r] # Quiet
    BY <1>3 DEF SaveContext, Quiet
  <2>2. s \in Seq(Message)
    BY <1>a, <2>1
  <2>3. Len(Newest(s)) <= CtxMessages
    BY <2>2, NewestAreFew
  <2>4. context' = [context EXCEPT ![chats[r].who] = Newest(s)] \/ context' = context
    BY <1>3, Zenon DEF SaveContext
  <2>5. UNCHANGED <<mixed, Model, Review>>
    BY <1>3 DEF SaveContext
  <2> HIDE DEF s
  <2>6. \A u \in Chatter : Len(context'[u]) <= CtxMessages
    BY <1>0, <2>3, <2>4 DEF LogistRest
  <2> QED BY <1>d, <2>5, <2>6 DEF LogistRest
<1>4. ASSUME NEW u \in Chatter, ExpireSession(u) PROVE LogistRest'
  <2>1. context' = [context EXCEPT ![u] = <<>>] /\ mixed' \subseteq mixed \cup {u}
        /\ UNCHANGED <<chats, Model, Review>>
    BY <1>4 DEF ExpireSession
  <2>2. \A v \in Chatter : Len(context'[v]) <= CtxMessages
    BY <1>0, <2>1, LogistAssumption DEF LogistRest
  <2> QED BY <1>d, <2>1, <2>2 DEF LogistRest
<1>5. ASSUME NEW r \in Chat, TakePlace(r) PROVE LogistRest'
  <2>1. UNCHANGED <<kept, uttered, Session, Review>> /\ places' <= Places
    BY <1>5, <1>i, LogistAssumption DEF TakePlace, LogistRest
  <2> QED BY <1>b, <2>1 DEF LogistRest
<1>6. ASSUME NEW r \in Chat, ModelAnswers(r) \/ ModelFails(r) PROVE LogistRest'
  <2>1. chats[r] # Quiet
    BY <1>6 DEF ModelAnswers, ModelFails, Quiet
  <2>2. /\ places' = places - 1 /\ uttered' \subseteq uttered \cup {chats[r].text}
        /\ UNCHANGED <<Session, Review>>
    BY <1>6 DEF ModelAnswers, ModelFails
  <2>3. places' <= Places
    BY <1>i, <2>2, LogistAssumption DEF LogistRest
  <2> QED BY <1>a, <1>b, <2>1, <2>2, <2>3 DEF LogistRest
<1>7. ASSUME NEW m \in Message, Uncache(m) PROVE LogistRest'
  <2>1. UNCHANGED <<places, uttered, Session, Review>>
    BY <1>7 DEF Uncache
  <2> QED BY <1>b, <2>1 DEF LogistRest
<1>8. ASSUME NEW r \in Chat, OpenRating(r) PROVE LogistRest'
  <2>1. /\ UNCHANGED <<pending, known, rating, rated, down, cleared, Session, Model>>
        /\ \/ \E a \in Answer : record' = [record EXCEPT ![a] = "open"]
           \/ UNCHANGED record
    BY <1>8 DEF OpenRating
  <2> QED BY <1>c, <2>1 DEF LogistRest
<1>9. ASSUME NEW a \in Answer, NEW value \in {"up", "down"}, Rate(a, value) PROVE LogistRest'
  <2>1. /\ rated[a] < MostRatings /\ rated' = [rated EXCEPT ![a] = @ + 1]
        /\ rating' = [rating EXCEPT ![a] = value]
        /\ UNCHANGED <<record, known, down, cleared, Session, Model>>
    BY <1>9 DEF Rate
  <2>2. rated' \in [Answer -> 0..MostRatings]
    BY <2>1, LogistAssumption DEF LogistRest
  <2> QED BY <1>c, <2>1, <2>2 DEF LogistRest
<1>10. ASSUME NEW a \in Answer, WriteRating(a) PROVE LogistRest'
  <2>1. /\ record' = [record EXCEPT ![a] = rating[a]] /\ rating[a] \in {"up", "down"}
        /\ \E new \in {"push", "none"} : rating' = [rating EXCEPT ![a] = new]
        /\ UNCHANGED <<known, rated, down, cleared, Session, Model>>
    BY <1>10 DEF WriteRating
  <2> QED BY <1>c, <2>1 DEF LogistRest
<1>11. ASSUME NEW a \in Answer, PushForReview(a) \/ CutList(a) \/ RatingFails(a) PROVE LogistRest'
  <2>1. /\ \E new \in {"trim", "none"} : rating' = [rating EXCEPT ![a] = new]
        /\ UNCHANGED <<record, known, rated, Session, Model>> /\ down' \subseteq down \cup {a}
    BY <1>11 DEF PushForReview, CutList, RatingFails
  <2>2. cleared' \subseteq cleared \cup ToSet(pending)
    BY <1>11 DEF PushForReview, CutList, RatingFails
  <2>3. ToSet(pending) \subseteq Answer
    BY <1>0 DEF ToSet
  <2>4. rating' \in [Answer -> {"none", "up", "down", "push", "trim"}]
    BY <2>1 DEF LogistRest
  <2>5. down' \subseteq Answer /\ cleared' \subseteq Answer
    BY <2>1, <2>2, <2>3 DEF LogistRest
  <2> QED BY <1>c, <2>1, <2>4, <2>5 DEF LogistRest
<1>12. ASSUME NEW a \in Answer, ExpireRecord(a) PROVE LogistRest'
  <2>1. /\ record' = [record EXCEPT ![a] = "none"]
        /\ UNCHANGED <<pending, known, rating, rated, down, cleared, Session, Model>>
    BY <1>12 DEF ExpireRecord
  <2> QED BY <1>c, <2>1 DEF LogistRest
<1>13. ASSUME NEW a \in Answer, Approve(a) \/ Unlearn(a) PROVE LogistRest'
  <2>1. /\ UNCHANGED <<record, rating, rated, down, Session, Model>>
        /\ known' \subseteq known \cup {a} /\ cleared' \subseteq cleared \cup {a}
    BY <1>13 DEF Approve, Unlearn
  <2> QED BY <1>c, <2>1 DEF LogistRest
<1>14. CASE UNCHANGED logistVars
  BY <1>14 DEF LogistRest, logistVars
<1> QED BY <1>1, <1>2, <1>3, <1>4, <1>5, <1>6, <1>7, <1>8, <1>9, <1>10, <1>11, <1>12, <1>13, <1>14
        DEF LogistNext

LEMMA LogistTypesStay == LogistSpec => [](LogistInv /\ LogistRest)
BY LogistInitInv, LogistRestStarts, LogistNextInv, LogistRestStays, PTL DEF LogistSpec

LEMMA LogistTypesHold == LogistInv /\ LogistRest => LogistTypeOK
<1> SUFFICES ASSUME LogistInv, LogistRest PROVE LogistTypeOK
  OBVIOUS
<1>1. \A u \in Chatter : context[u] \in Seq(Message)
  BY DEF LogistInv
<1>2. ASSUME NEW r \in Chat
      PROVE  /\ chats[r].step \in {"idle", "load", "save", "cache", "status", "place", "model", "rate"}
             /\ chats[r].kind \in {"ask", "intent"}
             /\ chats[r].who \in Chatter \cup {"none"} /\ chats[r].text \in Message \cup {"none"}
  <2>1. chats[r] = Quiet \/ chats[r] \in UnderWay
    BY DEF LogistInv, Chats
  <2> QED BY <2>1 DEF Quiet, UnderWay
<1>3. places \in 0..Places
  <2>1. IsFiniteSet(AtModel(chats))
    BY LogistAssumption, FS_Subset DEF AtModel
  <2>2. places \in Nat
    BY <2>1, FS_CardinalityType DEF LogistInv
  <2> QED BY <2>2, LogistAssumption DEF LogistRest
<1>4. kept \subseteq Message /\ pending \in Seq(Answer)
  BY DEF LogistInv, LogistRest
<1> QED BY <1>1, <1>2, <1>3, <1>4 DEF LogistRest, LogistTypeOK

\* The lists of antifraud and the documents asked for.
FraudLists ==
  /\ rows \in Seq(Listing) /\ adding \in [Adder -> Listing \cup {None}]
  /\ DOMAIN docs = Deal /\ \A d \in Deal : docs[d].kind \in {"none", "requested", "skipped"}

LEMMA FraudListsStart == FraudInit => FraudLists
BY DEF FraudInit, FraudLists, None

LEMMA FraudListsStay == ASSUME FraudLists, [FraudNext]_fraudVars PROVE FraudLists'
<1>1. ASSUME NEW r \in Request, Save(r) PROVE FraudLists'
  <2> DEFINE q == request[r]
             risk == RiskFound(q)
  <2>1. /\ docs' = [docs EXCEPT ![q.sent.deal] =
                      [kind |-> IF risk = "low" THEN "skipped" ELSE "requested",
                       docs |-> RequiredDocs(risk, q.codes)]]
        /\ UNCHANGED <<rows, adding>>
    BY <1>1 DEF Save
  <2> HIDE DEF q, risk
  <2>2. /\ DOMAIN docs' = Deal
        /\ \A d \in Deal : docs'[d].kind \in {"none", "requested", "skipped"}
    BY <2>1 DEF FraudLists
  <2> QED BY <2>1, <2>2 DEF FraudLists
<1>2. ASSUME NEW a \in Adder, NEW l \in Listing, LookListed(a, l) PROVE FraudLists'
  BY <1>2 DEF FraudLists, LookListed
<1>3. ASSUME NEW a \in Adder, InsertListed(a) PROVE FraudLists'
  <2>1. adding[a] \in Listing /\ rows' = Append(rows, adding[a])
        /\ adding' = [adding EXCEPT ![a] = None] /\ UNCHANGED docs
    BY <1>3 DEF FraudLists, InsertListed
  <2> QED BY <2>1 DEF FraudLists
<1>4. ASSUME NEW r \in Request,
             \/ \E sent \in Submitted : ReadStats(r, sent)
             \/ ReadProfile(r) \/ FillCache(r) \/ CheckLists(r) \/ Judge(r) \/ FindRow(r) \/ Clash(r)
      PROVE  UNCHANGED <<rows, adding, docs>>
  BY <1>4 DEF ReadStats, ReadProfile, FillCache, CheckLists, Judge, FindRow, Clash
<1>5. ASSUME StartRecompute \/ CommitRecompute \/ ClearCache \/ CacheExpires \/ UNCHANGED fraudVars
      PROVE  UNCHANGED <<rows, adding, docs>>
  BY <1>5 DEF StartRecompute, CommitRecompute, ClearCache, CacheExpires, fraudVars
<1>6. ASSUME UNCHANGED <<rows, adding, docs>> PROVE FraudLists'
  BY <1>6 DEF FraudLists
<1> QED BY <1>1, <1>2, <1>3, <1>4, <1>5, <1>6 DEF FraudNext

LEMMA FraudListsInvariance == FraudSpec => []FraudLists
BY FraudListsStart, FraudListsStay, PTL DEF FraudSpec

LEMMA FraudTypesHold == FraudInv /\ FraudLists => FraudTypeOK
<1> SUFFICES ASSUME FraudInv, FraudLists PROVE FraudTypeOK
  OBVIOUS
<1>1. \A i \in 1..Len(rows) : rows[i] \in Listing
  BY DEF FraudLists
<1>2. \A d \in Deal : verdict[d] = None \/ verdict[d].risk \in Range(Level)
  <2>1. \A x \in Risks : x \in Range(Level)
    BY DEF Risks, Level, Range
  <2>2. \A d \in Deal : verdict[d] = None \/ verdict[d].risk \in Risks
    BY DEF FraudInv, FraudTypes, Verdicts
  <2> QED BY <2>1, <2>2
<1>3. stats.version \in 0..MostRuns
  BY StatsHaveVersion DEF FraudInv, FraudTypes, Versions
<1>4. recompute.step \in {"idle", "read", "clear"}
  BY DEF FraudInv, FraudTypes
<1>5. \A r \in Request :
        request[r].step \in {"idle", "profile", "fill", "lists", "history", "row", "save"}
  BY DEF FraudInv, FraudTypes, Reviews
<1> QED BY <1>1, <1>2, <1>3, <1>4, <1>5 DEF FraudLists, FraudTypeOK

\* Orders of the site and rows of the black list.
FeedCounts ==
  /\ posted \in [Id -> 0..MostPosts]
  /\ DOMAIN blacklist = Phone /\ \A p \in Phone : blacklist[p] \in Nat

LEMMA FeedCountsStart == FeedInit => FeedCounts
BY FeedAssumption DEF FeedInit, FeedCounts

LEMMA FeedCountsStay == ASSUME FeedCounts, FilingInv, [FeedNext]_feedVars PROVE FeedCounts'
<1>1. ASSUME UNCHANGED <<posted, blacklist>> PROVE FeedCounts'
  BY <1>1 DEF FeedCounts
<1>2. ASSUME NEW u \in Reader, CommitComplaint(u) PROVE FeedCounts'
  <2>1. PICK p : blacklist' \in {blacklist, [blacklist EXCEPT ![p] = @ + 1]}
    BY <1>2 DEF CommitComplaint
  <2>2. UNCHANGED posted
    BY <1>2 DEF CommitComplaint
  <2> QED BY <2>1, <2>2 DEF FeedCounts
<1>3. ASSUME NEW a \in Admin, RetryTaken(a) \/ RetryFails(a) PROVE FeedCounts'
  <2> DEFINE e == admin[a].id
  <2>1. \E n \in {0, 1} : posted[e] + n <= MostPosts /\ posted' = [posted EXCEPT ![e] = @ + n]
    <3>1. CASE RetryTaken(a)
      <4>1. /\ posted[e] < MostPosts /\ admin[a].step = "retry"
            /\ posted' = [posted EXCEPT ![e] = @ + 1]
        BY <3>1 DEF RetryTaken
      <4>2. admin[a] \in Requests
        BY <4>1 DEF FilingInv, FeedTypes, Calm
      <4>3. e \in Id
        BY <4>2 DEF Requests
      <4> HIDE DEF e
      <4>4. posted[e] + 1 <= MostPosts
        BY <4>1, <4>3, FeedAssumption DEF FeedCounts
      <4> QED BY <4>1, <4>4
    <3>2. CASE RetryFails(a)
      BY <3>2 DEF RetryFails
    <3> QED BY <1>3, <3>1, <3>2
  <2> HIDE DEF e
  <2>2. UNCHANGED blacklist
    BY <1>3 DEF RetryTaken, RetryFails, AdminCommits
  <2>3. posted' \in [Id -> 0..MostPosts]
    <3>1. PICK n \in {0, 1} : posted[e] + n <= MostPosts /\ posted' = [posted EXCEPT ![e] = @ + n]
      BY <2>1
    <3>2. posted \in [Id -> 0..MostPosts] /\ MostPosts \in Nat
      BY FeedAssumption DEF FeedCounts
    <3>3. e \in Id => posted[e] + n \in 0..MostPosts
      BY <3>1, <3>2
    <3> QED BY <3>1, <3>2, <3>3
  <2> QED BY <2>2, <2>3 DEF FeedCounts
<1>4. ASSUME NEW u \in Reader, (\E e \in Ids : BeginComplaint(u, e)) \/ CountComplaint(u)
      PROVE  UNCHANGED <<posted, blacklist>>
  BY <1>4 DEF BeginComplaint, CountComplaint
<1>5. ASSUME NEW a \in Admin,
             \/ \E e \in Ids, op \in {"publish", "ignore", "retry"} : AdminLoads(a, op, e)
             \/ Publish(a) \/ Dismiss(a) \/ RetryUnrouted(a)
      PROVE  UNCHANGED <<posted, blacklist>>
  BY <1>5 DEF AdminLoads, Publish, Dismiss, RetryUnrouted, AdminCommits
<1>6. ASSUME \/ \E hot, manual \in BOOLEAN, p \in Phone, s \in Status : Arrive(hot, manual, p, s)
             \/ Open \/ NextPage \/ UNCHANGED feedVars
      PROVE  UNCHANGED <<posted, blacklist>>
  BY <1>6 DEF Arrive, Open, NextPage, feedVars
<1> QED BY <1>1, <1>2, <1>3, <1>4, <1>5, <1>6 DEF FeedNext

LEMMA FeedTypesStay == FeedSpec => [](ScrollInv /\ FeedCounts)
<1>1. ScrollInv => FilingInv
  BY DEF ScrollInv
<1> QED BY <1>1, ScrollInvariance, FeedCountsStart, FeedCountsStay, PTL DEF FeedSpec

LEMMA FeedTypesHold == ScrollInv /\ FeedCounts => FeedTypeOK
<1> SUFFICES ASSUME ScrollInv, FeedCounts PROVE FeedTypeOK
  OBVIOUS
<1>1. FeedTypes /\ scroll \in Scrolls /\ scroll.through \subseteq Visible
  BY DEF ScrollInv, FilingInv
<1>2. \A e \in Ids : events[e] \in FeedRow
  BY <1>1 DEF FeedTypes, Ids
<1>3. \A u \in Reader : filing[u].step \in {"idle", "loaded", "counted"}
  BY <1>1 DEF FeedTypes, Calm, Loaded, Tallied
<1>4. \A a \in Admin : admin[a].step \in {"idle", "publish", "ignore", "retry"}
  BY <1>1 DEF FeedTypes, Calm, Requests
<1>5. scroll.step \in {"idle", "reading", "end"} /\ scroll.cursor \in 1..Top
      /\ scroll.shown \subseteq Id /\ scroll.through \subseteq Id
  BY <1>1 DEF Scrolls
<1> QED BY <1>1, <1>2, <1>3, <1>4, <1>5 DEF FeedTypes, FeedCounts, FeedTypeOK

LEMMA PricesTypesHold == QuotesInv => PricesTypeOK
<1> SUFFICES ASSUME QuotesInv PROVE PricesTypeOK
  OBVIOUS
<1>1. /\ clock \in 0..LastMinute /\ listed \in [Route -> Loads] /\ Len(quotes) <= 2
      /\ \A r \in Route : rates[r].at \in -Ttl..clock /\ rates[r].rate.price \in Nat
  BY DEF QuotesInv, PricesTypes, Answers
<1>2. \A a \in Quoter : enquiry[a].step \in {"idle", "sent", "answered"}
  BY DEF QuotesInv, PricesTypes, NotAsking
<1>3. ASSUME NEW i \in DOMAIN quotes PROVE quotes[i].price \in Nat /\ quotes[i].seen \in 0..clock
  <2>1. quotes[i] \in QuoteRows
    BY DEF QuotesInv, PricesTypes
  <2>2. /\ quotes[i].price \in Nat /\ quotes[i].at \in Nat /\ quotes[i].seen \in Nat
    BY <2>1 DEF QuoteRows
  <2>3. quotes[i].at <= clock /\ quotes[i].seen <= quotes[i].at
    BY DEF QuotesInv, QuoteIsTrue
  <2> QED BY <1>1, <2>2, <2>3
<1> QED BY <1>1, <1>2, <1>3 DEF PricesTypeOK

\* PlatformTypesOK of MCPlatform: every part stays within its types, whatever the numbers of
\* users, rows and requests; the logist takes no more places at the models than there are, and
\* remembers no more of a session than _CTX_MESSAGES (chat and _save_ctx of ai-engine).
THEOREM PlatformTypesStay == PlatformSpec => []PlatformTypesOK
<1>1. PlatformSpec =>
        [](/\ LinkInv /\ LineInv /\ FleetInv /\ WsInv /\ AnnounceInv /\ AnswersInv
           /\ LogistInv /\ LogistRest /\ FraudInv /\ FraudLists /\ ScrollInv /\ FeedCounts
           /\ QuotesInv /\ ReceiverInv /\ TrucksInv /\ (part = "match" => MatchInv))
  BY PartsRunAlone, LinkInvariance, LineInvariance, FleetInvariance, WsInvariance,
     AnnounceInvariance, AnswersInvariance, LogistTypesStay, FraudInvariance,
     FraudListsInvariance, FeedTypesStay, QuotesInvariance, ReceiverInvariance,
     TrucksInvariance, MatchRuns, PTL
<1>2. ASSUME LinkInv, LineInv, FleetInv, WsInv, AnnounceInv, AnswersInv
      PROVE  LinkTypeOK /\ LineTypeOK /\ FleetTypeOK /\ WsTypeOK /\ AnnounceTypeOK /\ AnswersTypeOK
  BY <1>2, Zenon DEF LinkInv, LineInv, FleetInv, WsInv, AnnounceInv, AnswersInv
<1>3. ASSUME LogistInv, LogistRest, FraudInv, FraudLists, ScrollInv, FeedCounts, QuotesInv,
             ReceiverInv, TrucksInv, part = "match" => MatchInv
      PROVE  /\ LogistTypeOK /\ FraudTypeOK /\ FeedTypeOK /\ PricesTypeOK /\ ReceiverTypeOK
             /\ TrucksTypeOK /\ (part = "match" => MatchTypeOK)
  BY <1>3, LogistTypesHold, FraudTypesHold, FeedTypesHold, PricesTypesHold, ReceiverTypesHold,
     TrucksHolds, MatchHolds, Zenon
<1>4. ASSUME LinkInv, LineInv, FleetInv, WsInv, AnnounceInv, AnswersInv, LogistInv, LogistRest,
             FraudInv, FraudLists, ScrollInv, FeedCounts, QuotesInv, ReceiverInv, TrucksInv,
             part = "match" => MatchInv
      PROVE  PlatformTypesOK
  BY <1>2, <1>3, <1>4, Zenon DEF PlatformTypesOK
<1> QED BY <1>1, <1>4, PTL
=============================================================================
