---------------------------- MODULE EscrowProofs ----------------------------
(***************************************************************************)
(* Theorems of Escrow, for any number of cargos, users, deals and handlers  *)
(* in flight.  The invariants are not inductive alone: what a handler will  *)
(* write depends on the copies it holds, so the inductive invariant says    *)
(* what a handler at each step knows about the deal it works on.            *)
(*                                                                          *)
(* First the deals: payments, badges, payouts.  Then the money: what is     *)
(* frozen was paid in, however the handlers interleave; and, handled one at *)
(* a time, the wallets add up and Escrow implements SafeDeal.  The sums     *)
(* over a client's deals need laws of SumFunctionOnSet: a fold is not       *)
(* defined by a law, so the laws are proved from its iteration, by the      *)
(* least subset that would break them.                                      *)
(***************************************************************************)
EXTENDS Escrow, FiniteSetTheorems, WellFoundedInduction, TLAPS

-----------------------------------------------------------------------------
(* Deals.                                                                   *)

\* The handler holds a deal that existed when it was read.
HasDeal(q) == /\ q.op # "create" /\ q.step # "idle"
              /\ q.step = "load_deal" => q.op = "fund"

Releasing == {"release", "admin_release"}

\* What the copies in one handler are worth.
HandlerKnows(r) ==
  LET q == req[r]
  IN  /\ q.step # "idle" => q.cargo \in Cargo /\ q.op \in Op
      /\ q.step = "load_deal" => q.op \in UserOp \cup {"fund"}
      /\ q.step = "load_cargo" => q.op \in AdminOp \cup {"fund"}
      /\ q.step = "payout" => q.op \in Releasing
      /\ q.step = "insert" => q.op = "create"
      /\ q.op = "create" => q.step # "load_cargo"
      /\ HasDeal(q) => /\ q.deal \in DealId
                       /\ deals[q.deal].status # "none"
                       /\ deals[q.deal].cargo = q.cargo
                       /\ q.old.status \in Secured => events[q.deal].funded > 0
      /\ q.step \in {"payout", "wallets", "commit"} =>
           /\ q.op = "mark" => q.old.status = "funded"
           /\ q.op \in Releasing => q.old.status = "delivery_marked"
      /\ q.step \in {"wallets", "commit"} /\ q.op \in Releasing => payouts[q.deal] > 0

\* An id drawn by a create that has not committed belongs to it alone.
IdReserved(r) ==
  req[r].op = "create" /\ req[r].step = "commit" =>
    /\ req[r].deal \in 1..lastId
    /\ deals[req[r].deal].status = "none"
    /\ \A s \in Slot \ {r} :
         req[s].op = "create" /\ req[s].step = "commit" => req[s].deal # req[r].deal

DealConsistent(d) ==
  /\ d > lastId => deals[d].status = "none"
  /\ deals[d].status = "none" => events[d].funded = 0
  /\ deals[d].status # "none" => deals[d].cargo \in Cargo
  /\ deals[d].status \in Secured => events[d].funded > 0
  /\ payouts[d] > 0 => events[d].funded > 0
  /\ deals[d].status = "released" => payouts[d] > 0

IInv == /\ TypeOK
        /\ \A r \in Slot : HandlerKnows(r)
        /\ \A r \in Slot : IdReserved(r)
        /\ \A d \in DealId : DealConsistent(d)
        /\ VerifiedPaymentIsReal

-----------------------------------------------------------------------------
(* Types of the operators.                                                  *)

\* The clamped difference is natural.
LEMMA MonusType == \A a, b \in Nat : Monus(a, b) \in Nat
BY DEF Monus

\* The rounded fee is a natural number of roubles.
LEMMA FeeType == \A a \in Nat : PlatformFee(a) \in Nat
<1> SUFFICES ASSUME NEW a \in Nat PROVE PlatformFee(a) \in Nat
  OBVIOUS
<1>1. a * FeePercent \in Nat
  BY EscrowAssumption
<1>2. \A n \in Nat : n \div 100 \in Nat /\ n % 100 \in Nat
  OBVIOUS
<1> QED BY <1>1, <1>2 DEF PlatformFee

\* So is what is left for the carrier.
LEMMA ShareType == \A a \in Nat : CarrierShare(a) \in Nat
BY FeeType, MonusType DEF CarrierShare

\* A slot without a handler is well typed.
LEMMA IdleType == Idle \in Request
BY DEF Idle, Request, MaybeUser, CargoRow, DealRow, WalletRow, BlankCargo,
       NoDeal, NoWallet, PaymentStatus, Status

\* Going on or returning early keeps a handler well typed.
LEMMA DecideType == ASSUME NEW q \in Request PROVE Decide(q) \in Request
<1>1. AfterGuard(q) \in Step
  BY DEF AfterGuard, Step
<1> DEFINE o == IF q.op \in {"refund", "admin_dispute"} THEN "dispute" ELSE q.op
           u == IF TakesOver(q) THEN q.caller ELSE NoUser
<1>2. o \in Op \cup {"none"}
  BY DEF Op, UserOp, Request
<1>3. u \in MaybeUser
  BY DEF Request, MaybeUser
<1>4. Decide(q) \in {[q EXCEPT !.step = AfterGuard(q), !.op = o, !.caller = u], Idle}
  BY DEF Decide
<1> HIDE DEF o, u
<1>5. [q EXCEPT !.step = AfterGuard(q), !.op = o, !.caller = u] \in Request
  BY <1>1, <1>2, <1>3 DEF Request
<1> QED BY <1>4, <1>5, IdleType

\* The unit of work writes well-typed cargo rows ...
LEMMA SavedCargoType ==
  ASSUME TypeOK, NEW q \in Request, NEW p \in PaymentStatus, NEW u \in MaybeUser
  PROVE  SavedCargo(q, p, u) \in [Cargo -> CargoRow]
BY DEF TypeOK, SavedCargo, Changed, CargoRow

\* ... well-typed deal rows ...
LEMMA SavedDealType ==
  ASSUME TypeOK, NEW q \in Request, q.deal \in DealId,
         NEW s \in Status, NEW u \in MaybeUser
  PROVE  SavedDeal(q, s, u) \in [DealId -> DealRow]
<1> DEFINE now == deals[q.deal]
           st == Changed(now.status, q.old.status, s)
           ca == Changed(now.carrier, q.old.carrier, u)
<1>1. now \in DealRow
  BY DEF TypeOK
<1>2. st \in Status \cup {"none"} /\ ca \in MaybeUser
  BY <1>1 DEF Changed, DealRow
<1>3. SavedDeal(q, s, u) = [deals EXCEPT ![q.deal] = [now EXCEPT !.status = st, !.carrier = ca]]
  BY DEF SavedDeal
<1> HIDE DEF now, st, ca
<1>4. [now EXCEPT !.status = st, !.carrier = ca] \in DealRow
  BY <1>1, <1>2 DEF DealRow
<1> QED BY <1>3, <1>4 DEF TypeOK

\* ... and well-typed wallets.
LEMMA SavedWalletsType ==
  ASSUME TypeOK, NEW q \in Request, NEW new \in [User -> WalletRow]
  PROVE  SavedWallets(q, new) \in [User -> WalletRow]
BY DEF TypeOK, SavedWallets, Changed, WalletRow, Request

-----------------------------------------------------------------------------
(* What a step leaves true for the handlers that did not take it.           *)

\* Deals keep existing for the same cargo; bookings and payouts only grow.
Grows ==
  /\ \A d \in DealId : deals[d].status # "none" =>
       deals'[d].status # "none" /\ deals'[d].cargo = deals[d].cargo
  /\ \A d \in DealId : events[d].funded > 0 => events'[d].funded > 0
  /\ \A d \in DealId : payouts[d] > 0 => payouts'[d] > 0

\* A handler that does not move still knows what it knew.
LEMMA OthersKnow ==
  ASSUME Grows, NEW s \in Slot, req'[s] = req[s], HandlerKnows(s),
         req[s] \in Request
  PROVE  HandlerKnows(s)'
<1>1. CASE HasDeal(req[s])
  BY <1>1 DEF Grows, HandlerKnows, HasDeal
<1>2. CASE ~HasDeal(req[s])
  BY <1>2 DEF Grows, HandlerKnows, HasDeal, Releasing
<1> QED BY <1>1, <1>2

\* An empty slot knows nothing and has to know nothing.
LEMMA IdleKnows ==
  ASSUME NEW r \in Slot, req'[r] = Idle
  PROVE  HandlerKnows(r)' /\ IdReserved(r)'
BY DEF HandlerKnows, IdReserved, HasDeal, Idle, Releasing

\* A step that moves one handler and, of the tables, at most the payouts.
LEMMA LocalStep ==
  ASSUME IInv, NEW r \in Slot, NEW q \in Request,
         req' = [req EXCEPT ![r] = q],
         UNCHANGED <<cargos, deals, wallets, events, lastId>>,
         deliveries' \in [DealId -> Nat],
         payouts' \in [DealId -> Nat],
         \A d \in DealId : payouts[d] > 0 => payouts'[d] > 0,
         \A d \in DealId : payouts'[d] > 0 => events[d].funded > 0,
         HandlerKnows(r)',
         ~(q.op = "create" /\ q.step = "commit")
  PROVE  IInv'
<1>1. TypeOK'
  BY DEF IInv, TypeOK
<1>2. Grows
  BY DEF Grows
<1>3. \A s \in Slot : req[s] \in Request /\ (s # r => req'[s] = req[s]) /\ req'[r] = q
  BY DEF IInv, TypeOK
<1>4. \A s \in Slot : HandlerKnows(s)'
  BY <1>2, <1>3, OthersKnow DEF IInv
<1>5. \A s \in Slot : IdReserved(s)'
  BY <1>3 DEF IInv, IdReserved
<1>6. \A d \in DealId : DealConsistent(d)'
  BY DEF IInv, DealConsistent
<1>7. VerifiedPaymentIsReal'
  BY DEF IInv, VerifiedPaymentIsReal
<1> QED BY <1>1, <1>4, <1>5, <1>6, <1>7 DEF IInv

\* A commit frees the slot and touches the one deal of the handler.
LEMMA CommitStep ==
  ASSUME IInv, NEW r \in Slot,
         req' = [req EXCEPT ![r] = Idle],
         TypeOK', Grows, UNCHANGED lastId,
         \A d \in DealId : d # req[r].deal => deals'[d] = deals[d],
         \/ deals[req[r].deal].status # "none"
         \/ req[r].op = "create" /\ req[r].step = "commit",
         \A d \in DealId : DealConsistent(d)',
         VerifiedPaymentIsReal'
  PROVE  IInv'
<1>1. \A s \in Slot : req[s] \in Request /\ (s # r => req'[s] = req[s]) /\ req'[r] = Idle
  BY DEF IInv, TypeOK
<1>2. \A s \in Slot : HandlerKnows(s)'
  BY <1>1, OthersKnow, IdleKnows DEF IInv
<1>3. ASSUME NEW s \in Slot PROVE IdReserved(s)'
  <2>1. CASE s = r
    BY <1>1, <2>1, IdleKnows
  <2>2. CASE s # r
    <3>1. SUFFICES ASSUME req[s].op = "create", req[s].step = "commit"
          PROVE  IdReserved(s)'
      BY <1>1, <2>2 DEF IdReserved
    <3>2. IdReserved(s) /\ IdReserved(r)
      BY DEF IInv
    <3>3. req[s].deal \in DealId /\ req[s].deal # req[r].deal
      <4>1. req[s].deal \in DealId
        <5>1. req[s].deal \in 1..lastId
          BY <3>1, <3>2 DEF IdReserved
        <5>2. lastId \in 0..MaxDeals /\ MaxDeals \in Nat
          BY EscrowAssumption DEF IInv, TypeOK
        <5> QED BY <5>1, <5>2 DEF DealId
      <4>2. deals[req[s].deal].status = "none"
        BY <3>1, <3>2 DEF IdReserved
      <4> QED BY <2>2, <3>1, <3>2, <4>1, <4>2 DEF IdReserved
    <3>4. deals'[req[s].deal].status = "none"
      BY <3>1, <3>2, <3>3 DEF IdReserved
    <3> QED BY <1>1, <2>2, <3>1, <3>2, <3>4 DEF IdReserved, Idle
  <2> QED BY <2>1, <2>2
<1> QED BY <1>2, <1>3 DEF IInv

-----------------------------------------------------------------------------
(* Guards.                                                                  *)

\* A user handler's client has a wallet to be opened, so a create always goes
\* through the wallets.
LEMMA CreateTouches ==
  ASSUME NEW q \in Request, q.cargo \in Cargo, q.op = "create"
  PROVE  Touched(q) # {}
<1>1. Owner[q.cargo] \in User /\ Owner[q.cargo] # NoUser
  BY EscrowAssumption
<1>2. Touched(q) = {Owner[q.cargo], q.row.carrier} \ {NoUser}
  BY DEF Touched, TakesOver
<1> QED BY <1>1, <1>2

\* A handler that goes on keeps its copies, and its guard admitted the deal.
GoesOn(q, p) ==
  /\ p.cargo = q.cargo /\ p.deal = q.deal /\ p.old = q.old
  /\ p.op \in Op
  /\ p.op = q.op \/ (p.op = "dispute" /\ q.op # "create")
  /\ Admits(q.op, q.old.status)
  /\ p.step \in {"payout", "wallets", "commit"}
  /\ p.step = "payout" <=> p.op \in Releasing
  /\ p.op = "create" => p.step = "wallets"

\* Decide either frees the slot or goes on.
LEMMA DecideGoesOn ==
  ASSUME NEW q \in Request, q.cargo \in Cargo, q.op \in Op
  PROVE  Decide(q) = Idle \/ GoesOn(q, Decide(q))
<1>1. CASE ~Admits(q.op, q.old.status)
  BY <1>1 DEF Decide
<1>2. CASE Admits(q.op, q.old.status)
  <2> DEFINE p == Decide(q)
  <2>1. /\ p.cargo = q.cargo /\ p.deal = q.deal /\ p.old = q.old
        /\ p.step = AfterGuard(q)
        /\ p.op = IF q.op \in {"refund", "admin_dispute"} THEN "dispute" ELSE q.op
    BY <1>2 DEF Decide, Request
  <2>2. /\ AfterGuard(q) \in {"payout", "wallets", "commit"}
        /\ AfterGuard(q) = "payout" <=> q.op \in Releasing
        /\ q.op = "create" => AfterGuard(q) = "wallets"
    <3>1. q.op = "create" => Touched(q) # {}
      BY CreateTouches
    <3> QED BY <3>1 DEF AfterGuard, Releasing
  <2>3. p.op \in Op /\ (p.op = q.op \/ (p.op = "dispute" /\ q.op # "create"))
    BY <2>1 DEF Op, UserOp
  <2>4. p.op \in Releasing <=> q.op \in Releasing
    BY <2>1 DEF Releasing
  <2>5. p.op = "create" => q.op = "create"
    BY <2>1
  <2> HIDE DEF p
  <2>6. GoesOn(q, p)
    BY <1>2, <2>1, <2>2, <2>3, <2>4, <2>5 DEF GoesOn
  <2> QED BY <2>6 DEF p
<1> QED BY <1>1, <1>2

\* What the guard of a mark and of a release lets through.
LEMMA GuardKnows ==
  ASSUME NEW s
  PROVE  /\ Admits("mark", s) => s = "funded"
         /\ \A o \in Releasing : Admits(o, s) => s = "delivery_marked"
         /\ \A o \in UserOp \ {"create"} : ~Admits(o, "none")
BY DEF Admits, Deliverable, Releasable, Releasing, UserOp, Closed

\* A handler that has just decided knows what it has to know.
LEMMA DecideKnows ==
  ASSUME IInv, NEW r \in Slot, NEW q \in Request, q.cargo \in Cargo, q.op \in Op,
         req' = [req EXCEPT ![r] = Decide(q)],
         UNCHANGED <<cargos, deals, wallets, events, lastId, deliveries, payouts>>,
         q.op # "create" /\ Admits(q.op, q.old.status) =>
           /\ q.deal \in DealId
           /\ deals[q.deal].status # "none"
           /\ deals[q.deal].cargo = q.cargo
           /\ q.old.status \in Secured => events[q.deal].funded > 0
  PROVE  IInv'
<1>1. req'[r] = Decide(q)
  BY DEF IInv, TypeOK
<1>2. CASE Decide(q) = Idle
  <2>1. HandlerKnows(r)'
    BY <1>1, <1>2, IdleKnows
  <2> QED BY <1>2, <2>1, IdleType, LocalStep DEF IInv, TypeOK, DealConsistent, Idle
<1>3. CASE GoesOn(q, Decide(q))
  <2> DEFINE p == Decide(q)
  <2>1. p \in Request
    BY DecideType
  <2>2. GoesOn(q, p) /\ req'[r] = p
    BY <1>1, <1>3
  <2> HIDE DEF p
  <2>3. p.op \in Releasing \/ p.op = "mark" => p.op = q.op
    BY <2>2 DEF GoesOn, Releasing
  <2>4. /\ p.op = "mark" => p.old.status = "funded"
        /\ p.op \in Releasing => p.old.status = "delivery_marked"
    BY <2>2, <2>3, GuardKnows DEF GoesOn
  <2>5. p.op # "create" => q.op # "create"
    BY <2>2 DEF GoesOn
  <2>6. HandlerKnows(r)'
    BY <2>2, <2>4, <2>5 DEF HandlerKnows, HasDeal, GoesOn
  <2>7. ~(p.op = "create" /\ p.step = "commit")
    BY <2>2 DEF GoesOn
  <2>8. req' = [req EXCEPT ![r] = p]
    BY DEF p
  <2> QED BY <2>1, <2>6, <2>7, <2>8, LocalStep DEF IInv, TypeOK, DealConsistent
<1> QED BY <1>2, <1>3, DecideGoesOn

-----------------------------------------------------------------------------
(* One lemma per action.                                                    *)

\* The initial tables are empty and the slots idle.
LEMMA InitInv == Init => IInv
<1> SUFFICES ASSUME Init PROVE IInv
  OBVIOUS
<1>1. TypeOK
  <2>1. req \in [Slot -> Request]
    BY IdleType DEF Init
  <2>2. cargos \in [Cargo -> CargoRow]
    BY EscrowAssumption DEF Init, CargoRow, PaymentStatus, MaybeUser
  <2>3. deals \in [DealId -> DealRow] /\ wallets \in [User -> WalletRow]
    BY DEF Init, NoDeal, DealRow, MaybeUser, NoWallet, WalletRow
  <2>4. events \in [DealId -> EventCount]
    BY DEF Init, EventCount
  <2> QED BY <2>1, <2>2, <2>3, <2>4, EscrowAssumption DEF Init, TypeOK
<1>2. \A r \in Slot : HandlerKnows(r) /\ IdReserved(r)
  BY DEF Init, HandlerKnows, HasDeal, IdReserved, Idle, Releasing
<1>3. \A d \in DealId : DealConsistent(d)
  BY DEF Init, DealConsistent, NoDeal, Secured
<1>4. VerifiedPaymentIsReal
  BY DEF Init, VerifiedPaymentIsReal, Secured
<1> QED BY <1>1, <1>2, <1>3, <1>4 DEF IInv

\* A request by a user starts a handler that has read the cargo.
LEMMA UserRequestInv ==
  ASSUME IInv, NEW r \in Slot, NEW o \in UserOp, NEW u \in User, NEW c \in Cargo,
         UserRequest(r, o, u, c)
  PROVE  IInv'
<1>1. PICK a \in Nat :
        req' = [req EXCEPT ![r] =
          [Idle EXCEPT !.op = o, !.step = "load_deal", !.caller = u,
                       !.cargo = c, !.amount = a, !.row = cargos[c]]]
  BY EscrowAssumption DEF UserRequest
<1> DEFINE q == [Idle EXCEPT !.op = o, !.step = "load_deal", !.caller = u,
                             !.cargo = c, !.amount = a, !.row = cargos[c]]
<1>2. q \in Request
  BY IdleType DEF Request, IInv, TypeOK, Op, Step, MaybeUser
<1>3. q.step = "load_deal" /\ q.op = o /\ q.cargo = c
  BY DEF Idle
<1> HIDE DEF q
<1>4. req' = [req EXCEPT ![r] = q]
  BY <1>1 DEF q
<1>5. req'[r] = q
  BY <1>4 DEF IInv, TypeOK
<1>6. HandlerKnows(r)'
  BY <1>3, <1>5 DEF HandlerKnows, HasDeal, UserOp, Op, Releasing
<1> QED BY <1>2, <1>3, <1>4, <1>6, LocalStep DEF UserRequest, IInv, TypeOK, DealConsistent

\* A handler that starts with the deal knows whether the deal was paid.
LEMMA ReadDealInv ==
  ASSUME IInv, NEW r \in Slot, NEW o \in AdminOp \cup {"fund"}, NEW d \in DealId,
         ReadDeal(r, o, d), deliveries' \in [DealId -> Nat]
  PROVE  IInv'
<1> DEFINE q == [Idle EXCEPT !.op = o, !.step = "load_cargo", !.cargo = deals[d].cargo,
                             !.deal = d, !.old = deals[d]]
<1>1. deals[d] \in DealRow /\ deals[d].cargo \in Cargo /\ deals[d].status # "none"
  BY DEF ReadDeal, IInv, TypeOK, DealConsistent
<1>2. q \in Request
  BY <1>1, IdleType DEF Request, Op, Step
<1>3. /\ q.step = "load_cargo" /\ q.op = o /\ q.cargo = deals[d].cargo
      /\ q.deal = d /\ q.old = deals[d]
  BY DEF Idle
<1>4. req' = [req EXCEPT ![r] = q]
  BY DEF ReadDeal
<1> HIDE DEF q
<1>5. req'[r] = q
  BY <1>4 DEF IInv, TypeOK
<1>6. UNCHANGED <<cargos, deals, wallets, events, lastId, payouts>>
  BY DEF ReadDeal
<1>7. o \in Op /\ o # "create"
  BY DEF AdminOp, Op
<1>8. DealConsistent(d)
  BY DEF IInv
<1>9. HandlerKnows(r)'
  BY <1>1, <1>3, <1>5, <1>6, <1>7, <1>8
     DEF HandlerKnows, HasDeal, Op, Releasing, AdminOp, DealConsistent
<1> QED BY <1>2, <1>3, <1>4, <1>6, <1>9, LocalStep DEF IInv, TypeOK, DealConsistent

\* A payment report starts such a handler.
LEMMA PaymentReportedInv ==
  ASSUME IInv, NEW r \in Slot, NEW d \in DealId, PaymentReported(r, d)
  PROVE  IInv'
<1>1. deliveries' \in [DealId -> Nat]
  BY DEF PaymentReported, IInv, TypeOK
<1> QED BY <1>1, ReadDealInv DEF PaymentReported

\* The mock checkout page has read the cargo of an existing deal.
LEMMA MockPaymentInv ==
  ASSUME IInv, NEW r \in Slot, NEW d \in DealId, MockPayment(r, d)
  PROVE  IInv'
<1> DEFINE q == [Idle EXCEPT !.op = "fund", !.step = "load_deal",
                             !.cargo = deals[d].cargo, !.deal = d,
                             !.row = cargos[deals[d].cargo]]
<1>1. deals[d].cargo \in Cargo /\ deals[d].status # "none"
  BY DEF MockPayment, IInv, DealConsistent
<1>2. q \in Request
  BY <1>1, IdleType DEF Request, Op, Step, IInv, TypeOK
<1>3. /\ q.step = "load_deal" /\ q.op = "fund" /\ q.cargo = deals[d].cargo
      /\ q.deal = d /\ q.old.status = "none"
  BY DEF Idle, NoDeal
<1>4. req' = [req EXCEPT ![r] = q]
  BY DEF MockPayment
<1> HIDE DEF q
<1>5. req'[r] = q
  BY <1>4 DEF IInv, TypeOK
<1>6. /\ UNCHANGED <<cargos, deals, wallets, events, lastId, payouts>>
      /\ deliveries' \in [DealId -> Nat]
  BY DEF MockPayment, IInv, TypeOK
<1>7. HandlerKnows(r)'
  BY <1>1, <1>3, <1>5, <1>6 DEF HandlerKnows, HasDeal, Op, Releasing, Secured
<1> QED BY <1>2, <1>3, <1>4, <1>6, <1>7, LocalStep DEF IInv, TypeOK, DealConsistent

\* So does an admin.
LEMMA AdminRequestInv ==
  ASSUME IInv, NEW r \in Slot, NEW o \in AdminOp, NEW d \in DealId, AdminRequest(r, o, d)
  PROVE  IInv'
<1>1. deliveries' \in [DealId -> Nat]
  BY DEF AdminRequest, IInv, TypeOK
<1> QED BY <1>1, ReadDealInv DEF AdminRequest

\* The latest deal is read: it exists, or the guard turns the handler away.
LEMMA LoadDealInv == ASSUME IInv, NEW r \in Slot, LoadDeal(r) PROVE IInv'
<1>1. PICK d \in DealId \cup {0} :
        /\ IF req[r].op = "fund" THEN d = req[r].deal ELSE IsLatest(d, req[r].cargo)
        /\ req' = [req EXCEPT ![r] = Decide([req[r] EXCEPT !.deal = d, !.old = RowOf(d)])]
  BY DEF LoadDeal
<1> DEFINE q == [req[r] EXCEPT !.deal = d, !.old = RowOf(d)]
<1>2. req[r] \in Request /\ HandlerKnows(r) /\ req[r].step = "load_deal"
  BY DEF IInv, TypeOK, LoadDeal
<1>3. RowOf(d) \in DealRow /\ (d = 0 => RowOf(d).status = "none")
  BY DEF RowOf, IInv, TypeOK, NoDeal, DealRow, MaybeUser
<1>4. q \in Request
  BY <1>2, <1>3 DEF Request
<1>5. /\ q.cargo = req[r].cargo /\ q.op = req[r].op /\ q.deal = d /\ q.old = RowOf(d)
  BY <1>2 DEF Request
<1>6. q.cargo \in Cargo /\ q.op \in UserOp \cup {"fund"} /\ q.op \in Op
  BY <1>2, <1>5 DEF HandlerKnows
<1> HIDE DEF q
<1>7. ASSUME q.op # "create", Admits(q.op, q.old.status)
      PROVE  /\ d \in DealId
             /\ deals[d].status # "none"
             /\ deals[d].cargo = q.cargo
  <2>1. CASE q.op = "fund"
    <3>1. HasDeal(req[r]) /\ d = req[r].deal
      BY <1>1, <1>2, <1>5, <2>1 DEF HasDeal
    <3> QED BY <1>2, <1>5, <3>1 DEF HandlerKnows
  <2>2. CASE q.op # "fund"
    <3>1. q.old.status # "none"
      BY <1>6, <1>7, <2>2, GuardKnows
    <3>2. d # 0
      BY <1>3, <1>5, <3>1
    <3> QED BY <1>1, <1>5, <2>2, <3>2 DEF IsLatest, DealsOf
  <2> QED BY <2>1, <2>2
<1>8. ASSUME q.op # "create", Admits(q.op, q.old.status)
      PROVE  q.old.status \in Secured => events[q.deal].funded > 0
  <2>1. d \in DealId /\ d # 0
    BY <1>7, <1>8, EscrowAssumption DEF DealId
  <2> QED BY <1>5, <2>1 DEF IInv, DealConsistent, RowOf
<1>9. UNCHANGED <<cargos, deals, wallets, events, lastId, deliveries, payouts>>
  BY DEF LoadDeal
<1>10. req' = [req EXCEPT ![r] = Decide(q)]
  BY <1>1 DEF q
<1> QED BY <1>4, <1>5, <1>6, <1>7, <1>8, <1>9, <1>10, DecideKnows

\* The cargo is read; what the handler knew of the deal still holds.
LEMMA LoadCargoInv == ASSUME IInv, NEW r \in Slot, LoadCargo(r) PROVE IInv'
<1> DEFINE q == [req[r] EXCEPT !.row = cargos[req[r].cargo]]
<1>1. req[r] \in Request /\ HandlerKnows(r) /\ req[r].step = "load_cargo"
  BY DEF IInv, TypeOK, LoadCargo
<1>2. req[r].cargo \in Cargo /\ req[r].op \in Op
  BY <1>1 DEF HandlerKnows
<1>3. q \in Request
  BY <1>1, <1>2 DEF Request, IInv, TypeOK
<1>4. q.cargo = req[r].cargo /\ q.op = req[r].op /\ q.deal = req[r].deal /\ q.old = req[r].old
  BY <1>1 DEF Request
<1> HIDE DEF q
<1>5. q.op # "create" =>
        /\ q.deal \in DealId
        /\ deals[q.deal].status # "none"
        /\ deals[q.deal].cargo = q.cargo
        /\ q.old.status \in Secured => events[q.deal].funded > 0
  BY <1>1, <1>4 DEF HandlerKnows, HasDeal
<1>6. UNCHANGED <<cargos, deals, wallets, events, lastId, deliveries, payouts>>
  BY DEF LoadCargo
<1>7. req' = [req EXCEPT ![r] = Decide(q)]
  BY DEF LoadCargo, q
<1> QED BY <1>2, <1>3, <1>4, <1>5, <1>6, <1>7, DecideKnows

\* A payout is ordered for a deal whose delivery was marked, so it was paid.
LEMMA PayoutInv == ASSUME IInv, NEW r \in Slot, Payout(r) PROVE IInv'
<1> DEFINE q == [req[r] EXCEPT !.step = "wallets"]
<1>1. /\ req[r] \in Request /\ HandlerKnows(r) /\ req[r].step = "payout"
      /\ req[r].op \in Releasing
  BY DEF IInv, TypeOK, Payout, HandlerKnows
<1>2. /\ req[r].deal \in DealId /\ req[r].old.status = "delivery_marked"
      /\ events[req[r].deal].funded > 0
  BY <1>1 DEF HandlerKnows, HasDeal, Releasing, Secured
<1>3. q \in Request
  BY <1>1 DEF Request, Step
<1>4. /\ q.cargo = req[r].cargo /\ q.op = req[r].op /\ q.deal = req[r].deal
      /\ q.old = req[r].old /\ q.step = "wallets"
  BY <1>1 DEF Request
<1>5. req' = [req EXCEPT ![r] = q] /\ req'[r] = q
  BY DEF Payout, IInv, TypeOK
<1> HIDE DEF q
<1>6. /\ UNCHANGED <<cargos, deals, wallets, events, lastId>>
      /\ deliveries' \in [DealId -> Nat]
      /\ payouts' = [payouts EXCEPT ![req[r].deal] = @ + 1]
  BY DEF Payout, IInv, TypeOK
<1>7. /\ payouts' \in [DealId -> Nat] /\ payouts'[req[r].deal] > 0
      /\ \A d \in DealId : d # req[r].deal => payouts'[d] = payouts[d]
  BY <1>2, <1>6 DEF IInv, TypeOK
<1>8. \A d \in DealId : payouts[d] > 0 => payouts'[d] > 0
  BY <1>7
<1>9. \A d \in DealId : payouts'[d] > 0 => events[d].funded > 0
  BY <1>2, <1>7 DEF IInv, DealConsistent
<1>10. HandlerKnows(r)'
  BY <1>1, <1>2, <1>4, <1>5, <1>6, <1>7 DEF HandlerKnows, HasDeal, Releasing, Op
<1> QED BY <1>1, <1>3, <1>4, <1>5, <1>6, <1>7, <1>8, <1>9, <1>10, LocalStep DEF Releasing

\* Reading the wallets changes nothing the handler knows of its deal.
LEMMA LoadWalletsInv == ASSUME IInv, NEW r \in Slot, LoadWallets(r) PROVE IInv'
<1> DEFINE purse == [u \in User |-> IF u \in Touched(req[r]) THEN wallets[u] ELSE NoWallet]
           next == IF req[r].op = "create" THEN "insert" ELSE "commit"
           q == [req[r] EXCEPT !.purse = purse, !.step = next]
<1>1. req[r] \in Request /\ HandlerKnows(r) /\ req[r].step = "wallets"
  BY DEF IInv, TypeOK, LoadWallets
<1>2. purse \in [User -> WalletRow] /\ next \in Step
  BY DEF IInv, TypeOK, NoWallet, WalletRow, Step
<1>3. req' = [req EXCEPT ![r] = q]
  BY DEF LoadWallets
<1> HIDE DEF purse
<1>4. q \in Request
  BY <1>1, <1>2 DEF Request
<1>5. /\ q.cargo = req[r].cargo /\ q.op = req[r].op /\ q.deal = req[r].deal
      /\ q.old = req[r].old /\ q.step = next
  BY <1>1 DEF Request
<1> HIDE DEF q
<1>6. UNCHANGED <<cargos, deals, wallets, events, lastId, deliveries, payouts>>
  BY DEF LoadWallets
<1>7. req'[r] = q
  BY <1>3 DEF IInv, TypeOK
<1>8. HandlerKnows(r)'
  BY <1>1, <1>5, <1>6, <1>7 DEF HandlerKnows, HasDeal, Releasing
<1> QED BY <1>3, <1>4, <1>5, <1>6, <1>8, LocalStep DEF IInv, TypeOK, DealConsistent

\* A create draws an id nobody has used.
LEMMA InsertDealInv == ASSUME IInv, NEW r \in Slot, InsertDeal(r) PROVE IInv'
<1> DEFINE q == [req[r] EXCEPT !.deal = lastId + 1, !.step = "commit"]
<1>1. /\ req[r] \in Request /\ HandlerKnows(r) /\ req[r].step = "insert"
      /\ req[r].op = "create" /\ req[r].cargo \in Cargo
  BY DEF IInv, TypeOK, InsertDeal, HandlerKnows
<1>2. lastId \in Nat /\ lastId + 1 \in DealId /\ lastId' = lastId + 1 /\ lastId' \in 0..MaxDeals
  BY EscrowAssumption DEF InsertDeal, IInv, TypeOK, DealId
<1>3. q \in Request
  BY <1>1, <1>2 DEF Request, Step
<1>4. q.cargo = req[r].cargo /\ q.op = "create" /\ q.deal = lastId + 1 /\ q.step = "commit"
  BY <1>1 DEF Request
<1>5. req' = [req EXCEPT ![r] = q]
  BY DEF InsertDeal
<1> HIDE DEF q
<1>6. req'[r] = q /\ \A s \in Slot : req[s] \in Request /\ (s # r => req'[s] = req[s])
  BY <1>5 DEF IInv, TypeOK
<1>7. UNCHANGED <<cargos, deals, wallets, events, deliveries, payouts>>
  BY DEF InsertDeal
<1>8. TypeOK'
  BY <1>2, <1>3, <1>5, <1>7 DEF IInv, TypeOK
<1>9. Grows
  BY <1>7 DEF Grows
<1>10. HandlerKnows(r)'
  BY <1>1, <1>4, <1>6 DEF HandlerKnows, HasDeal, Releasing, Op, UserOp
<1>11. \A s \in Slot : HandlerKnows(s)'
  BY <1>6, <1>9, <1>10, OthersKnow DEF IInv
<1>12. \A d \in DealId : DealConsistent(d)'
  BY <1>2, <1>7 DEF IInv, DealConsistent, DealId
<1>13. ASSUME NEW s \in Slot PROVE IdReserved(s)'
  <2>1. deals[lastId + 1].status = "none"
    BY <1>2 DEF IInv, DealConsistent
  <2>2. \A t \in Slot : t # r /\ req[t].op = "create" /\ req[t].step = "commit" =>
          req[t].deal \in 1..lastId
    BY DEF IInv, IdReserved
  <2>3. CASE s = r
    BY <1>2, <1>4, <1>6, <1>7, <2>1, <2>2, <2>3 DEF IdReserved
  <2>4. CASE s # r
    <3>1. IdReserved(s)
      BY DEF IInv
    <3> QED BY <1>2, <1>4, <1>6, <1>7, <2>2, <2>4, <3>1 DEF IdReserved
  <2> QED BY <2>3, <2>4
<1>14. VerifiedPaymentIsReal'
  BY <1>7 DEF IInv, VerifiedPaymentIsReal
<1> QED BY <1>8, <1>11, <1>12, <1>13, <1>14 DEF IInv

\* A handler that ends without a commit leaves everything as it was.
LEMMA GiveUpInv ==
  ASSUME IInv, NEW r \in Slot, CommitRaises(r) \/ BankRefuses(r) \/ Fail(r)
  PROVE  IInv'
<1>1. /\ req' = [req EXCEPT ![r] = Idle]
      /\ UNCHANGED <<cargos, deals, wallets, events, lastId, deliveries, payouts>>
  BY DEF CommitRaises, BankRefuses, Fail
<1>2. req'[r] = Idle
  BY <1>1 DEF IInv, TypeOK
<1> QED BY <1>1, <1>2, IdleKnows, IdleType, LocalStep DEF IInv, TypeOK, DealConsistent, Idle

\* Opening a wallet touches nothing else.
LEMMA OpenWalletInv == ASSUME IInv, NEW u \in User, OpenWallet(u) PROVE IInv'
<1>1. UNCHANGED <<cargos, deals, events, lastId, req, deliveries, payouts>>
  BY DEF OpenWallet
<1>2. wallets' \in [User -> WalletRow]
  BY DEF OpenWallet, IInv, TypeOK, WalletRow
<1>3. TypeOK'
  BY <1>1, <1>2 DEF IInv, TypeOK
<1> QED BY <1>1, <1>3
        DEF IInv, HandlerKnows, HasDeal, IdReserved, DealConsistent, VerifiedPaymentIsReal

-----------------------------------------------------------------------------
(* Commits.                                                                 *)

\* Writing status st to a deal and to its cargo is safe when the deal is paid
\* for (if st says so) and paid out (if st says so), whatever other handlers
\* have committed since the copies were read.
LEMMA DealCommit ==
  ASSUME IInv, NEW r \in Slot, req[r].step = "commit", req[r].op # "create",
         NEW st \in Status, NEW ca \in MaybeUser, NEW cb \in MaybeUser,
         req' = [req EXCEPT ![r] = Idle],
         deals' = SavedDeal(req[r], st, ca),
         cargos' = SavedCargo(req[r], st, cb),
         wallets' \in [User -> WalletRow],
         events' \in [DealId -> EventCount],
         \A d \in DealId : events[d].funded > 0 => events'[d].funded > 0,
         \A d \in DealId : d # req[r].deal => events'[d].funded = events[d].funded,
         st \in Secured => events'[req[r].deal].funded > 0,
         st = "released" => payouts[req[r].deal] > 0,
         UNCHANGED <<lastId, deliveries, payouts>>
  PROVE  IInv'
<1> DEFINE q == req[r]
           d0 == req[r].deal
<1>1. /\ q \in Request /\ d0 \in DealId /\ q.cargo \in Cargo
      /\ deals[d0].status # "none" /\ deals[d0].cargo = q.cargo
  BY DEF IInv, TypeOK, HandlerKnows, HasDeal
<1>2. st # "none"
  BY DEF Status
<1>3. TypeOK'
  <2>1. deals' \in [DealId -> DealRow]
    BY <1>1, SavedDealType DEF IInv
  <2>2. cargos' \in [Cargo -> CargoRow]
    BY <1>1, SavedCargoType DEF IInv, PaymentStatus
  <2> QED BY <2>1, <2>2, IdleType DEF IInv, TypeOK
<1>4. \A d \in DealId : d # d0 => deals'[d] = deals[d]
  BY DEF SavedDeal, IInv, TypeOK
<1>5. /\ deals'[d0].status = Changed(deals[d0].status, q.old.status, st)
      /\ deals'[d0].cargo = q.cargo
  <2>1. deals[d0] \in DealRow
    BY <1>1 DEF IInv, TypeOK
  <2> QED BY <1>1, <2>1 DEF SavedDeal, IInv, TypeOK, DealRow
<1>6. deals'[d0].status \in {deals[d0].status, st}
  BY <1>5 DEF Changed
<1>7. Grows
  BY <1>1, <1>2, <1>4, <1>5, <1>6 DEF Grows
<1>8. ASSUME NEW d \in DealId PROVE DealConsistent(d)'
  <2>1. DealConsistent(d)
    BY DEF IInv
  <2>2. CASE d = d0
    BY <1>1, <1>2, <1>5, <1>6, <2>1, <2>2 DEF DealConsistent
  <2>3. CASE d # d0
    BY <1>4, <2>1, <2>3 DEF DealConsistent
  <2> QED BY <2>2, <2>3
<1>9. ASSUME NEW c \in Cargo, cargos'[c].payment \in Secured
      PROVE  \E d \in DealId : deals'[d].cargo = c /\ events'[d].funded > 0
  <2>1. ASSUME cargos[c].payment \in Secured
        PROVE  \E d \in DealId : deals'[d].cargo = c /\ events'[d].funded > 0
    <3>1. PICK d \in DealId : deals[d].cargo = c /\ events[d].funded > 0
      BY <2>1 DEF IInv, VerifiedPaymentIsReal
    <3>2. deals'[d].cargo = c /\ events'[d].funded > 0
      BY <1>1, <1>4, <1>5, <3>1
    <3> QED BY <3>2
  <2>2. CASE c # q.cargo
    <3>1. cargos'[c] = cargos[c]
      BY <2>2 DEF SavedCargo, IInv, TypeOK
    <3> QED BY <1>9, <2>1, <3>1
  <2>3. CASE c = q.cargo
    <3>1. cargos'[c].payment \in {cargos[c].payment, st}
      BY <2>3 DEF SavedCargo, Changed, IInv, TypeOK
    <3>2. CASE st \in Secured
      BY <1>1, <1>5, <2>3, <3>2
    <3> QED BY <1>9, <2>1, <3>1, <3>2
  <2> QED BY <2>2, <2>3
<1>10. VerifiedPaymentIsReal'
  BY <1>9 DEF VerifiedPaymentIsReal
<1> QED BY <1>1, <1>3, <1>4, <1>7, <1>8, <1>10, CommitStep

\* A created deal gets the row of the id its handler drew.
LEMMA CommitCreateInv == ASSUME IInv, NEW r \in Slot, CommitCreate(r) PROVE IInv'
<1> DEFINE q == req[r]
           d0 == req[r].deal
           new == [cargo |-> q.cargo, carrier |-> q.row.carrier, amount |-> q.amount,
                   status |-> "payment_pending"]
<1>1. /\ q.op = "create" /\ q.step = "commit" /\ req' = [req EXCEPT ![r] = Idle]
      /\ deals' = [deals EXCEPT ![d0] = new]
      /\ cargos' = SavedCargo(q, "payment_pending", q.row.carrier)
      /\ wallets' = SavedWallets(q, q.purse)
      /\ UNCHANGED <<events, lastId, deliveries, payouts>>
  BY DEF CommitCreate, Committing
<1>2. /\ q \in Request /\ q.cargo \in Cargo
      /\ q.row.carrier \in MaybeUser /\ q.amount \in Nat /\ q.purse \in [User -> WalletRow]
  BY <1>1 DEF IInv, TypeOK, HandlerKnows, Request, CargoRow
<1>3. d0 \in 1..lastId /\ deals[d0].status = "none"
  BY <1>1 DEF IInv, IdReserved
<1>4. d0 \in DealId /\ lastId \in Nat
  BY <1>3, EscrowAssumption DEF IInv, TypeOK, DealId
<1>5. TypeOK'
  <2>1. new \in DealRow
    BY <1>2 DEF DealRow, Status
  <2>2. deals' \in [DealId -> DealRow]
    BY <1>1, <2>1 DEF IInv, TypeOK
  <2>3. cargos' \in [Cargo -> CargoRow] /\ wallets' \in [User -> WalletRow]
    BY <1>1, <1>2, SavedCargoType, SavedWalletsType DEF IInv, PaymentStatus, Status
  <2> QED BY <1>1, <2>2, <2>3, IdleType DEF IInv, TypeOK
<1>6. deals'[d0] = new /\ \A d \in DealId : d # d0 => deals'[d] = deals[d]
  BY <1>1, <1>4 DEF IInv, TypeOK
<1>7. DealConsistent(d0) /\ events[d0].funded = 0 /\ payouts[d0] \in Nat
  BY <1>3, <1>4 DEF IInv, TypeOK, DealConsistent
<1>8. Grows
  BY <1>1, <1>3, <1>6 DEF Grows
<1>9. ASSUME NEW d \in DealId PROVE DealConsistent(d)'
  <2>1. DealConsistent(d)
    BY DEF IInv
  <2>2. CASE d = d0
    BY <1>1, <1>2, <1>3, <1>4, <1>6, <1>7, <2>2 DEF DealConsistent, Secured, DealId
  <2>3. CASE d # d0
    BY <1>1, <1>6, <2>1, <2>3 DEF DealConsistent
  <2> QED BY <2>2, <2>3
<1>10. ASSUME NEW c \in Cargo, cargos'[c].payment \in Secured
       PROVE  \E d \in DealId : deals'[d].cargo = c /\ events'[d].funded > 0
  <2>1. cargos[c].payment \in Secured
    BY <1>1, <1>10 DEF SavedCargo, Changed, Secured, IInv, TypeOK
  <2>2. PICK d \in DealId : deals[d].cargo = c /\ events[d].funded > 0
    BY <2>1 DEF IInv, VerifiedPaymentIsReal
  <2>3. d # d0
    BY <1>7, <2>2
  <2> QED BY <1>1, <1>6, <2>2, <2>3
<1>11. VerifiedPaymentIsReal'
  BY <1>10 DEF VerifiedPaymentIsReal
<1> QED BY <1>1, <1>5, <1>6, <1>8, <1>9, <1>11, CommitStep

\* What every committing handler has in hand.
LEMMA CommitContext ==
  ASSUME IInv, NEW r \in Slot, req[r].step = "commit"
  PROVE  /\ req[r] \in Request /\ HandlerKnows(r)
         /\ req[r].old.carrier \in MaybeUser /\ req[r].row.carrier \in MaybeUser
         /\ req[r].caller \in MaybeUser /\ req[r].old.amount \in Nat
         /\ \A u \in User : req[r].purse[u] \in WalletRow
BY DEF IInv, TypeOK, Request, DealRow, CargoRow

\* A booked payment is counted for the deal it makes funded.
LEMMA CommitFundInv == ASSUME IInv, NEW r \in Slot, CommitFund(r) PROVE IInv'
<1> DEFINE q == req[r]
           new == [u \in User |-> [q.purse[u] EXCEPT !.balance = @ + q.old.amount,
                                                     !.frozen = @ + q.old.amount]]
<1>1. /\ q.op = "fund" /\ q.step = "commit" /\ req' = [req EXCEPT ![r] = Idle]
      /\ deals' = SavedDeal(q, "funded", q.old.carrier)
      /\ cargos' = SavedCargo(q, "funded", q.row.carrier)
      /\ wallets' = SavedWallets(q, new)
      /\ events' = [events EXCEPT ![q.deal].funded = @ + 1]
      /\ UNCHANGED <<lastId, deliveries, payouts>>
  BY DEF CommitFund, Committing
<1>2. q.deal \in DealId
  BY <1>1, CommitContext DEF HandlerKnows, HasDeal
<1>3. new \in [User -> WalletRow]
  <2>1. \A w \in WalletRow, a \in Nat, b \in Nat :
          [w EXCEPT !.balance = a, !.frozen = b] \in WalletRow
    BY DEF WalletRow
  <2>2. \A u \in User : /\ q.purse[u] \in WalletRow
                        /\ q.purse[u].balance + q.old.amount \in Nat
                        /\ q.purse[u].frozen + q.old.amount \in Nat
    <3>1. \A w \in WalletRow : w.balance \in Nat /\ w.frozen \in Nat
      BY DEF WalletRow
    <3>2. q.old.amount \in Nat /\ \A u \in User : q.purse[u] \in WalletRow
      BY <1>1, CommitContext
    <3> QED BY <3>1, <3>2
  <2> QED BY <2>1, <2>2
<1> HIDE DEF new
<1>4. wallets' \in [User -> WalletRow]
  BY <1>1, <1>3, CommitContext, SavedWalletsType DEF IInv
<1>5. /\ events' \in [DealId -> EventCount]
      /\ events'[q.deal].funded > 0
      /\ \A d \in DealId : d # q.deal => events'[d].funded = events[d].funded
  BY <1>1, <1>2 DEF IInv, TypeOK, EventCount
<1> QED BY <1>1, <1>2, <1>4, <1>5, CommitContext, DealCommit DEF Status

\* A delivery is marked on a deal that was funded when it was read.
LEMMA CommitMarkInv == ASSUME IInv, NEW r \in Slot, CommitMark(r) PROVE IInv'
<1> DEFINE q == req[r]
<1>1. PICK ca \in MaybeUser, cb \in MaybeUser :
        /\ q.op = "mark" /\ q.step = "commit" /\ req' = [req EXCEPT ![r] = Idle]
        /\ deals' = SavedDeal(q, "delivery_marked", ca)
        /\ cargos' = SavedCargo(q, "delivery_marked", cb)
        /\ wallets' = SavedWallets(q, q.purse)
        /\ UNCHANGED <<events, lastId, deliveries, payouts>>
  BY CommitContext DEF CommitMark, Committing
<1>2. q.deal \in DealId /\ events[q.deal].funded > 0
  BY <1>1, CommitContext DEF HandlerKnows, HasDeal, Secured
<1>3. wallets' \in [User -> WalletRow]
  BY <1>1, CommitContext, SavedWalletsType DEF IInv, Request
<1> QED BY <1>1, <1>2, <1>3, DealCommit DEF Status, IInv, TypeOK

\* A release commits after its payout, on a deal that was paid.
LEMMA CommitReleaseInv == ASSUME IInv, NEW r \in Slot, CommitRelease(r) PROVE IInv'
<1> DEFINE q == req[r]
<1>1. /\ q.op \in Releasing /\ q.step = "commit" /\ req' = [req EXCEPT ![r] = Idle]
      /\ deals' = SavedDeal(q, "released", q.old.carrier)
      /\ cargos' = SavedCargo(q, "released", q.row.carrier)
      /\ wallets' = SavedWallets(q, Released(q))
      /\ events' = [events EXCEPT ![q.deal].released = @ + 1]
      /\ UNCHANGED <<lastId, deliveries, payouts>>
  BY DEF CommitRelease, Committing, Releasing
<1>2. /\ q.op # "create" /\ q.deal \in DealId
      /\ events[q.deal].funded > 0 /\ payouts[q.deal] > 0
  BY <1>1, CommitContext DEF HandlerKnows, HasDeal, Secured, Releasing
<1>3. Released(q) \in [User -> WalletRow]
  <2>1. \A w \in WalletRow, a \in Nat, b \in Nat :
          [w EXCEPT !.balance = a, !.frozen = b] \in WalletRow
    BY DEF WalletRow
  <2>2. ASSUME NEW u \in User PROVE Released(q)[u] \in WalletRow
    <3>1. q.purse[u] \in WalletRow /\ q.old.amount \in Nat
      BY <1>1, CommitContext
    <3>2. q.purse[u].balance \in Nat /\ q.purse[u].frozen \in Nat
      BY <3>1 DEF WalletRow
    <3>3. /\ Monus(q.purse[u].balance, q.old.amount) \in Nat
          /\ Monus(q.purse[u].frozen, q.old.amount) \in Nat
          /\ CarrierShare(q.old.amount) \in Nat
      BY <3>1, <3>2, MonusType, ShareType
    <3> DEFINE client == u = Owner[q.cargo]
               rest == IF client THEN Monus(q.purse[u].balance, q.old.amount)
                       ELSE q.purse[u].balance
               a == IF u = Payee(q) THEN rest + CarrierShare(q.old.amount) ELSE rest
               b == IF client THEN Monus(q.purse[u].frozen, q.old.amount)
                    ELSE q.purse[u].frozen
    <3>4. a \in Nat /\ b \in Nat
      BY <3>2, <3>3
    <3>5. Released(q)[u] = [q.purse[u] EXCEPT !.balance = a, !.frozen = b]
      BY DEF Released
    <3> HIDE DEF a, b
    <3> QED BY <2>1, <3>1, <3>4, <3>5
  <2> QED BY <2>2 DEF Released
<1>4. wallets' \in [User -> WalletRow]
  BY <1>1, <1>3, CommitContext, SavedWalletsType DEF IInv
<1>5. /\ events' \in [DealId -> EventCount]
      /\ \A d \in DealId : events'[d].funded = events[d].funded
  BY <1>1, <1>2 DEF IInv, TypeOK, EventCount
<1> QED BY <1>1, <1>2, <1>4, <1>5, CommitContext, DealCommit DEF Status

\* A dispute may be opened on any deal.
LEMMA CommitDisputeInv == ASSUME IInv, NEW r \in Slot, CommitDispute(r) PROVE IInv'
<1> DEFINE q == req[r]
<1>1. /\ q.op = "dispute" /\ q.step = "commit" /\ req' = [req EXCEPT ![r] = Idle]
      /\ deals' = SavedDeal(q, "disputed", q.old.carrier)
      /\ cargos' = SavedCargo(q, "disputed", q.row.carrier)
      /\ UNCHANGED <<wallets, events, lastId, deliveries, payouts>>
  BY DEF CommitDispute, Committing
<1> QED BY <1>1, CommitContext, DealCommit DEF Status, Secured, IInv, TypeOK

\* A cancellation counts a refund and nothing else.
LEMMA CommitCancelInv == ASSUME IInv, NEW r \in Slot, CommitCancel(r) PROVE IInv'
<1> DEFINE q == req[r]
           new == [u \in User |-> [q.purse[u] EXCEPT !.balance = Monus(@, q.old.amount),
                                                     !.frozen = Monus(@, q.old.amount)]]
           refund == IF q.old.status \in Held THEN 1 ELSE 0
<1>1. /\ q.op = "admin_cancel" /\ q.step = "commit" /\ req' = [req EXCEPT ![r] = Idle]
      /\ deals' = SavedDeal(q, "cancelled", q.old.carrier)
      /\ cargos' = SavedCargo(q, "cancelled", q.row.carrier)
      /\ wallets' = SavedWallets(q, new)
      /\ events' = [events EXCEPT ![q.deal].refunded = @ + refund]
      /\ UNCHANGED <<lastId, deliveries, payouts>>
  BY DEF CommitCancel, Committing
<1>2. q.deal \in DealId
  BY <1>1, CommitContext DEF HandlerKnows, HasDeal
<1>3. new \in [User -> WalletRow]
  BY <1>1, CommitContext, MonusType DEF WalletRow
<1> HIDE DEF new
<1>4. wallets' \in [User -> WalletRow]
  BY <1>1, <1>3, CommitContext, SavedWalletsType DEF IInv
<1>5. /\ events' \in [DealId -> EventCount]
      /\ \A d \in DealId : events'[d].funded = events[d].funded
  BY <1>1, <1>2 DEF IInv, TypeOK, EventCount
<1> QED BY <1>1, <1>2, <1>4, <1>5, CommitContext, DealCommit DEF Status, Secured

-----------------------------------------------------------------------------
(* The theorems.                                                            *)

\* A step of a handler keeps the invariant.
LEMMA ProgressInv == ASSUME IInv, NEW r \in Slot, Progress(r) PROVE IInv'
BY LoadDealInv, LoadCargoInv, PayoutInv, LoadWalletsInv, InsertDealInv,
   CommitCreateInv, CommitFundInv, CommitMarkInv, CommitReleaseInv,
   CommitDisputeInv, CommitCancelInv, GiveUpInv
   DEF Progress

\* A stuttering step keeps it.
LEMMA StutterInv == ASSUME IInv, UNCHANGED vars PROVE IInv'
BY DEF vars, IInv, TypeOK, HandlerKnows, HasDeal, IdReserved, DealConsistent,
       VerifiedPaymentIsReal

\* Every step keeps it.
LEMMA NextInv == IInv /\ [Next]_vars => IInv'
<1> SUFFICES ASSUME IInv, [Next]_vars PROVE IInv'
  OBVIOUS
<1>1. CASE UNCHANGED vars
  BY <1>1, StutterInv
<1>2. ASSUME NEW u \in User, OpenWallet(u) PROVE IInv'
  BY <1>2, OpenWalletInv
<1>3. ASSUME NEW r \in Slot, NEW o \in UserOp, NEW u \in User, NEW c \in Cargo,
             UserRequest(r, o, u, c)
      PROVE  IInv'
  BY <1>3, UserRequestInv
<1>4. ASSUME NEW r \in Slot, NEW d \in DealId, PaymentReported(r, d) \/ MockPayment(r, d)
      PROVE  IInv'
  BY <1>4, PaymentReportedInv, MockPaymentInv
<1>5. ASSUME NEW r \in Slot, NEW o \in AdminOp, NEW d \in DealId, AdminRequest(r, o, d)
      PROVE  IInv'
  BY <1>5, AdminRequestInv
<1>6. ASSUME NEW r \in Slot, Progress(r) \/ BankRefuses(r) \/ Fail(r) PROVE IInv'
  BY <1>6, ProgressInv, GiveUpInv
<1> QED BY <1>1, <1>2, <1>3, <1>4, <1>5, <1>6 DEF Next

\* The inductive invariant holds throughout.
LEMMA Inductive == Spec => []IInv
BY InitInv, NextInv, PTL DEF Spec

\* Every table and every handler keeps the shape the ORM models give it, in
\* whatever order the handlers of escrow.py interleave.
THEOREM TypeCorrect == Spec => []TypeOK
<1>1. IInv => TypeOK
  BY DEF IInv
<1> QED BY <1>1, Inductive, PTL

\* release_escrow and admin_release_escrow never tell the bank to pay for a
\* deal whose payment was not booked, whatever races with them.
THEOREM PayoutsArePaidFor == Spec => []NoPayoutWithoutPayment
<1>1. IInv => NoPayoutWithoutPayment
  BY DEF IInv, DealConsistent, NoPayoutWithoutPayment
<1> QED BY <1>1, Inductive, PTL

\* The badge of _verified_payment is only on cargos that were paid for.
THEOREM BadgeIsReal == Spec => []VerifiedPaymentIsReal
<1>1. IInv => VerifiedPaymentIsReal
  BY DEF IInv
<1> QED BY <1>1, Inductive, PTL

\* No deal is marked released ahead of its payout.
THEOREM ReleasesArePaidOut == Spec => []ReleasedWasPaidOut
<1>1. IInv => ReleasedWasPaidOut
  BY DEF IInv, DealConsistent, ReleasedWasPaidOut
<1> QED BY <1>1, Inductive, PTL

-----------------------------------------------------------------------------
(* Sums over finite sets.                                                   *)

\* MapThenFoldSet picks any element, adds it to the fold of the rest, and takes
\* the iteration of that at the whole set.
Any(s) == CHOOSE x \in s : TRUE
IsIter(g, f, S) ==
  g = [s \in SUBSET S |-> IF s = {} THEN 0 ELSE f[Any(s)] + g[s \ {Any(s)}]]
Iter(f, S) == CHOOSE g : IsIter(g, f, S)

\* The sum is the iteration, at the whole set.
LEMMA SumIsIter ==
  ASSUME NEW f, NEW S
  PROVE  SumFunctionOnSet(f, S) = Iter(f, S)[S]
BY DEF SumFunctionOnSet, FoldFunctionOnSet, MapThenFoldSet, Iter, IsIter, Any

\* A set of subsets of a finite set has a least one.
LEMMA LeastSubset ==
  ASSUME NEW S, IsFiniteSet(S), NEW T, T \subseteq SUBSET S, T # {}
  PROVE  \E s \in T : \A t \in T : t \subseteq s => t = s
<1>1. T \subseteq FiniteSubsetsOf(S)
  BY FS_Subset DEF FiniteSubsetsOf
<1>2. IsWellFoundedOn(StrictSubsetOrdering(S), FiniteSubsetsOf(S))
  BY FS_StrictSubsetOrderingWellFounded
<1>3. PICK s \in T : \A t \in T : ~(<<t, s>> \in StrictSubsetOrdering(S))
  BY <1>1, <1>2, WFMin
<1>4. \A t \in T : <<t, s>> \in (SUBSET S) \X (SUBSET S)
  OBVIOUS
<1>5. ASSUME NEW t \in T, t \subseteq s, t # s
      PROVE  <<t, s>> \in StrictSubsetOrdering(S)
  BY <1>4, <1>5 DEF StrictSubsetOrdering
<1>6. \A t \in T : t \subseteq s => t = s
  BY <1>3, <1>5
<1> QED BY <1>6

\* What an iteration is at a subset: nothing, or one element more.
LEMMA IterAt ==
  ASSUME NEW S, NEW f, NEW g, IsIter(g, f, S), NEW s, s \subseteq S
  PROVE  /\ s = {} => g[s] = 0
         /\ s # {} => /\ Any(s) \in s
                      /\ s \ {Any(s)} \subseteq S
                      /\ g[s] = f[Any(s)] + g[s \ {Any(s)}]
<1>1. s \in SUBSET S
  OBVIOUS
<1>2. g[s] = IF s = {} THEN 0 ELSE f[Any(s)] + g[s \ {Any(s)}]
  BY <1>1 DEF IsIter
<1>3. s # {} => Any(s) \in s
  BY DEF Any
<1> QED BY <1>2, <1>3

\* Two functions that are iterations of f below S and T agree on what is below both.
LEMMA IterAgree ==
  ASSUME NEW S, IsFiniteSet(S), NEW T, S \subseteq T, NEW f, NEW g, NEW h,
         IsIter(g, f, S), IsIter(h, f, T), NEW u, u \subseteq S
  PROVE  g[u] = h[u]
<1> DEFINE D == {s \in SUBSET S : g[s] # h[s]}
<1>1. SUFFICES ASSUME D # {} PROVE FALSE
  OBVIOUS
<1>2. D \subseteq SUBSET S
  OBVIOUS
<1>3. \E s \in D : \A t \in D : t \subseteq s => t = s
  <2> HIDE DEF D
  <2> QED BY <1>1, <1>2, LeastSubset
<1>4. PICK s \in D : \A t \in D : t \subseteq s => t = s
  BY <1>3
<1>5. s \subseteq S /\ s \subseteq T
  OBVIOUS
<1>6. s # {}
  BY <1>5, IterAt
<1>7. /\ Any(s) \in s
      /\ s \ {Any(s)} \subseteq S
      /\ g[s] = f[Any(s)] + g[s \ {Any(s)}]
  BY <1>5, <1>6, IterAt
<1>8. h[s] = f[Any(s)] + h[s \ {Any(s)}]
  BY <1>5, <1>6, IterAt
<1>9. s \ {Any(s)} \notin D
  BY <1>4, <1>7
<1> QED BY <1>7, <1>8, <1>9

\* Every finite set has an iteration.
LEMMA IterExists ==
  ASSUME NEW S, IsFiniteSet(S), NEW f
  PROVE  \E g : IsIter(g, f, S)
<1> DEFINE D == {s \in SUBSET S : ~\E g : IsIter(g, f, s)}
<1>1. SUFFICES ASSUME D # {} PROVE FALSE
  OBVIOUS
<1>2. D \subseteq SUBSET S
  OBVIOUS
<1>3. \E s \in D : \A t \in D : t \subseteq s => t = s
  <2> HIDE DEF D
  <2> QED BY <1>1, <1>2, LeastSubset
<1>4. PICK s \in D : \A t \in D : t \subseteq s => t = s
  BY <1>3
<1> DEFINE G(t) == CHOOSE g : IsIter(g, f, t)
           H(t) == IF t = {} THEN 0 ELSE f[Any(t)] + G(t \ {Any(t)})[t \ {Any(t)}]
           h == [t \in SUBSET s |-> H(t)]
<1>5. \A t : t \subseteq s /\ t # s => IsIter(G(t), f, t)
  <2> TAKE t
  <2> HAVE t \subseteq s /\ t # s
  <2>1. t \in SUBSET S /\ t \notin D
    BY <1>4
  <2>2. \E g : IsIter(g, f, t)
    BY <2>1
  <2> QED BY <2>2
<1>6. ASSUME NEW t \in SUBSET s, t # {}
      PROVE  h[t \ {Any(t)}] = G(t \ {Any(t)})[t \ {Any(t)}]
  <2> DEFINE v == t \ {Any(t)}
  <2>1. Any(t) \in t
    BY <1>6 DEF Any
  <2>2. v \subseteq s /\ v # s
    BY <2>1
  <2>3. IsIter(G(v), f, v)
    BY <2>2, <1>5
  <2>4. h[v] = H(v)
    BY <2>2
  <2>5. CASE v = {}
    <3>1. G(v)[v] = 0
      <4>1. \A g : IsIter(g, f, {}) => g[{}] = 0
        BY IterAt
      <4> HIDE DEF G, v
      <4> QED BY <2>3, <2>5, <4>1
    <3>2. H(v) = 0
      BY <2>5
    <3> QED BY <3>1, <3>2, <2>4
  <2>6. CASE v # {}
    <3> DEFINE w == v \ {Any(v)}
    <3>1. G(v)[v] = f[Any(v)] + G(v)[w] /\ w \subseteq v /\ Any(v) \in v
      <4> HIDE DEF G, v
      <4> QED BY <2>3, <2>6, IterAt
    <3>2. w \subseteq s /\ w # s
      BY <3>1, <2>2
    <3>3. IsIter(G(w), f, w)
      BY <3>2, <1>5
    <3>4. IsFiniteSet(w)
      BY <3>2, FS_Subset
    <3>5. G(w)[w] = G(v)[w]
      <4> HIDE DEF G, v, w
      <4> QED BY <2>3, <3>1, <3>3, <3>4, IterAgree
    <3>6. H(v) = f[Any(v)] + G(w)[w]
      BY <2>6
    <3> QED BY <3>1, <3>5, <3>6, <2>4
  <2> QED BY <2>5, <2>6
<1>7. h = [t \in SUBSET s |-> IF t = {} THEN 0 ELSE f[Any(t)] + h[t \ {Any(t)}]]
  <2>1. \A t \in SUBSET s : H(t) = IF t = {} THEN 0 ELSE f[Any(t)] + h[t \ {Any(t)}]
    <3> HIDE DEF h, G
    <3> QED BY <1>6
  <2> HIDE DEF H
  <2>2. [t \in SUBSET s |-> H(t)] = [t \in SUBSET s |-> IF t = {} THEN 0 ELSE f[Any(t)] + h[t \ {Any(t)}]]
    <3> HIDE DEF h
    <3> QED BY <2>1
  <2> QED BY <2>2
<1>8. IsIter(h, f, s)
  <2> HIDE DEF h
  <2> QED BY <1>7 DEF IsIter
<1>9. s \notin D
  <2> HIDE DEF h
  <2> QED BY <1>8
<1> QED BY <1>9

\* So the iteration that Iter chooses is one.
LEMMA IterIsIter ==
  ASSUME NEW S, IsFiniteSet(S), NEW f
  PROVE  IsIter(Iter(f, S), f, S)
BY IterExists DEF Iter

\* The sum over nothing.
LEMMA SumOfNone ==
  ASSUME NEW f
  PROVE  SumFunctionOnSet(f, {}) = 0
<1>1. IsFiniteSet({})
  BY FS_EmptySet
<1>2. IsIter(Iter(f, {}), f, {})
  BY <1>1, IterIsIter
<1>3. Iter(f, {})[{}] = 0
  BY <1>2, IterAt
<1> QED BY <1>3, SumIsIter

\* The sum over some elements, with one of them apart.
LEMMA SumOfAny ==
  ASSUME NEW S, IsFiniteSet(S), S # {}, NEW f
  PROVE  /\ Any(S) \in S
         /\ SumFunctionOnSet(f, S) = f[Any(S)] + SumFunctionOnSet(f, S \ {Any(S)})
<1> DEFINE v == S \ {Any(S)}
<1>1. IsFiniteSet(v)
  BY FS_Subset
<1>2. IsIter(Iter(f, S), f, S) /\ IsIter(Iter(f, v), f, v)
  BY <1>1, IterIsIter
<1>3. Any(S) \in S /\ v \subseteq S /\ Iter(f, S)[S] = f[Any(S)] + Iter(f, S)[v]
  BY <1>2, IterAt
<1>4. Iter(f, v)[v] = Iter(f, S)[v]
  <2> HIDE DEF v
  <2> QED BY <1>1, <1>2, <1>3, IterAgree
<1> QED BY <1>3, <1>4, SumIsIter

\* A sum of natural numbers is one.
LEMMA SumIsNat ==
  ASSUME NEW S, IsFiniteSet(S), NEW f, \A x \in S : f[x] \in Nat
  PROVE  SumFunctionOnSet(f, S) \in Nat
<1> DEFINE D == {s \in SUBSET S : SumFunctionOnSet(f, s) \notin Nat}
<1>1. SUFFICES ASSUME D # {} PROVE FALSE
  OBVIOUS
<1>2. D \subseteq SUBSET S
  OBVIOUS
<1>3. \E s \in D : \A t \in D : t \subseteq s => t = s
  <2> HIDE DEF D
  <2> QED BY <1>1, <1>2, LeastSubset
<1>4. PICK s \in D : \A t \in D : t \subseteq s => t = s
  BY <1>3
<1>5. IsFiniteSet(s)
  BY FS_Subset
<1>6. s # {}
  BY SumOfNone
<1>7. Any(s) \in s /\ SumFunctionOnSet(f, s) = f[Any(s)] + SumFunctionOnSet(f, s \ {Any(s)})
  BY <1>5, <1>6, SumOfAny
<1>8. SumFunctionOnSet(f, s \ {Any(s)}) \in Nat
  BY <1>4, <1>7
<1> QED BY <1>7, <1>8

\* The sum over one element more.
LEMMA SumOfOneMore ==
  ASSUME NEW S, IsFiniteSet(S), NEW f, \A x \in S : f[x] \in Nat, NEW y \in S
  PROVE  SumFunctionOnSet(f, S) = f[y] + SumFunctionOnSet(f, S \ {y})
<1> DEFINE Sum(s) == SumFunctionOnSet(f, s)
           D == {s \in SUBSET S : \E x \in s : Sum(s) # f[x] + Sum(s \ {x})}
<1> HIDE DEF Sum
<1>1. SUFFICES ASSUME D # {} PROVE FALSE
  BY DEF Sum
<1>2. D \subseteq SUBSET S
  OBVIOUS
<1>3. \E s \in D : \A t \in D : t \subseteq s => t = s
  <2> HIDE DEF D
  <2> QED BY <1>1, <1>2, LeastSubset
<1>4. PICK s \in D : \A t \in D : t \subseteq s => t = s
  BY <1>3
<1>5. PICK x \in s : Sum(s) # f[x] + Sum(s \ {x})
  OBVIOUS
<1> DEFINE a == Any(s)
<1>6. IsFiniteSet(s) /\ s # {}
  BY FS_Subset
<1>7. a \in s /\ Sum(s) = f[a] + Sum(s \ {a})
  BY <1>6, SumOfAny DEF Sum
<1>8. x # a
  BY <1>5, <1>7
<1>9. s \ {a} \notin D /\ s \ {x} \notin D
  BY <1>4, <1>7
<1>10. Sum(s \ {a}) = f[x] + Sum((s \ {a}) \ {x})
  BY <1>7, <1>8, <1>9
<1>11. Sum(s \ {x}) = f[a] + Sum((s \ {x}) \ {a})
  BY <1>7, <1>8, <1>9
<1>12. (s \ {a}) \ {x} = (s \ {x}) \ {a}
  OBVIOUS
<1>13. IsFiniteSet((s \ {a}) \ {x})
  BY <1>6, FS_Subset
<1>14. Sum((s \ {a}) \ {x}) \in Nat /\ f[x] \in Nat /\ f[a] \in Nat
  BY <1>7, <1>13, SumIsNat DEF Sum
<1> QED BY <1>5, <1>7, <1>10, <1>11, <1>12, <1>14

\* Functions that agree on a set have the same sum.
LEMMA SumOfEqual ==
  ASSUME NEW S, IsFiniteSet(S), NEW f, NEW g, \A x \in S : f[x] = g[x]
  PROVE  SumFunctionOnSet(f, S) = SumFunctionOnSet(g, S)
<1> DEFINE D == {s \in SUBSET S : SumFunctionOnSet(f, s) # SumFunctionOnSet(g, s)}
<1>1. SUFFICES ASSUME D # {} PROVE FALSE
  OBVIOUS
<1>2. D \subseteq SUBSET S
  OBVIOUS
<1>3. \E s \in D : \A t \in D : t \subseteq s => t = s
  <2> HIDE DEF D
  <2> QED BY <1>1, <1>2, LeastSubset
<1>4. PICK s \in D : \A t \in D : t \subseteq s => t = s
  BY <1>3
<1>5. IsFiniteSet(s) /\ s # {}
  BY FS_Subset, SumOfNone
<1>6. /\ Any(s) \in s
      /\ SumFunctionOnSet(f, s) = f[Any(s)] + SumFunctionOnSet(f, s \ {Any(s)})
      /\ SumFunctionOnSet(g, s) = g[Any(s)] + SumFunctionOnSet(g, s \ {Any(s)})
  BY <1>5, SumOfAny
<1>7. SumFunctionOnSet(f, s \ {Any(s)}) = SumFunctionOnSet(g, s \ {Any(s)})
  BY <1>4, <1>6
<1> QED BY <1>6, <1>7

\* Changing one summand changes the sum by as much.
LEMMA SumOfChanged ==
  ASSUME NEW S, IsFiniteSet(S), NEW f, NEW g, NEW y \in S,
         \A x \in S : f[x] \in Nat /\ g[x] \in Nat,
         \A x \in S : x # y => f[x] = g[x]
  PROVE  SumFunctionOnSet(f, S) + g[y] = SumFunctionOnSet(g, S) + f[y]
<1>1. IsFiniteSet(S \ {y})
  BY FS_Subset
<1>2. SumFunctionOnSet(f, S \ {y}) = SumFunctionOnSet(g, S \ {y})
  BY <1>1, SumOfEqual
<1>3. SumFunctionOnSet(f, S \ {y}) \in Nat
  BY <1>1, SumIsNat
<1> QED BY <1>2, <1>3, SumOfOneMore

\* More and larger summands make a larger sum.
LEMMA SumGrows ==
  ASSUME NEW T, IsFiniteSet(T), NEW S, S \subseteq T, NEW f, NEW g,
         \A x \in T : g[x] \in Nat,
         \A x \in S : f[x] \in Nat /\ f[x] <= g[x]
  PROVE  SumFunctionOnSet(f, S) <= SumFunctionOnSet(g, T)
<1> DEFINE D == {s \in SUBSET T : ~(SumFunctionOnSet(f, s \cap S) <= SumFunctionOnSet(g, s))}
<1>1. SUFFICES ASSUME D # {} PROVE FALSE
  <2>1. T \cap S = S
    OBVIOUS
  <2> QED BY <2>1
<1>2. D \subseteq SUBSET T
  OBVIOUS
<1>3. \E s \in D : \A t \in D : t \subseteq s => t = s
  <2> HIDE DEF D
  <2> QED BY <1>1, <1>2, LeastSubset
<1>4. PICK s \in D : \A t \in D : t \subseteq s => t = s
  BY <1>3
<1>5. ~(SumFunctionOnSet(f, s \cap S) <= SumFunctionOnSet(g, s))
  BY <1>4
<1>6. IsFiniteSet(s) /\ IsFiniteSet(s \cap S)
  BY FS_Subset
<1>7. s # {}
  <2>1. {} \cap S = {}
    OBVIOUS
  <2> QED BY <2>1, SumOfNone
<1>8. PICK y \in s : TRUE
  BY <1>7
<1> DEFINE v == s \ {y}
<1>9. SumFunctionOnSet(f, v \cap S) <= SumFunctionOnSet(g, v)
  BY <1>4, <1>8
<1>10. SumFunctionOnSet(g, s) = g[y] + SumFunctionOnSet(g, v)
  BY <1>6, SumOfOneMore
<1>11. IsFiniteSet(v) /\ IsFiniteSet(v \cap S)
  BY <1>6, FS_Subset
<1>12. SumFunctionOnSet(g, v) \in Nat /\ SumFunctionOnSet(f, v \cap S) \in Nat /\ g[y] \in Nat
  BY <1>11, SumIsNat
<1> DEFINE fv == SumFunctionOnSet(f, v \cap S)
           gv == SumFunctionOnSet(g, v)
           fs == SumFunctionOnSet(f, s \cap S)
           gs == SumFunctionOnSet(g, s)
<1>13. \/ fs = fv
       \/ fs = f[y] + fv /\ f[y] \in Nat /\ f[y] <= g[y]
  <2>1. CASE y \in S
    <3>1. (s \cap S) \ {y} = v \cap S /\ y \in s \cap S
      BY <2>1
    <3>2. fs = f[y] + SumFunctionOnSet(f, (s \cap S) \ {y})
      BY <1>6, <3>1, SumOfOneMore
    <3> QED BY <2>1, <3>1, <3>2
  <2>2. CASE y \notin S
    <3>1. s \cap S = v \cap S
      BY <2>2
    <3> QED BY <3>1
  <2> QED BY <2>1, <2>2
<1>14. /\ ~(fs <= gs) /\ fv <= gv /\ gs = g[y] + gv
       /\ gv \in Nat /\ fv \in Nat /\ g[y] \in Nat
  BY <1>5, <1>9, <1>10, <1>12
<1> HIDE DEF fv, gv, fs, gs
<1> QED BY <1>13, <1>14

-----------------------------------------------------------------------------
(* Handlers that race.                                                      *)

\* The handler in slot r has read its deal.
HasRead(r) == HasDeal(req[r]) /\ req[r].step # "load_deal"

\* Whatever has been committed since: the amount of a deal never changes, and what
\* a copy of a wallet has frozen is still covered.
CopyCovered(r) ==
  /\ HasRead(r) => req[r].old.amount = deals[req[r].deal].amount
  /\ \A u \in User : req[r].purse[u].frozen <= PaidIn(u)

CoveredInv == IInv /\ FrozenWasPaidIn /\ \A r \in Slot : CopyCovered(r)

\* The summands.
InFor(d) == events[d].funded * deals[d].amount
OutFor(d) == (events[d].released + events[d].refunded) * deals[d].amount

SummandsOK ==
  /\ \A u : IsFiniteSet(DealsOwnedBy(u)) /\ DealsOwnedBy(u) \subseteq DealId
  /\ \A d \in DealId : /\ InFor(d) \in Nat /\ OutFor(d) \in Nat
                       /\ deals[d].amount \in Nat /\ events[d].funded \in Nat
                       /\ events[d].released \in Nat /\ events[d].refunded \in Nat

\* The deals of a client are finitely many, and what each adds is natural.
LEMMA Summands == TypeOK => SummandsOK
<1> SUFFICES ASSUME TypeOK PROVE SummandsOK
  OBVIOUS
<1>1. IsFiniteSet(DealId)
  BY EscrowAssumption, FS_Interval DEF DealId
<1>2. \A u : DealsOwnedBy(u) \subseteq DealId
  BY DEF DealsOwnedBy
<1>3. \A d \in DealId : /\ deals[d].amount \in Nat /\ events[d].funded \in Nat
                        /\ events[d].released \in Nat /\ events[d].refunded \in Nat
  BY DEF TypeOK, DealRow, EventCount
<1>4. \A m, n, k \in Nat : m * n \in Nat /\ (m + k) * n \in Nat
  OBVIOUS
<1>5. \A d \in DealId : InFor(d) \in Nat /\ OutFor(d) \in Nat
  BY <1>3, <1>4 DEF InFor, OutFor
<1> QED BY <1>1, <1>2, <1>3, <1>5, FS_Subset DEF SummandsOK

\* After a step as before it.
LEMMA SummandsNext == TypeOK' => SummandsOK'
BY Summands, PTL

\* So the sums are natural.
LEMMA SumsAreNat == TypeOK => \A u : PaidIn(u) \in Nat /\ BookedOut(u) \in Nat
<1> SUFFICES ASSUME TypeOK, NEW u PROVE PaidIn(u) \in Nat /\ BookedOut(u) \in Nat
  OBVIOUS
<1>1. PaidIn(u) = SumFunctionOnSet([d \in DealId |-> InFor(d)], DealsOwnedBy(u))
  BY DEF PaidIn, InFor
<1>2. BookedOut(u) = SumFunctionOnSet([d \in DealId |-> OutFor(d)], DealsOwnedBy(u))
  BY DEF BookedOut, OutFor
<1>3. \A d \in DealsOwnedBy(u) : /\ [e \in DealId |-> InFor(e)][d] \in Nat
                                 /\ [e \in DealId |-> OutFor(e)][d] \in Nat
  BY Summands DEF SummandsOK
<1> QED BY <1>1, <1>2, <1>3, Summands, SumIsNat DEF SummandsOK

\* After a step as before it.
LEMMA SumsAreNatNext == TypeOK' => (\A u : PaidIn(u) \in Nat /\ BookedOut(u) \in Nat)'
BY SumsAreNat, PTL

\* What no step takes back: deals stay the client's for the same amount, and the
\* bookings only grow.
Accrues ==
  \A d \in DealId :
    /\ deals[d].status # "none" => /\ deals'[d].status # "none"
                                   /\ deals'[d].cargo = deals[d].cargo
                                   /\ deals'[d].amount = deals[d].amount
    /\ deals[d].status = "none" => events[d].funded = 0
    /\ events'[d].funded >= events[d].funded
    /\ events'[d].released >= events[d].released
    /\ events'[d].refunded >= events[d].refunded

\* Then neither sum shrinks.
LEMMA SumsAccrue ==
  ASSUME TypeOK, TypeOK', Accrues, NEW u
  PROVE  PaidIn(u) <= PaidIn(u)' /\ BookedOut(u) <= BookedOut(u)'
<1> DEFINE F == [d \in DealId |-> InFor(d)]
           G == [d \in DealId |-> InFor(d)']
           H == [d \in DealId |-> OutFor(d)]
           K == [d \in DealId |-> OutFor(d)']
<1>1. /\ PaidIn(u) = SumFunctionOnSet(F, DealsOwnedBy(u))
      /\ PaidIn(u)' = SumFunctionOnSet(G, DealsOwnedBy(u)')
      /\ BookedOut(u) = SumFunctionOnSet(H, DealsOwnedBy(u))
      /\ BookedOut(u)' = SumFunctionOnSet(K, DealsOwnedBy(u)')
  BY DEF PaidIn, InFor, BookedOut, OutFor
<1>2. DealsOwnedBy(u) \subseteq DealsOwnedBy(u)'
  BY DEF DealsOwnedBy, Accrues
<1>3. ASSUME NEW d \in DealsOwnedBy(u)
      PROVE  InFor(d) <= InFor(d)' /\ OutFor(d) <= OutFor(d)'
  <2>1. d \in DealId /\ deals'[d].amount = deals[d].amount
    BY DEF DealsOwnedBy, Accrues
  <2>2. /\ events'[d].funded >= events[d].funded
        /\ events'[d].released >= events[d].released
        /\ events'[d].refunded >= events[d].refunded
    BY <2>1 DEF Accrues
  <2>3. \A a, m, n \in Nat : m <= n => m * a <= n * a
    OBVIOUS
  <2>4. /\ deals[d].amount \in Nat /\ events[d].funded \in Nat /\ events'[d].funded \in Nat
        /\ events[d].released + events[d].refunded \in Nat
        /\ events'[d].released + events'[d].refunded \in Nat
        /\ events[d].released + events[d].refunded <= events'[d].released + events'[d].refunded
    <3>1. /\ deals[d].amount \in Nat /\ events[d].funded \in Nat
          /\ events[d].released \in Nat /\ events[d].refunded \in Nat
      BY <2>1, Summands DEF SummandsOK
    <3>2. events'[d].funded \in Nat /\ events'[d].released \in Nat /\ events'[d].refunded \in Nat
      BY <2>1 DEF TypeOK, EventCount
    <3> QED BY <2>2, <3>1, <3>2
  <2> QED BY <2>1, <2>2, <2>3, <2>4 DEF InFor, OutFor
<1>4. /\ \A d \in DealsOwnedBy(u) : /\ F[d] \in Nat /\ F[d] <= G[d]
                                    /\ H[d] \in Nat /\ H[d] <= K[d]
  BY <1>3, Summands DEF SummandsOK, DealsOwnedBy
<1>5. /\ IsFiniteSet(DealsOwnedBy(u)') /\ DealsOwnedBy(u)' \subseteq DealId
      /\ \A d \in DealsOwnedBy(u)' : G[d] \in Nat /\ K[d] \in Nat
  <2>1. /\ IsFiniteSet(DealsOwnedBy(u)') /\ DealsOwnedBy(u)' \subseteq DealId
        /\ \A d \in DealId : InFor(d)' \in Nat /\ OutFor(d)' \in Nat
    BY SummandsNext DEF SummandsOK
  <2> QED BY <2>1
<1> HIDE DEF F, G, H, K
<1> QED BY <1>1, <1>2, <1>4, <1>5, SumGrows

\* What a write of a deal's status leaves alone.
LEMMA SavedDealKeeps ==
  ASSUME TypeOK, NEW q, q.deal \in DealId, NEW st, st # "none", NEW ca,
         deals' = SavedDeal(q, st, ca)
  PROVE  /\ \A d \in DealId : d # q.deal => deals'[d] = deals[d]
         /\ deals'[q.deal].status = Changed(deals[q.deal].status, q.old.status, st)
         /\ \A d \in DealId : /\ deals'[d].cargo = deals[d].cargo
                              /\ deals'[d].amount = deals[d].amount
                              /\ deals[d].status # "none" => deals'[d].status # "none"
BY DEF TypeOK, DealRow, SavedDeal, Changed

\* The handler of a deal, committing.
LEMMA CommitDeal ==
  ASSUME IInv, NEW r \in Slot, req[r].step = "commit", req[r].op # "create"
  PROVE  /\ HasRead(r) /\ req[r].deal \in DealId /\ req[r].cargo \in Cargo
         /\ deals[req[r].deal].status # "none" /\ deals[req[r].deal].cargo = req[r].cargo
         /\ Owner[req[r].cargo] \in User
BY EscrowAssumption DEF IInv, HandlerKnows, HasRead, HasDeal

\* No step takes a deal or a booking back.
LEMMA StepAccrues == ASSUME IInv, Next PROVE Accrues
<1>1. \A d \in DealId : /\ deals[d].status = "none" => events[d].funded = 0
                        /\ events[d] \in EventCount
  BY DEF IInv, DealConsistent, TypeOK
<1>2. CASE UNCHANGED <<deals, events>>
  BY <1>1, <1>2 DEF Accrues, EventCount
<1>3. ASSUME NEW r \in Slot, CommitCreate(r) PROVE Accrues
  <2>1. deals[req[r].deal].status = "none"
    BY <1>3 DEF IInv, IdReserved, CommitCreate, Committing
  <2>2. /\ \A d \in DealId : d # req[r].deal => deals'[d] = deals[d]
        /\ events' = events
    BY <1>3 DEF CommitCreate, IInv, TypeOK
  <2> QED BY <1>1, <2>1, <2>2 DEF Accrues, EventCount
<1>4. ASSUME NEW r \in Slot,
             \/ CommitFund(r) \/ CommitMark(r) \/ CommitRelease(r)
             \/ CommitDispute(r) \/ CommitCancel(r)
      PROVE  Accrues
  <2>1. req[r].step = "commit" /\ req[r].op # "create"
    BY <1>4 DEF CommitFund, CommitMark, CommitRelease, CommitDispute, CommitCancel, Committing
  <2>2. PICK st, ca : st \in Status /\ deals' = SavedDeal(req[r], st, ca)
    <3>1. \E st \in Status : \E ca : deals' = SavedDeal(req[r], st, ca)
      BY <1>4 DEF Status, CommitFund, CommitMark, CommitRelease, CommitDispute, CommitCancel
    <3> QED BY <3>1
  <2>3. st # "none"
    BY <2>2 DEF Status
  <2>4. req[r].deal \in DealId
    BY <2>1, CommitDeal
  <2>5. \A d \in DealId : /\ deals'[d].cargo = deals[d].cargo
                          /\ deals'[d].amount = deals[d].amount
                          /\ deals[d].status # "none" => deals'[d].status # "none"
    BY <2>2, <2>3, <2>4, SavedDealKeeps DEF IInv
  <2>6. ASSUME NEW d \in DealId
        PROVE  /\ events'[d].funded >= events[d].funded
               /\ events'[d].released >= events[d].released
               /\ events'[d].refunded >= events[d].refunded
    <3>1. /\ events[d].funded \in Nat /\ events[d].released \in Nat
          /\ events[d].refunded \in Nat
      BY <1>1 DEF EventCount
    <3>2. CASE events' = events
      BY <3>1, <3>2
    <3>3. CASE events' = [events EXCEPT ![req[r].deal].funded = @ + 1]
      BY <2>4, <3>1, <3>3 DEF IInv, TypeOK, EventCount
    <3>4. CASE events' = [events EXCEPT ![req[r].deal].released = @ + 1]
      BY <2>4, <3>1, <3>4 DEF IInv, TypeOK, EventCount
    <3>5. CASE CommitCancel(r)
      <4>1. PICK n \in {0, 1} : events' = [events EXCEPT ![req[r].deal].refunded = @ + n]
        BY <3>5 DEF CommitCancel
      <4> QED BY <2>4, <3>1, <4>1 DEF IInv, TypeOK, EventCount
    <3> QED BY <1>4, <3>2, <3>3, <3>4, <3>5
            DEF CommitFund, CommitMark, CommitRelease, CommitDispute
  <2> QED BY <1>1, <2>5, <2>6 DEF Accrues
<1>5. ASSUME NEW r \in Slot, Progress(r) PROVE Accrues
  BY <1>2, <1>3, <1>4, <1>5
     DEF Progress, LoadDeal, LoadCargo, Payout, LoadWallets, InsertDeal, CommitRaises
<1>6. CASE \A r \in Slot : ~Progress(r)
  BY <1>2, <1>6 DEF Next, UserRequest, PaymentReported, MockPayment, AdminRequest, ReadDeal,
                    BankRefuses, Fail, OpenWallet
<1> QED BY <1>5, <1>6

\* A handler that does not move stays covered.
LEMMA OthersCovered ==
  ASSUME CoveredInv, IInv', Accrues, NEW s \in Slot, req'[s] = req[s]
  PROVE  CopyCovered(s)'
<1>1. CopyCovered(s) /\ HandlerKnows(s) /\ req[s] \in Request /\ TypeOK /\ TypeOK'
  BY DEF CoveredInv, IInv, TypeOK
<1>2. HasRead(s)' => req'[s].old.amount = deals'[req'[s].deal].amount
  BY <1>1 DEF CopyCovered, HasRead, HasDeal, HandlerKnows, Accrues
<1>3. ASSUME NEW u \in User PROVE req'[s].purse[u].frozen <= PaidIn(u)'
  <2>1. req[s].purse[u].frozen \in Nat
    BY <1>1 DEF Request, WalletRow
  <2>2. PaidIn(u) \in Nat /\ PaidIn(u) <= PaidIn(u)'
    BY <1>1, SumsAreNat, SumsAccrue
  <2>3. PaidIn(u)' \in Nat
    <3>1. (\A v : PaidIn(v) \in Nat /\ BookedOut(v) \in Nat)'
      BY <1>1, SumsAreNatNext
    <3> QED BY <3>1
  <2> QED BY <1>1, <2>1, <2>2, <2>3 DEF CopyCovered
<1> QED BY <1>2, <1>3 DEF CopyCovered

\* A step is covered when the wallets it leaves and the copies of the handler it
\* moves are.
LEMMA CoveredStep ==
  ASSUME CoveredInv, IInv', Accrues, NEW r \in Slot, NEW q,
         req' = [req EXCEPT ![r] = q],
         FrozenWasPaidIn', CopyCovered(r)'
  PROVE  CoveredInv'
<1>1. \A s \in Slot : s # r => req'[s] = req[s]
  BY DEF CoveredInv, IInv, TypeOK
<1>2. \A s \in Slot : CopyCovered(s)'
  BY <1>1, OthersCovered
<1> QED BY <1>2 DEF CoveredInv

\* A step that moves no money has to keep the copies of its handler covered.
LEMMA QuietCovered ==
  ASSUME CoveredInv, IInv', NEW r \in Slot, NEW q \in Request,
         req' = [req EXCEPT ![r] = q], UNCHANGED <<deals, events, wallets>>,
         HasDeal(q) /\ q.step # "load_deal" => q.old.amount = deals[q.deal].amount,
         \A u \in User : q.purse[u].frozen <= PaidIn(u)
  PROVE  CoveredInv'
<1>1. Accrues
  BY DEF Accrues, CoveredInv, IInv, TypeOK, DealConsistent, EventCount
<1>2. req'[r] = q
  BY DEF CoveredInv, IInv, TypeOK
<1>3. \A u : PaidIn(u)' = PaidIn(u)
  BY DEF PaidIn, DealsOwnedBy
<1>4. FrozenWasPaidIn'
  BY <1>3 DEF FrozenWasPaidIn, CoveredInv
<1>5. CopyCovered(r)'
  BY <1>2, <1>3 DEF CopyCovered, HasRead
<1> QED BY <1>1, <1>4, <1>5, CoveredStep

\* An empty slot has nothing to cover.
LEMMA IdleCovered ==
  ASSUME TypeOK
  PROVE  /\ ~HasDeal(Idle)
         /\ \A u \in User : Idle.purse[u].frozen <= PaidIn(u)
<1>1. \A u \in User : Idle.purse[u].frozen = 0
  BY DEF Idle, NoWallet
<1> QED BY <1>1, SumsAreNat DEF HasDeal, Idle

\* Deciding keeps the copies, or drops them all.
LEMMA DecideCopies ==
  ASSUME NEW q \in Request
  PROVE  /\ Decide(q) \in Request
         /\ \/ Decide(q) = Idle
            \/ /\ Decide(q).old = q.old /\ Decide(q).deal = q.deal
               /\ Decide(q).purse = q.purse
BY DecideType DEF Decide, Request

\* A request by a user has read no deal and no wallet yet.
LEMMA UserRequestCovered ==
  ASSUME CoveredInv, IInv', NEW r \in Slot, NEW o \in UserOp, NEW u \in User, NEW c \in Cargo,
         UserRequest(r, o, u, c)
  PROVE  CoveredInv'
<1>1. PICK a \in Nat :
        req' = [req EXCEPT ![r] =
          [Idle EXCEPT !.op = o, !.step = "load_deal", !.caller = u,
                       !.cargo = c, !.amount = a, !.row = cargos[c]]]
  BY EscrowAssumption DEF UserRequest
<1> DEFINE q == [Idle EXCEPT !.op = o, !.step = "load_deal", !.caller = u,
                             !.cargo = c, !.amount = a, !.row = cargos[c]]
<1>2. q \in Request
  BY IdleType DEF Request, CoveredInv, IInv, TypeOK, Op, Step, MaybeUser
<1>3. q.step = "load_deal" /\ q.purse = Idle.purse
  BY DEF Idle
<1> HIDE DEF q
<1>4. req' = [req EXCEPT ![r] = q]
  BY <1>1 DEF q
<1> QED BY <1>2, <1>3, <1>4, QuietCovered, IdleCovered DEF UserRequest, CoveredInv, IInv

\* A handler that starts with the deal has its amount.
LEMMA ReadDealCovered ==
  ASSUME CoveredInv, IInv', NEW r \in Slot, NEW o \in AdminOp \cup {"fund"}, NEW d \in DealId,
         ReadDeal(r, o, d)
  PROVE  CoveredInv'
<1> DEFINE q == [Idle EXCEPT !.op = o, !.step = "load_cargo", !.cargo = deals[d].cargo,
                             !.deal = d, !.old = deals[d]]
<1>1. req' = [req EXCEPT ![r] = q]
  BY DEF ReadDeal
<1>2. q.deal = d /\ q.old = deals[d] /\ q.purse = Idle.purse
  BY DEF Idle
<1>3. q \in Request
  BY IdleType DEF Request, Op, Step, CoveredInv, IInv, TypeOK, DealRow
<1> HIDE DEF q
<1> QED BY <1>1, <1>2, <1>3, QuietCovered, IdleCovered DEF ReadDeal, CoveredInv, IInv

\* The mock checkout page has read the cargo.
LEMMA MockPaymentCovered ==
  ASSUME CoveredInv, IInv', NEW r \in Slot, NEW d \in DealId, MockPayment(r, d)
  PROVE  CoveredInv'
<1> DEFINE q == [Idle EXCEPT !.op = "fund", !.step = "load_deal",
                             !.cargo = deals[d].cargo, !.deal = d,
                             !.row = cargos[deals[d].cargo]]
<1>1. req' = [req EXCEPT ![r] = q]
  BY DEF MockPayment
<1>2. q.step = "load_deal" /\ q.purse = Idle.purse
  BY DEF Idle
<1>3. deals[d].cargo \in Cargo
  BY DEF MockPayment, CoveredInv, IInv, DealConsistent
<1>4. q \in Request
  BY <1>3, IdleType DEF Request, Op, Step, CoveredInv, IInv, TypeOK
<1> HIDE DEF q
<1> QED BY <1>1, <1>2, <1>4, QuietCovered, IdleCovered DEF MockPayment, CoveredInv, IInv

\* The copy of the deal a handler decides on has its amount.
LEMMA LoadsCovered ==
  ASSUME CoveredInv, IInv', NEW r \in Slot, LoadDeal(r) \/ LoadCargo(r)
  PROVE  CoveredInv'
<1>1. /\ req[r] \in Request /\ CopyCovered(r) /\ HandlerKnows(r) /\ TypeOK
      /\ UNCHANGED <<deals, events, wallets>>
  BY DEF CoveredInv, IInv, TypeOK, LoadDeal, LoadCargo
<1>2. PICK p \in Request :
        /\ req' = [req EXCEPT ![r] = Decide(p)]
        /\ p.purse = req[r].purse
        /\ \/ p.deal \in DealId \cup {0} /\ p.old = RowOf(p.deal)
           \/ p.deal = req[r].deal /\ p.old = req[r].old /\ LoadCargo(r)
  <2>1. CASE LoadDeal(r)
    <3>1. PICK d \in DealId \cup {0} :
            req' = [req EXCEPT ![r] = Decide([req[r] EXCEPT !.deal = d, !.old = RowOf(d)])]
      BY <2>1 DEF LoadDeal
    <3>2. RowOf(d) \in DealRow
      BY <1>1 DEF RowOf, TypeOK, NoDeal, DealRow, MaybeUser
    <3>3. [req[r] EXCEPT !.deal = d, !.old = RowOf(d)] \in Request
      BY <1>1, <3>2 DEF Request
    <3>4. /\ [req[r] EXCEPT !.deal = d, !.old = RowOf(d)].purse = req[r].purse
          /\ [req[r] EXCEPT !.deal = d, !.old = RowOf(d)].deal = d
          /\ [req[r] EXCEPT !.deal = d, !.old = RowOf(d)].old = RowOf(d)
      BY <1>1 DEF Request
    <3> QED BY <3>1, <3>3, <3>4
  <2>2. CASE LoadCargo(r)
    <3>1. req[r].cargo \in Cargo
      BY <1>1, <2>2 DEF LoadCargo, HandlerKnows
    <3>2. [req[r] EXCEPT !.row = cargos[req[r].cargo]] \in Request
      BY <1>1, <3>1 DEF Request, TypeOK
    <3>3. /\ [req[r] EXCEPT !.row = cargos[req[r].cargo]].purse = req[r].purse
          /\ [req[r] EXCEPT !.row = cargos[req[r].cargo]].deal = req[r].deal
          /\ [req[r] EXCEPT !.row = cargos[req[r].cargo]].old = req[r].old
      BY <1>1 DEF Request
    <3> QED BY <2>2, <3>2, <3>3 DEF LoadCargo
  <2> QED BY <2>1, <2>2
<1> DEFINE q == Decide(p)
<1>3. q \in Request /\ (q = Idle \/ (q.old = p.old /\ q.deal = p.deal /\ q.purse = p.purse))
  BY DecideCopies
<1> HIDE DEF q
<1>4. req' = [req EXCEPT ![r] = q] /\ req'[r] = q
  BY <1>2 DEF q, CoveredInv, IInv, TypeOK
<1>5. HasDeal(q) /\ q.step # "load_deal" => q.old.amount = deals[q.deal].amount
  <2>1. SUFFICES ASSUME HasDeal(q) PROVE q.old.amount = deals[q.deal].amount
    OBVIOUS
  <2>2. q.deal \in DealId
    BY <1>4, <2>1 DEF IInv, HandlerKnows
  <2>3. q.deal # 0 /\ q.old = p.old /\ q.deal = p.deal
    BY <1>1, <1>3, <2>1, <2>2, IdleCovered, EscrowAssumption DEF DealId
  <2>4. CASE p.old = RowOf(p.deal)
    BY <2>3, <2>4 DEF RowOf
  <2>5. CASE p.deal = req[r].deal /\ p.old = req[r].old /\ LoadCargo(r)
    <3>1. HasRead(r)
      BY <1>1, <2>5 DEF HasRead, HasDeal, LoadCargo, HandlerKnows
    <3> QED BY <1>1, <2>3, <2>5, <3>1 DEF CopyCovered
  <2> QED BY <1>2, <2>4, <2>5
<1>6. \A u \in User : q.purse[u].frozen <= PaidIn(u)
  BY <1>1, <1>2, <1>3, IdleCovered DEF CopyCovered
<1> QED BY <1>1, <1>3, <1>4, <1>5, <1>6, QuietCovered

\* A handler on its way: what it reads of the wallets is what is frozen now.
LEMMA OnTheWayCovered ==
  ASSUME CoveredInv, IInv', NEW r \in Slot, Payout(r) \/ LoadWallets(r) \/ InsertDeal(r)
  PROVE  CoveredInv'
<1>1. /\ req[r] \in Request /\ CopyCovered(r) /\ HandlerKnows(r) /\ TypeOK
      /\ UNCHANGED <<deals, events, wallets>>
      /\ req' \in [Slot -> Request]
  BY DEF CoveredInv, IInv, TypeOK, Payout, LoadWallets, InsertDeal
<1> DEFINE purse == [u \in User |-> IF u \in Touched(req[r]) THEN wallets[u] ELSE NoWallet]
           paid == [req[r] EXCEPT !.step = "wallets"]
           read(st) == [req[r] EXCEPT !.purse = purse, !.step = st]
           inserted == [req[r] EXCEPT !.deal = lastId + 1, !.step = "commit"]
<1>2. PICK q : /\ req' = [req EXCEPT ![r] = q]
               /\ q.old = req[r].old /\ q.op = req[r].op
               /\ q.deal = req[r].deal \/ InsertDeal(r)
               /\ q.purse = req[r].purse \/ q.purse = purse
  <2>1. CASE Payout(r)
    <3>1. /\ paid.old = req[r].old /\ paid.op = req[r].op
          /\ paid.deal = req[r].deal /\ paid.purse = req[r].purse
      BY <1>1 DEF Request
    <3>2. req' = [req EXCEPT ![r] = paid]
      BY <2>1 DEF Payout
    <3> QED BY <3>1, <3>2
  <2>2. CASE LoadWallets(r)
    <3>1. PICK st : req' = [req EXCEPT ![r] = read(st)]
      BY <2>2 DEF LoadWallets
    <3>2. /\ read(st).old = req[r].old /\ read(st).op = req[r].op
          /\ read(st).deal = req[r].deal /\ read(st).purse = purse
      BY <1>1 DEF Request
    <3> QED BY <3>1, <3>2
  <2>3. CASE InsertDeal(r)
    <3>1. /\ inserted.old = req[r].old /\ inserted.op = req[r].op
          /\ inserted.purse = req[r].purse
      BY <1>1 DEF Request
    <3>2. req' = [req EXCEPT ![r] = inserted]
      BY <2>3 DEF InsertDeal
    <3> QED BY <2>3, <3>1, <3>2
  <2> QED BY <2>1, <2>2, <2>3
<1>3. /\ q \in Request
      /\ req[r].step \notin {"idle", "load_deal"}
      /\ InsertDeal(r) => req[r].op = "create"
  <2>1. req'[r] = q
    BY <1>2 DEF CoveredInv, IInv, TypeOK
  <2> QED BY <1>1, <2>1 DEF Payout, LoadWallets, InsertDeal, HandlerKnows
<1>4. HasDeal(q) /\ q.step # "load_deal" => q.old.amount = deals[q.deal].amount
  BY <1>1, <1>2, <1>3 DEF HasDeal, HasRead, CopyCovered
<1>5. \A u \in User : wallets[u].frozen <= PaidIn(u) /\ NoWallet.frozen <= PaidIn(u)
  <2>1. NoWallet.frozen = 0
    BY DEF NoWallet
  <2> QED BY <1>1, <2>1, SumsAreNat DEF CoveredInv, FrozenWasPaidIn
<1>6. \A u \in User : q.purse[u].frozen <= PaidIn(u)
  BY <1>1, <1>2, <1>5 DEF CopyCovered
<1> QED BY <1>1, <1>2, <1>3, <1>4, <1>6, QuietCovered

\* A handler that gives up leaves the tables as they are.
LEMMA GiveUpCovered ==
  ASSUME CoveredInv, IInv', NEW r \in Slot, CommitRaises(r) \/ BankRefuses(r) \/ Fail(r)
  PROVE  CoveredInv'
<1>1. /\ req' = [req EXCEPT ![r] = Idle]
      /\ UNCHANGED <<deals, events, wallets>>
  BY DEF CommitRaises, BankRefuses, Fail
<1> QED BY <1>1, IdleType, IdleCovered, QuietCovered DEF CoveredInv, IInv

-----------------------------------------------------------------------------
(* What a commit does to the sums.                                          *)

\* The client keeps the deals, each for its amount.
SameDeals ==
  /\ \A u : DealsOwnedBy(u)' = DealsOwnedBy(u)
  /\ \A d \in DealId : deals'[d].amount = deals[d].amount

\* A write of a status keeps the deals.
LEMMA StatusKeepsDeals ==
  ASSUME IInv, NEW r \in Slot, req[r].step = "commit", req[r].op # "create",
         NEW st \in Status, NEW ca, deals' = SavedDeal(req[r], st, ca)
  PROVE  SameDeals
<1>1. st # "none"
  BY DEF Status
<1>2. req[r].deal \in DealId /\ deals[req[r].deal].status # "none"
  BY CommitDeal
<1>3. /\ \A d \in DealId : d # req[r].deal => deals'[d] = deals[d]
      /\ \A d \in DealId : /\ deals'[d].cargo = deals[d].cargo
                           /\ deals'[d].amount = deals[d].amount
                           /\ deals[d].status # "none" => deals'[d].status # "none"
  BY <1>1, <1>2, SavedDealKeeps DEF IInv
<1> QED BY <1>2, <1>3 DEF SameDeals, DealsOwnedBy

\* One more booking of a deal adds its amount to the client's sum, and to no other.
LEMMA BookIn ==
  ASSUME TypeOK, TypeOK', SameDeals, NEW u, NEW d \in DealId, NEW k \in {0, 1},
         events'[d].funded = events[d].funded + k,
         \A e \in DealId : e # d => events'[e].funded = events[e].funded
  PROVE  PaidIn(u)' = PaidIn(u) + (IF d \in DealsOwnedBy(u) /\ k = 1
                                   THEN deals[d].amount ELSE 0)
<1> DEFINE F == [e \in DealId |-> InFor(e)]
           G == [e \in DealId |-> InFor(e)']
           S == DealsOwnedBy(u)
<1>1. PaidIn(u) = SumFunctionOnSet(F, S) /\ PaidIn(u)' = SumFunctionOnSet(G, S)
  BY DEF PaidIn, InFor, SameDeals
<1>2. /\ IsFiniteSet(S) /\ S \subseteq DealId
      /\ \A e \in DealId : InFor(e) \in Nat /\ InFor(e)' \in Nat
      /\ deals[d].amount \in Nat /\ events[d].funded \in Nat
  BY Summands, SummandsNext DEF SummandsOK
<1>3. \A e \in DealId : e # d => InFor(e)' = InFor(e)
  BY DEF InFor, SameDeals
<1>4. InFor(d)' = InFor(d) + (IF k = 1 THEN deals[d].amount ELSE 0)
  <2>1. \A n, a \in Nat : (n + 1) * a = n * a + a /\ (n + 0) * a = n * a
    OBVIOUS
  <2>2. \A n, a \in Nat : n * a \in Nat
    OBVIOUS
  <2> QED BY <1>2, <2>1, <2>2 DEF InFor, SameDeals
<1>5. CASE d \in S
  <2>1. SumFunctionOnSet(F, S) + InFor(d)' = SumFunctionOnSet(G, S) + InFor(d)
    <3>1. /\ \A e \in S : F[e] \in Nat /\ G[e] \in Nat
          /\ \A e \in S : e # d => F[e] = G[e]
          /\ F[d] = InFor(d) /\ G[d] = InFor(d)'
      BY <1>2, <1>3
    <3> HIDE DEF F, G
    <3> QED BY <1>2, <1>5, <3>1, SumOfChanged
  <2>2. SumFunctionOnSet(F, S) \in Nat /\ SumFunctionOnSet(G, S) \in Nat
    BY <1>1, SumsAreNat, SumsAreNatNext
  <2> QED BY <1>1, <1>2, <1>4, <1>5, <2>1, <2>2
<1>6. CASE d \notin S
  <2>1. \A e \in S : F[e] = G[e]
    BY <1>2, <1>3, <1>6
  <2>2. SumFunctionOnSet(F, S) = SumFunctionOnSet(G, S)
    <3> HIDE DEF F, G
    <3> QED BY <1>2, <2>1, SumOfEqual
  <2> QED BY <1>1, <1>6, <2>2, SumsAreNat
<1> QED BY <1>5, <1>6

\* So does one more release or refund, on the other side.
LEMMA BookOut ==
  ASSUME TypeOK, TypeOK', SameDeals, NEW u, NEW d \in DealId, NEW k \in {0, 1},
         events'[d].released + events'[d].refunded
           = events[d].released + events[d].refunded + k,
         \A e \in DealId : e # d => /\ events'[e].released = events[e].released
                                    /\ events'[e].refunded = events[e].refunded
  PROVE  BookedOut(u)' = BookedOut(u) + (IF d \in DealsOwnedBy(u) /\ k = 1
                                         THEN deals[d].amount ELSE 0)
<1> DEFINE F == [e \in DealId |-> OutFor(e)]
           G == [e \in DealId |-> OutFor(e)']
           S == DealsOwnedBy(u)
<1>1. BookedOut(u) = SumFunctionOnSet(F, S) /\ BookedOut(u)' = SumFunctionOnSet(G, S)
  BY DEF BookedOut, OutFor, SameDeals
<1>2. /\ IsFiniteSet(S) /\ S \subseteq DealId
      /\ \A e \in DealId : OutFor(e) \in Nat /\ OutFor(e)' \in Nat
      /\ deals[d].amount \in Nat
      /\ events[d].released \in Nat /\ events[d].refunded \in Nat
  BY Summands, SummandsNext DEF SummandsOK
<1>3. \A e \in DealId : e # d => OutFor(e)' = OutFor(e)
  BY DEF OutFor, SameDeals
<1>4. OutFor(d)' = OutFor(d) + (IF k = 1 THEN deals[d].amount ELSE 0)
  <2>1. \A n, a \in Nat : (n + 1) * a = n * a + a /\ (n + 0) * a = n * a
    OBVIOUS
  <2>2. \A n, a \in Nat : n * a \in Nat
    OBVIOUS
  <2>3. events[d].released + events[d].refunded \in Nat
    BY <1>2
  <2> QED BY <1>2, <2>1, <2>2, <2>3 DEF OutFor, SameDeals
<1>5. CASE d \in S
  <2>1. SumFunctionOnSet(F, S) + OutFor(d)' = SumFunctionOnSet(G, S) + OutFor(d)
    <3>1. /\ \A e \in S : F[e] \in Nat /\ G[e] \in Nat
          /\ \A e \in S : e # d => F[e] = G[e]
          /\ F[d] = OutFor(d) /\ G[d] = OutFor(d)'
      BY <1>2, <1>3
    <3> HIDE DEF F, G
    <3> QED BY <1>2, <1>5, <3>1, SumOfChanged
  <2>2. SumFunctionOnSet(F, S) \in Nat /\ SumFunctionOnSet(G, S) \in Nat
    BY <1>1, SumsAreNat, SumsAreNatNext
  <2> QED BY <1>1, <1>2, <1>4, <1>5, <2>1, <2>2
<1>6. CASE d \notin S
  <2>1. \A e \in S : F[e] = G[e]
    BY <1>2, <1>3, <1>6
  <2>2. SumFunctionOnSet(F, S) = SumFunctionOnSet(G, S)
    <3> HIDE DEF F, G
    <3> QED BY <1>2, <2>1, SumOfEqual
  <2> QED BY <1>1, <1>6, <2>2, SumsAreNat
<1> QED BY <1>5, <1>6

\* A commit writes the frozen roubles it has computed, or leaves those there are.
LEMMA FrozenWritten ==
  ASSUME TypeOK, NEW q, NEW new, wallets' = SavedWallets(q, new), NEW u \in User
  PROVE  \/ wallets'[u].frozen = wallets[u].frozen
         \/ u \in Touched(q) /\ wallets'[u].frozen = new[u].frozen
BY DEF SavedWallets, Changed

\* A commit is covered when what it writes is.
LEMMA CommitCovered ==
  ASSUME CoveredInv, IInv', Accrues, NEW r \in Slot, req' = [req EXCEPT ![r] = Idle],
         NEW new, wallets' = SavedWallets(req[r], new),
         \A u \in User : u \in Touched(req[r]) => new[u].frozen <= PaidIn(u)'
  PROVE  CoveredInv'
<1>1. TypeOK /\ TypeOK'
  BY DEF CoveredInv, IInv
<1>2. ASSUME NEW u \in User PROVE wallets'[u].frozen <= PaidIn(u)'
  <2>1. PaidIn(u) \in Nat /\ PaidIn(u)' \in Nat /\ PaidIn(u) <= PaidIn(u)'
    BY <1>1, SumsAreNat, SumsAreNatNext, SumsAccrue
  <2>2. wallets[u].frozen \in Nat /\ wallets[u].frozen <= PaidIn(u)
    BY <1>1 DEF TypeOK, WalletRow, CoveredInv, FrozenWasPaidIn
  <2> QED BY <1>1, <2>1, <2>2, FrozenWritten
<1>3. FrozenWasPaidIn'
  BY <1>2 DEF FrozenWasPaidIn
<1>4. req'[r] = Idle
  BY <1>1 DEF TypeOK
<1>5. ~HasDeal(Idle) /\ \A u \in User : Idle.purse[u].frozen = 0
  BY <1>1, IdleCovered DEF Idle, NoWallet
<1>6. \A u : PaidIn(u)' \in Nat
  BY <1>1, SumsAreNatNext
<1>7. CopyCovered(r)'
  BY <1>4, <1>5, <1>6 DEF CopyCovered, HasRead
<1> QED BY <1>3, <1>7, CoveredStep

\* Every copy of a wallet stays covered by what is paid in after the step.
LEMMA PurseCovered ==
  ASSUME CoveredInv, IInv', Accrues, NEW r \in Slot, NEW u \in User
  PROVE  /\ req[r].purse[u].frozen \in Nat
         /\ req[r].purse[u].frozen <= PaidIn(u) /\ req[r].purse[u].frozen <= PaidIn(u)'
         /\ PaidIn(u) \in Nat /\ PaidIn(u)' \in Nat
<1>1. TypeOK /\ TypeOK' /\ CopyCovered(r)
  BY DEF CoveredInv, IInv
<1>2. req[r].purse[u].frozen \in Nat
  BY <1>1 DEF TypeOK, Request, WalletRow
<1>3. PaidIn(u) \in Nat /\ PaidIn(u)' \in Nat /\ PaidIn(u) <= PaidIn(u)'
  BY <1>1, SumsAreNat, SumsAreNatNext, SumsAccrue
<1> QED BY <1>1, <1>2, <1>3 DEF CopyCovered

\* What is taken off a copy leaves no more than there was.
LEMMA LessFrozen == \A a, b \in Nat : Monus(a, b) \in Nat /\ Monus(a, b) <= a
BY DEF Monus

\* A wallet with two columns written.
LEMMA WalletFields ==
  ASSUME NEW w \in WalletRow, NEW a, NEW b
  PROVE  /\ [w EXCEPT !.balance = a, !.frozen = b].balance = a
         /\ [w EXCEPT !.balance = a, !.frozen = b].frozen = b
BY DEF WalletRow

\* A booked payment freezes what it adds to the client's sum.
LEMMA FundCovered ==
  ASSUME CoveredInv, IInv', Accrues, NEW r \in Slot, CommitFund(r)
  PROVE  CoveredInv'
<1> DEFINE q == req[r]
           new == [u \in User |-> [q.purse[u] EXCEPT !.balance = @ + q.old.amount,
                                                     !.frozen = @ + q.old.amount]]
<1>1. /\ q.op = "fund" /\ q.step = "commit" /\ req' = [req EXCEPT ![r] = Idle]
      /\ deals' = SavedDeal(q, "funded", q.old.carrier)
      /\ wallets' = SavedWallets(q, new)
      /\ events' = [events EXCEPT ![q.deal].funded = @ + 1]
  BY DEF CommitFund, Committing
<1>2. TypeOK /\ TypeOK' /\ IInv /\ q \in Request
  BY DEF CoveredInv, IInv, TypeOK
<1>3. /\ HasRead(r) /\ q.deal \in DealId /\ q.cargo \in Cargo /\ Owner[q.cargo] \in User
      /\ deals[q.deal].status # "none" /\ deals[q.deal].cargo = q.cargo
  BY <1>1, <1>2, CommitDeal
<1>4. q.old.amount = deals[q.deal].amount /\ q.old.amount \in Nat
  BY <1>2, <1>3 DEF CoveredInv, CopyCovered, TypeOK, DealRow
<1>5. SameDeals
  BY <1>1, <1>2, StatusKeepsDeals DEF Status
<1>6. PICK o \in User : o = Owner[q.cargo] /\ q.deal \in DealsOwnedBy(o)
  BY <1>3 DEF DealsOwnedBy
<1>7. /\ events'[q.deal].funded = events[q.deal].funded + 1
      /\ \A e \in DealId : e # q.deal => events'[e].funded = events[e].funded
  BY <1>1, <1>2, <1>3 DEF TypeOK, EventCount
<1>8. PaidIn(o)' = PaidIn(o) + q.old.amount
  <2>1. PICK d \in DealId : d = q.deal
    BY <1>3
  <2>2. PaidIn(o)' = PaidIn(o) + (IF d \in DealsOwnedBy(o) /\ 1 = 1
                                  THEN deals[d].amount ELSE 0)
    BY <1>2, <1>5, <1>7, <2>1, BookIn
  <2> QED BY <1>4, <1>6, <2>1, <2>2
<1>9. ASSUME NEW u \in User PROVE new[u].frozen = q.purse[u].frozen + q.old.amount
  <2>1. q.purse[u] \in WalletRow
    BY <1>2 DEF Request
  <2> DEFINE b == q.purse[u].balance + q.old.amount
             f == q.purse[u].frozen + q.old.amount
  <2>2. new[u] = [q.purse[u] EXCEPT !.balance = b, !.frozen = f]
    OBVIOUS
  <2> HIDE DEF b, f, new
  <2>3. new[u].frozen = f
    BY <2>1, <2>2, WalletFields
  <2> QED BY <2>3 DEF f
<1>10. Touched(q) = {o}
  BY <1>1, <1>6 DEF Touched, TakesOver
<1> HIDE DEF new
<1>11. \A u \in User : u \in Touched(q) => new[u].frozen <= PaidIn(u)'
  BY <1>4, <1>8, <1>9, <1>10, PurseCovered
<1> QED BY <1>1, <1>11, CommitCovered

\* A release and a refund only take off.
LEMMA DebitCovered ==
  ASSUME CoveredInv, IInv', Accrues, NEW r \in Slot, CommitRelease(r) \/ CommitCancel(r)
  PROVE  CoveredInv'
<1> DEFINE q == req[r]
<1>1. TypeOK /\ TypeOK' /\ q \in Request
  BY DEF CoveredInv, IInv, TypeOK
<1>2. \A u \in User : /\ q.purse[u] \in WalletRow /\ q.purse[u].frozen \in Nat
                      /\ q.old.amount \in Nat
  BY <1>1 DEF Request, WalletRow, DealRow
<1>4. CASE CommitRelease(r)
  <2>1. req' = [req EXCEPT ![r] = Idle] /\ wallets' = SavedWallets(q, Released(q))
    BY <1>4 DEF CommitRelease, Committing
  <2>2. ASSUME NEW u \in User
        PROVE  Released(q)[u].frozen \in {q.purse[u].frozen,
                                          Monus(q.purse[u].frozen, q.old.amount)}
    <3> DEFINE client == u = Owner[q.cargo]
               rest == IF client THEN Monus(q.purse[u].balance, q.old.amount)
                       ELSE q.purse[u].balance
               a == IF u = Payee(q) THEN rest + CarrierShare(q.old.amount) ELSE rest
               b == IF client THEN Monus(q.purse[u].frozen, q.old.amount)
                    ELSE q.purse[u].frozen
    <3>1. Released(q)[u] = [q.purse[u] EXCEPT !.balance = a, !.frozen = b]
      BY DEF Released
    <3>2. b \in {q.purse[u].frozen, Monus(q.purse[u].frozen, q.old.amount)}
      OBVIOUS
    <3> HIDE DEF a, b
    <3>3. Released(q)[u].frozen = b
      BY <1>2, <3>1, WalletFields
    <3> QED BY <3>2, <3>3
  <2>3. ASSUME NEW u \in User PROVE Released(q)[u].frozen <= PaidIn(u)'
    <3>1. Monus(q.purse[u].frozen, q.old.amount) <= q.purse[u].frozen
      BY <1>2, LessFrozen
    <3>2. Monus(q.purse[u].frozen, q.old.amount) \in Nat
      BY <1>2, LessFrozen
    <3> QED BY <2>2, <3>1, <3>2, PurseCovered
  <2> QED BY <2>1, <2>3, CommitCovered
<1>5. CASE CommitCancel(r)
  <2> DEFINE new == [u \in User |-> [q.purse[u] EXCEPT !.balance = Monus(@, q.old.amount),
                                                       !.frozen = Monus(@, q.old.amount)]]
  <2>1. req' = [req EXCEPT ![r] = Idle] /\ wallets' = SavedWallets(q, new)
    BY <1>5 DEF CommitCancel, Committing
  <2>2. ASSUME NEW u \in User PROVE new[u].frozen = Monus(q.purse[u].frozen, q.old.amount)
    <3> DEFINE a == Monus(q.purse[u].balance, q.old.amount)
               b == Monus(q.purse[u].frozen, q.old.amount)
    <3>1. new[u] = [q.purse[u] EXCEPT !.balance = a, !.frozen = b]
      OBVIOUS
    <3> HIDE DEF a, b, new
    <3>2. new[u].frozen = b
      BY <1>2, <3>1, WalletFields
    <3> QED BY <3>2 DEF b
  <2> HIDE DEF new
  <2>3. ASSUME NEW u \in User PROVE new[u].frozen <= PaidIn(u)'
    <3>1. /\ Monus(q.purse[u].frozen, q.old.amount) <= q.purse[u].frozen
          /\ Monus(q.purse[u].frozen, q.old.amount) \in Nat
      BY <1>2, LessFrozen
    <3> QED BY <2>2, <3>1, PurseCovered
  <2> QED BY <2>1, <2>3, CommitCovered
<1> QED BY <1>4, <1>5

\* The other commits write the copies back, or no wallet at all.
LEMMA OtherCommitCovered ==
  ASSUME CoveredInv, IInv', Accrues, NEW r \in Slot,
         CommitCreate(r) \/ CommitMark(r) \/ CommitDispute(r)
  PROVE  CoveredInv'
<1> DEFINE q == req[r]
<1>1. \A u \in User : q.purse[u].frozen <= PaidIn(u)'
  BY PurseCovered
<1>2. CASE CommitCreate(r) \/ CommitMark(r)
  <2>1. req' = [req EXCEPT ![r] = Idle] /\ wallets' = SavedWallets(q, q.purse)
    BY <1>2 DEF CommitCreate, CommitMark, Committing
  <2> QED BY <1>1, <2>1, CommitCovered
<1>3. CASE CommitDispute(r)
  <2>1. req' = [req EXCEPT ![r] = Idle] /\ wallets' = wallets
    BY <1>3 DEF CommitDispute, Committing
  <2>2. q.op = "dispute"
    BY <1>3 DEF CommitDispute, Committing
  <2>3. Touched(q) = {}
    BY <2>2 DEF Touched, TakesOver
  <2>4. wallets' = SavedWallets(q, q.purse)
    BY <2>1, <2>3 DEF SavedWallets, CoveredInv, IInv, TypeOK
  <2> QED BY <1>1, <2>1, <2>4, CommitCovered
<1> QED BY <1>2, <1>3

\* A wallet that is opened is empty.
LEMMA OpenWalletCovered ==
  ASSUME CoveredInv, IInv', Accrues, NEW u \in User, OpenWallet(u)
  PROVE  CoveredInv'
<1>1. UNCHANGED <<deals, events, req>> /\ \A v \in User : wallets'[v].frozen = wallets[v].frozen
  BY DEF OpenWallet, CoveredInv, IInv, TypeOK, WalletRow
<1>2. \A v : PaidIn(v)' = PaidIn(v)
  BY <1>1 DEF PaidIn, DealsOwnedBy
<1>3. \A s \in Slot : CopyCovered(s)'
  BY <1>1, OthersCovered
<1> QED BY <1>1, <1>2, <1>3 DEF CoveredInv, FrozenWasPaidIn

\* Every step keeps the frozen roubles covered.
LEMMA CoveredNext == CoveredInv /\ [Next]_vars => CoveredInv'
<1> SUFFICES ASSUME CoveredInv, [Next]_vars PROVE CoveredInv'
  OBVIOUS
<1>1. IInv /\ IInv'
  BY NextInv DEF CoveredInv
<1>2. CASE UNCHANGED vars
  BY <1>1, <1>2 DEF vars, CoveredInv, FrozenWasPaidIn, CopyCovered, HasRead, HasDeal,
                    PaidIn, DealsOwnedBy
<1>3. CASE Next
  <2>1. Accrues
    BY <1>1, <1>3, StepAccrues
  <2>2. ASSUME NEW u \in User, OpenWallet(u) PROVE CoveredInv'
    BY <1>1, <2>1, <2>2, OpenWalletCovered
  <2>3. ASSUME NEW r \in Slot, NEW o \in UserOp, NEW u \in User, NEW c \in Cargo,
               UserRequest(r, o, u, c)
        PROVE  CoveredInv'
    BY <1>1, <2>3, UserRequestCovered
  <2>4. ASSUME NEW r \in Slot, NEW d \in DealId, PaymentReported(r, d) \/ MockPayment(r, d)
        PROVE  CoveredInv'
    BY <1>1, <2>4, ReadDealCovered, MockPaymentCovered DEF PaymentReported
  <2>5. ASSUME NEW r \in Slot, NEW o \in AdminOp, NEW d \in DealId, AdminRequest(r, o, d)
        PROVE  CoveredInv'
    BY <1>1, <2>5, ReadDealCovered DEF AdminRequest
  <2>6. ASSUME NEW r \in Slot, Progress(r) \/ BankRefuses(r) \/ Fail(r) PROVE CoveredInv'
    BY <1>1, <2>1, <2>6, LoadsCovered, OnTheWayCovered, GiveUpCovered, FundCovered,
       DebitCovered, OtherCommitCovered DEF Progress
  <2> QED BY <1>3, <2>2, <2>3, <2>4, <2>5, <2>6 DEF Next
<1> QED BY <1>2, <1>3

\* At the start nothing is frozen.
LEMMA CoveredInit == Init => CoveredInv
<1> SUFFICES ASSUME Init PROVE CoveredInv
  OBVIOUS
<1>1. IInv
  BY InitInv
<1>2. \A u \in User : PaidIn(u) \in Nat
  BY <1>1, SumsAreNat DEF IInv
<1>3. \A u \in User : wallets[u].frozen = 0
  BY DEF Init, NoWallet
<1>4. \A r \in Slot : CopyCovered(r)
  BY <1>1, IdleCovered DEF IInv, Init, CopyCovered, HasRead
<1> QED BY <1>1, <1>2, <1>3, <1>4 DEF CoveredInv, FrozenWasPaidIn

\* Whatever _apply_funded, release_escrow and admin_cancel_escrow write back from
\* stale copies of user_wallets, and wherever they die, no more is ever frozen than
\* the client has paid in.
THEOREM FrozenIsCovered == Spec => []FrozenWasPaidIn
<1>1. CoveredInv => FrozenWasPaidIn
  BY DEF CoveredInv
<1> QED BY <1>1, CoveredInit, CoveredNext, PTL DEF Spec

-----------------------------------------------------------------------------
(* Handlers served one at a time.                                           *)

\* The handlers are served one at a time.
OneAtATime == \A r, s \in Slot : r = s

\* What the guard of each handler has left of the statuses a deal can have.
Admitted(o, s) ==
  /\ o = "fund" => s \in {"payment_pending", "disputed", "cancelled"}
  /\ o = "mark" => s = "funded"
  /\ o \in Releasing => s = "delivery_marked"
  /\ o \in {"dispute", "admin_cancel"} => s \in Promise!Live

\* Then a copy is the row itself until the handler commits.
CopyCurrent(r) ==
  LET q == req[r]
  IN  /\ HasRead(r) => q.old = deals[q.deal]
      /\ HasRead(r) /\ q.step # "load_cargo" => Admitted(q.op, q.old.status)
      /\ q.step \in {"insert", "commit"} =>
           \A u \in Touched(q) : /\ q.purse[u].balance = wallets[u].balance
                                 /\ q.purse[u].frozen = wallets[u].frozen

SerialInv == IInv /\ WalletsAddUp /\ \A r \in Slot : CopyCurrent(r)

\* An empty slot holds no copy.
LEMMA IdleCurrent ==
  ASSUME NEW r \in Slot, req'[r] = Idle
  PROVE  CopyCurrent(r)'
BY DEF CopyCurrent, HasRead, HasDeal, Idle

\* A guard that let a handler on has left these statuses, and a handler that goes
\* straight to its commit writes no wallet.
LEMMA DecideAdmits ==
  ASSUME NEW q \in Request, q.cargo \in Cargo, q.op \in Op, Decide(q) # Idle,
         q.op # "create" => q.old.status # "none"
  PROVE  /\ q.op # "create" => Admitted(Decide(q).op, Decide(q).old.status)
         /\ Decide(q).step = "commit" => Touched(Decide(q)) = {}
         /\ Decide(q).step # "insert"
<1> DEFINE p == Decide(q)
<1>1. Admits(q.op, q.old.status)
  BY DEF Decide
<1>2. /\ p.cargo = q.cargo /\ p.row = q.row /\ p.old = q.old
      /\ p.step = AfterGuard(q)
      /\ p.op = IF q.op \in {"refund", "admin_dispute"} THEN "dispute" ELSE q.op
      /\ p.caller = IF TakesOver(q) THEN q.caller ELSE NoUser
  BY <1>1 DEF Decide, Request
<1>3. q.old.status \in Status \cup {"none"}
  BY DEF Request, DealRow
<1> HIDE DEF p
<1>4. ASSUME q.op # "create" PROVE Admitted(p.op, p.old.status)
  <2>1. q.old.status \in Status
    BY <1>3, <1>4
  <2>2. CASE q.op = "fund"
    BY <1>1, <1>2, <2>1, <2>2 DEF Admits, Admitted, Status, Secured, Releasing
  <2>3. CASE q.op = "mark"
    BY <1>1, <1>2, <2>1, <2>3 DEF Admits, Admitted, Deliverable, Releasing
  <2>4. CASE q.op \in Releasing
    BY <1>1, <1>2, <2>1, <2>4 DEF Admits, Admitted, Releasable, Releasing
  <2>5. CASE q.op \in {"dispute", "refund"}
    <3>1. q.old.status \notin Closed
      BY <1>1, <2>5 DEF Admits
    <3> QED BY <1>2, <2>1, <2>5, <3>1 DEF Admitted, Status, Closed, Promise!Live, Releasing
  <2>6. CASE q.op \in {"admin_dispute", "admin_cancel"}
    <3>1. q.old.status \notin Closed
      BY <1>1, <2>6 DEF Admits
    <3> QED BY <1>2, <2>1, <2>6, <3>1 DEF Admitted, Status, Closed, Promise!Live, Releasing
  <2> QED BY <1>4, <2>2, <2>3, <2>4, <2>5, <2>6 DEF Op, UserOp, AdminOp, Releasing
<1>5. AfterGuard(q) = "commit" => Touched(q) = {}
  BY DEF AfterGuard
<1>6. Touched(p) = Touched(q) \/ Touched(p) = {}
  <2>1. CASE q.op \in {"refund", "admin_dispute"}
    <3>1. p.op = "dispute"
      BY <1>2, <2>1
    <3> QED BY <3>1 DEF Touched, TakesOver
  <2>2. CASE q.op \notin {"refund", "admin_dispute"} /\ q.op # "mark"
    <3>1. p.op = q.op /\ Payee(p) = Payee(q) /\ ~TakesOver(p) /\ ~TakesOver(q)
      BY <1>2, <2>2 DEF Payee, TakesOver
    <3> QED BY <1>2, <3>1 DEF Touched
  <2>3. CASE q.op = "mark"
    <3>1. p.op = "mark" /\ (p.caller = q.caller \/ ~TakesOver(p))
      BY <1>2, <2>3 DEF TakesOver
    <3>2. CASE TakesOver(q)
      BY <1>2, <2>3, <3>1, <3>2 DEF Touched, TakesOver
    <3>3. CASE ~TakesOver(q)
      <4>1. p.caller = NoUser
        BY <1>2, <3>3
      <4>2. ~TakesOver(p)
        BY <4>1 DEF TakesOver
      <4> QED BY <3>1, <4>2 DEF Touched
    <3> QED BY <3>2, <3>3
  <2> QED BY <2>1, <2>2, <2>3
<1>7. AfterGuard(q) # "insert"
  BY DEF AfterGuard
<1> QED BY <1>2, <1>4, <1>5, <1>6, <1>7 DEF p

\* The wallets a handler touches are of users.
LEMMA TouchedUsers ==
  ASSUME NEW q \in Request, q.cargo \in Cargo
  PROVE  Touched(q) \subseteq User
<1>1. /\ Owner[q.cargo] \in User /\ q.row.carrier \in User \cup {NoUser}
      /\ q.old.carrier \in User \cup {NoUser} /\ q.caller \in User \cup {NoUser}
  BY EscrowAssumption DEF Request, CargoRow, DealRow, MaybeUser
<1>2. Payee(q) \in User
  BY <1>1 DEF Payee
<1>3. TakesOver(q) => q.caller \in User
  BY <1>1 DEF TakesOver
<1> QED BY <1>1, <1>2, <1>3 DEF Touched

\* A step that writes neither a deal, a booking nor what is in a wallet.
LEMMA QuietSerial ==
  ASSUME OneAtATime, SerialInv, IInv', NEW r \in Slot,
         UNCHANGED <<deals, events, wallets>>, CopyCurrent(r)'
  PROVE  SerialInv'
<1>1. \A s \in Slot : CopyCurrent(s)'
  <2>1. \A s \in Slot : s = r
    BY DEF OneAtATime
  <2> QED BY <2>1
<1>2. \A u : PaidIn(u)' = PaidIn(u) /\ BookedOut(u)' = BookedOut(u)
  BY DEF PaidIn, BookedOut, DealsOwnedBy
<1>3. WalletsAddUp'
  BY <1>2 DEF SerialInv, WalletsAddUp, FrozenWithinBalance, NoCreditLost
<1> QED BY <1>1, <1>3 DEF SerialInv

\* A handler that has not decided yet: its copy of the deal is the deal.
LEMMA StartsSerial ==
  ASSUME OneAtATime, SerialInv, IInv', NEW r \in Slot,
         \/ \E o \in UserOp, u \in User, c \in Cargo : UserRequest(r, o, u, c)
         \/ \E d \in DealId : MockPayment(r, d)
         \/ \E o \in AdminOp \cup {"fund"}, d \in DealId : ReadDeal(r, o, d)
  PROVE  SerialInv'
<1>1. req \in [Slot -> Request]
  BY DEF SerialInv, IInv, TypeOK
<1>2. CASE \E o \in UserOp, u \in User, c \in Cargo : UserRequest(r, o, u, c)
  <2>1. PICK o \in UserOp, u \in User, c \in Cargo : UserRequest(r, o, u, c)
    BY <1>2
  <2>2. req'[r].step = "load_deal"
    <3>1. PICK a \in IF o = "create" THEN Amount ELSE {0} :
            req' = [req EXCEPT ![r] =
              [Idle EXCEPT !.op = o, !.step = "load_deal", !.caller = u,
                           !.cargo = c, !.amount = a, !.row = cargos[c]]]
      BY <2>1 DEF UserRequest
    <3> QED BY <1>1, <3>1 DEF Idle
  <2>3. CopyCurrent(r)'
    BY <2>2 DEF CopyCurrent, HasRead, HasDeal
  <2> QED BY <1>2, <2>3, QuietSerial DEF UserRequest
<1>3. CASE \E d \in DealId : MockPayment(r, d)
  <2>1. req'[r].step = "load_deal"
    BY <1>1, <1>3 DEF Idle, MockPayment
  <2>2. CopyCurrent(r)'
    BY <2>1 DEF CopyCurrent, HasRead, HasDeal
  <2> QED BY <1>3, <2>2, QuietSerial DEF MockPayment
<1>4. CASE \E o \in AdminOp \cup {"fund"}, d \in DealId : ReadDeal(r, o, d)
  <2>1. PICK o \in AdminOp \cup {"fund"}, d \in DealId : ReadDeal(r, o, d)
    BY <1>4
  <2>2. req'[r].step = "load_cargo" /\ req'[r].deal = d /\ req'[r].old = deals[d]
    BY <1>1, <2>1 DEF Idle, ReadDeal
  <2>3. CopyCurrent(r)'
    BY <2>1, <2>2 DEF CopyCurrent, HasRead, ReadDeal
  <2> QED BY <2>1, <2>3, QuietSerial DEF ReadDeal
<1> QED BY <1>2, <1>3, <1>4

\* A handler decides on the rows as they are.
LEMMA DecidesSerial ==
  ASSUME OneAtATime, SerialInv, IInv', NEW r \in Slot, NEW q \in Request,
         q.cargo \in Cargo, q.op \in Op,
         q.op # "create" => /\ q.old = RowOf(q.deal)
                            /\ q.deal \in DealId => q.old.status # "none",
         UNCHANGED <<deals, events, wallets>>,
         req' = [req EXCEPT ![r] = Decide(q)]
  PROVE  SerialInv'
<1> DEFINE p == Decide(q)
<1>1. req'[r] = p /\ p \in Request
  BY DecideType DEF SerialInv, IInv, TypeOK
<1>2. CASE p = Idle
  BY <1>1, <1>2, IdleCurrent, QuietSerial
<1>3. CASE p # Idle
  <2>1. GoesOn(q, p)
    BY <1>3, DecideGoesOn
  <2>2. q.op # "create" => q.old.status # "none"
    <3>1. SUFFICES ASSUME q.op # "create", q.deal \notin DealId PROVE q.old.status # "none"
      OBVIOUS
    <3>2. HasDeal(p)
      BY <2>1, <3>1 DEF GoesOn, HasDeal
    <3> HIDE DEF p
    <3>3. p.deal \in DealId
      BY <1>1, <3>2 DEF IInv, HandlerKnows
    <3> QED BY <2>1, <3>1, <3>3 DEF GoesOn
  <2>3. /\ q.op # "create" => Admitted(p.op, p.old.status)
        /\ p.step = "commit" => Touched(p) = {}
        /\ p.step # "insert"
    BY <1>3, <2>2, DecideAdmits
  <2> HIDE DEF p
  <2>4. HasDeal(p) => p.old = deals[p.deal]
    <3>1. SUFFICES ASSUME HasDeal(p) PROVE p.old = deals[p.deal]
      OBVIOUS
    <3>2. p.deal \in DealId
      BY <1>1, <3>1 DEF IInv, HandlerKnows
    <3>3. p.deal # 0
      BY <3>2, EscrowAssumption DEF DealId
    <3> QED BY <2>1, <3>1, <3>3 DEF GoesOn, HasDeal, RowOf
  <2>5. HasDeal(p) => q.op # "create"
    BY <2>1 DEF GoesOn, HasDeal
  <2>6. CopyCurrent(r)'
    BY <1>1, <2>3, <2>4, <2>5 DEF CopyCurrent, HasRead
  <2> QED BY <2>6, QuietSerial
<1> QED BY <1>2, <1>3

\* Both kinds of handler come to decide so.
LEMMA LoadsSerial ==
  ASSUME OneAtATime, SerialInv, IInv', NEW r \in Slot, LoadDeal(r) \/ LoadCargo(r)
  PROVE  SerialInv'
<1>1. /\ req[r] \in Request /\ CopyCurrent(r) /\ HandlerKnows(r) /\ TypeOK
      /\ req[r].cargo \in Cargo /\ req[r].op \in Op
      /\ UNCHANGED <<deals, events, wallets>>
  BY DEF SerialInv, IInv, TypeOK, LoadDeal, LoadCargo, HandlerKnows
<1>2. CASE LoadDeal(r)
  <2>1. PICK d \in DealId \cup {0} :
          /\ IF req[r].op = "fund" THEN d = req[r].deal ELSE IsLatest(d, req[r].cargo)
          /\ req' = [req EXCEPT ![r] = Decide([req[r] EXCEPT !.deal = d, !.old = RowOf(d)])]
    BY <1>2 DEF LoadDeal
  <2> DEFINE q == [req[r] EXCEPT !.deal = d, !.old = RowOf(d)]
  <2>2. RowOf(d) \in DealRow
    BY <1>1 DEF RowOf, TypeOK, NoDeal, DealRow, MaybeUser
  <2>3. q \in Request
    BY <1>1, <2>2 DEF Request
  <2>4. q.cargo = req[r].cargo /\ q.op = req[r].op /\ q.deal = d /\ q.old = RowOf(d)
    BY <1>1 DEF Request
  <2>5. ASSUME q.op # "create", d \in DealId PROVE RowOf(d).status # "none"
    <3>1. d # 0
      BY <2>5, EscrowAssumption DEF DealId
    <3>2. CASE q.op = "fund"
      BY <1>1, <1>2, <2>1, <2>4, <3>1, <3>2 DEF HandlerKnows, HasDeal, LoadDeal, RowOf
    <3>3. CASE q.op # "fund"
      BY <2>1, <2>4, <3>1, <3>3 DEF IsLatest, DealsOf, RowOf
    <3> QED BY <3>2, <3>3
  <2>6. req' = [req EXCEPT ![r] = Decide(q)]
    BY <2>1
  <2> HIDE DEF q
  <2> QED BY <1>1, <2>3, <2>4, <2>5, <2>6, DecidesSerial
<1>3. CASE LoadCargo(r)
  <2> DEFINE q == [req[r] EXCEPT !.row = cargos[req[r].cargo]]
  <2>1. q \in Request
    BY <1>1 DEF Request, TypeOK
  <2>2. /\ q.cargo = req[r].cargo /\ q.op = req[r].op
        /\ q.deal = req[r].deal /\ q.old = req[r].old
    BY <1>1 DEF Request
  <2>3. req' = [req EXCEPT ![r] = Decide(q)]
    BY <1>3 DEF LoadCargo
  <2> HIDE DEF q
  <2>4. q.op # "create" => /\ q.old = deals[q.deal] /\ q.deal \in DealId
                           /\ deals[q.deal].status # "none"
    BY <1>1, <1>3, <2>2 DEF LoadCargo, CopyCurrent, HasRead, HasDeal, HandlerKnows
  <2>5. q.deal \in DealId => q.deal # 0
    BY EscrowAssumption DEF DealId
  <2> QED BY <1>1, <2>1, <2>2, <2>3, <2>4, <2>5, DecidesSerial DEF RowOf
<1> QED BY <1>2, <1>3

\* On its way a handler reads the wallets as they are, and nobody changes them.
LEMMA OnTheWaySerial ==
  ASSUME OneAtATime, SerialInv, IInv', NEW r \in Slot,
         Payout(r) \/ LoadWallets(r) \/ InsertDeal(r)
  PROVE  SerialInv'
<1>1. /\ req[r] \in Request /\ CopyCurrent(r) /\ HandlerKnows(r) /\ TypeOK
      /\ req \in [Slot -> Request]
      /\ UNCHANGED <<deals, events, wallets>>
  BY DEF SerialInv, IInv, TypeOK, Payout, LoadWallets, InsertDeal
<1>2. CASE Payout(r)
  <2> DEFINE q == [req[r] EXCEPT !.step = "wallets"]
  <2>1. req'[r] = q
    BY <1>1, <1>2 DEF Payout
  <2>2. /\ q.old = req[r].old /\ q.op = req[r].op /\ q.deal = req[r].deal
        /\ q.step = "wallets"
    BY <1>1 DEF Request
  <2> HIDE DEF q
  <2>3. CopyCurrent(r)'
    BY <1>1, <1>2, <2>1, <2>2 DEF Payout, CopyCurrent, HasRead, HasDeal
  <2> QED BY <1>1, <2>3, QuietSerial
<1>3. CASE LoadWallets(r)
  <2> DEFINE purse == [u \in User |-> IF u \in Touched(req[r]) THEN wallets[u] ELSE NoWallet]
             next == IF req[r].op = "create" THEN "insert" ELSE "commit"
             q == [req[r] EXCEPT !.purse = purse, !.step = next]
  <2>1. req'[r] = q
    BY <1>1, <1>3 DEF LoadWallets
  <2> HIDE DEF purse
  <2>2. /\ q.old = req[r].old /\ q.op = req[r].op /\ q.deal = req[r].deal
        /\ q.cargo = req[r].cargo /\ q.row = req[r].row /\ q.caller = req[r].caller
        /\ q.purse = purse /\ q.step = next
    BY <1>1 DEF Request
  <2> HIDE DEF q
  <2>3. Touched(q) = Touched(req[r])
    BY <2>2 DEF Touched, TakesOver, Payee
  <2>4. Touched(req[r]) \subseteq User
    BY <1>1, <1>3, TouchedUsers DEF LoadWallets, HandlerKnows
  <2>5. \A u \in Touched(q) : q.purse[u] = wallets[u]
    BY <2>2, <2>3, <2>4 DEF purse
  <2>6. HasDeal(q) => q.old = deals[q.deal] /\ Admitted(q.op, q.old.status)
    BY <1>1, <1>3, <2>2 DEF LoadWallets, CopyCurrent, HasRead, HasDeal
  <2> HIDE DEF next
  <2>7. CopyCurrent(r)'
    BY <1>1, <2>1, <2>5, <2>6 DEF CopyCurrent, HasRead
  <2> QED BY <1>1, <2>7, QuietSerial
<1>4. CASE InsertDeal(r)
  <2> DEFINE q == [req[r] EXCEPT !.deal = lastId + 1, !.step = "commit"]
  <2>1. req'[r] = q
    BY <1>1, <1>4 DEF InsertDeal
  <2>2. /\ q.old = req[r].old /\ q.op = req[r].op /\ q.purse = req[r].purse
        /\ q.cargo = req[r].cargo /\ q.row = req[r].row /\ q.caller = req[r].caller
        /\ q.step = "commit"
    BY <1>1 DEF Request
  <2>3. req[r].op = "create" /\ req[r].step = "insert"
    BY <1>1, <1>4 DEF InsertDeal, HandlerKnows
  <2> HIDE DEF q
  <2>4. Touched(q) = Touched(req[r])
    BY <2>2 DEF Touched, TakesOver, Payee
  <2>5. ASSUME NEW u \in Touched(q)
        PROVE  /\ q.purse[u].balance = wallets[u].balance
               /\ q.purse[u].frozen = wallets[u].frozen
    BY <1>1, <2>2, <2>3, <2>4 DEF CopyCurrent
  <2>6. ~HasDeal(q)
    BY <2>2, <2>3 DEF HasDeal
  <2>7. CopyCurrent(r)'
    BY <1>1, <2>1, <2>5, <2>6 DEF CopyCurrent, HasRead
  <2> QED BY <1>1, <2>7, QuietSerial
<1> QED BY <1>2, <1>3, <1>4

\* A commit in whose wallets the credits add up.
LEMMA CommitSerial ==
  ASSUME OneAtATime, SerialInv, IInv', NEW r \in Slot, req' = [req EXCEPT ![r] = Idle],
         \A u \in User : /\ wallets'[u].frozen <= wallets'[u].balance
                         /\ wallets'[u].frozen + BookedOut(u)' >= PaidIn(u)'
  PROVE  SerialInv'
<1>1. req'[r] = Idle
  BY DEF SerialInv, IInv, TypeOK
<1>2. \A s \in Slot : CopyCurrent(s)'
  <2>1. \A s \in Slot : s = r
    BY DEF OneAtATime
  <2> QED BY <1>1, <2>1, IdleCurrent
<1>3. \A u \in User : 0 <= wallets'[u].frozen
  BY DEF IInv, TypeOK, WalletRow
<1> QED BY <1>2, <1>3 DEF SerialInv, WalletsAddUp, FrozenWithinBalance, NoCreditLost

\* A commit writes what it has computed: its copies were still the rows.
LEMMA SerialWritten ==
  ASSUME SerialInv, NEW r \in Slot, req[r].step = "commit",
         NEW new, wallets' = SavedWallets(req[r], new), NEW u \in User
  PROVE  /\ u \in Touched(req[r]) => /\ wallets'[u].balance = new[u].balance
                                     /\ wallets'[u].frozen = new[u].frozen
                                     /\ req[r].purse[u].balance = wallets[u].balance
                                     /\ req[r].purse[u].frozen = wallets[u].frozen
         /\ u \notin Touched(req[r]) => wallets'[u] = wallets[u]
<1>1. u \in Touched(req[r]) => /\ req[r].purse[u].balance = wallets[u].balance
                               /\ req[r].purse[u].frozen = wallets[u].frozen
  BY DEF SerialInv, CopyCurrent
<1> QED BY <1>1 DEF SavedWallets, Changed

\* The numbers a commit starts from.
LEMMA SerialNumbers ==
  ASSUME SerialInv, IInv', NEW u \in User
  PROVE  /\ wallets[u].balance \in Nat /\ wallets[u].frozen \in Nat
         /\ wallets[u].frozen <= wallets[u].balance
         /\ wallets[u].frozen + BookedOut(u) >= PaidIn(u)
         /\ PaidIn(u) \in Nat /\ BookedOut(u) \in Nat
         /\ PaidIn(u)' \in Nat /\ BookedOut(u)' \in Nat
<1>1. TypeOK /\ TypeOK'
  BY DEF SerialInv, IInv
<1>2. wallets[u].balance \in Nat /\ wallets[u].frozen \in Nat
  BY <1>1 DEF TypeOK, WalletRow
<1> QED BY <1>1, <1>2, SumsAreNat, SumsAreNatNext
        DEF SerialInv, WalletsAddUp, FrozenWithinBalance, NoCreditLost

\* The sums after the commit of a handler of a deal: it may book one payment in, and
\* one release or refund out, both for the client.
LEMMA CommitSums ==
  ASSUME SerialInv, IInv', NEW r \in Slot, req[r].step = "commit", req[r].op # "create",
         NEW st \in Status, NEW ca, deals' = SavedDeal(req[r], st, ca),
         NEW in \in {0, 1}, NEW out \in {0, 1},
         \A e \in DealId : e # req[r].deal => events'[e] = events[e],
         events'[req[r].deal].funded = events[req[r].deal].funded + in,
         events'[req[r].deal].released + events'[req[r].deal].refunded
           = events[req[r].deal].released + events[req[r].deal].refunded + out,
         NEW u \in User
  PROVE  /\ req[r].old.amount \in Nat
         /\ PaidIn(u)' = PaidIn(u) + (IF u = Owner[req[r].cargo] /\ in = 1
                                      THEN req[r].old.amount ELSE 0)
         /\ BookedOut(u)' = BookedOut(u) + (IF u = Owner[req[r].cargo] /\ out = 1
                                            THEN req[r].old.amount ELSE 0)
<1>1. TypeOK /\ TypeOK' /\ IInv
  BY DEF SerialInv, IInv
<1>2. SameDeals
  BY <1>1, StatusKeepsDeals
<1>3. /\ HasRead(r) /\ req[r].deal \in DealId
      /\ deals[req[r].deal].status # "none" /\ deals[req[r].deal].cargo = req[r].cargo
  BY <1>1, CommitDeal
<1>4. PICK d \in DealId : d = req[r].deal
  BY <1>3
<1>5. d \in DealsOwnedBy(u) <=> u = Owner[req[r].cargo]
  BY <1>3, <1>4 DEF DealsOwnedBy
<1>6. deals[d].amount = req[r].old.amount /\ deals[d].amount \in Nat
  BY <1>1, <1>3, <1>4 DEF SerialInv, CopyCurrent, TypeOK, DealRow
<1>7. PaidIn(u)' = PaidIn(u) + (IF d \in DealsOwnedBy(u) /\ in = 1
                                THEN deals[d].amount ELSE 0)
  BY <1>1, <1>2, <1>4, BookIn
<1>8. BookedOut(u)' = BookedOut(u) + (IF d \in DealsOwnedBy(u) /\ out = 1
                                      THEN deals[d].amount ELSE 0)
  BY <1>1, <1>2, <1>4, BookOut
<1> QED BY <1>5, <1>6, <1>7, <1>8

\* A created deal has booked nothing.
LEMMA CreateSerial ==
  ASSUME OneAtATime, SerialInv, IInv', NEW r \in Slot, CommitCreate(r)
  PROVE  SerialInv'
<1> DEFINE q == req[r]
<1>1. /\ q.op = "create" /\ q.step = "commit" /\ req' = [req EXCEPT ![r] = Idle]
      /\ wallets' = SavedWallets(q, q.purse) /\ events' = events
      /\ deals' = [deals EXCEPT ![q.deal] =
           [cargo |-> q.cargo, carrier |-> q.row.carrier, amount |-> q.amount,
            status |-> "payment_pending"]]
  BY DEF CommitCreate, Committing
<1>2. TypeOK /\ TypeOK' /\ IInv /\ Accrues
  <2>1. Next
    BY DEF Next, Progress
  <2> QED BY <2>1, StepAccrues DEF SerialInv, IInv
<1>3. q.deal \in 1..lastId /\ deals[q.deal].status = "none"
  BY <1>1, <1>2 DEF IInv, IdReserved
<1>4. PICK d \in DealId : d = q.deal
  BY <1>2, <1>3, EscrowAssumption DEF TypeOK, DealId
<1>5. events[d].funded = 0
  BY <1>2, <1>3, <1>4 DEF IInv, DealConsistent
<1>6. ASSUME NEW u \in User PROVE PaidIn(u)' = PaidIn(u)
  <2> DEFINE F == [e \in DealId |-> InFor(e)]
             G == [e \in DealId |-> InFor(e)']
             S == DealsOwnedBy(u)
             T == DealsOwnedBy(u)'
  <2>1. PaidIn(u) = SumFunctionOnSet(F, S) /\ PaidIn(u)' = SumFunctionOnSet(G, T)
    BY DEF PaidIn, InFor
  <2>2. S = T \ {d} /\ S \subseteq DealId /\ T \subseteq DealId
    <3>1. \A e \in DealId : e # d => deals'[e] = deals[e]
      BY <1>1, <1>2, <1>4 DEF TypeOK
    <3> QED BY <1>3, <1>4, <3>1 DEF DealsOwnedBy
  <2>3. \A e \in DealId : e # d => InFor(e)' = InFor(e)
    BY <1>1, <1>2, <1>4 DEF InFor, TypeOK
  <2>4. IsFiniteSet(T) /\ \A e \in T : G[e] \in Nat
    BY <1>2, SummandsNext DEF SummandsOK
  <2>5. SumFunctionOnSet(G, T) = SumFunctionOnSet(G, S)
    <3>1. CASE d \in T
      <4>1. G[d] = 0
        <5>1. InFor(d)' = events'[d].funded * deals'[d].amount
          BY DEF InFor
        <5>2. deals'[d].amount \in Nat /\ events'[d].funded = 0
          BY <1>1, <1>2, <1>5 DEF TypeOK, DealRow
        <5> QED BY <5>1, <5>2
      <4>2. SumFunctionOnSet(G, T) = G[d] + SumFunctionOnSet(G, T \ {d})
        <5> HIDE DEF G, T, S
        <5> QED BY <2>4, <3>1, SumOfOneMore
      <4>3. SumFunctionOnSet(G, T) \in Nat /\ SumFunctionOnSet(G, S) \in Nat
        <5>1. IsFiniteSet(S) /\ \A e \in S : G[e] \in Nat
          BY <2>2, <2>4, FS_Subset
        <5> HIDE DEF G, T, S
        <5> QED BY <2>4, <5>1, SumIsNat
      <4> HIDE DEF G, T, S
      <4> QED BY <2>2, <4>1, <4>2, <4>3
    <3>2. CASE d \notin T
      BY <2>2, <3>2
    <3> QED BY <3>1, <3>2
  <2>6. SumFunctionOnSet(G, S) = SumFunctionOnSet(F, S)
    <3>1. \A e \in S : F[e] = G[e]
      BY <2>2, <2>3
    <3>2. IsFiniteSet(S)
      BY <2>2, <2>4, FS_Subset
    <3> HIDE DEF F, G, S, T
    <3> QED BY <3>1, <3>2, SumOfEqual
  <2> QED BY <2>1, <2>5, <2>6
<1>7. ASSUME NEW u \in User
      PROVE  /\ wallets'[u].frozen <= wallets'[u].balance
             /\ wallets'[u].frozen + BookedOut(u)' >= PaidIn(u)'
  <2>1. wallets'[u].balance = wallets[u].balance /\ wallets'[u].frozen = wallets[u].frozen
    BY <1>1, SerialWritten
  <2>2. BookedOut(u) <= BookedOut(u)'
    BY <1>2, SumsAccrue
  <2> QED BY <1>6, <2>1, <2>2, SerialNumbers
<1> QED BY <1>1, <1>7, CommitSerial

\* A booked payment is added to both columns of the client's wallet.
LEMMA FundSerial ==
  ASSUME OneAtATime, SerialInv, IInv', NEW r \in Slot, CommitFund(r)
  PROVE  SerialInv'
<1> DEFINE q == req[r]
           new == [u \in User |-> [q.purse[u] EXCEPT !.balance = @ + q.old.amount,
                                                     !.frozen = @ + q.old.amount]]
<1>1. /\ q.op = "fund" /\ q.step = "commit" /\ req' = [req EXCEPT ![r] = Idle]
      /\ deals' = SavedDeal(q, "funded", q.old.carrier)
      /\ wallets' = SavedWallets(q, new)
      /\ events' = [events EXCEPT ![q.deal].funded = @ + 1]
  BY DEF CommitFund, Committing
<1>2. IInv /\ TypeOK /\ q \in Request /\ q.deal \in DealId
  BY <1>1, CommitDeal DEF SerialInv, IInv, TypeOK
<1>3. /\ \A e \in DealId : e # q.deal => events'[e] = events[e]
      /\ events'[q.deal].funded = events[q.deal].funded + 1
      /\ events'[q.deal].released + events'[q.deal].refunded
           = events[q.deal].released + events[q.deal].refunded + 0
  <2>1. events[q.deal].released \in Nat /\ events[q.deal].refunded \in Nat
    BY <1>2 DEF TypeOK, EventCount
  <2>2. /\ \A e \in DealId : e # q.deal => events'[e] = events[e]
        /\ events'[q.deal].funded = events[q.deal].funded + 1
        /\ events'[q.deal].released = events[q.deal].released
        /\ events'[q.deal].refunded = events[q.deal].refunded
    BY <1>1, <1>2 DEF TypeOK, EventCount
  <2> QED BY <2>1, <2>2
<1>4. Touched(q) = {Owner[q.cargo]}
  BY <1>1 DEF Touched, TakesOver
<1>5. ASSUME NEW u \in User
      PROVE  /\ new[u].balance = q.purse[u].balance + q.old.amount
             /\ new[u].frozen = q.purse[u].frozen + q.old.amount
  <2> DEFINE b == q.purse[u].balance + q.old.amount
             f == q.purse[u].frozen + q.old.amount
  <2>1. new[u] = [q.purse[u] EXCEPT !.balance = b, !.frozen = f]
    OBVIOUS
  <2>2. q.purse[u] \in WalletRow
    BY <1>2 DEF Request
  <2> HIDE DEF b, f, new
  <2>3. new[u].balance = b /\ new[u].frozen = f
    BY <2>1, <2>2, WalletFields
  <2> QED BY <2>3 DEF b, f
<1> HIDE DEF new
<1>6. ASSUME NEW u \in User
      PROVE  /\ wallets'[u].frozen <= wallets'[u].balance
             /\ wallets'[u].frozen + BookedOut(u)' >= PaidIn(u)'
  <2>1. /\ q.old.amount \in Nat
        /\ PaidIn(u)' = PaidIn(u) + (IF u = Owner[q.cargo] /\ 1 = 1 THEN q.old.amount ELSE 0)
        /\ BookedOut(u)' = BookedOut(u) + (IF u = Owner[q.cargo] /\ 0 = 1
                                           THEN q.old.amount ELSE 0)
    BY <1>1, <1>3, CommitSums DEF Status
  <2>2. /\ u = Owner[q.cargo] => /\ wallets'[u].balance = wallets[u].balance + q.old.amount
                                 /\ wallets'[u].frozen = wallets[u].frozen + q.old.amount
        /\ u # Owner[q.cargo] => wallets'[u] = wallets[u]
    BY <1>1, <1>4, <1>5, SerialWritten
  <2> QED BY <2>1, <2>2, SerialNumbers
<1> QED BY <1>1, <1>6, CommitSerial

\* A mark and a dispute book nothing and change no balance.
LEMMA PlainSerial ==
  ASSUME OneAtATime, SerialInv, IInv', NEW r \in Slot, CommitMark(r) \/ CommitDispute(r)
  PROVE  SerialInv'
<1> DEFINE q == req[r]
<1>1. /\ q.op # "create" /\ q.step = "commit" /\ req' = [req EXCEPT ![r] = Idle]
      /\ events' = events
      /\ wallets' = SavedWallets(q, q.purse) \/ wallets' = wallets
  BY DEF CommitMark, CommitDispute, Committing
<1>2. PICK st, ca : st \in Status /\ deals' = SavedDeal(q, st, ca)
  <2>1. \E st \in Status : \E ca : deals' = SavedDeal(q, st, ca)
    BY DEF CommitMark, CommitDispute, Status
  <2> QED BY <2>1
<1>3. IInv /\ TypeOK /\ q.deal \in DealId
  BY <1>1, CommitDeal DEF SerialInv, IInv
<1>4. /\ events'[q.deal].funded = events[q.deal].funded + 0
      /\ events'[q.deal].released + events'[q.deal].refunded
           = events[q.deal].released + events[q.deal].refunded + 0
  BY <1>1, <1>3 DEF TypeOK, EventCount
<1>5. ASSUME NEW u \in User
      PROVE  /\ wallets'[u].frozen <= wallets'[u].balance
             /\ wallets'[u].frozen + BookedOut(u)' >= PaidIn(u)'
  <2>1. /\ q.old.amount \in Nat
        /\ PaidIn(u)' = PaidIn(u) + (IF u = Owner[q.cargo] /\ 0 = 1 THEN q.old.amount ELSE 0)
        /\ BookedOut(u)' = BookedOut(u) + (IF u = Owner[q.cargo] /\ 0 = 1
                                           THEN q.old.amount ELSE 0)
    BY <1>1, <1>2, <1>4, CommitSums
  <2>2. wallets'[u].balance = wallets[u].balance /\ wallets'[u].frozen = wallets[u].frozen
    BY <1>1, SerialWritten
  <2> QED BY <2>1, <2>2, SerialNumbers
<1> QED BY <1>1, <1>5, CommitSerial

\* What a debit leaves: no less than the difference, and the order of
\* the two columns.
LEMMA DebitOrder ==
  \A a, b, c \in Nat : b <= a => /\ Monus(b, c) <= Monus(a, c)
                                 /\ Monus(b, c) + c >= b
                                 /\ Monus(a, c) \in Nat /\ Monus(b, c) \in Nat
BY DEF Monus

\* A release takes the amount off the client, and pays the carrier's share.
LEMMA ReleaseSerial ==
  ASSUME OneAtATime, SerialInv, IInv', NEW r \in Slot, CommitRelease(r)
  PROVE  SerialInv'
<1> DEFINE q == req[r]
<1>1. /\ q.op \in Releasing /\ q.step = "commit" /\ req' = [req EXCEPT ![r] = Idle]
      /\ deals' = SavedDeal(q, "released", q.old.carrier)
      /\ wallets' = SavedWallets(q, Released(q))
      /\ events' = [events EXCEPT ![q.deal].released = @ + 1]
  BY DEF CommitRelease, Committing, Releasing
<1>2. IInv /\ TypeOK /\ q \in Request /\ q.deal \in DealId /\ q.op # "create"
  BY <1>1, CommitDeal DEF SerialInv, IInv, TypeOK, Releasing
<1>3. /\ \A e \in DealId : e # q.deal => events'[e] = events[e]
      /\ events'[q.deal].funded = events[q.deal].funded + 0
      /\ events'[q.deal].released + events'[q.deal].refunded
           = events[q.deal].released + events[q.deal].refunded + 1
  BY <1>1, <1>2 DEF TypeOK, EventCount
<1>4. Touched(q) = {Owner[q.cargo], Payee(q)}
  BY <1>1 DEF Touched, TakesOver, Releasing
<1>5. ASSUME NEW u \in User
      PROVE  /\ wallets'[u].frozen <= wallets'[u].balance
             /\ wallets'[u].frozen + BookedOut(u)' >= PaidIn(u)'
  <2>1. /\ q.old.amount \in Nat
        /\ PaidIn(u)' = PaidIn(u) + (IF u = Owner[q.cargo] /\ 0 = 1 THEN q.old.amount ELSE 0)
        /\ BookedOut(u)' = BookedOut(u) + (IF u = Owner[q.cargo] /\ 1 = 1
                                           THEN q.old.amount ELSE 0)
    BY <1>1, <1>2, <1>3, CommitSums DEF Status
  <2> DEFINE client == u = Owner[q.cargo]
             rest == IF client THEN Monus(q.purse[u].balance, q.old.amount)
                     ELSE q.purse[u].balance
             b == IF u = Payee(q) THEN rest + CarrierShare(q.old.amount) ELSE rest
             f == IF client THEN Monus(q.purse[u].frozen, q.old.amount)
                  ELSE q.purse[u].frozen
  <2>2. Released(q)[u].balance = b /\ Released(q)[u].frozen = f
    <3>1. Released(q)[u] = [q.purse[u] EXCEPT !.balance = b, !.frozen = f]
      BY DEF Released
    <3>2. q.purse[u] \in WalletRow
      BY <1>2 DEF Request
    <3> HIDE DEF b, f
    <3> QED BY <3>1, <3>2, WalletFields
  <2>3. CarrierShare(q.old.amount) \in Nat
    BY <2>1, ShareType
  <2>4. CASE u \in Touched(q)
    <3>1. /\ wallets'[u].balance = b /\ wallets'[u].frozen = f
          /\ q.purse[u].balance = wallets[u].balance
          /\ q.purse[u].frozen = wallets[u].frozen
      BY <1>1, <2>2, <2>4, SerialWritten
    <3>2. /\ wallets[u].balance \in Nat /\ wallets[u].frozen \in Nat
          /\ wallets[u].frozen <= wallets[u].balance
      BY SerialNumbers
    <3>3. CASE client
      <4>1. /\ f <= rest /\ rest \in Nat /\ f \in Nat
            /\ f + q.old.amount >= wallets[u].frozen
        BY <2>1, <3>1, <3>2, <3>3, DebitOrder
      <4>2. rest <= b
        BY <2>3, <4>1
      <4>3. b \in Nat
        BY <2>3, <4>1
      <4> HIDE DEF f, b, rest
      <4> QED BY <2>1, <3>1, <3>3, <4>1, <4>2, <4>3, SerialNumbers
    <3>4. CASE ~client
      <4>1. f = wallets[u].frozen /\ wallets[u].balance <= b /\ b \in Nat
        BY <2>3, <3>1, <3>2, <3>4
      <4> HIDE DEF f, b, rest
      <4> QED BY <2>1, <3>1, <3>4, <4>1, SerialNumbers
    <3> QED BY <3>3, <3>4
  <2>5. CASE u \notin Touched(q)
    <3>1. wallets'[u] = wallets[u] /\ u # Owner[q.cargo]
      BY <1>1, <1>4, <2>5, SerialWritten
    <3> QED BY <2>1, <3>1, SerialNumbers
  <2> QED BY <2>4, <2>5
<1> QED BY <1>1, <1>5, CommitSerial

\* A cancellation of a held deal takes the amount off the client, any other nothing.
LEMMA CancelSerial ==
  ASSUME OneAtATime, SerialInv, IInv', NEW r \in Slot, CommitCancel(r)
  PROVE  SerialInv'
<1> DEFINE q == req[r]
           new == [u \in User |-> [q.purse[u] EXCEPT !.balance = Monus(@, q.old.amount),
                                                     !.frozen = Monus(@, q.old.amount)]]
           refund == IF q.old.status \in Held THEN 1 ELSE 0
<1>1. /\ q.op = "admin_cancel" /\ q.step = "commit" /\ req' = [req EXCEPT ![r] = Idle]
      /\ deals' = SavedDeal(q, "cancelled", q.old.carrier)
      /\ wallets' = SavedWallets(q, new)
      /\ events' = [events EXCEPT ![q.deal].refunded = @ + refund]
  BY DEF CommitCancel, Committing
<1>2. IInv /\ TypeOK /\ q \in Request /\ q.deal \in DealId
  BY <1>1, CommitDeal DEF SerialInv, IInv, TypeOK
<1>3. PICK k \in {0, 1} : k = refund
  OBVIOUS
<1>4. /\ k = 1 => Touched(q) = {Owner[q.cargo]}
      /\ k = 0 => Touched(q) = {}
  <2>1. q.op = "admin_cancel" /\ ~TakesOver(q)
    BY <1>1 DEF TakesOver
  <2> HIDE DEF q
  <2>2. q.old.status \in Held => Touched(q) = {Owner[q.cargo]}
    BY <2>1 DEF Touched
  <2>3. q.old.status \notin Held => Touched(q) = {}
    BY <2>1 DEF Touched
  <2> QED BY <1>3, <2>2, <2>3
<1>5. ASSUME NEW u \in User
      PROVE  /\ new[u].balance = Monus(q.purse[u].balance, q.old.amount)
             /\ new[u].frozen = Monus(q.purse[u].frozen, q.old.amount)
  <2> DEFINE b == Monus(q.purse[u].balance, q.old.amount)
             f == Monus(q.purse[u].frozen, q.old.amount)
  <2>1. new[u] = [q.purse[u] EXCEPT !.balance = b, !.frozen = f]
    OBVIOUS
  <2>2. q.purse[u] \in WalletRow
    BY <1>2 DEF Request
  <2> HIDE DEF b, f, new
  <2>3. new[u].balance = b /\ new[u].frozen = f
    BY <2>1, <2>2, WalletFields
  <2> QED BY <2>3 DEF b, f
<1> HIDE DEF new, refund
<1>6. /\ \A e \in DealId : e # q.deal => events'[e] = events[e]
      /\ events'[q.deal].funded = events[q.deal].funded + 0
      /\ events'[q.deal].released + events'[q.deal].refunded
           = events[q.deal].released + events[q.deal].refunded + k
  <2>1. /\ events[q.deal].funded \in Nat
        /\ events[q.deal].released \in Nat /\ events[q.deal].refunded \in Nat
    BY <1>2 DEF TypeOK, EventCount
  <2>2. /\ \A e \in DealId : e # q.deal => events'[e] = events[e]
        /\ events'[q.deal].funded = events[q.deal].funded
        /\ events'[q.deal].released = events[q.deal].released
        /\ events'[q.deal].refunded = events[q.deal].refunded + k
    BY <1>1, <1>2, <1>3 DEF TypeOK, EventCount
  <2> QED BY <2>1, <2>2
<1>7. ASSUME NEW u \in User
      PROVE  /\ wallets'[u].frozen <= wallets'[u].balance
             /\ wallets'[u].frozen + BookedOut(u)' >= PaidIn(u)'
  <2>1. /\ q.old.amount \in Nat
        /\ PaidIn(u)' = PaidIn(u) + (IF u = Owner[q.cargo] /\ 0 = 1 THEN q.old.amount ELSE 0)
        /\ BookedOut(u)' = BookedOut(u) + (IF u = Owner[q.cargo] /\ k = 1
                                           THEN q.old.amount ELSE 0)
    BY <1>1, <1>6, CommitSums DEF Status
  <2>2. /\ wallets[u].balance \in Nat /\ wallets[u].frozen \in Nat
        /\ wallets[u].frozen <= wallets[u].balance
    BY SerialNumbers
  <2>3. CASE u \in Touched(q)
    <3>1. /\ wallets'[u].balance = Monus(wallets[u].balance, q.old.amount)
          /\ wallets'[u].frozen = Monus(wallets[u].frozen, q.old.amount)
          /\ u = Owner[q.cargo] /\ k = 1
      BY <1>1, <1>4, <1>5, <2>3, SerialWritten
    <3>2. PaidIn(u)' = PaidIn(u) /\ BookedOut(u)' = BookedOut(u) + q.old.amount
      BY <2>1, <3>1, SerialNumbers
    <3>3. /\ wallets'[u].frozen <= wallets'[u].balance
          /\ wallets'[u].frozen + q.old.amount >= wallets[u].frozen
          /\ wallets'[u].frozen \in Nat
      <4> DEFINE c == q.old.amount
                 a == wallets[u].balance
                 b == wallets[u].frozen
      <4>1. a \in Nat /\ b \in Nat /\ c \in Nat /\ b <= a
        BY <2>1, <2>2
      <4>2. wallets'[u].balance = Monus(a, c) /\ wallets'[u].frozen = Monus(b, c)
        BY <3>1
      <4> HIDE DEF a, b, c
      <4>3. /\ Monus(b, c) <= Monus(a, c) /\ Monus(b, c) + c >= b
            /\ Monus(b, c) \in Nat
        BY <4>1, DebitOrder
      <4> QED BY <4>2, <4>3 DEF b, c
    <3> QED BY <2>1, <3>2, <3>3, SerialNumbers
  <2>4. CASE u \notin Touched(q)
    <3>1. wallets'[u] = wallets[u] /\ ~(u = Owner[q.cargo] /\ k = 1)
      BY <1>1, <1>4, <2>4, SerialWritten
    <3> QED BY <2>1, <3>1, SerialNumbers
  <2> QED BY <2>3, <2>4
<1> QED BY <1>1, <1>7, CommitSerial

\* A handler that gives up, and a wallet that is opened.
LEMMA AsideSerial ==
  ASSUME OneAtATime, SerialInv, IInv',
         \/ \E r \in Slot : CommitRaises(r) \/ BankRefuses(r) \/ Fail(r)
         \/ \E u \in User : OpenWallet(u)
  PROVE  SerialInv'
<1>1. ASSUME NEW r \in Slot, CommitRaises(r) \/ BankRefuses(r) \/ Fail(r) PROVE SerialInv'
  <2>1. req' = [req EXCEPT ![r] = Idle] /\ UNCHANGED <<deals, events, wallets>>
    BY <1>1 DEF CommitRaises, BankRefuses, Fail
  <2>2. req'[r] = Idle
    BY <2>1 DEF SerialInv, IInv, TypeOK
  <2> QED BY <2>1, <2>2, IdleCurrent, QuietSerial
<1>2. ASSUME NEW u \in User, OpenWallet(u) PROVE SerialInv'
  <2>1. UNCHANGED <<deals, events, req>>
    BY <1>2 DEF OpenWallet
  <2>2. \A v \in User : wallets'[v].balance = wallets[v].balance /\ wallets'[v].frozen = wallets[v].frozen
    BY <1>2 DEF OpenWallet, SerialInv, IInv, TypeOK, WalletRow
  <2>3. \A v : PaidIn(v)' = PaidIn(v) /\ BookedOut(v)' = BookedOut(v)
    BY <2>1 DEF PaidIn, BookedOut, DealsOwnedBy
  <2>4. WalletsAddUp'
    BY <2>2, <2>3 DEF SerialInv, WalletsAddUp, FrozenWithinBalance, NoCreditLost
  <2>5. ASSUME NEW s \in Slot PROVE CopyCurrent(s)'
    <3>1. CopyCurrent(s) /\ HandlerKnows(s) /\ req[s] \in Request
      BY DEF SerialInv, IInv, TypeOK
    <3>2. req[s].step \in {"insert", "commit"} => Touched(req[s]) \subseteq User
      BY <3>1, TouchedUsers DEF HandlerKnows
    <3> QED BY <2>1, <2>2, <3>1, <3>2 DEF CopyCurrent, HasRead
  <2> QED BY <2>4, <2>5 DEF SerialInv
<1> QED BY <1>1, <1>2

\* Every step of handlers served one at a time keeps the wallets in order.
LEMMA SerialNext == OneAtATime => (SerialInv /\ [Next]_vars => SerialInv')
<1> SUFFICES ASSUME OneAtATime, SerialInv, [Next]_vars PROVE SerialInv'
  OBVIOUS
<1>1. IInv /\ IInv'
  BY NextInv DEF SerialInv
<1>2. CASE UNCHANGED vars
  BY <1>1, <1>2 DEF vars, SerialInv, WalletsAddUp, FrozenWithinBalance, NoCreditLost, CopyCurrent,
                    HasRead, PaidIn, BookedOut, DealsOwnedBy
<1>3. ASSUME NEW u \in User, OpenWallet(u) PROVE SerialInv'
  BY <1>1, <1>3, AsideSerial
<1>4. ASSUME NEW r \in Slot, NEW o \in UserOp, NEW u \in User, NEW c \in Cargo,
             UserRequest(r, o, u, c)
      PROVE  SerialInv'
  BY <1>1, <1>4, StartsSerial
<1>5. ASSUME NEW r \in Slot, NEW d \in DealId, PaymentReported(r, d) \/ MockPayment(r, d)
      PROVE  SerialInv'
  BY <1>1, <1>5, StartsSerial DEF PaymentReported
<1>6. ASSUME NEW r \in Slot, NEW o \in AdminOp, NEW d \in DealId, AdminRequest(r, o, d)
      PROVE  SerialInv'
  BY <1>1, <1>6, StartsSerial DEF AdminRequest
<1>7. ASSUME NEW r \in Slot, Progress(r) \/ BankRefuses(r) \/ Fail(r) PROVE SerialInv'
  BY <1>1, <1>7, LoadsSerial, OnTheWaySerial, CreateSerial, FundSerial, PlainSerial,
     ReleaseSerial, CancelSerial, AsideSerial DEF Progress
<1> QED BY <1>2, <1>3, <1>4, <1>5, <1>6, <1>7 DEF Next

\* At the start nothing was paid and nothing is frozen.
LEMMA SerialInit == Init => SerialInv
<1> SUFFICES ASSUME Init PROVE SerialInv
  OBVIOUS
<1>1. IInv
  BY InitInv
<1>2. \A u \in User : DealsOwnedBy(u) = {}
  BY DEF Init, NoDeal, DealsOwnedBy
<1>3. \A u \in User : PaidIn(u) = 0 /\ BookedOut(u) = 0
  BY <1>2, SumOfNone DEF PaidIn, BookedOut
<1>4. \A u \in User : wallets[u].frozen = 0 /\ wallets[u].balance = 0
  BY DEF Init, NoWallet
<1>5. \A r \in Slot : CopyCurrent(r)
  BY DEF Init, CopyCurrent, HasRead, HasDeal, Idle
<1> QED BY <1>1, <1>3, <1>4, <1>5
        DEF SerialInv, WalletsAddUp, FrozenWithinBalance, NoCreditLost

\* The invariant of handlers served one at a time.
LEMMA Serially == ASSUME OneAtATime PROVE Spec => []SerialInv
<1>1. SerialInv /\ [Next]_vars => SerialInv'
  BY SerialNext
<1> QED BY <1>1, SerialInit, PTL DEF Spec

\* Served one at a time, the handlers of escrow.py keep what is frozen within the
\* balance and lose no credit, also when they die half-way.
THEOREM WalletsAreInOrder == ASSUME OneAtATime PROVE Spec => []WalletsAddUp
<1>1. SerialInv => WalletsAddUp
  BY DEF SerialInv
<1> QED BY <1>1, Serially, PTL

-----------------------------------------------------------------------------
(* Served one at a time, the handlers implement SafeDeal.                   *)

StatusOf == [d \in DealId |-> deals[d].status]
BookedFor == [d \in DealId |-> events[d].funded]

\* A commit of a handler of a deal writes the status to that deal alone.
LEMMA CommitsStatus ==
  ASSUME SerialInv, NEW r \in Slot, req[r].step = "commit", req[r].op # "create",
         NEW st \in Status, NEW ca, deals' = SavedDeal(req[r], st, ca)
  PROVE  /\ req[r].deal \in DealId
         /\ StatusOf' = [StatusOf EXCEPT ![req[r].deal] = st]
         /\ Admitted(req[r].op, StatusOf[req[r].deal])
<1>1. st # "none"
  BY DEF Status
<1>2. IInv /\ TypeOK
  BY DEF SerialInv, IInv
<1>3. HasRead(r) /\ req[r].deal \in DealId
  BY <1>2, CommitDeal
<1>4. req[r].old = deals[req[r].deal] /\ Admitted(req[r].op, req[r].old.status)
  BY <1>3 DEF SerialInv, CopyCurrent
<1>5. deals'[req[r].deal].status = st
  BY <1>1, <1>2, <1>3, <1>4, SavedDealKeeps DEF Changed
<1>6. \A d \in DealId : d # req[r].deal => deals'[d].status = deals[d].status
  BY <1>1, <1>2, <1>3, SavedDealKeeps
<1> QED BY <1>3, <1>4, <1>5, <1>6 DEF StatusOf

\* Every commit is the step of the safe deal it is named for.
LEMMA CommitImplements ==
  ASSUME SerialInv, NEW r \in Slot,
         \/ CommitFund(r) \/ CommitMark(r) \/ CommitRelease(r)
         \/ CommitDispute(r) \/ CommitCancel(r)
  PROVE  Promise!Next
<1>1. req[r].step = "commit" /\ req[r].op # "create" /\ payouts' = payouts
  BY DEF CommitFund, CommitMark, CommitRelease, CommitDispute, CommitCancel, Committing
<1>2. IInv /\ TypeOK /\ HandlerKnows(r)
  BY DEF SerialInv, IInv
<1>3. PICK d \in DealId : d = req[r].deal
  BY <1>1, <1>2, CommitDeal
<1>4. CASE CommitFund(r)
  <2>1. /\ req[r].op = "fund" /\ deals' = SavedDeal(req[r], "funded", req[r].old.carrier)
        /\ events' = [events EXCEPT ![d].funded = @ + 1]
    BY <1>3, <1>4 DEF CommitFund, Committing
  <2>2. /\ StatusOf' = [StatusOf EXCEPT ![d] = "funded"]
        /\ StatusOf[d] \in {"payment_pending", "disputed", "cancelled"}
    BY <1>1, <2>1, <1>3, CommitsStatus DEF Admitted, Status
  <2>3. BookedFor' = [BookedFor EXCEPT ![d] = @ + 1]
    BY <1>2, <1>3, <2>1 DEF BookedFor, TypeOK, EventCount
  <2>4. Promise!Book(d)
    BY <1>1, <2>2, <2>3 DEF Promise!Book, Promise!Become, StatusOf, BookedFor
  <2> QED BY <1>3, <2>4 DEF Promise!Next
<1>5. CASE CommitMark(r)
  <2>1. PICK ca : deals' = SavedDeal(req[r], "delivery_marked", ca)
    BY <1>5 DEF CommitMark
  <2>2. req[r].op = "mark" /\ events' = events
    BY <1>5 DEF CommitMark, Committing
  <2>3. StatusOf' = [StatusOf EXCEPT ![d] = "delivery_marked"] /\ StatusOf[d] = "funded"
    BY <1>1, <2>1, <2>2, <1>3, CommitsStatus DEF Admitted, Status
  <2>4. Promise!Deliver(d)
    BY <1>1, <2>2, <2>3 DEF Promise!Deliver, Promise!Become, StatusOf, BookedFor
  <2> QED BY <1>3, <2>4 DEF Promise!Next
<1>6. CASE CommitRelease(r)
  <2>1. /\ req[r].op \in Releasing
        /\ deals' = SavedDeal(req[r], "released", req[r].old.carrier)
        /\ events' = [events EXCEPT ![d].released = @ + 1]
    BY <1>3, <1>6 DEF CommitRelease, Committing, Releasing
  <2>2. /\ StatusOf' = [StatusOf EXCEPT ![d] = "released"]
        /\ StatusOf[d] = "delivery_marked"
    BY <1>1, <2>1, <1>3, CommitsStatus DEF Admitted, Status
  <2>3. payouts[d] > 0
    BY <1>1, <1>2, <1>3, <2>1 DEF HandlerKnows
  <2>4. BookedFor' = BookedFor
    BY <1>2, <1>3, <2>1 DEF BookedFor, TypeOK, EventCount
  <2>5. Promise!Release(d)
    BY <1>1, <2>2, <2>3, <2>4 DEF Promise!Release, Promise!Become, StatusOf, BookedFor
  <2> QED BY <1>3, <2>5 DEF Promise!Next
<1>7. CASE CommitDispute(r)
  <2>1. /\ req[r].op = "dispute" /\ events' = events
        /\ deals' = SavedDeal(req[r], "disputed", req[r].old.carrier)
    BY <1>7 DEF CommitDispute, Committing
  <2>2. StatusOf' = [StatusOf EXCEPT ![d] = "disputed"] /\ StatusOf[d] \in Promise!Live
    BY <1>1, <2>1, <1>3, CommitsStatus DEF Admitted, Status
  <2>3. Promise!Dispute(d)
    BY <1>1, <2>1, <2>2 DEF Promise!Dispute, Promise!Become, StatusOf, BookedFor
  <2> QED BY <1>3, <2>3 DEF Promise!Next
<1>8. CASE CommitCancel(r)
  <2>1. /\ req[r].op = "admin_cancel"
        /\ deals' = SavedDeal(req[r], "cancelled", req[r].old.carrier)
    BY <1>8 DEF CommitCancel, Committing
  <2>2. PICK n : events' = [events EXCEPT ![d].refunded = @ + n]
    BY <1>3, <1>8 DEF CommitCancel
  <2>3. StatusOf' = [StatusOf EXCEPT ![d] = "cancelled"] /\ StatusOf[d] \in Promise!Live
    BY <1>1, <2>1, <1>3, CommitsStatus DEF Admitted, Status
  <2>4. BookedFor' = BookedFor
    BY <1>2, <1>3, <2>2 DEF BookedFor, TypeOK, EventCount
  <2>5. Promise!Cancel(d)
    BY <1>1, <2>3, <2>4 DEF Promise!Cancel, Promise!Become, StatusOf, BookedFor
  <2> QED BY <1>3, <2>5 DEF Promise!Next
<1> QED BY <1>4, <1>5, <1>6, <1>7, <1>8

\* So is every other step, or it changes nothing the safe deal promises.
LEMMA StepImplements ==
  ASSUME SerialInv, [Next]_vars
  PROVE  [Promise!Next]_(Promise!vars)
<1>1. IInv /\ TypeOK
  BY DEF SerialInv, IInv
<1>2. CASE UNCHANGED <<deals, events, payouts>>
  BY <1>2 DEF Promise!vars
<1>3. ASSUME NEW r \in Slot, CommitCreate(r) PROVE Promise!Next
  <2>1. /\ req[r].op = "create" /\ req[r].step = "commit"
        /\ UNCHANGED <<events, payouts>>
        /\ deals' = [deals EXCEPT ![req[r].deal] =
             [cargo |-> req[r].cargo, carrier |-> req[r].row.carrier,
              amount |-> req[r].amount, status |-> "payment_pending"]]
    BY <1>3 DEF CommitCreate, Committing
  <2>2. req[r].deal \in 1..lastId /\ deals[req[r].deal].status = "none"
    BY <1>1, <2>1 DEF IInv, IdReserved
  <2>3. PICK d \in DealId : d = req[r].deal
    BY <1>1, <2>2, EscrowAssumption DEF TypeOK, DealId
  <2>4. /\ StatusOf' = [StatusOf EXCEPT ![d] = "payment_pending"]
        /\ StatusOf[d] = "none" /\ BookedFor' = BookedFor
    BY <1>1, <2>1, <2>2, <2>3 DEF StatusOf, BookedFor, TypeOK
  <2>5. Promise!Create(d)
    BY <2>1, <2>4 DEF Promise!Create, Promise!Become, StatusOf, BookedFor
  <2> QED BY <2>5 DEF Promise!Next
<1>4. ASSUME NEW r \in Slot, Payout(r) PROVE Promise!Next
  <2>1. /\ req[r].step = "payout" /\ UNCHANGED <<deals, events>>
        /\ payouts' = [payouts EXCEPT ![req[r].deal] = @ + 1]
    BY <1>4 DEF Payout
  <2>2. /\ req[r].op \in Releasing /\ HasRead(r) /\ req[r].deal \in DealId
        /\ req[r].old.status = "delivery_marked"
    BY <1>1, <2>1 DEF IInv, HandlerKnows, HasRead, HasDeal, Releasing
  <2>3. PICK d \in DealId : d = req[r].deal
    BY <2>2
  <2>4. deals[d].status = "delivery_marked"
    BY <2>2, <2>3 DEF SerialInv, CopyCurrent
  <2>5. Promise!PayOut(d)
    BY <2>1, <2>3, <2>4 DEF Promise!PayOut
  <2> QED BY <2>5 DEF Promise!Next
<1>5. ASSUME NEW r \in Slot, Progress(r) PROVE [Promise!Next]_(Promise!vars)
  BY <1>2, <1>3, <1>4, <1>5, CommitImplements
     DEF Progress, LoadDeal, LoadCargo, LoadWallets, InsertDeal, CommitRaises
<1>6. CASE Next /\ \A r \in Slot : ~Progress(r)
  BY <1>2, <1>6 DEF Next, UserRequest, PaymentReported, MockPayment, AdminRequest, ReadDeal,
                    BankRefuses, Fail, OpenWallet
<1>7. CASE UNCHANGED vars
  BY <1>2, <1>7 DEF vars
<1> QED BY <1>5, <1>6, <1>7

\* The tables start as an empty safe deal.
LEMMA StartImplements == Init => Promise!Init
BY DEF Init, Promise!Init, NoDeal

\* Served one at a time, the handlers of escrow.py keep the promise of a safe deal:
\* whatever they read and write in between, what the tables and the bank show moves
\* only by whole steps of SafeDeal.
THEOREM SafeDealIsKept == ASSUME OneAtATime PROVE Spec => KeepsPromise
<1>1. SerialInv /\ [Next]_vars => [Promise!Next]_(Promise!vars)
  BY StepImplements
<1> QED BY <1>1, Serially, StartImplements, PTL DEF Spec, KeepsPromise, Promise!Spec
=============================================================================
