------------------------------- MODULE Escrow -------------------------------
(***************************************************************************)
(* The safe-deal (escrow) component: src/api/escrow.py, the escrow          *)
(* pages of src/admin/routes.py and the bank adapter                        *)
(* src/core/services/banking.py.                                            *)
(*                                                                          *)
(* Every HTTP handler runs in a slot.  It SELECTs rows into its session,    *)
(* decides on those copies, awaits the bank or the wallets, and at commit   *)
(* UPDATEs the columns whose value it changed with values computed from     *)
(* the copies: READ COMMITTED, no row lock, no version column.  With one    *)
(* slot the handlers are serial; with more they interleave at every await.  *)
(***************************************************************************)
EXTENDS Naturals, Functions

CONSTANTS
  Cargo,         \* cargos, each with one owner
  User,          \* Telegram users: owners and carriers
  Owner,         \* cargos.owner_id, never changed by these handlers
  Amount,        \* the prices a deal may be created for, in roubles
  FeePercent,    \* settings.escrow_platform_fee_percent
  Slot,          \* handlers that may be in flight at the same time
  NoUser,        \* NULL in a carrier_id column
  FirstCarrier,  \* the carrier_id a cargo may have when escrow starts
  NoCargo,
  AwareAccepted, \* the driver stores an aware datetime in a naive column
  HandlersFail,  \* a handler may die at any await (restart, lost connection)
  MaxDeals,      \* bound: ids the escrow_deals sequence may hand out
  MaxRepeats     \* bound, per deal: webhook deliveries, payouts, refunds

ASSUME EscrowAssumption ==
  /\ Owner \in [Cargo -> User]
  /\ Amount \subseteq Nat \ {0}
  /\ FeePercent \in Nat
  /\ NoUser \notin User
  /\ FirstCarrier \subseteq User \cup {NoUser}
  /\ NoCargo \notin Cargo
  /\ AwareAccepted \in BOOLEAN
  /\ HandlersFail \in BOOLEAN
  /\ MaxDeals \in Nat
  /\ MaxRepeats \in Nat

VARIABLES
  cargos,     \* table cargos: payment_status and carrier_id
  deals,      \* table escrow_deals, by id
  wallets,    \* table user_wallets
  events,     \* table escrow_events: rows per deal that moved money
  lastId,     \* the escrow_deals id sequence (not rolled back)
  req,        \* the handler in each slot: where it stands, what it has read
  deliveries, \* external: times the payment of a deal was reported to us
  payouts     \* external: times the bank was told to pay a deal's carrier

vars == <<cargos, deals, wallets, events, lastId, req, deliveries, payouts>>

-----------------------------------------------------------------------------
(* Rows                                                                     *)

DealId == 1..MaxDeals

\* EscrowStatus; "none" is the row that does not exist.
Status == {"payment_pending", "funded", "delivery_marked",
           "released", "disputed", "cancelled"}

\* The status sets of the handlers' guards.
Open == {"payment_pending", "funded", "delivery_marked"}
Secured == {"funded", "delivery_marked", "released"}
Held == {"funded", "delivery_marked", "disputed"}
Closed == {"released", "cancelled"}

\* mutants: delivery of an unpaid deal; release of a disputed or a funded deal
DeliverableUnpaid == {"payment_pending", "funded"}
ReleasableDisputed == {"delivery_marked", "disputed"}
ReleasableFunded == {"funded", "delivery_marked"}

Deliverable == {"funded"}
Releasable == {"delivery_marked"}

PaymentStatus == Status \cup {"unsecured"}
MaybeUser == User \cup {NoUser}

CargoRow == [payment : PaymentStatus, carrier : MaybeUser]
DealRow == [cargo : Cargo \cup {NoCargo}, carrier : MaybeUser, amount : Nat,
            status : Status \cup {"none"}]
WalletRow == [open : BOOLEAN, balance : Nat, frozen : Nat]
EventCount == [funded : Nat, released : Nat, refunded : Nat]

NoDeal == [cargo |-> NoCargo, carrier |-> NoUser, amount |-> 0,
           status |-> "none"]
NoWallet == [open |-> FALSE, balance |-> 0, frozen |-> 0]
BlankCargo == [payment |-> "unsecured", carrier |-> NoUser]

UserOp == {"create", "mark", "release", "dispute", "refund"}
AdminOp == {"admin_release", "admin_dispute", "admin_cancel"}
Op == UserOp \cup AdminOp \cup {"fund"}
Step == {"load_deal", "load_cargo", "payout", "wallets", "insert", "commit"}

\* One handler: row, old and purse are its session's copies of the cargo,
\* the deal and the wallets.
Request == [op : Op \cup {"none"}, step : Step \cup {"idle"},
            caller : MaybeUser, cargo : Cargo \cup {NoCargo},
            deal : DealId \cup {0}, amount : Nat,
            row : CargoRow, old : DealRow, purse : [User -> WalletRow]]

Idle == [op |-> "none", step |-> "idle", caller |-> NoUser,
         cargo |-> NoCargo, deal |-> 0, amount |-> 0,
         row |-> BlankCargo, old |-> NoDeal, purse |-> [u \in User |-> NoWallet]]

-----------------------------------------------------------------------------
(* Amounts                                                                  *)

\* mutant: the wallet debit without its max(..., 0)
Unclamped(a, b) == a - b

\* max(a - b, 0)
Monus(a, b) == IF a > b THEN a - b ELSE 0

\* int(round(amount * percent / 100)): Python rounds a half to the even side.
PlatformFee(a) ==
  LET q == (a * FeePercent) \div 100
      r == (a * FeePercent) % 100
  IN  IF r > 50 \/ (r = 50 /\ q % 2 = 1) THEN q + 1 ELSE q

CarrierShare(a) == Monus(a, PlatformFee(a))

-----------------------------------------------------------------------------
(* What the handlers read and decide                                        *)

DealsOf(c) == {d \in DealId : deals[d].cargo = c /\ deals[d].status # "none"}

\* SELECT ... WHERE cargo_id ORDER BY id DESC LIMIT 1; 0 when there is none.
IsLatest(d, c) == \/ d = 0 /\ DealsOf(c) = {}
                  \/ d \in DealsOf(c) /\ \A e \in DealsOf(c) : e <= d

RowOf(d) == IF d = 0 THEN NoDeal ELSE deals[d]

\* The status guard of each handler, on the copy of the deal it read.
Admits(o, s) ==
  CASE o = "create" -> s \notin Open
    [] o = "fund" -> s \notin Secured
    [] o = "mark" -> s \in Deliverable
    [] o \in {"release", "admin_release"} -> s \in Releasable
    [] o \in {"dispute", "refund"} -> s \notin Closed \cup {"none"}
    [] o = "admin_dispute" -> s \notin Closed \cup {"disputed"}
    [] o = "admin_cancel" -> s \notin Closed

\* Who may call a user handler on cargo c.
MayCall(o, u, c) ==
  LET parties == {Owner[c], cargos[c].carrier}
  IN  CASE o \in {"create", "release", "refund"} -> u = Owner[c]
        [] o = "dispute" -> u \in parties
        [] o = "mark" -> u \in parties \/ cargos[c].carrier = NoUser

\* A third party who marks the delivery of a cargo without a carrier becomes
\* its carrier.
TakesOver(q) ==
  q.op = "mark" /\ q.row.carrier = NoUser /\ q.caller \notin {Owner[q.cargo], NoUser}

\* deal.carrier_id or cargo.carrier_id or deal.client_id
Payee(q) == IF q.old.carrier # NoUser THEN q.old.carrier
            ELSE IF q.row.carrier # NoUser THEN q.row.carrier
            ELSE Owner[q.cargo]

\* The users whose wallet the handler passes to _ensure_wallet.
Touched(q) ==
  CASE q.op = "create" -> {Owner[q.cargo], q.row.carrier} \ {NoUser}
    [] q.op = "fund" -> {Owner[q.cargo]}
    [] q.op \in {"release", "admin_release"} -> {Owner[q.cargo], Payee(q)}
    [] q.op = "admin_cancel" /\ q.old.status \in Held -> {Owner[q.cargo]}
    [] TakesOver(q) -> {q.caller}
    [] OTHER -> {}

\* mutant: the deal is released without telling the bank
UnpaidRelease(q) == IF Touched(q) # {} THEN "wallets" ELSE "commit"

\* Where a handler whose guard passed goes next.
AfterGuard(q) == IF q.op \in {"release", "admin_release"} THEN "payout"
                 ELSE IF Touched(q) # {} THEN "wallets"
                 ELSE "commit"

\* Continue if the guard admits the deal, else return early.  From here on the
\* three handlers that open a dispute are one, and only a caller who takes the
\* cargo over matters.
Decide(q) ==
  IF Admits(q.op, q.old.status)
  THEN [q EXCEPT !.step = AfterGuard(q),
                 !.op = IF @ \in {"refund", "admin_dispute"} THEN "dispute" ELSE @,
                 !.caller = IF TakesOver(q) THEN @ ELSE NoUser]
  ELSE Idle

-----------------------------------------------------------------------------
(* The session's unit of work: an UPDATE carries only changed columns.      *)

Changed(now, seen, new) == IF new = seen THEN now ELSE new

SavedCargo(q, payment, carrier) ==
  [cargos EXCEPT ![q.cargo] =
     [payment |-> Changed(@.payment, q.row.payment, payment),
      carrier |-> Changed(@.carrier, q.row.carrier, carrier)]]

SavedDeal(q, status, carrier) ==
  LET now == deals[q.deal]
  IN  [deals EXCEPT ![q.deal] =
         [now EXCEPT !.status = Changed(now.status, q.old.status, status),
                     !.carrier = Changed(now.carrier, q.old.carrier, carrier)]]

\* new[u] is the handler's final copy of user u's wallet.
SavedWallets(q, new) ==
  [u \in User |->
     IF u \notin Touched(q) THEN wallets[u]
     ELSE [open |-> TRUE,
           balance |-> Changed(wallets[u].balance, q.purse[u].balance, new[u].balance),
           frozen |-> Changed(wallets[u].frozen, q.purse[u].frozen, new[u].frozen)]]

\* INSERT of a wallet that another handler has inserted meanwhile.
WalletClash(q) ==
  \E u \in Touched(q) : ~q.purse[u].open /\ wallets[u].open

\* datetime.now(UTC) into a TIMESTAMP WITHOUT TIME ZONE column.
StampRejected(q) == q.op \in {"fund", "release"} /\ ~AwareAccepted

Committing(r, ops) == /\ req[r].step = "commit"
                      /\ req[r].op \in ops
                      /\ ~WalletClash(req[r])
                      /\ ~StampRejected(req[r])
                      /\ req' = [req EXCEPT ![r] = Idle]

-----------------------------------------------------------------------------
Init == /\ cargos \in [Cargo -> [payment : {"unsecured"}, carrier : FirstCarrier]]
        /\ deals = [d \in DealId |-> NoDeal]
        /\ wallets = [u \in User |-> NoWallet]
        /\ events = [d \in DealId |-> [funded |-> 0, released |-> 0, refunded |-> 0]]
        /\ lastId = 0
        /\ req = [r \in Slot |-> Idle]
        /\ deliveries = [d \in DealId |-> 0]
        /\ payouts = [d \in DealId |-> 0]

(* Requests arrive.                                                         *)

\* create, mark-delivered, release, dispute, request-refund: the cargo is
\* read first and the caller checked against it.
UserRequest(r, o, u, c) ==
  /\ req[r].step = "idle"
  /\ MayCall(o, u, c)
  /\ \E a \in IF o = "create" THEN Amount ELSE {0} :
       req' = [req EXCEPT ![r] =
         [Idle EXCEPT !.op = o, !.step = "load_deal", !.caller = u,
                      !.cargo = c, !.amount = a, !.row = cargos[c]]]
  /\ UNCHANGED <<cargos, deals, wallets, events, lastId, deliveries, payouts>>

\* The deal a by-id handler (webhook, admin) reads first.
ReadDeal(r, o, d) ==
  /\ req[r].step = "idle"
  /\ deals[d].status # "none"
  /\ req' = [req EXCEPT ![r] =
       [Idle EXCEPT !.op = o, !.step = "load_cargo", !.cargo = deals[d].cargo,
                    !.deal = d, !.old = deals[d]]]
  /\ UNCHANGED <<cargos, deals, wallets, events, lastId, payouts>>

\* The bank reports the payment of deal d, perhaps not for the first time
\* and however late; the amount is the one the payment link was made for.
PaymentReported(r, d) ==
  /\ deliveries[d] < MaxRepeats
  /\ deliveries' = [deliveries EXCEPT ![d] = @ + 1]
  /\ ReadDeal(r, "fund", d)

\* The mock checkout page reads the cargo before the deal it was opened for.
MockPayment(r, d) ==
  /\ req[r].step = "idle"
  /\ deals[d].status # "none"
  /\ deliveries[d] < MaxRepeats
  /\ deliveries' = [deliveries EXCEPT ![d] = @ + 1]
  /\ req' = [req EXCEPT ![r] =
       [Idle EXCEPT !.op = "fund", !.step = "load_deal", !.cargo = deals[d].cargo,
                    !.deal = d, !.row = cargos[deals[d].cargo]]]
  /\ UNCHANGED <<cargos, deals, wallets, events, lastId, payouts>>

AdminRequest(r, o, d) ==
  /\ o = "admin_cancel" => events[d].refunded < MaxRepeats
  /\ ReadDeal(r, o, d)
  /\ UNCHANGED deliveries

(* A handler goes on.                                                       *)

LoadDeal(r) ==
  /\ req[r].step = "load_deal"
  /\ \E d \in DealId \cup {0} :
       /\ IF req[r].op = "fund" THEN d = req[r].deal ELSE IsLatest(d, req[r].cargo)
       /\ req' = [req EXCEPT ![r] = Decide([req[r] EXCEPT !.deal = d, !.old = RowOf(d)])]
  /\ UNCHANGED <<cargos, deals, wallets, events, lastId, deliveries, payouts>>

LoadCargo(r) ==
  /\ req[r].step = "load_cargo"
  /\ req' = [req EXCEPT ![r] = Decide([req[r] EXCEPT !.row = cargos[req[r].cargo]])]
  /\ UNCHANGED <<cargos, deals, wallets, events, lastId, deliveries, payouts>>

\* release_funds: the money leaves before anything is committed.
Payout(r) ==
  /\ req[r].step = "payout"
  /\ payouts[req[r].deal] < MaxRepeats
  /\ payouts' = [payouts EXCEPT ![req[r].deal] = @ + 1]
  /\ req' = [req EXCEPT ![r].step = "wallets"]
  /\ UNCHANGED <<cargos, deals, wallets, events, lastId, deliveries>>

LoadWallets(r) ==
  /\ req[r].step = "wallets"
  /\ req' = [req EXCEPT
       ![r].purse = [u \in User |-> IF u \in Touched(req[r]) THEN wallets[u]
                                    ELSE NoWallet],
       ![r].step = IF req[r].op = "create" THEN "insert" ELSE "commit"]
  /\ UNCHANGED <<cargos, deals, wallets, events, lastId, deliveries, payouts>>

\* flush() draws the id of the new deal; nobody sees the row before commit.
InsertDeal(r) ==
  /\ req[r].step = "insert"
  /\ lastId < MaxDeals
  /\ lastId' = lastId + 1
  /\ req' = [req EXCEPT ![r].deal = lastId + 1, ![r].step = "commit"]
  /\ UNCHANGED <<cargos, deals, wallets, events, deliveries, payouts>>

CommitCreate(r) ==
  LET q == req[r]
  IN  /\ Committing(r, {"create"})
      /\ deals' = [deals EXCEPT ![q.deal] =
           [cargo |-> q.cargo, carrier |-> q.row.carrier, amount |-> q.amount,
            status |-> "payment_pending"]]
      /\ cargos' = SavedCargo(q, "payment_pending", q.row.carrier)
      /\ wallets' = SavedWallets(q, q.purse)
      /\ UNCHANGED <<events, lastId, deliveries, payouts>>

CommitFund(r) ==
  LET q == req[r]
  IN  /\ Committing(r, {"fund"})
      /\ deals' = SavedDeal(q, "funded", q.old.carrier)
      /\ cargos' = SavedCargo(q, "funded", q.row.carrier)
      /\ wallets' = SavedWallets(q,
           [u \in User |-> [q.purse[u] EXCEPT !.balance = @ + q.old.amount,
                                              !.frozen = @ + q.old.amount]])
      /\ events' = [events EXCEPT ![q.deal].funded = @ + 1]
      /\ UNCHANGED <<lastId, deliveries, payouts>>

CommitMark(r) ==
  LET q == req[r]
      row == IF TakesOver(q) THEN q.caller ELSE q.row.carrier
      carrier == IF TakesOver(q) THEN q.caller ELSE q.old.carrier
  IN  /\ Committing(r, {"mark"})
      /\ deals' = SavedDeal(q, "delivery_marked", carrier)
      /\ cargos' = SavedCargo(q, "delivery_marked", row)
      /\ wallets' = SavedWallets(q, q.purse)
      /\ UNCHANGED <<events, lastId, deliveries, payouts>>

\* mutants: the carrier's share is frozen; the release clears all the client has
\* frozen
ReleasedToFrozen(q) ==
  [u \in User |->
     [q.purse[u] EXCEPT
        !.balance = @ + CarrierShare(q.old.amount),
        !.frozen = IF u = Payee(q) THEN @ + CarrierShare(q.old.amount) ELSE @]]
ReleasedAllFrozen(q) == [u \in User |-> [q.purse[u] EXCEPT !.frozen = 0]]

\* The client's and the carrier's wallet are one row when they are one user.
Released(q) ==
  [u \in User |->
     LET client == u = Owner[q.cargo]
         rest == IF client THEN Monus(q.purse[u].balance, q.old.amount)
                 ELSE q.purse[u].balance
     IN  [q.purse[u] EXCEPT
            !.balance = IF u = Payee(q) THEN rest + CarrierShare(q.old.amount) ELSE rest,
            !.frozen = IF client THEN Monus(@, q.old.amount) ELSE @]]

CommitRelease(r) ==
  LET q == req[r]
  IN  /\ Committing(r, {"release", "admin_release"})
      /\ deals' = SavedDeal(q, "released", q.old.carrier)
      /\ cargos' = SavedCargo(q, "released", q.row.carrier)
      /\ wallets' = SavedWallets(q, Released(q))
      /\ events' = [events EXCEPT ![q.deal].released = @ + 1]
      /\ UNCHANGED <<lastId, deliveries, payouts>>

CommitDispute(r) ==
  LET q == req[r]
  IN  /\ Committing(r, {"dispute"})
      /\ deals' = SavedDeal(q, "disputed", q.old.carrier)
      /\ cargos' = SavedCargo(q, "disputed", q.row.carrier)
      /\ UNCHANGED <<wallets, events, lastId, deliveries, payouts>>

\* A deal that is held is refunded from the client's wallet, as far as the
\* wallet goes.
CommitCancel(r) ==
  LET q == req[r]
      refund == IF q.old.status \in Held THEN 1 ELSE 0
  IN  /\ Committing(r, {"admin_cancel"})
      /\ deals' = SavedDeal(q, "cancelled", q.old.carrier)
      /\ cargos' = SavedCargo(q, "cancelled", q.row.carrier)
      /\ wallets' = SavedWallets(q,
           [u \in User |-> [q.purse[u] EXCEPT !.balance = Monus(@, q.old.amount),
                                              !.frozen = Monus(@, q.old.amount)]])
      /\ events' = [events EXCEPT ![q.deal].refunded = @ + refund]
      /\ UNCHANGED <<lastId, deliveries, payouts>>

\* The INSERT or UPDATE of the commit raises: everything is rolled back.
CommitRaises(r) ==
  /\ req[r].step = "commit"
  /\ WalletClash(req[r]) \/ StampRejected(req[r])
  /\ req' = [req EXCEPT ![r] = Idle]
  /\ UNCHANGED <<cargos, deals, wallets, events, lastId, deliveries, payouts>>

\* create_payment_link or release_funds raises, as the Tochka adapter always
\* does: nothing is paid and nothing is committed.
BankRefuses(r) ==
  /\ req[r].step \in {"insert", "payout"}
  /\ req' = [req EXCEPT ![r] = Idle]
  /\ UNCHANGED <<cargos, deals, wallets, events, lastId, deliveries, payouts>>

\* The handler dies at an await: restart, lost connection.
Fail(r) ==
  /\ HandlersFail
  /\ req[r].step # "idle"
  /\ req' = [req EXCEPT ![r] = Idle]
  /\ UNCHANGED <<cargos, deals, wallets, events, lastId, deliveries, payouts>>

\* get_my_wallet, _ensure_webapp_user: a user looks at an empty wallet.
OpenWallet(u) ==
  /\ ~wallets[u].open
  /\ wallets' = [wallets EXCEPT ![u].open = TRUE]
  /\ UNCHANGED <<cargos, deals, events, lastId, req, deliveries, payouts>>

Progress(r) ==
  \/ LoadDeal(r)
  \/ LoadCargo(r)
  \/ Payout(r)
  \/ LoadWallets(r)
  \/ InsertDeal(r)
  \/ CommitCreate(r)
  \/ CommitFund(r)
  \/ CommitMark(r)
  \/ CommitRelease(r)
  \/ CommitDispute(r)
  \/ CommitCancel(r)
  \/ CommitRaises(r)

Next ==
  \/ \E r \in Slot :
       \/ \E o \in UserOp, u \in User, c \in Cargo : UserRequest(r, o, u, c)
       \/ \E d \in DealId : PaymentReported(r, d) \/ MockPayment(r, d)
       \/ \E o \in AdminOp, d \in DealId : AdminRequest(r, o, d)
       \/ Progress(r)
       \/ BankRefuses(r)
       \/ Fail(r)
  \/ \E u \in User : OpenWallet(u)

Spec == Init /\ [][Next]_vars

\* uvicorn runs a handler it has started to its end.
FairSpec == Spec /\ \A r \in Slot : WF_vars(Progress(r))

-----------------------------------------------------------------------------
(* Properties.                                                              *)

\* Every table and every handler has the shape the ORM models give it.
TypeOK ==
  /\ cargos \in [Cargo -> CargoRow]
  /\ deals \in [DealId -> DealRow]
  /\ wallets \in [User -> WalletRow]
  /\ events \in [DealId -> EventCount]
  /\ lastId \in 0..MaxDeals
  /\ req \in [Slot -> Request]
  /\ deliveries \in [DealId -> Nat]
  /\ payouts \in [DealId -> Nat]

\* The bank is never told to pay a carrier for a deal whose payment was never
\* booked, however the handlers interleave or die (release_escrow,
\* admin_release_escrow).
NoPayoutWithoutPayment ==
  \A d \in DealId : payouts[d] > 0 => events[d].funded > 0

\* The "verified payment" badge of the feed (_verified_payment) is only shown
\* on a cargo one of whose deals has really been paid.
VerifiedPaymentIsReal ==
  \A c \in Cargo : cargos[c].payment \in Secured =>
    \E d \in DealId : deals[d].cargo = c /\ events[d].funded > 0

\* A deal marked released has been paid out: the status never runs ahead of
\* the bank.
ReleasedWasPaidOut ==
  \A d \in DealId : deals[d].status = "released" => payouts[d] > 0

DealsOwnedBy(u) ==
  {d \in DealId : deals[d].status # "none" /\ Owner[deals[d].cargo] = u}

\* Roubles booked in for the deals u is the client of.
PaidIn(u) ==
  SumFunctionOnSet([d \in DealId |-> events[d].funded * deals[d].amount], DealsOwnedBy(u))

\* Roubles booked out of u's wallet by releases and refunds.
BookedOut(u) ==
  SumFunctionOnSet(
    [d \in DealId |-> (events[d].released + events[d].refunded) * deals[d].amount],
    DealsOwnedBy(u))

\* Stale copies written back by racing handlers may lose money or undo a
\* debit, but they never leave more roubles frozen than clients have paid in.
FrozenWasPaidIn == \A u \in User : wallets[u].frozen <= PaidIn(u)

\* What is frozen is part of the balance, and never below zero (UserWallet).
FrozenWithinBalance ==
  \A u \in User : 0 <= wallets[u].frozen /\ wallets[u].frozen <= wallets[u].balance

\* Every booked payment is still frozen unless it was booked out: no credit
\* is lost.
NoCreditLost == \A u \in User : wallets[u].frozen + BookedOut(u) >= PaidIn(u)

\* Handled one at a time, the handlers keep the wallets in order, also when
\* they die half-way (_apply_funded, release_escrow, admin_cancel_escrow).
WalletsAddUp == FrozenWithinBalance /\ NoCreditLost

\* Handled one at a time, the handlers keep the promise of a safe deal.
Promise == INSTANCE SafeDeal WITH
             Deal <- DealId,
             status <- [d \in DealId |-> deals[d].status],
             booked <- [d \in DealId |-> events[d].funded],
             paidOut <- payouts
KeepsPromise == Promise!Spec

(* What the repository says of the component, and the code does not do.     *)

\* tests/test_escrow_api.py: a release is impossible unless the status is
\* DELIVERY_MARKED (release_escrow).
ReleaseOnlyWhenDelivered ==
  [][\A d \in DealId : events'[d].released > events[d].released =>
       deals[d].status = "delivery_marked"]_vars

\* The payment page: the funds are reserved for the safe deal
\* (complete_mock_payment, admin_cancel_escrow).
FundedIsReserved ==
  \A u \in User :
    SumFunctionOnSet([d \in DealId |-> deals[d].amount],
                     {d \in DealsOwnedBy(u) : deals[d].status \in {"funded", "delivery_marked"}})
    <= wallets[u].frozen

\* tests/test_escrow_api.py: a reported payment makes the deal funded
\* (complete_mock_payment, handle_tochka_webhook).
PaymentIsBooked ==
  \A d \in DealId : deliveries[d] > 0 ~> events[d].funded > 0
=============================================================================
