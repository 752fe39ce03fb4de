------------------------------ MODULE Finance ------------------------------
(* The ledger of carriers, src/core/services/finance.py: transactions that  *)
(* the carrier moves between statuses at will, and the hourly job that      *)
(* warns of overdue payments and puts the dispatcher's phone on the black   *)
(* list.  Time is in grace periods.                                         *)
EXTENDS Integers

CONSTANTS
  Txn,       \* transactions; each is created at most once
  Phone,     \* phones of dispatchers
  NoPhone,   \* the post named no phone
  PhoneOf,   \* transaction -> phone of its feed event, or NoPhone
  Days,      \* payment_days of a request
  LastHour   \* bound of the clock

ASSUME FinanceAssumption ==
  /\ PhoneOf \in [Txn -> Phone \cup {NoPhone}]
  /\ NoPhone \notin Phone
  /\ Days \subseteq Nat /\ LastHour \in Nat

VARIABLES
  hour,      \* the clock
  ledger,    \* transaction -> [status, deadline, penalty]
  blacked,   \* rows of the black list made by the job: <<phone, transaction>>
  check,     \* the job: [since, todo, fined, rows], uncommitted
  tardy,     \* transactions ever unpaid a grace after the deadline (observed)
  toldBlocked \* transactions whose carrier was told of the block (observed)

financeVars == <<hour, ledger, blacked, check, tardy, toldBlocked>>

Unpaid == {"delivered", "docs_sent", "awaiting_payment"}
TxnStatus == Unpaid \cup {"paid", "disputed"}
NotCreated == [status |-> "none", deadline |-> 0, penalty |-> FALSE]
NoCheck == [since |-> -1, todo |-> {}, fined |-> {}, rows |-> {}]

Rows == Phone \X Txn
FinanceTypeOK ==
  /\ hour \in 0..LastHour
  /\ ledger \in [Txn -> [status : TxnStatus \cup {"none"}, deadline : Nat, penalty : BOOLEAN]]
  /\ blacked \subseteq Rows
  /\ check \in [since : Int, todo : SUBSET Txn, fined : SUBSET Txn, rows : SUBSET Rows]
  /\ tardy \subseteq Txn /\ toldBlocked \subseteq Txn

FinanceInit ==
  /\ hour = 0 /\ ledger = [t \in Txn |-> NotCreated]
  /\ blacked = {} /\ check = NoCheck /\ tardy = {} /\ toldBlocked = {}

\* PENALTY_GRACE_HOURS after the deadline.
Late(t, time) == time - ledger[t].deadline >= 1

Checking == check.since >= 0

Hour ==
  /\ hour < LastHour
  /\ hour' = hour + 1
  /\ tardy' = tardy \cup {t \in Txn : ledger[t].status \in Unpaid /\ Late(t, hour + 1)}
  /\ UNCHANGED <<ledger, blacked, check, toldBlocked>>

CreateTransaction(t, days) ==
  /\ ledger[t] = NotCreated
  /\ ledger' = [ledger EXCEPT ![t] =
       [status |-> "delivered", deadline |-> hour + days, penalty |-> FALSE]]
  /\ UNCHANGED <<hour, blacked, check, tardy, toldBlocked>>

\* As if a status were not looked up among the valid ones.
AnyWord(t, s) ==
  /\ ledger[t] # NotCreated
  /\ \E word \in {s, "shipped"} : ledger' = [ledger EXCEPT ![t].status = word]
  /\ UNCHANGED <<hour, blacked, check, tardy, toldBlocked>>

\* Any status to any other, also while the job runs.
UpdateStatus(t, s) ==
  /\ ledger[t] # NotCreated
  /\ ledger' = [ledger EXCEPT ![t].status = s]
  /\ tardy' = tardy \cup (IF s \in Unpaid /\ Late(t, hour) THEN {t} ELSE {})
  /\ UNCHANGED <<hour, blacked, check, toldBlocked>>

\* As if disputed and paid ones were read too.
AnyStatus(t) == ledger[t].status # "none"

Overdue(t) == ledger[t].status \in Unpaid

\* The rows as they are when the query runs; "now" is taken just before.
StartCheck ==
  /\ ~Checking
  /\ LET due == {t \in Txn : Overdue(t) /\ ledger[t].deadline < hour /\ ~ledger[t].penalty}
     IN check' = IF due = {} THEN NoCheck ELSE [NoCheck EXCEPT !.since = hour, !.todo = due]
  /\ UNCHANGED <<hour, ledger, blacked, tardy, toldBlocked>>

Unlisted(t) == \A r \in blacked \cup check.rows : r[1] # PhoneOf[t]

\* One transaction: the row and the mark stay in the session, and the
\* carrier is told whether or not there was a phone to block.
Penalize(t) ==
  LET fined == Late(t, check.since) /\ PhoneOf[t] # NoPhone
  IN /\ t \in check.todo
     /\ check' = [check EXCEPT !.todo = @ \ {t},
          !.fined = @ \cup (IF fined THEN {t} ELSE {}),
          !.rows = @ \cup (IF fined /\ Unlisted(t) THEN {<<PhoneOf[t], t>>} ELSE {})]
     /\ toldBlocked' = toldBlocked \cup (IF Late(t, check.since) THEN {t} ELSE {})
     /\ UNCHANGED <<hour, ledger, blacked, tardy>>

\* One commit at the end of the job.
CommitCheck ==
  /\ Checking /\ check.todo = {}
  /\ ledger' = [t \in Txn |-> IF t \in check.fined THEN [ledger[t] EXCEPT !.penalty = TRUE]
                                                  ELSE ledger[t]]
  /\ blacked' = blacked \cup check.rows
  /\ check' = NoCheck
  /\ UNCHANGED <<hour, tardy, toldBlocked>>

\* The job dies, or the commit fails: what was told stays told.
FailCheck ==
  /\ Checking /\ check' = NoCheck
  /\ UNCHANGED <<hour, ledger, blacked, tardy, toldBlocked>>

FinanceNext ==
  \/ Hour
  \/ \E t \in Txn, d \in Days : CreateTransaction(t, d)
  \/ \E t \in Txn, s \in TxnStatus : UpdateStatus(t, s)
  \/ StartCheck
  \/ \E t \in Txn : Penalize(t)
  \/ CommitCheck \/ FailCheck

FinanceSpec == FinanceInit /\ [][FinanceNext]_financeVars

\* BlockedOnceAndLate: a dispatcher's phone is put on the black list once,
\* and for a transaction that really was unpaid a grace period after its
\* deadline, though it may have been paid since the job read it.
BlockedOnceAndLate ==
  /\ \A r \in blacked : r[2] \in tardy
  /\ \A r, q \in blacked : r[1] = q[1] => r = q
=============================================================================
