------------------------------ MODULE Premium ------------------------------
(* Premium paid with Telegram Stars, and the referral bonus that the first  *)
(* payment after an invitation gives to both sides:                         *)
(* src/bot/handlers/payments.py, src/core/services/referral.py, the start   *)
(* of the bot in main.py; and the payment in roubles of src/api/billing.py. *)
(*                                                                          *)
(* A payment report is handled by one transaction of four steps, between    *)
(* which other handlers run: the payer's row is read, flushed (PostgreSQL   *)
(* locks it until the end), the invitation and the inviter are read, and    *)
(* everything is committed.  Dates are counted in days.                     *)
EXTENDS Integers, FiniteSets

CONSTANTS
  User,         \* rows of users
  Nobody,       \* no inviter
  Report,       \* reports of a payment: successful_payment of Telegram, and
  RubReport,    \* those of them that are payment.succeeded of YooKassa
  PayerOf,      \* report -> user
  PlanDays,     \* plan_days of the invoice
  RewardDays,   \* settings.referral_reward_days
  InvitedDays,  \* settings.referral_invited_reward_days
  LastDay       \* bound of the clock

ASSUME NobodyIsNoUser == Nobody \notin User
ASSUME RubIsReport == RubReport \subseteq Report
ASSUME PayersAreUsers == PayerOf \in [Report -> User]
ASSUME PlanIsPositive == PlanDays \in Nat \ {0}
ASSUME RewardsAreDays == RewardDays \in Nat \ {0} /\ InvitedDays \in Nat
ASSUME LastDayIsDay == LastDay \in Nat

VARIABLES
  today,
  until,        \* users.premium_until, 0 if never set
  inviter,      \* referral_invites by invited user
  rewarded,     \* invited users whose invitation has rewarded_at
  paid,         \* reports with a row in premium_payments
  rewards,      \* reports named by a row of referral_rewards
  pay,          \* report -> its handler
  granted,      \* user -> days that committed payments and rewards gave
  late          \* reports in flight whose copy of a premium_until is out of date

premiumVars == <<today, until, inviter, rewarded, paid, rewards, pay, granted, late>>

Phases == {"unpaid", "pending", "read", "flushed", "decided",
           "done", "failed", "dropped"}

\* The locals of the handler: the payer's new date, whether a reward is due,
\* and the inviter's new date.
Handling == [phase : Phases, mine : Nat, grant : BOOLEAN, theirs : Nat]

PremiumTypeOK ==
  /\ today \in 1..(LastDay + 1)
  /\ until \in [User -> Nat]
  /\ inviter \in [User -> User \cup {Nobody}]
  /\ rewarded \subseteq User
  /\ paid \subseteq Report
  /\ rewards \subseteq Report
  /\ pay \in [Report -> Handling]
  /\ granted \in [User -> Nat]
  /\ late \subseteq Report

PremiumInit ==
  /\ today = 1
  /\ until = [u \in User |-> 0]
  /\ inviter = [u \in User |-> Nobody]
  /\ rewarded = {}
  /\ paid = {}
  /\ rewards = {}
  /\ pay = [m \in Report |-> [phase |-> "unpaid", mine |-> 0, grant |-> FALSE, theirs |-> 0]]
  /\ granted = [u \in User |-> 0]
  /\ late = {}

-----------------------------------------------------------------------------

\* As if an extension forgot what is left.
FromToday(date, days) == today + days

\* A date that is still ahead is extended, an old one counts from today.
Extended(date, days) == (IF date > today THEN date ELSE today) + days

Payer(m) == PayerOf[m]
Inviter(m) == inviter[Payer(m)]

\* A flushed transaction holds the lock of its payer's row.
HoldsRow(m, u) == pay[m].phase \in {"flushed", "decided"} /\ Payer(m) = u

\* As if the handler asked for the reward before it flushed.
NoLock(m, u) == TRUE

RowFree(m, u) == \A n \in Report \ {m} : ~HoldsRow(n, u)

Moves(m, phase) == pay' = [pay EXCEPT ![m].phase = phase]

\* The clock of the server passes midnight.
Midnight ==
  /\ today <= LastDay
  /\ today' = today + 1
  /\ UNCHANGED <<until, inviter, rewarded, paid, rewards, pay, granted, late>>

\* /start ref_<v> of user u: one invitation per invited user, the unique
\* constraint stops a second one that passed the check.
Attach(u, v) ==
  /\ u # v
  /\ inviter[u] = Nobody
  /\ inviter' = [inviter EXCEPT ![u] = v]
  /\ UNCHANGED <<today, until, rewarded, paid, rewards, pay, granted, late>>

\* The user pays: Telegram holds the report for the bot, the webhook of
\* YooKassa adds a background task.
Charge(m) ==
  /\ pay[m].phase = "unpaid"
  /\ Moves(m, "pending")
  /\ UNCHANGED <<today, until, inviter, rewarded, paid, rewards, granted, late>>

\* The handler starts: session.get(User) and the new date in memory.
ReadPayer(m) ==
  /\ m \notin RubReport
  /\ pay[m].phase = "pending"
  /\ pay' = [pay EXCEPT ![m].phase = "read",
                        ![m].mine = Extended(until[Payer(m)], PlanDays)]
  /\ UNCHANGED <<today, until, inviter, rewarded, paid, rewards, granted, late>>

\* As if the premium were committed before the row of the payment.
CommitEarly(m) ==
  /\ pay[m].phase = "read"
  /\ RowFree(m, Payer(m))
  /\ Moves(m, "flushed")
  /\ until' = [until EXCEPT ![Payer(m)] = pay[m].mine]
  /\ UNCHANGED <<today, inviter, rewarded, paid, rewards, granted, late>>

\* session.flush() sends UPDATE users and INSERT premium_payments: it waits
\* for the row of the payer and keeps it.  Nobody sees the new values yet.
Flush(m) ==
  /\ pay[m].phase = "read"
  /\ RowFree(m, Payer(m))
  /\ Moves(m, "flushed")
  /\ UNCHANGED <<today, until, inviter, rewarded, paid, rewards, granted, late>>

\* grant_referral_reward_if_applicable: the invitation and the inviter are
\* read as committed, the new dates are computed in memory.
DecideReward(m) ==
  /\ pay[m].phase = "flushed"
  /\ IF Inviter(m) # Nobody /\ Payer(m) \notin rewarded
       THEN pay' = [pay EXCEPT ![m].phase = "decided",
                               ![m].grant = TRUE,
                               ![m].theirs = Extended(until[Inviter(m)], RewardDays),
                               ![m].mine = IF InvitedDays > 0
                                             THEN Extended(@, InvitedDays) ELSE @]
       ELSE Moves(m, "decided")
  /\ UNCHANGED <<today, until, inviter, rewarded, paid, rewards, granted, late>>

\* The users whose premium_until the commit of m writes.
Writes(m) == {Payer(m)} \cup (IF pay[m].grant THEN {Inviter(m)} ELSE {})

\* What m wrote others in flight may have read before.
ReadBefore(m, n) ==
  /\ n # m
  /\ \/ pay[n].phase \in {"read", "flushed", "decided"} /\ Payer(n) \in Writes(m)
     \/ pay[n].phase = "decided" /\ pay[n].grant /\ Inviter(n) \in Writes(m)

NewUntil(m) ==
  [u \in User |-> IF u = Payer(m) THEN pay[m].mine
                  ELSE IF u \in Writes(m) THEN pay[m].theirs ELSE until[u]]

NewGranted(m) ==
  [u \in User |-> granted[u]
     + (IF u = Payer(m) THEN PlanDays + (IF pay[m].grant THEN InvitedDays ELSE 0) ELSE 0)
     + (IF pay[m].grant /\ u = Inviter(m) THEN RewardDays ELSE 0)]

\* session.commit() writes the inviter's row too, for which it may have to
\* wait; then everything becomes visible at once.
CommitPayment(m) ==
  /\ pay[m].phase = "decided"
  /\ pay[m].grant => RowFree(m, Inviter(m))
  /\ Moves(m, "done")
  /\ until' = NewUntil(m)
  /\ paid' = paid \cup {m}
  /\ rewarded' = IF pay[m].grant THEN rewarded \cup {Payer(m)} ELSE rewarded
  /\ rewards' = IF pay[m].grant THEN rewards \cup {m} ELSE rewards
  /\ granted' = NewGranted(m)
  /\ late' = late \cup {n \in Report : ReadBefore(m, n)}
  /\ UNCHANGED <<today, inviter>>

\* m holds its payer's row and waits for that of an inviter who is paying.
WaitsFor(m, n) ==
  /\ m # n
  /\ pay[m].phase = "decided" /\ pay[m].grant
  /\ HoldsRow(n, Inviter(m))

\* Users who invited each other in a circle pay at once: PostgreSQL ends one
\* of the transactions, its handler fails and is not run again.
BreakDeadlock(m) ==
  /\ \E S \in SUBSET Report :
       m \in S /\ \A x \in S : \E y \in S : WaitsFor(x, y)
  /\ Moves(m, "failed")
  /\ UNCHANGED <<today, until, inviter, rewarded, paid, rewards, granted, late>>

InFlight == {m \in Report : pay[m].phase \in {"read", "flushed", "decided"}}

\* The bot restarts: transactions are rolled back, and the start drops the
\* updates Telegram still holds (drop_pending_updates).
RestartBot ==
  /\ pay' = [m \in Report |->
       IF m \in InFlight \/ pay[m].phase = "pending"
         THEN [pay[m] EXCEPT !.phase = "dropped"] ELSE pay[m]]
  /\ pay' # pay
  /\ UNCHANGED <<today, until, inviter, rewarded, paid, rewards, granted, late>>

\* The task of a payment in roubles awaits extend_premium_until with arguments
\* it does not take and dies with TypeError: nothing is written.
FailRub(m) ==
  /\ m \in RubReport
  /\ pay[m].phase = "pending"
  /\ Moves(m, "failed")
  /\ UNCHANGED <<today, until, inviter, rewarded, paid, rewards, granted, late>>

PremiumNext ==
  \/ Midnight
  \/ RestartBot
  \/ \E u, v \in User : Attach(u, v)
  \/ \E m \in Report :
       \/ Charge(m) \/ ReadPayer(m) \/ Flush(m) \/ DecideReward(m)
       \/ CommitPayment(m) \/ BreakDeadlock(m) \/ FailRub(m)

PremiumSpec == PremiumInit /\ [][PremiumNext]_premiumVars

-----------------------------------------------------------------------------

(* One payment of an invited user, and one only, is rewarded, and the       *)
(* invitation says so: grant_referral_reward_if_applicable does not lock    *)
(* the invitation, what serialises two payments of one user is that the     *)
(* handler flushes the payer's row before it asks.                          *)
RewardOnce ==
  /\ \A m, n \in rewards : Payer(m) = Payer(n) => m = n
  /\ \A u \in User : u \in rewarded <=> \E m \in rewards : Payer(m) = u

(* Nobody holds more premium than payments and rewards in the tables give,  *)
(* whatever handlers overlap, fail or are cut off by a restart.             *)
NoDayForFree == \A u \in User : until[u] <= today + granted[u]

(* A payment adds all its days to what the payer and the inviter have,      *)
(* unless another payment wrote one of the two dates after this one read    *)
(* it: only then is the other's extension overwritten.                      *)
DaysLostOnlyToOverlap ==
  [][\A m \in Report :
       (m \in paid' \ paid /\ m \notin late) =>
          /\ until'[Payer(m)] >= until[Payer(m)] + PlanDays
          /\ m \in rewards' => until'[Inviter(m)] >= until[Inviter(m)] + RewardDays]_premiumVars
=============================================================================
