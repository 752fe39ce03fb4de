------------------------------ MODULE Windows ------------------------------
(* The scheduler's jobs that look back over a window: every Period minutes  *)
(* a job lists what was created within its window and tells subscribers of  *)
(* it.  src/core/scheduler.py: push_notifications_job, feed_notifications,  *)
(* auto_reply and reverse_matching.                                         *)
(*                                                                          *)
(* Only the push job remembers what it told (cargos.notified_at, which the  *)
(* handler that publishes a cargo sets as well); the others rely on the     *)
(* windows alone.  One subscriber, whom everything concerns; minutes.       *)
EXTENDS Integers, FiniteSets

CONSTANTS
  JobKind,   \* ids of jobs
  Window,    \* job -> minutes it looks back
  Marking,   \* jobs that skip what has notified_at, and set it
  OneEach,   \* jobs that send a subscriber one message per run
  Limit,     \* job -> LIMIT of its query, newest first
  Period,    \* IntervalTrigger of each of them
  Item,      \* cargos or feed events
  LastMinute \* bound of the clock

ASSUME PeriodIsPositive == Period \in Nat \ {0}
ASSUME WindowsCoverPeriod == Window \in [JobKind -> Nat] /\ \A k \in JobKind : Window[k] >= Period
ASSUME LimitsAreCounts == Limit \in [JobKind -> Nat]
ASSUME ItemsAreFinite == IsFiniteSet(Item)
ASSUME KindsOfJobs == Marking \subseteq JobKind /\ OneEach \subseteq JobKind
ASSUME LastMinuteIsMinute == LastMinute \in Nat

Unborn == -1

VARIABLES
  kind,      \* the job
  now,
  due,       \* when the trigger fires next
  started,   \* when the last run began
  born,      \* item -> created_at
  list,      \* items the current run has still to tell
  taken,     \* items the current run read
  running,
  notified,  \* items with notified_at
  posting,   \* items whose publisher has not finished
  told,      \* item -> messages the job sent about it
  listed,    \* item -> runs that read it (observed, not stored)
  gap        \* a run was left out, or had more to read than its LIMIT (observed)

windowVars == <<kind, now, due, started, born, list, taken, running, notified, posting,
                told, listed, gap>>

WindowTypeOK ==
  /\ kind \in JobKind
  /\ now \in 0..LastMinute
  /\ due \in Nat
  /\ started \in Int
  /\ born \in [Item -> {Unborn} \cup (0..LastMinute)]
  /\ list \subseteq taken /\ taken \subseteq Item
  /\ running \in BOOLEAN
  /\ notified \subseteq Item
  /\ posting \subseteq Item
  /\ told \in [Item -> Nat]
  /\ listed \in [Item -> Nat]
  /\ gap \in BOOLEAN

WindowInit ==
  /\ kind \in JobKind
  /\ now = 0
  /\ due = Period
  /\ started = 0
  /\ born = [i \in Item |-> Unborn]
  /\ list = {}
  /\ taken = {}
  /\ running = FALSE
  /\ notified = {}
  /\ posting = {}
  /\ told = [i \in Item |-> 0]
  /\ listed = [i \in Item |-> 0]
  /\ gap = FALSE

-----------------------------------------------------------------------------

\* A minute passes, once the trigger that was due has fired.
Minute ==
  /\ now < LastMinute /\ now < due
  /\ now' = now + 1
  /\ UNCHANGED <<kind, due, started, born, list, taken, running, notified, posting,
                 told, listed, gap>>

\* An event is recorded, or a cargo published: then its publisher goes on to
\* tell the subscribers itself.
Create(i) ==
  /\ born[i] = Unborn
  /\ born' = [born EXCEPT ![i] = now]
  /\ posting' = IF kind \in Marking THEN posting \cup {i} ELSE posting
  /\ UNCHANGED <<kind, now, due, started, list, taken, running, notified, told, listed, gap>>

\* The publisher has called notify_subscribers and sets notified_at, or its
\* handler failed before.
EndPosting(i) ==
  /\ i \in posting
  /\ posting' = posting \ {i}
  /\ notified' \in {notified, notified \cup {i}}
  /\ UNCHANGED <<kind, now, due, started, born, list, taken, running, told, listed, gap>>

\* As if the window were not longer than the period.
InShortWindow(i) == born[i] # Unborn /\ born[i] > now - Period

\* created_at >= now - window, and notified_at IS NULL for the push job.
InWindow(i) == born[i] # Unborn /\ born[i] >= now - Window[kind]

Due == {i \in Item : InWindow(i) /\ (kind \in Marking => i \notin notified)}

\* The newest of them, up to the limit of the query.
IsRead(S) ==
  /\ S \subseteq Due
  /\ \A i \in S, k \in Due \ S : born[k] <= born[i]
  /\ \/ S = Due /\ Cardinality(S) <= Limit[kind]
     \/ S # Due /\ Cardinality(S) = Limit[kind]

\* The trigger fires; max_instances=1 keeps a run from starting before the
\* one before it has ended.
StartRun ==
  /\ now = due
  /\ ~running
  /\ running' = TRUE
  /\ \E S \in SUBSET Item :
       /\ IsRead(S)
       /\ taken' = S
       /\ list' = S
       /\ listed' = [i \in Item |-> IF i \in S THEN listed[i] + 1 ELSE listed[i]]
       /\ gap' = (gap \/ S # Due)
  /\ started' = now
  /\ due' = due + Period
  /\ UNCHANGED <<kind, now, born, notified, posting, told>>

\* The trigger fires in vain: the last run goes on, or the event loop was busy
\* for longer than the misfire grace of a second.
SkipRun ==
  /\ now = due
  /\ due' = due + Period
  /\ gap' = TRUE
  /\ UNCHANGED <<kind, now, started, born, list, taken, running, notified, posting,
                 told, listed>>

Newest(i) == i \in list /\ \A k \in list : born[k] <= born[i]

\* One message.  Telegram may refuse it, which is logged or ignored.  After
\* a cargo's message notify_subscribers sets notified_at itself, unless the
\* process dies between the two.
Tell(i, delivered) ==
  /\ running
  /\ Newest(i)
  /\ list' = IF delivered /\ kind \in OneEach THEN {} ELSE list \ {i}
  /\ told' = IF delivered THEN [told EXCEPT ![i] = @ + 1] ELSE told
  /\ IF delivered /\ kind \in Marking
       THEN notified' \in {notified, notified \cup {i}}
       ELSE UNCHANGED notified
  /\ UNCHANGED <<kind, now, due, started, born, taken, running, posting, listed, gap>>

\* The run ends; the push job commits notified_at of all it read.
EndRun ==
  /\ running /\ list = {}
  /\ running' = FALSE
  /\ taken' = {}
  /\ notified' = IF kind \in Marking THEN notified \cup taken ELSE notified
  /\ UNCHANGED <<kind, now, due, started, born, list, posting, told, listed, gap>>

\* As if the first run came at once.
AtOnce == now

AfterPeriod == now + Period

\* The process starts again: the run and the publishers are lost, the trigger
\* counts from now.
RestartScheduler ==
  /\ running' = FALSE
  /\ list' = {}
  /\ taken' = {}
  /\ posting' = {}
  /\ due' = AfterPeriod
  /\ gap' = TRUE
  /\ UNCHANGED <<kind, now, started, born, notified, told, listed>>

WindowNext ==
  \/ Minute
  \/ StartRun \/ SkipRun \/ EndRun \/ RestartScheduler
  \/ \E i \in Item : Create(i) \/ EndPosting(i)
  \/ \E i \in Item, delivered \in BOOLEAN : Tell(i, delivered)

WindowSpec == WindowInit /\ [][WindowNext]_windowVars

-----------------------------------------------------------------------------

(* What is created is read by some run before it leaves the window, or its  *)
(* publisher has marked it: the extra minute covers the period.  Only a run *)
(* that was skipped or cut off by its LIMIT, or a restart, lets anything    *)
(* through.                                                                 *)
NothingFallsThrough ==
  ~gap => \A i \in Item :
    (born[i] # Unborn /\ now - born[i] > Window[kind]) => listed[i] > 0 \/ i \in notified

(* Nobody is told of the same thing more often than windows overlap, twice  *)
(* for six minutes in steps of five, though three of the jobs remember      *)
(* nothing and the fourth forgets what it told when the process dies.       *)
ToldAsOftenAsWindowsOverlap ==
  \A i \in Item : (told[i] - 1) * Period <= Window[kind]
=============================================================================
