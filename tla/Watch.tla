------------------------------- MODULE Watch -------------------------------
(* The watchdog of the bot: src/core/services/watchdog.py and the           *)
(* middleware that feeds it, src/bot/middlewares/watchdog.py.               *)
(*                                                                          *)
(* Updates are handled by tasks of one event loop; each task sends a        *)
(* heartbeat when it starts and records an error when it fails.  A loop     *)
(* looks at the result once a minute.                                       *)
EXTENDS Integers, FiniteSets

CONSTANTS
  Update,     \* updates that may be handled at once
  Threshold,  \* errors that make the bot unhealthy (5)
  Cooldown,   \* ALERT_COOLDOWN_SEC in minutes (15)
  LastCheck   \* bound of the minutes

ASSUME ThresholdIsCount == Threshold \in Nat \ {0}
ASSUME CooldownIsMinutes == Cooldown \in Nat
ASSUME UpdatesAreFinite == IsFiniteSet(Update)

VARIABLES
  errors,     \* error_count
  healthy,    \* is_healthy
  handling,   \* updates whose handler runs
  minute,     \* of the watchdog's clock
  sample,     \* bot_healthy as check_health found it, awaiting the alert
  lastAlert,  \* _last_alert["bot_unhealthy"]
  alerts,     \* minutes in which the administrator got the alert
  crowd,      \* handlers that ran at the last heartbeat (observed, not stored)
  peak        \* the largest crowd so far (observed, not stored)

watchVars == <<errors, healthy, handling, minute, sample, lastAlert, alerts, crowd, peak>>

Never == -1

WatchTypeOK ==
  /\ errors \in Nat
  /\ healthy \in BOOLEAN
  /\ handling \subseteq Update
  /\ minute \in Nat
  /\ sample \in {"none", "healthy", "unhealthy"}
  /\ lastAlert \in {Never} \cup Nat
  /\ alerts \subseteq Nat
  /\ crowd \in Nat
  /\ peak \in Nat

WatchInit ==
  /\ errors = 0
  /\ healthy = TRUE
  /\ handling = {}
  /\ minute = 0
  /\ sample = "none"
  /\ lastAlert = Never
  /\ alerts = {}
  /\ crowd = 0
  /\ peak = 0

-----------------------------------------------------------------------------

\* As if an update did not wipe out the errors.
ErrorsKept == errors

\* heartbeat() forgets the errors so far.
AfterHeartbeat == 0

\* The middleware: watchdog.heartbeat(), then the handler.
BeginUpdate(u) ==
  /\ u \notin handling
  /\ handling' = handling \cup {u}
  /\ errors' = AfterHeartbeat
  /\ healthy' = TRUE
  /\ crowd' = Cardinality(handling')
  /\ peak' = IF crowd' > peak THEN crowd' ELSE peak
  /\ UNCHANGED <<minute, sample, lastAlert, alerts>>

EndUpdate(u) ==
  /\ u \in handling
  /\ handling' = handling \ {u}
  /\ UNCHANGED <<errors, healthy, minute, sample, lastAlert, alerts, crowd, peak>>

\* The handler raises: record_error.
FailUpdate(u) ==
  /\ u \in handling
  /\ handling' = handling \ {u}
  /\ errors' = errors + 1
  /\ healthy' = (healthy /\ errors + 1 < Threshold)
  /\ UNCHANGED <<minute, sample, lastAlert, alerts, crowd, peak>>

\* watchdog_loop after its sleep: check_health notes is_healthy, then awaits
\* Redis, PostgreSQL and Telegram.
CheckHealth ==
  /\ sample = "none" /\ minute < LastCheck
  /\ minute' = minute + 1
  /\ sample' = IF healthy THEN "healthy" ELSE "unhealthy"
  /\ UNCHANGED <<errors, healthy, handling, lastAlert, alerts, crowd, peak>>

CooledDown == lastAlert = Never \/ minute - lastAlert >= Cooldown

\* notify_admin starts the cooldown before it sends; what Telegram refuses is
\* logged and not sent again.
RaiseAlert(delivered) ==
  /\ sample = "unhealthy"
  /\ CooledDown
  /\ sample' = "none"
  /\ lastAlert' = minute
  /\ alerts' = IF delivered THEN alerts \cup {minute} ELSE alerts
  /\ UNCHANGED <<errors, healthy, handling, minute, crowd, peak>>

\* Nothing to tell, or the cooldown of the last alert runs.
StaySilent ==
  /\ sample # "none"
  /\ sample = "unhealthy" => ~CooledDown
  /\ sample' = "none"
  /\ UNCHANGED <<errors, healthy, handling, minute, lastAlert, alerts, crowd, peak>>

WatchNext ==
  \/ \E u \in Update : BeginUpdate(u) \/ EndUpdate(u) \/ FailUpdate(u)
  \/ CheckHealth \/ StaySilent
  \/ \E delivered \in BOOLEAN : RaiseAlert(delivered)

WatchSpec == WatchInit /\ [][WatchNext]_watchVars

-----------------------------------------------------------------------------

(* The bot is called unhealthy only if as many handlers as the threshold    *)
(* ran at once when the last update came, and all of these failed; and the  *)
(* administrator hears of it only if such a crowd has been.  Errors one     *)
(* after another never add up: every update, the failing one too, wipes     *)
(* out the count.                                                           *)
AlarmNeedsCrowd ==
  /\ ~healthy => crowd >= Threshold
  /\ sample = "unhealthy" \/ alerts # {} => peak >= Threshold
=============================================================================
