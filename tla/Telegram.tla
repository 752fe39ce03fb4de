------------------------------ MODULE Telegram ------------------------------
(* The Telegram producer: src/parser_bot/ingestor.py.                       *)
(*                                                                          *)
(* A start reads the last messages of every watched chat (backfill), and    *)
(* only then registers the handler of new messages.  A monitor ends the     *)
(* process when nothing was enqueued for a while.  One cargo per message.   *)
EXTENDS Integers

CONSTANTS
  Chat,
  Configured,  \* PARSER_CHAT_IDS
  Message,
  ChatOf,      \* message -> chat
  MostCopies   \* bound of the entries of one message

ASSUME ConfiguredAreChats == Configured \subseteq Chat
ASSUME MessagesHaveChats == ChatOf \in [Message -> Chat]
ASSUME MostCopiesIsCount == MostCopies \in Nat

VARIABLES
  phase,      \* of the process: down, backfilling, live
  watched,    \* watched_chat_ids
  found,      \* parser:discovered_channels in Redis
  unread,     \* chats the backfill has still to read
  toRead,     \* messages the history request of the backfill returned
  posted,     \* messages in their chats
  old,        \* messages beyond the limit or the minutes of a backfill
  heard,      \* messages whose handler runs
  copies,     \* message -> entries in the stream
  quiet,      \* no heartbeat for longer than parser_self_kill_after_sec
  unheard,    \* posted after their chat was read and before the handler (observed)
  failed      \* not enqueued, since the start (observed)

tgVars == <<phase, watched, found, unread, toRead, posted, old, heard, copies, quiet,
            unheard, failed>>

TgTypeOK ==
  /\ phase \in {"down", "backfilling", "live"}
  /\ watched \subseteq Chat /\ found \subseteq Chat /\ unread \subseteq Chat
  /\ \A S \in {toRead, posted, old, heard, unheard, failed} : S \subseteq Message
  /\ copies \in [Message -> Nat]
  /\ quiet \in BOOLEAN

TgInit ==
  /\ phase = "down"
  /\ watched = {} /\ found = {} /\ unread = {}
  /\ toRead = {} /\ posted = {} /\ old = {} /\ heard = {}
  /\ copies = [m \in Message |-> 0]
  /\ quiet = FALSE
  /\ unheard = {} /\ failed = {}

-----------------------------------------------------------------------------

Waiting(c) == {m \in posted : ChatOf[m] = c}

\* _run_once: the chats of the settings and those found before, a first
\* heartbeat, then the backfill.
Start ==
  /\ phase = "down"
  /\ phase' = "backfilling"
  /\ watched' = Configured \cup found
  /\ unread' = watched'
  /\ quiet' = FALSE
  /\ unheard' = {} /\ failed' = {}
  /\ UNCHANGED <<found, toRead, posted, old, heard, copies>>

\* As if parser_startup_backfill_limit were 0.
NoBackfill(c) == {}

\* What a backfill of c still finds.
InReach(c) == Waiting(c) \ old

\* iter_messages of one chat.  What is posted there from now on it misses.
ReadChat(c) ==
  /\ phase = "backfilling" /\ toRead = {}
  /\ c \in unread
  /\ unread' = unread \ {c}
  /\ toRead' = InReach(c)
  /\ UNCHANGED <<phase, watched, found, posted, old, heard, copies, quiet, unheard, failed>>

\* get_entity fails for a chat: its backfill is left out.
SkipChat(c) ==
  /\ phase = "backfilling" /\ toRead = {}
  /\ c \in unread
  /\ unread' = unread \ {c}
  /\ failed' = failed \cup Waiting(c)
  /\ UNCHANGED <<phase, watched, found, toRead, posted, old, heard, copies, quiet, unheard>>

\* XADD and the heartbeat.
Enqueued(m) ==
  /\ copies[m] < MostCopies
  /\ copies' = [copies EXCEPT ![m] = @ + 1]
  /\ quiet' = FALSE

BackfillMessage(m) ==
  /\ m \in toRead
  /\ Enqueued(m)
  /\ toRead' = toRead \ {m}
  /\ UNCHANGED <<phase, watched, found, unread, posted, old, heard, unheard, failed>>

\* client.on(NewMessage): messages are heard from now on.
Register ==
  /\ phase = "backfilling"
  /\ unread = {} /\ toRead = {}
  /\ phase' = "live"
  /\ UNCHANGED <<watched, found, unread, toRead, posted, old, heard, copies, quiet,
                 unheard, failed>>

Heard(m) == phase = "live" /\ ChatOf[m] \in watched

\* Someone posts.
Post(m) ==
  /\ m \notin posted
  /\ posted' = posted \cup {m}
  /\ heard' = IF Heard(m) THEN heard \cup {m} ELSE heard
  /\ unheard' = IF phase = "down" \/ Heard(m) \/ ChatOf[m] \in unread
                  THEN unheard ELSE unheard \cup {m}
  /\ UNCHANGED <<phase, watched, found, unread, toRead, old, copies, quiet, failed>>

\* The handler enqueues, or logs that it could not.
HandleMessage(m) ==
  /\ m \in heard
  /\ heard' = heard \ {m}
  /\ Enqueued(m)
  /\ UNCHANGED <<phase, watched, found, unread, toRead, posted, old, unheard, failed>>

FailMessage(m) ==
  /\ m \in heard
  /\ heard' = heard \ {m}
  /\ failed' = failed \cup {m}
  /\ UNCHANGED <<phase, watched, found, unread, toRead, posted, old, copies, quiet, unheard>>

\* The discovery loop joins a chat: watched in memory, then kept in Redis.
Discover(c) ==
  /\ phase \in {"backfilling", "live"}
  /\ c \notin watched
  /\ watched' = watched \cup {c}
  /\ found' \in {found, found \cup {c}}
  /\ UNCHANGED <<phase, unread, toRead, posted, old, heard, copies, quiet, unheard, failed>>

\* A message leaves the reach of a backfill: ten newer ones, or 30 minutes.
Age(m) ==
  /\ m \in posted \ old
  /\ m \notin toRead
  /\ old' = old \cup {m}
  /\ UNCHANGED <<phase, watched, found, unread, toRead, posted, heard, copies, quiet,
                 unheard, failed>>

\* Time passes without a heartbeat.
Silence ==
  /\ phase # "down"
  /\ quiet' = TRUE
  /\ UNCHANGED <<phase, watched, found, unread, toRead, posted, old, heard, copies,
                 unheard, failed>>

Ends ==
  /\ phase' = "down"
  /\ unread' = {} /\ toRead' = {} /\ heard' = {} /\ watched' = {}
  /\ UNCHANGED <<found, posted, old, copies, quiet, unheard, failed>>

\* _health_monitor: os._exit, and the container starts again.
SelfKill == phase # "down" /\ quiet /\ Ends

\* Disconnected, flood wait, Redis down during the backfill, a crash.
Break == phase # "down" /\ Ends

TgNext ==
  \/ Start \/ Register \/ Silence \/ SelfKill \/ Break
  \/ \E c \in Chat : ReadChat(c) \/ SkipChat(c) \/ Discover(c)
  \/ \E m \in Message :
       \/ BackfillMessage(m) \/ Post(m) \/ HandleMessage(m) \/ FailMessage(m) \/ Age(m)

TgSpec == TgInit /\ [][TgNext]_tgVars

-----------------------------------------------------------------------------

(* A live producer has enqueued every message of the chats it started with, *)
(* unless the message is out of a backfill's reach, its enqueueing failed   *)
(* since the start, or it was posted while the backfill went on, after its  *)
(* chat was read and before the handler was registered: what earlier starts *)
(* missed is made up for.                                                   *)
MissedOnlyInGap ==
  phase = "live" =>
    \A m \in posted : ChatOf[m] \in Configured =>
      copies[m] > 0 \/ m \in old \cup failed \cup unheard \cup heard
=============================================================================
