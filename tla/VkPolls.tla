------------------------------ MODULE VkPolls ------------------------------
(* The VK producer: src/parser_bot/vk_ingestor.py.                          *)
(*                                                                          *)
(* A cycle fetches the last posts of each group and enqueues the new ones   *)
(* one by one: a seen key (SET NX), then XADD.                              *)
EXTENDS Integers, FiniteSets

CONSTANTS
  VkPost,
  Groups,      \* VK_GROUP_IDS
  GroupOf,     \* post -> group
  MostEntries, \* bound of the entries of one post, and of the lives of its key
  MostFaults   \* bound of the faults

ASSUME PostsAreFinite == IsFiniteSet(VkPost)
ASSUME PostsHaveGroups == GroupOf \in [VkPost -> Groups]
ASSUME VkBounds == MostEntries \in Nat /\ MostFaults \in Nat

VARIABLES
  onWall,    \* posts among the last vk_fetch_count of their group
  cycle,     \* groups this cycle has still to fetch
  fetched,   \* posts of the current group still to enqueue
  inHand,    \* posts with the key set, to be appended
  seenKeys,  \* vk:seen:<group>:<post>
  entries,   \* post -> entries in the stream
  expired,   \* post -> how often its key ran out (observed, not stored)
  faults     \* XADD that failed and processes that died (observed, not stored)

vkVars == <<onWall, cycle, fetched, inHand, seenKeys, entries, expired, faults>>

VkTypeOK ==
  /\ onWall \subseteq VkPost /\ cycle \subseteq Groups /\ fetched \subseteq VkPost
  /\ inHand \subseteq VkPost /\ seenKeys \subseteq VkPost
  /\ entries \in [VkPost -> Nat]
  /\ expired \in [VkPost -> Nat]
  /\ faults \in Nat

VkInit ==
  /\ onWall = {} /\ cycle = {} /\ fetched = {} /\ inHand = {} /\ seenKeys = {}
  /\ entries = [p \in VkPost |-> 0]
  /\ expired = [p \in VkPost |-> 0]
  /\ faults = 0

-----------------------------------------------------------------------------

\* Someone posts in a group; newer posts push older ones out of reach.
Publish(p) ==
  /\ p \notin onWall
  /\ onWall' = onWall \cup {p}
  /\ UNCHANGED <<cycle, fetched, inHand, seenKeys, entries, expired, faults>>

PushOut(p) ==
  /\ p \in onWall
  /\ onWall' = onWall \ {p}
  /\ UNCHANGED <<cycle, fetched, inHand, seenKeys, entries, expired, faults>>

\* run_forever after its sleep.
BeginCycle ==
  /\ cycle = {} /\ fetched = {} /\ inHand = {}
  /\ cycle' = Groups
  /\ UNCHANGED <<onWall, fetched, inHand, seenKeys, entries, expired, faults>>

\* wall.get of one group; it fails without ending the cycle.
Fetch(g) ==
  /\ fetched = {} /\ inHand = {}
  /\ g \in cycle
  /\ cycle' = cycle \ {g}
  /\ fetched' \in {{}, {p \in onWall : GroupOf[p] = g}}
  /\ UNCHANGED <<onWall, inHand, seenKeys, entries, expired, faults>>

\* As if the keys of all posts were set before the first is appended.
AllAtOnce(p) == fetched

Batch(p) == {p}

\* As if the key were set without NX.
Every(p) == Batch(p)

Unseen(p) == Batch(p) \ seenKeys

\* SET NX of the seen key: a post that has it is skipped.
Mark(p) ==
  /\ inHand = {}
  /\ p \in fetched
  /\ fetched' = fetched \ Batch(p)
  /\ inHand' = Unseen(p)
  /\ seenKeys' = seenKeys \cup Batch(p)
  /\ UNCHANGED <<onWall, cycle, entries, expired, faults>>

\* add_raw_message.
Add(p) ==
  /\ p \in inHand
  /\ entries[p] < MostEntries
  /\ entries' = [entries EXCEPT ![p] = @ + 1]
  /\ inHand' = inHand \ {p}
  /\ UNCHANGED <<onWall, cycle, fetched, seenKeys, expired, faults>>

\* Redis fails, or the process dies: the cycle ends where it is.  The entry
\* in hand may have reached the stream, the key stays.
Fault ==
  /\ faults < MostFaults
  /\ cycle \cup fetched \cup inHand # {}
  /\ entries' \in {entries, [p \in VkPost |-> entries[p] + (IF p \in inHand THEN 1 ELSE 0)]}
  /\ cycle' = {} /\ fetched' = {} /\ inHand' = {}
  /\ faults' = faults + 1
  /\ UNCHANGED <<onWall, seenKeys, expired>>

\* The key runs out after vk_dedupe_ttl_sec: a post still on the wall is new
\* again.
Forget(p) ==
  /\ p \in seenKeys \ inHand
  /\ expired[p] < MostEntries
  /\ seenKeys' = seenKeys \ {p}
  /\ expired' = [expired EXCEPT ![p] = @ + 1]
  /\ UNCHANGED <<onWall, cycle, fetched, inHand, entries, faults>>

VkNext ==
  \/ \E p \in VkPost : Publish(p) \/ PushOut(p) \/ Mark(p) \/ Add(p) \/ Forget(p)
  \/ \E g \in Groups : Fetch(g)
  \/ BeginCycle \/ Fault

VkSpec == VkInit /\ [][VkNext]_vkVars

-----------------------------------------------------------------------------

Swallowed == {p \in seenKeys : entries[p] = 0 /\ p \notin inHand}

(* A post is held back by its own seen key without having been appended     *)
(* only after a fault, and each fault takes one post with it at most, for   *)
(* the key of a post is set just before the post is appended.               *)
OnePostPerFault == Cardinality(Swallowed) <= faults

(* A post is appended once per life of its key, though the producer fetches *)
(* the same posts in every cycle and dies between any two steps.            *)
AppendedOncePerKey ==
  \A p \in VkPost : entries[p] <= expired[p] + (IF p \in seenKeys \ inHand THEN 1 ELSE 0)

(* No post is passed on twice or held back, but for an expiry or a fault    *)
(* each (_enqueue_post, _run_once).                                         *)
PassedOnOnce == AppendedOncePerKey /\ OnePostPerFault
=============================================================================
