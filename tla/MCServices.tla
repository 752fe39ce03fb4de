----------------------------- MODULE MCServices -----------------------------
(* Small instances of the parts of the system that share no state: Premium, *)
(* the AI queue, the windows of the notifying jobs, the watchdog, the two   *)
(* producers of the stream, the dialogs, the ledger and the rate limit.  A  *)
(* behaviour is one of one of them; the others stay as they began.          *)
EXTENDS Premium, AIQueue, Windows, Watch, Telegram, VkPolls, Dialogs, Finance, Limits, TLC

CONSTANTS
  u1, u2, star1, star2, star3, rub,  \* Premium: users and payments
  j1, j2, q,                         \* AI queue: two jobs of one prompt
  chatA, chatB, m1, m2,              \* Telegram: a message in each chat
  v1, v2, g,                         \* VK: two posts of one group
  t1, t2, ph                         \* ledger: two transactions of one phone

VARIABLES
  part,  \* the part that moves
  menu   \* the dialogs the user opens in this behaviour

Payers == (star1 :> u1) @@ (star2 :> u1) @@ (star3 :> u2) @@ (rub :> u1)

PromptOfJob == (j1 :> q) @@ (j2 :> q)
LowAndHigh == (j1 :> "low") @@ (j2 :> "high")

\* Two periods of a job that pushes cargos, one that posts the feed, and one
\* that looks for return loads over a longer time.
Windows3 == [k \in JobKind |-> IF k = "reverse_matching" THEN 4 ELSE 3]
Limits3 == [k \in JobKind |-> IF k = "reverse_matching" THEN 1 ELSE 2]

ChatOfMessage == (m1 :> chatA) @@ (m2 :> chatB)
OneGroup == (v1 :> g) @@ (v2 :> g)
OnePhone == (t1 :> ph) @@ (t2 :> ph)
LimitOfEndpoint == [e \in Endpoint |-> IF e = "feed" THEN 2 ELSE 1]

\* The dialogs that share a key of the dictionary, and the rest.
Menus ==
  {{"cargo", "search", "subscribe", "find"}, {"cargo", "rate"},
   {"rate", "chat", "report", "ttn", "claim"}, {"verify", "track", "driver"},
   {"edit", "voice", "vehicle"}, {"truck", "assist", "feedback"},
   {"onboard", "legal", "check", "profile"}}

Parts == {"premium", "ai", "windows", "watch", "telegram", "vk", "dialogs", "finance", "limits"}

ServicesInit ==
  /\ part \in Parts
  /\ menu \in IF part = "dialogs" THEN Menus ELSE {{}}
  /\ PremiumInit /\ AIInit /\ WindowInit /\ WatchInit /\ TgInit /\ VkInit
  /\ DialogInit /\ FinanceInit /\ LimitsInit
  /\ part = "windows" \/ kind = "push_notifications"

\* No part but the one named moves.
Others(p) ==
  /\ IF p = "premium" THEN TRUE ELSE UNCHANGED premiumVars
  /\ IF p = "ai" THEN TRUE ELSE UNCHANGED aiVars
  /\ IF p = "windows" THEN TRUE ELSE UNCHANGED windowVars
  /\ IF p = "watch" THEN TRUE ELSE UNCHANGED watchVars
  /\ IF p = "telegram" THEN TRUE ELSE UNCHANGED tgVars
  /\ IF p = "vk" THEN TRUE ELSE UNCHANGED vkVars
  /\ IF p = "dialogs" THEN TRUE ELSE UNCHANGED dialogVars
  /\ IF p = "finance" THEN TRUE ELSE UNCHANGED financeVars
  /\ IF p = "limits" THEN TRUE ELSE UNCHANGED limitVars
  /\ UNCHANGED <<part, menu>>

OnMenu == \A h \in 1..Hands : hand'[h].dialog \in menu \cup {"none"}

ServicesNext ==
  \/ part = "premium" /\ PremiumNext /\ Others("premium")
  \/ part = "ai" /\ AINext /\ Others("ai")
  \/ part = "windows" /\ WindowNext /\ Others("windows")
  \/ part = "watch" /\ WatchNext /\ Others("watch")
  \/ part = "telegram" /\ TgNext /\ Others("telegram")
  \/ part = "vk" /\ VkNext /\ Others("vk")
  \/ part = "dialogs" /\ DialogNext /\ OnMenu /\ Others("dialogs")
  \/ part = "finance" /\ FinanceNext /\ Others("finance")
  \/ part = "limits" /\ LimitsNext /\ Others("limits")

serviceVars ==
  <<part, menu, premiumVars, aiVars, windowVars, watchVars, tgVars, vkVars, dialogVars,
    financeVars, limitVars>>

ServicesSpec == ServicesInit /\ [][ServicesNext]_serviceVars /\ AIFairness

\* The variables of the part that moves stay in their types.
TypesOK ==
  /\ part = "premium" => PremiumTypeOK
  /\ part = "ai" => AITypeOK
  /\ part = "windows" => WindowTypeOK
  /\ part = "watch" => WatchTypeOK
  /\ part = "telegram" => TgTypeOK
  /\ part = "vk" => VkTypeOK
  /\ part = "dialogs" => DialogTypeOK
  /\ part = "finance" => FinanceTypeOK
  /\ part = "limits" => LimitsTypeOK
=============================================================================
