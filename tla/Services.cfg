SPECIFICATION ServicesSpec
CONSTANTS
  u1 = u1
  u2 = u2
  star1 = star1
  star2 = star2
  star3 = star3
  rub = rub
  User = {u1, u2}
  Nobody = Nobody
  Report = {star1, star2, star3, rub}
  RubReport = {rub}
  PayerOf <- Payers
  PlanDays = 3
  RewardDays = 2
  InvitedDays = 1
  LastDay = 1
  j1 = j1
  j2 = j2
  q = q
  Job = {j1, j2}
  Worker = {w1, w2}
  Prompt = {q}
  PromptOf <- PromptOfJob
  PriorityOf <- LowAndHigh
  Waits = {j1}
  JobKind = {"push_notifications", "feed_notifications", "reverse_matching"}
  Window <- Windows3
  Marking = {"push_notifications"}
  OneEach = {"feed_notifications"}
  Period = 2
  Limit <- Limits3
  Item = {i1, i2}
  LastMinute = 5
  Update = {x1, x2, x3}
  Threshold = 2
  Cooldown = 2
  LastCheck = 5
  chatA = chatA
  chatB = chatB
  m1 = m1
  m2 = m2
  Chat = {chatA, chatB}
  Configured = {chatA}
  Message = {m1, m2}
  ChatOf <- ChatOfMessage
  MostCopies = 2
  v1 = v1
  v2 = v2
  g = g
  VkPost = {v1, v2}
  Groups = {g}
  GroupOf <- OneGroup
  MostEntries = 2
  MostFaults = 2
  Dialog = {"cargo", "edit", "voice", "ttn", "search", "subscribe", "find", "rate", "chat", "report", "verify", "claim", "driver", "truck", "vehicle", "assist", "track", "feedback", "onboard", "legal", "check", "profile"}
  Hands = 2
  MostVisits = 2
  MostTroubles = 1
  t1 = t1
  t2 = t2
  ph = ph
  Txn = {t1, t2}
  Phone = {ph}
  NoPhone = NoPhone
  PhoneOf <- OnePhone
  Days = {0}
  LastHour = 2
  Endpoint = {"feed", "forecast"}
  LimitOf <- LimitOfEndpoint
  Span = 2
  LastSecond = 3
CHECK_DEADLOCK FALSE
INVARIANTS
  TypesOK
  RewardOnce
  NoDayForFree
  
  
  
  AlarmNeedsCrowd
  
  PassedOnOnce
  SavedOnceAndOwn
  DeadEnds
  BlockedOnceAndLate
  CounterLives
PROPERTIES
  DaysLostOnlyToOverlap
  JobsSettle
