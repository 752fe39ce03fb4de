SPECIFICATION Spec
CONSTANTS
  a20 = a20
  b20 = b20
  b10 = b10
  truck = truck
  a = a
  b = b
  t20 = t20
  t10 = t10
  w1 = w1
  w2 = w2
  Post = {a20, b20}
  TruckPost = {}
  Key = {a, b, t20}
  KeysOf <- KeysOfPost
  Screened <- AllCargo
  Spam = {}
  Target = 2
  Worker = {w1, w2}
  Batch = 2
  MaxRetries = 0
  SlowWorkers = TRUE
  TargetsFail = TRUE
  TableFails = FALSE
  MaxCopies = 1
  MaxFaults = 2
CHECK_DEADLOCK FALSE
INVARIANTS
  
  PushIsExclusive
SYMMETRY Interchangeable
