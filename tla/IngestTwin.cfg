SPECIFICATION Spec
CONSTANTS
  a20 = a20
  b20 = b20
  b10 = b10
  truck = truck
  a = a
  b = b
  t20 = t20
  t10 = t10
  w1 = w1
  w2 = w2
  Post = {a20}
  TruckPost = {}
  Key = {a, t20}
  KeysOf <- KeysOfPost
  Screened <- AllCargo
  Spam = {}
  Target = 1
  Worker = {w1}
  Batch = 1
  MaxRetries = 0
  SlowWorkers = FALSE
  TargetsFail = FALSE
  TableFails = FALSE
  MaxCopies = 1
  MaxFaults = 1
CHECK_DEADLOCK FALSE
INVARIANT
  DuplicateHasTwin
