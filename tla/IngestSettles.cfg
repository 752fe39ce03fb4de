SPECIFICATION SettlesSpec
CONSTANTS
  a20 = a20
  b20 = b20
  b10 = b10
  truck = truck
  a = a
  b = b
  t20 = t20
  t10 = t10
  w1 = w1
  w2 = w2
  Post = {a20, b20, b10, truck}
  TruckPost = {truck}
  Key = {a, b, t20, t10}
  KeysOf <- KeysOfPost
  Screened <- SomeVerdicts
  Spam = {b10}
  Target = 1
  Worker = {w1, w2}
  Batch = 1
  MaxRetries = 1
  SlowWorkers = FALSE
  TargetsFail = TRUE
  TableFails = TRUE
  MaxCopies = 1
  MaxFaults = 2
CHECK_DEADLOCK FALSE
INVARIANTS
  DuplicateIsLinked
  RetryHasSuccessor
PROPERTIES
  EventuallySettled
