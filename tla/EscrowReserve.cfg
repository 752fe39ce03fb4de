SPECIFICATION Spec
CONSTANTS
  owner = owner
  driver = driver
  c1 = c1
  c2 = c2
  NoUser = NoUser
  NoCargo = NoCargo
  User = {owner, driver}
  Owner <- OneOwner
  FeePercent = 10
  FirstCarrier = {NoUser}
  Cargo = {c1}
  Amount = {50}
  Slot = {r1}
  AwareAccepted = TRUE
  HandlersFail = TRUE
  MaxDeals = 2
  MaxRepeats = 2
INVARIANTS
  FundedIsReserved
