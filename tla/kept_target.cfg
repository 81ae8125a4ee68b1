SPECIFICATION Spec
CONSTANTS
  None = None
  t1 = t1
  t2 = t2
  Targets = {t1}
  Accounts = {a1}
  Home <- FirstTarget
  Runtime <- Both
  Handlers = {h1, h2}
  FaultSets <- Late
  MaxRows <- Some
  MaxCrashes = 1
CHECK_DEADLOCK FALSE
INVARIANTS KeptForAccounts
