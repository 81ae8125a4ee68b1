SPECIFICATION ChainSpec
CONSTANTS
  None = None
  Ops = {o1, o2}
  Accounts = {a1}
  Data = {d1}
  Consumers = {c1}
  Deciders = {p1}
  Modes = {"email"}
  FaultSets <- NoFaults
  Levels = 1
  Callbacks = FALSE
CHECK_DEADLOCK FALSE
INVARIANT SkippedDeleteHasNoAccount
