SPECIFICATION ChainSpec
CONSTANTS
  None = None
  Ops = {o1}
  Accounts = {a1}
  Data = {d1}
  Consumers = {c1}
  Deciders = {p1, p2}
  Modes = {"auto"}
  FaultSets <- NoFaults
  Levels = 1
  Callbacks = TRUE
CHECK_DEADLOCK FALSE
PROPERTY StatusMovesForward
