SPECIFICATION ChainSpec
CONSTANTS
  None = None
  Ops = {o1, o2}
  Accounts = {a1}
  Data = {d1, d2}
  Consumers = {c1}
  Deciders = {p1}
  Modes = {"email", "auto", "off"}
  FaultSets <- NoFaults
  Levels = 1
  Callbacks = TRUE
SYMMETRY Symmetry
CHECK_DEADLOCK FALSE
INVARIANT QuietSnapshotAgrees
