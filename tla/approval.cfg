SPECIFICATION FairChainSpec
CONSTANTS
  None = None
  Ops = {o1}
  Accounts = {a1}
  Data = {d1}
  Consumers = {c1}
  Deciders = {p1, p2}
  Modes = {"email", "auto", "off"}
  FaultSets <- FaultsToMeet
  Levels = 3
  Callbacks = FALSE
CHECK_DEADLOCK FALSE
INVARIANTS TypeOK ChainTypeOK DecisionIsHonoured EveryLevelSigned LinkHasItsChain WaitingCanBeDecided
PROPERTIES PromiseKept ConclusionTakesEffect EveryOperationSettles StatusMovesForward AutoModeDecides
