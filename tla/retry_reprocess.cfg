SPECIFICATION FairSpec
CONSTANTS
  None = None
  o1 = o1
  Ops = {o1}
  Processors = {p1}
  MaxRetries <- SameBudget
  InitialDelay = 5
  Multiplier = 2
  MaxDelay = 12
CHECK_DEADLOCK FALSE
PROPERTY RetryReprocesses
