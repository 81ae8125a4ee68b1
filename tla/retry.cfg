SPECIFICATION FairSpec
CONSTANTS
  None = None
  o1 = o1
  Ops = {o1, o2}
  Processors = {p1, p2}
  MaxRetries <- BudgetOfRows
  InitialDelay = 5
  Multiplier = 2
  MaxDelay = 12
CHECK_DEADLOCK FALSE
INVARIANTS TypeOK RetryBudget TwoLoopsOverrunByOne DelayIsCapped BatchStaysFresh DlqStaysEmpty
PROPERTY TakenIsRescheduled
