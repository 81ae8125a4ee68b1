SPECIFICATION FairSyncSpec
CONSTANTS
  None = None
  k1 = k1
  k2 = k2
  l1 = l1
  Keys = {k1, l1}
  Legacy = {l1}
  Replacement <- ReplacedBy
  Users = {u1}
  Handlers = {h1, h2}
  MaxRequests = 2
  MaxLinks = 7
  Budget <- Changes
  Assignments <- AllRoles
  FaultSets <- OneKind
  Levels = 2
  Confirmations = 2
  MaxCrashes = 1
CHECK_DEADLOCK FALSE
INVARIANTS RemovalTypeOK EveryLevelSigned OneOpenRequest MissingHasRequest PendingCanBeDecided
PROPERTIES KnownHasRole AbsenceConfirmed OrphansAsked ApprovedIsExecuted
