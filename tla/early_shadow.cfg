SPECIFICATION SyncSpec
CONSTANTS
  None = None
  k1 = k1
  k2 = k2
  l1 = l1
  Keys = {k1, k2}
  Legacy = {}
  Replacement <- ReplacedBy
  Users = {u1}
  Handlers = {h1, h2}
  MaxRequests = 2
  MaxLinks = 4
  FaultSets <- NoFaults
  Budget <- Changes
  Assignments <- AllRoles
  Levels = 1
  Confirmations = 2
  MaxCrashes = 0
INVARIANTS ShadowWaitsForApproval
