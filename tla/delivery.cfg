SPECIFICATION FairSpec
CONSTANTS
    t1 = t1
    t2 = t2
    g1 = g1
    g2 = g2
    r1 = r1
    Absent = Absent
    NoMessage = NoMessage
    Targets = {t1, t2}
    Ents <- MCEnts
    Direct <- MCDirect
    Staff = TRUE
    Wants <- MCWants
    Setups <- MCSetups
    MaxPosts <- Posts
    MaxQueue = 1
    MaxCrashes = 1
CHECK_DEADLOCK FALSE
INVARIANTS DeliveryTypeOK SuccessIsExact AccountsAgree
PROPERTY QueueDrains
