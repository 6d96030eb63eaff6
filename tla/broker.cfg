CONSTANTS
    b1 = b1
    b2 = b2
    b3 = b3
    Broker = {b1, b2, b3}
    server_id <- Distinct
    Nil = Nil
    DropsAtStart = FALSE
    TimesOut = FALSE
    Overlap = FALSE
    MaxDrops = 1
    MaxCrashes = 1
SPECIFICATION FairSpec
INVARIANTS LeaderHoldsLock StandbyWatches
PROPERTIES HolderLeads ImplementsLease
CHECK_DEADLOCK FALSE
