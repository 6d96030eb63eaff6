SPECIFICATION FairServiceSpec
CONSTANTS
    t1 = t1
    t2 = t2
    na = na
    Task = {t1, t2}
    Admin = {}
    Name = {na}
    Demand = {1}
    Stale <- AnyIndex
    Nil = Nil
    MaxCalls = 3
    MaxCrashes = 0
    Service = Service
INVARIANTS Follows AllReclaimed
PROPERTY Noticed
CHECK_DEADLOCK FALSE
