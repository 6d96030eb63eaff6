SPECIFICATION DeviceSpec
CONSTANTS
    t1 = t1
    t2 = t2
    a1 = a1
    na = na
    nb = nb
    Task = {t1, t2, a1}
    Admin = {a1}
    Name = {na}
    Demand = {1}
    Stale <- AnyIndex
    Nil = Nil
    MaxCalls = 3
    MaxCrashes = 1
    Address <- Addresses
    Reading = TRUE
INVARIANTS DeviceTypeOK NamesUnique HasDevice BindingsAgree Announced PollReports Reclaimed
CHECK_DEADLOCK FALSE
