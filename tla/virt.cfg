\* Two guests on a host with an application of its own.
CONSTANTS
    g1 = g1
    g2 = g2
    na = na
    nb = nb
    nh = nh
    Guest = {g1, g2}
    Name = {na}
    HostName = {nh}
    Global = {}
    Demand = {1}
    GuestIndex = {0}
    Nil = Nil
    MAX_TIMELINES = 2
    MaxRequests = 3
    MaxDisciplines = 2
    MaxTroubles = 1
SPECIFICATION FairSpec
INVARIANTS TypeOK Mirrors Kept
PROPERTIES Answered Refreshed
CHECK_DEADLOCK FALSE
