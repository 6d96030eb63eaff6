\* A task on a local timeline that is stepped, slewed and set, one processor, am335x driver.
CONSTANTS
    Giga = 4
    Word = 4096
    Task = {t1}
    Timer = {}
    Owner = Owner
    ISR = ISR
    UPD = UPD
    Nil = Nil
    NTimelines = 1
    Global = {}
    SMP = FALSE
    HonoursForce = TRUE
    MinDelta = 1
    MaxDelta = 4
    MaxTimepoint = 100
    MaxNow = 5
    LastRequest = 2
    Signallable = {}
    Expiries = {4}
    Periods = {1}
    Counts = {0}
    Deltas <- BothWays
    Ppbs <- Rates
    Settings = {3}
    MaxDisciplines = 2
SPECIFICATION Spec
INVARIANT NeverStranded
PROPERTIES NoEarlyRelease UpdateReleasesOverdue
CHECK_DEADLOCK FALSE
