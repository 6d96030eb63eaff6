\* A step forward brings an expiry so close that it is reached while the update runs.
CONSTANTS
    Giga = 4
    Word = 4096
    Task = {t1}
    Timer = {}
    Owner = Owner
    ISR = ISR
    UPD = UPD
    Nil = Nil
    NTimelines = 1
    Global = {}
    SMP = FALSE
    HonoursForce = FALSE
    MinDelta = 0
    MaxDelta = 100
    MaxTimepoint = 100
    MaxNow = 8
    LastRequest = 99
    Signallable = {}
    Expiries = {5}
    Periods = {1}
    Counts = {0}
    Deltas <- Forward
    Ppbs = {}
    Settings = {}
    MaxDisciplines = 1
SPECIFICATION Spec
INVARIANTS OverdueIsReleased
CHECK_DEADLOCK FALSE
