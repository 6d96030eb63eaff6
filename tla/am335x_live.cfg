\* Progress of a task and a timer on one processor, am335x driver.
CONSTANTS
    Giga = 4
    Word = 4096
    Task = {t1}
    Timer = {k1}
    Owner = Owner
    ISR = ISR
    UPD = UPD
    Nil = Nil
    NTimelines = 1
    Global = {}
    SMP = FALSE
    HonoursForce = TRUE
    MinDelta = 1
    MaxDelta = 4
    MaxTimepoint = 100
    MaxNow = 4
    LastRequest = 0
    Signallable = {}
    Expiries = {2}
    Periods = {1}
    Counts = {2}
    Deltas <- Forward
    Ppbs = {}
    Settings = {}
    MaxDisciplines = 1
SPECIFICATION FairSpec
PROPERTIES SleepReturns TimerEnds
CHECK_DEADLOCK FALSE
