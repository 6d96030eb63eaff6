\* A task and a timer on a global timeline that is set or stepped back, several processors, x86 driver.
CONSTANTS
    Giga = 4
    Word = 4096
    Task = {t1}
    Timer = {k1}
    Owner = Owner
    ISR = ISR
    UPD = UPD
    Nil = Nil
    NTimelines = 1
    Global = {1}
    SMP = TRUE
    HonoursForce = FALSE
    MinDelta = 0
    MaxDelta = 100
    MaxTimepoint = 100
    MaxNow = 2
    LastRequest = 1
    Signallable = {}
    Expiries = {0, 1}
    Periods = {1}
    Counts = {0, 2}
    Deltas <- Back
    Ppbs = {}
    Settings = {3}
    MaxDisciplines = 1
SPECIFICATION Spec
INVARIANTS LinkedIffInUse TimerAccounting
PROPERTIES NoEarlyRelease
CHECK_DEADLOCK FALSE
