\* Two tasks on one processor, am335x driver, no discipline.
CONSTANTS
    Giga = 4
    Word = 4096
    Task = {t1, t2}
    Timer = {}
    Owner = Owner
    ISR = ISR
    UPD = UPD
    Nil = Nil
    NTimelines = 1
    Global = {}
    SMP = FALSE
    HonoursForce = TRUE
    MinDelta = 1
    MaxDelta = 4
    MaxTimepoint = 100
    MaxNow = 6
    LastRequest = 99
    Signallable = {t1, t2}
    Expiries = {2, 4}
    Periods = {1}
    Counts = {0}
    Deltas = {}
    Ppbs = {}
    Settings = {}
    MaxDisciplines = 0
SPECIFICATION Spec
INVARIANTS TypeOK NoMissedWakeup NeverStranded
SYMMETRY Symmetry
CHECK_DEADLOCK FALSE
