\* Two clocks: one stopped, faults, a link that goes down, Sync messages.
CONSTANTS
    Clock = {1, 2}
    Rank <- Alike
    Appointed = 2
    Interval = 1
    announceReceiptTimeout = 3
    FOREIGN_MASTER_THRESHOLD = 2
    Nil = Nil
    MaxTroubles = 2
    MaxSyncs = 1
SPECIFICATION FairSpec
INVARIANTS TypeOK ParentIsRight
PROPERTIES Converges StopReturns Loyal
CHECK_DEADLOCK FALSE
