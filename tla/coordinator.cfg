CONSTANTS
    Names = {1, 2, 3}
    Uuids = {7, 8}
    Hosted <- TwoAndOne
    Demands <- Stricter
    Domains = {1}
    MASTER_TIMEOUT = 2
    NEW_MASTER_WAIT = 3
    DELAY_INITIALIZING = 5
    Slots = 3
    Staggered = TRUE
    Steady = TRUE
    MaxStops = 1
    MaxMisses = 1
SPECIFICATION FairSpec
PROPERTIES NoFalseTimeout Elected
CHECK_DEADLOCK FALSE
