\* Chains of additions and of subtractions with even intervals.
CONSTANTS
    Asec = 4
    Rate = 2
    Unit = 2
    Readings <- AroundZero
    Added <- Lopsided
    Subtracted <- Even
    MaxSteps = 3
SPECIFICATION Spec
INVARIANTS Normalised Contains Ordered
CHECK_DEADLOCK FALSE
