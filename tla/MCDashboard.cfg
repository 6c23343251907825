SPECIFICATION Spec
CONSTANTS
    Rows <- MCRows
    MaxRows = 3
INVARIANTS
    EveryReadingOnce
    DrawnAtItsTime
CHECK_DEADLOCK FALSE
