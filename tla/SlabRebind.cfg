CONSTANTS
    Effect = {e1}
    Key = {k1, k2}
    MaxReads = 2
SPECIFICATION Spec
INVARIANTS
    NoBorrowPanic
CHECK_DEADLOCK FALSE
