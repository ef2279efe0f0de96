CONSTANTS
    Source = {a, m}
    Memo = m
    MaxReads = 0
SPECIFICATION Spec
INVARIANTS
    AskedOnceResolved
CHECK_DEADLOCK FALSE
