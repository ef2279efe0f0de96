CONSTANTS
    Source = {a, m}
    Memo = m
    MaxReads = 2
SPECIFICATION Spec
INVARIANTS
    OutdatedIsKnown
    WakesAreKept
    DependantIsCurrent
PROPERTIES
    EventsArePolled
CHECK_DEADLOCK FALSE
