SPECIFICATION Spec
CONSTANTS
    w1 = w1
    w2 = w2
    Waiter = {w1, w2}
    Timed = {w1}
    Faults = {"slow start", "open", "read", "file gone"}
    MaxCommits = 3
CHECK_DEADLOCK FALSE
INVARIANTS
    OwedWake
PROPERTIES
    CommitsSeenOrFaulted
    CloseEnds
