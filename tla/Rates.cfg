SPECIFICATION Spec
CONSTANTS
    Limits = {1, 3}
    PerSec = 3
    SweepAges = {2, 3, 5}
    MaxTime = 9
    NoRow = NoRow
CHECK_DEADLOCK FALSE
INVARIANTS
    TypeOK
    LimitKept
