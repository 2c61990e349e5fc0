SPECIFICATION Spec
CONSTANTS
    w1 = w1
    w2 = w2
    Waiter = {w1}
    Timed = {}
    Faults = {"read"}
    MaxCommits = 1
CHECK_DEADLOCK FALSE
PROPERTY CommitsSeen
