SPECIFICATION Spec
CONSTANTS
    j1 = j1
    j2 = j2
    c1 = c1
    c2 = c2
    p1 = p1
    p2 = p2
    w1 = w1
    w2 = w2
    Job = {j1}
    Consumer = {c1, c2}
    Process = {p1, p2}
    processOf <- MCTwoProcessOf
    WorkerID = {w1, w2}
    workerOf <- MCWorkerOf
    NoWorker = NoWorker
    Nobody = Nobody
    VisibilityTimeout = 1
    MaxAttempts = 1
    Delays = {0}
    TTLs = {0, 2}
    Priorities = {0}
    BatchSizes = {1}
    Extensions = {1}
    MaxTime = 3
INVARIANT ExclusiveLease
