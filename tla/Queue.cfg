SPECIFICATION Spec
CONSTANTS
    j1 = j1
    j2 = j2
    c1 = c1
    c2 = c2
    p1 = p1
    p2 = p2
    w1 = w1
    w2 = w2
    Job = {j1, j2}
    Consumer = {c1, c2}
    Process = {p1}
    processOf <- MCProcessOf
    WorkerID = {w1, w2}
    workerOf <- MCWorkerOf
    NoWorker = NoWorker
    Nobody = Nobody
    VisibilityTimeout = 1
    MaxAttempts = 2
    Delays = {1}
    TTLs = {0, 2}
    Priorities = {0, 1}
    BatchSizes = {1, 2}
    Extensions = {1}
    MaxTime = 3
SYMMETRY Symmetry
INVARIANTS
    TypeOK
    LeaseBacked
    ExclusiveLease
    ExactlyOnePlace
    AttemptsAreDeliveries
    DeadOnlyWhenSpent
PROPERTIES
    NeverEarly
    ClaimsInOrder
    OnlyTheHolderSettles
    
