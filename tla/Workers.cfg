SPECIFICATION Spec
CONSTANTS
    j1 = j1
    j2 = j2
    l1 = l1
    l2 = l2
    w1 = w1
    w2 = w2
    w3 = w3
    Job = {j1}
    Loop = {l1, l2}
    Kinds = {"workers", "outbox", "iterator"}
    ownName <- MCOwnName
    OutboxName = w3
    WorkerID = {w1, w2, w3}
    NoWorker = NoWorker
    NoLoop = NoLoop
    VisibilityTimeout = 1
    MaxAttempts = 2
    RetryDelays = {0}
    BaseBackoff = 1
    MaxFaults = 1
    MaxTime = 2
CHECK_DEADLOCK FALSE
INVARIANTS
    TypeOK
    OutcomeStands
    ClaimsRespected
    
PROPERTIES
    
    ShutdownEnds
