SPECIFICATION Spec
CONSTANTS
    s1 = s1
    s2 = s2
    cron = cron
    every = every
    tiny = tiny
    NoOwner = NoOwner
    Scheduler = {s1, s2}
    Task = {every}
    Cron = {}
    period <- MCPeriod
    Zone = 0
    Sub = 2
    MinSleep = 1
    MaxSleep = 3
    TTL = 1
    Timely = TRUE
    MaxTime = 4
    MaxPeriod = 3
    MaxStops = 1
INVARIANTS
    TypeOK
    OneLeader
    LeaderHoldsLock
PROPERTIES
    Failover
    TaskFires
