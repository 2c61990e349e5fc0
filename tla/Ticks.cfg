SPECIFICATION Spec
CONSTANTS
    s1 = s1
    s2 = s2
    cron = cron
    every = every
    tiny = tiny
    NoOwner = NoOwner
    Scheduler = {s1, s2}
    Task = {cron, tiny}
    Cron = {cron}
    period <- MCPeriod
    Zone = 2
    Sub = 2
    MinSleep = 1
    MaxSleep = 3
    TTL = 1
    Timely = FALSE
    MaxTime = 5
    MaxPeriod = 4
    MaxStops = 0
SYMMETRY Symmetry
INVARIANTS
    CronKeepsItsTimes
    NoOversleep
PROPERTIES
    OncePerDue
    TickCatchesUp
