SPECIFICATION Spec
CONSTANTS
    s1 = s1
    s2 = s2
    cron = cron
    every = every
    tiny = tiny
    NoOwner = NoOwner
    Scheduler = {s1}
    Task = {cron}
    Cron = {cron}
    period <- MCPeriod
    Zone = 0
    Sub = 2
    MinSleep = 1
    MaxSleep = 3
    TTL = 1
    Timely = TRUE
    MaxTime = 6
    MaxPeriod = 4
    MaxStops = 0
PROPERTY TickFiresAllDue
