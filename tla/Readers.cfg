SPECIFICATION Spec
CONSTANTS
    t1 = t1
    t2 = t2
    c1 = c1
    s1 = s1
    s2 = s2
    n1 = n1
    Topic = {t1, t2}
    Consumer = {c1}
    Reader = {s1, s2, n1}
    Listeners = {n1}
    Crews <- MCCrews
    topicOf <- MCTopicOf
    consumerOf <- MCConsumerOf
    NoConsumer = NoConsumer
    Starts = {0, 1}
    BatchSize = 2
    Capacity = 1
    SaveEveryN = 2
    MaxKeep = 1
    MaxOpens = 2
    MaxEvents = 3
    MaxNotes = 3
CHECK_DEADLOCK FALSE
INVARIANTS
    NothingSkipped
    OffsetsCover
PROPERTIES
    AllServed
