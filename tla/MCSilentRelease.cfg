SPECIFICATION Spec
CONSTANTS
    w1 = w1
    w2 = w2
    t1 = t1
    t2 = t2
    x1 = x1
    g1 = g1
    y1 = y1
    NoTask = NoTask
    NoGroup = NoGroup
    NoThread = NoThread
    Workers = {w1}
    Tasks = {t1}
    Groups = {}
    GroupWaiters = {}
    Waiters = {x1}
    QueueCapacity = 0
    PriorityOf <- AllNormal
    GroupOf <- Ungrouped
    WaitsFor <- AllWaitG
CHECK_DEADLOCK FALSE
PROPERTY
    IdleIsAnnounced
