SPECIFICATION WaitsFairSpec
CONSTANTS
    g1 = g1
    t1 = t1
    t2 = t2
    t3 = t3
    x1 = x1
    x2 = x2
    Tasks = {t1}
    NoTask = NoTask
    Groups = {g1}
    NoGroup = NoGroup
    GroupWaiters = {x1}
    NoThread = NoThread
    PriorityOf <- AllNormal
    GroupOf <- OneGroup
    WaitsFor <- AllWaitOne
CHECK_DEADLOCK FALSE
PROPERTY
    GroupWaitReturns
