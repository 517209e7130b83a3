SPECIFICATION InterfaceSpec
CONSTANTS
    w1 = w1
    t1 = t1
    t2 = t2
    x1 = x1
    g1 = g1
    y1 = y1
    NoTask = NoTask
    NoGroup = NoGroup
    NoThread = NoThread
    Workers = {w1}
    Tasks = {t1, t2}
    Groups = {}
    GroupWaiters = {}
    Waiters = {x1}
    QueueCapacity = 1
    RawPriorities = {1, 3}
    PriorityOf <- AllNormal
    GroupOf <- Ungrouped
    WaitsFor <- AllWaitG
SYMMETRY SymTasks
CHECK_DEADLOCK FALSE
INVARIANTS
    CapacityRespected
    WaitSound
    AnswerTrue
    SnapshotTrue
PROPERTIES
    PoolSpec
    ImplementsExecutor
