SPECIFICATION InterfaceSpec
CONSTANTS
    w1 = w1
    t1 = t1
    t2 = t2
    x1 = x1
    g1 = g1
    y1 = y1
    NoTask = NoTask
    NoGroup = NoGroup
    NoThread = NoThread
    Workers = {w1}
    Tasks = {t1, t2}
    Groups = {g1}
    GroupWaiters = {y1}
    Waiters = {}
    QueueCapacity = 0
    RawPriorities = {1, 3}
    PriorityOf <- AllNormal
    GroupOf <- AllInG
    WaitsFor <- AllWaitG
SYMMETRY SymTasks
CHECK_DEADLOCK FALSE
INVARIANTS
    GroupWaitRan
    DestroyDrains
    AnswerTrue
    GroupAlive
    GroupReleased
PROPERTIES
    GroupSpec
    ImplementsExecutor
