SPECIFICATION ServiceFairSpec
CONSTANTS
    h1 = h1
    h2 = h2
    n1 = n1
    n2 = n2
    l1 = l1
    Tasks = {n1, n2, l1}
    NoTask = NoTask
    Groups = {}
    NoGroup = NoGroup
    PriorityOf <- Mix
    GroupOf <- Ungrouped
    WorkerCount = 2
    HighBurstLimit = 2
    CursorSize = 1
    CounterSize = 1
    Watched = 0
PROPERTY
    LowServed
