SPECIFICATION FairSpec
CONSTANTS
    Submitter = {s1}
    Worker = {w1, w2, w3}
    Task = {t1, t2}
    NoTask = NoTask
    MinWorkers = 1
    MaxWorkers = 2
    QueueSize = 1
    ExpandAbove = 0
CHECK_DEADLOCK FALSE
PROPERTIES NoStrandedTask StopReturns StatsSettle ManagerEnds
