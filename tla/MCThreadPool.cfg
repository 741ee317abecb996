SPECIFICATION Spec
CONSTANTS
    Submitter = {s1, s2}
    Worker = {w1, w2, w3, w4}
    Task = {t1, t2, t3}
    NoTask = NoTask
    MinWorkers = 1
    MaxWorkers = 2
    QueueSize = 2
    ExpandAbove = 0
SYMMETRY Symmetry
CHECK_DEADLOCK FALSE
INVARIANTS TypeOK TaskOnce WaitGroupExact CurrentExact CurrentBounded QueuedExact StatsExact
PROPERTIES KeepsPromise
