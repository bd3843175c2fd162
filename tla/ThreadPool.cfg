CONSTANTS
    Worker = {w1, w2, w3}
    Caller = {c1, c2}
    Task = {t1, t2, t3, t4}
    NoTask = NoTask
SPECIFICATION FairSpec
INVARIANTS
    TypeOK
    NoOversleep
PROPERTIES
    ImplementsTaskQueue
    TasksEnd
    PoolStops
CHECK_DEADLOCK FALSE
