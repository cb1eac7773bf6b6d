SPECIFICATION Spec
CONSTANTS
    Worker = {w1, w2, w3}
    Task = {t1, t2, t3}
    NoTask = NoTask
INVARIANT NoLostWakeup
PROPERTY ImplementsTaskPool
CHECK_DEADLOCK FALSE
