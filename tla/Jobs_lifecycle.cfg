CONSTANTS
    t1 = t1
    t2 = t2
    NoTask = NoTask
    Tasks = {t1, t2}
    Kind <- LongAndCron
    Pool = {w1, w2}
    LoopErrors = TRUE
SPECIFICATION Spec
SYMMETRY PoolSymmetry
INVARIANTS
    TypeOK
    OneDispatchPerTask
    CompletedIsRecorded
PROPERTIES
    FailedIsKept
