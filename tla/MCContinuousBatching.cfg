CONSTANTS
    Callers = {c1, c2, c3}
    MaxBatch = 2
    Worker = Worker
    Nobody = Nobody
SPECIFICATION FairSpec
CHECK_DEADLOCK FALSE
INVARIANTS
    EachRequestOnce
    OwnAnswer
PROPERTIES
    EveryCallReturns
