CONSTANTS
    Callers = {c1}
    MaxBatch = 2
    Worker = Worker
    Nobody = Nobody
SPECIFICATION FairSpec
CHECK_DEADLOCK FALSE
PROPERTY DestructionEnds
