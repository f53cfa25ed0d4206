SPECIFICATION FairSpec
CONSTANTS
    a = a
    b = b
    Nodes = {a, b}
    Workers <- OneEach
    QueueCapacity = 2
    Calls = 2
    MaxGenerations = 2
    Stoppable = {a}
    Lease = 2
    Idle = 4
    Delay = 1
INVARIANTS LeaseOutlivesNoPeer AnswersOwnCall
PROPERTIES GenerationsEnd StopEnds
