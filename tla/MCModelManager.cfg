CONSTANTS
    Keys <- MCKeys
    Rank <- MCRank
    BootKey = 0
    Models = {m1, m2}
    Objects = {o1, o2, o3}
    Loaders = {l1, l2}
    Runners = {r1}
    NoKey = NoKey
    NoObject = NoObject
SPECIFICATION FairSpec
INVARIANTS
    PreferredServes
    StageKeepsItsResident
    OneLoadPerResident
PROPERTIES
    LifecycleEdges
    ErasedStaysErased
    ImplementsEpochTable
    ErasedIsReleased
