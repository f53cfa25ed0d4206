CONSTANTS
    Nodes = {n1, n2}
    NoNode = NoNode
    Sessions = {s1}
    StageCount = 0
    MaxEpoch = 3
    EpochsBeforeCalm = 2
    MaxFaults = 2
    LateKinds = {"load", "activate", "drain", "unload"}
    MaxLate = 1
    KeyRank <- NumericOrder
SPECIFICATION RSpec
PROPERTIES
    Converges
