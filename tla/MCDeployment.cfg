CONSTANTS
    Nodes = {n1, n2}
    NoNode = NoNode
    Sessions = {s1}
    StageCount = 0
    MaxEpoch = 2
    LateKinds = {"load"}
    MaxLate = 1
    KeyRank <- StringOrder
SPECIFICATION Spec
SYMMETRY Symmetry
INVARIANTS
    SessionKeepsRoute
    PublishedIsActive
    NothingLeftBehind
PROPERTIES
    ImplementsHandoff
