SPECIFICATION EnginesSpec
CONSTANTS
    SessionIds = {w}
    Vocab = {a, b}
    MaxTokens = 3
    CtxSize = 4
    Context = 5
    Alignment = 3
    KvLength = 2
    Sessions = {x, y, z}
    MaxParallel = 2
    BatchSize = 2
    Lengths = {0, 3, 4}
    Chunk = 2
    MaxInputs = 2
    MaxFaults = 2
    SharedCtxSize = 5
SYMMETRY Symmetric
INVARIANTS
    ImplementsSession
    StepsFit
    DirectReadsOwnTokens
    SlotHoldsOwnRows
    SessionMatchesCache
