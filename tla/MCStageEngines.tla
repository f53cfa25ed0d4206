---------------------------- MODULE MCStageEngines ----------------------------
(***************************************************************************)
(* The engines behind a stage worker: the native engine, or the llama.cpp  *)
(* adapter with its shared context.  A worker runs one of them.            *)
(***************************************************************************)
EXTENDS NativeStage, TLC

CONSTANTS
    Sessions, MaxParallel, BatchSize, Lengths, Chunk, MaxInputs, MaxFaults,
    SharedCtxSize   \* CtxSize of the llama.cpp adapter

VARIABLES
    engine,               \* which of the two the worker runs
    stage, idle, faults   \* the state of the adapter

Shared == INSTANCE StageSlots WITH CtxSize <- SharedCtxSize

ASSUME SharedAssumption == Shared!SlotsConfig

sharedVars == <<stage, idle, faults>>

\* The native engine's config says nothing of a worker that runs the adapter.
EnginesInit ==
    /\ Init /\ Shared!Init
    /\ engine \in {"native", "llama_cpp"}
    /\ engine = "llama_cpp" => \A f \in DOMAIN config : config[f]

EnginesNext ==
    \/ engine = "native" /\ Next /\ UNCHANGED <<engine, sharedVars>>
    \/ engine = "llama_cpp" /\ Shared!Next /\ UNCHANGED <<engine, vars>>

EnginesSpec == EnginesInit /\ [][EnginesNext]_<<engine, vars, sharedVars>>

Symmetric == Permutations(Sessions)

\* No generation attends to another one's rows in the shared context, whatever
\* failed before (StageSlots; release_sequence, close_session_locked).
SlotHoldsOwnRows == Shared!SlotHoldsOwnRows

\* What a session of the adapter counts is what its slot holds, through failed
\* rows and rollbacks (StageSlots; execute_shared_decode_locked).
SessionMatchesCache == Shared!SessionMatchesCache
===============================================================================
