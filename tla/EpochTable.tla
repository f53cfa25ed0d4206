------------------------------ MODULE EpochTable ------------------------------
(***************************************************************************)
(* What a runtime worker promises its coordinator: for every deployment    *)
(* key one life cycle, and one preferred key that GET deployment status    *)
(* and requests without an identity resolve to.  Heap objects, builder     *)
(* threads and stage calls are invisible here; ModelManager is shown to    *)
(* implement this specification.                                           *)
(***************************************************************************)
EXTENDS ResidentLifecycle

CONSTANTS
    Keys,     \* deployment keys (deployment_id, epoch)
    Rank,     \* their order in the std::map
    BootKey,  \* the epoch-0 key of a worker that did not start idle
    NoKey     \* preferred_ is not engaged

VARIABLES
    st,       \* per key: the resident's state, or "none"
    pref      \* preferred_

tableVars == <<st, pref>>

Managed == Keys \ {BootKey}

Init ==
    \/ /\ st = [k \in Keys |-> "none"]
       /\ pref = NoKey
    \/ /\ st = [k \in Keys |-> IF k = BootKey THEN "active" ELSE "none"]
       /\ pref = BootKey

Load(k) ==
    /\ st[k] = "none"
    /\ st' = [st EXCEPT ![k] = "loading"]
    /\ pref' = IF pref = NoKey THEN k ELSE pref

Loaded(k) ==
    /\ st[k] = "loading"
    /\ \E outcome \in {"ready", "failed"} : st' = [st EXCEPT ![k] = outcome]
    /\ UNCHANGED pref

Activate(k) ==
    /\ ActivateAccepts(st[k])
    /\ st' = [st EXCEPT ![k] = "active"]
    /\ pref' = k

Drain(k) ==
    /\ st[k] = "active"
    /\ st' = [st EXCEPT ![k] = AfterDrain(st[k])]
    /\ UNCHANGED pref

Unload(k) ==
    /\ UnloadAccepts(st[k])
    /\ st' = [st EXCEPT ![k] = "none"]
    /\ \E p \in Keys \cup {NoKey} :
          /\ SelectsAfterErase(Keys, st', Rank, NoKey, p)
          /\ pref' = p

Next ==
    \E k \in Managed :
        Load(k) \/ Loaded(k) \/ Activate(k) \/ Drain(k) \/ Unload(k)

Spec == Init /\ [][Next]_tableVars
==============================================================================
