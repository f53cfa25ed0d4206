-------------------------- MODULE ResidentLifecycle --------------------------
(***************************************************************************)
(* The life cycle of one resident deployment on a runtime worker, as pure  *)
(* definitions: the states of runtime/deployment/deployment.hpp and what   *)
(* each ModelManager operation does to a resident in a given state.  The   *)
(* object-level ModelManager, the per-epoch table it implements, and the   *)
(* coordinator composition all read these definitions.                     *)
(***************************************************************************)
EXTENDS Integers

\* ResidentDeploymentState.
States == {"loading", "ready", "active", "draining", "unloading", "failed"}

\* is_valid_resident_deployment_transition for two engaged optionals.
ValidTransition(from, to) ==
    <<from, to>> \in
        {<<"loading", "ready">>,      <<"loading", "failed">>,
         <<"ready", "active">>,       <<"ready", "unloading">>,
         <<"ready", "failed">>,       <<"active", "draining">>,
         <<"active", "failed">>,      <<"draining", "unloading">>,
         <<"draining", "failed">>,    <<"unloading", "failed">>,
         <<"failed", "unloading">>}

\* is_executable: stage work is accepted for active and draining residents.
Executable(state) == state \in {"active", "draining"}

\* activate: ready becomes active, a repeat on active succeeds, and every
\* other state is refused (503 while transitioning, 409 after a failure).
ActivateAccepts(state) == state \in {"ready", "active"}

\* drain: succeeds on every resident state but unloading, and only an active
\* resident changes.
AfterDrain(state) == IF state = "active" THEN "draining" ELSE state

\* Mutant of UnloadAccepts: the check for an active resident is missing.
UnloadAcceptsActive(state) == state \in {"loading", "ready", "active", "draining", "failed"}

\* unload: active is refused (409 deployment_not_draining) and unloading too.
UnloadAccepts(state) == state \in {"loading", "ready", "draining", "failed"}

\* Mutant of SelectsAfterErase: the last key is taken, executable or not.
SelectsLast(Keys, st, rank, noKey, pref) ==
    LET Resident == {k \in Keys : st[k] # "none"}
    IN  \/ /\ pref \in Resident
           /\ \A j \in Resident : rank[j] <= rank[pref]
        \/ Resident = {} /\ pref = noKey

\* select_preferred_after_erase: scan the map from its last key to its first
\* for an executable resident; with none, take the last key; with no resident
\* left, reset.  st gives each key's state ("none" when the key is absent) and
\* rank the key's place in the std::map order of (deployment_id, epoch).
SelectsAfterErase(Keys, st, rank, noKey, pref) ==
    LET Resident == {k \in Keys : st[k] # "none"}
        Serving  == {k \in Resident : Executable(st[k])}
        Last(S)  == {k \in S : \A j \in S : rank[j] <= rank[k]}
    IN  \/ /\ Serving # {}
           /\ pref \in Last(Serving)
        \/ /\ Serving = {}
           /\ Resident # {}
           /\ pref \in Last(Resident)
        \/ /\ Resident = {}
           /\ pref = noKey
==============================================================================
