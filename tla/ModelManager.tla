----------------------------- MODULE ModelManager -----------------------------
(***************************************************************************)
(* ModelManager::Impl (runtime/deployment/model_manager.cpp): the map from *)
(* (deployment_id, epoch) to resident deployments of one runtime worker.   *)
(*                                                                         *)
(* Every operation runs under mutex_ except the two long ones: a load      *)
(* builds its engine with the lock released and re-locks to install it,    *)
(* and a stage call runs on the shared_ptr it took under the lock.  Both   *)
(* keep a heap object alive across other threads' unloads and reloads of   *)
(* the same key, so objects are modelled by identity: an object is free    *)
(* only when neither the map, nor a load, nor a stage call refers to it.   *)
(*                                                                         *)
(* Calls that are refused or change nothing are not steps: a load of an    *)
(* existing key, activate / unload refusals, drain of a resident that is   *)
(* not active, any operation whose full identity matches no resident.      *)
(***************************************************************************)
EXTENDS ResidentLifecycle, FiniteSets

CONSTANTS
    Keys,      \* deployment keys
    Rank,      \* their order in the std::map
    BootKey,   \* key of the epoch-0 deployment of a non-idle start
    Models,    \* the rest of an identity: model_id and model_sha256
    Objects,   \* heap cells for ResidentDeployment
    Loaders,   \* threads that may be inside load_resident_deployment
    Runners,   \* threads that may be inside a stage call
    NoKey,     \* preferred_ is not engaged
    NoObject   \* a null shared_ptr

ASSUME KeysAssumption ==
    /\ Rank \in [Keys -> Int]
    /\ \A j, k \in Keys : Rank[j] = Rank[k] => j = k
    /\ BootKey \in Keys
    /\ NoKey \notin Keys

ASSUME ObjectsAssumption ==
    /\ NoObject \notin Objects
    /\ Objects # {}
    /\ Models # {}

VARIABLES
    deployments,  \* deployments_: key -> object
    preferred,    \* preferred_
    object,       \* ResidentDeployment: identity and state
    canceled,     \* the objects with cancel_requested
    built,        \* the objects whose execution is engaged
    building,     \* the object a load holds while it builds the engine
    running,      \* the object a stage call executes on
    wanted        \* the identity that stage call asked for

vars == <<deployments, preferred, object, canceled, built, building, running, wanted>>

Identity == [key : Keys, model : Models]

Resident == [key : Keys, model : Models, state : States]

TypeOK ==
    /\ deployments \in [Keys -> Objects \cup {NoObject}]
    /\ preferred \in Keys \cup {NoKey}
    /\ object \in [Objects -> Resident]
    /\ canceled \subseteq Objects
    /\ built \subseteq Objects
    /\ building \in [Loaders -> Objects \cup {NoObject}]
    /\ running \in [Runners -> Objects \cup {NoObject}]
    /\ wanted \in [Runners -> Identity]

InMap(o) == \E k \in Keys : deployments[k] = o

Referenced(o) ==
    \/ InMap(o)
    \/ \E l \in Loaders : building[l] = o
    \/ \E r \in Runners : running[r] = o

IdentityOf(o) == [key |-> object[o].key, model |-> object[o].model]

\* Mutant of Finds: the key is compared, the rest of the identity is not.
FindsKey(id, o) == o \in Objects /\ deployments[id.key] = o

\* find_exact: the key's resident, if its whole identity is the expected one.
Finds(id, o) ==
    /\ o \in Objects
    /\ deployments[id.key] = o
    /\ IdentityOf(o) = id

\* is_executable, the execution pointer included.
IsExecutable(o) == o \in built /\ Executable(object[o].state)

\* The state of every key: "none", or its resident's.
StateOf(k) ==
    IF deployments[k] = NoObject THEN "none" ELSE object[deployments[k]].state

\* Stands for what a runner without a call asked for.
Unasked == [key |-> BootKey, model |-> CHOOSE m \in Models : TRUE]

------------------------------------------------------------------------------
Init ==
    /\ canceled = {}
    /\ building = [l \in Loaders |-> NoObject]
    /\ running = [r \in Runners |-> NoObject]
    /\ wanted = [r \in Runners |-> Unasked]
    /\ \E m \in Models, boot \in Objects :
          object = [o \in Objects |->
                      [key |-> BootKey, model |-> m,
                       state |-> IF o = boot THEN "active" ELSE "unloading"]]
       /\ \/ /\ deployments = [k \in Keys |-> NoObject]   \* start_idle
             /\ preferred = NoKey
             /\ built = {}
          \/ /\ deployments = [k \in Keys |-> IF k = BootKey THEN boot ELSE NoObject]
             /\ preferred = BootKey                        \* insert_active
             /\ built = {boot}

\* load_resident_deployment up to the release of the lock: the key must be
\* absent; a new loading resident enters the map and becomes preferred only
\* when nothing was.
LoadBegin(l, id) ==
    /\ building[l] = NoObject
    /\ deployments[id.key] = NoObject
    /\ \E o \in Objects :
          /\ ~Referenced(o)
          /\ object' = [object EXCEPT ![o] =
                          [key |-> id.key, model |-> id.model, state |-> "loading"]]
          /\ deployments' = [deployments EXCEPT ![id.key] = o]
          /\ building' = [building EXCEPT ![l] = o]
          /\ canceled' = canceled \ {o}
          /\ built' = built \ {o}
    /\ preferred' = IF preferred = NoKey THEN id.key ELSE preferred
    /\ UNCHANGED <<running, wanted>>

\* transition: the resident keeps its identity.
Transition(o, next) ==
    object' = [object EXCEPT ![o] =
                 [key |-> object[o].key, model |-> object[o].model, state |-> next]]

\* Mutant of LoadIsCanceled: only an absent key cancels the load.
LoadKeyIsGone(o) == deployments[object[o].key] = NoObject

\* The check after the build: an unload canceled this load, or the key now
\* belongs to another object.
LoadIsCanceled(o) == o \in canceled \/ deployments[object[o].key] # o

\* Mutant of LoadEnd: a canceled load builds its engine again.
LoadEndRetries(l) ==
    LET o == building[l]
    IN  /\ o # NoObject
        /\ \/ /\ LoadIsCanceled(o)
              /\ UNCHANGED <<object, built, building>>
           \/ /\ ~LoadIsCanceled(o)
              /\ Transition(o, "ready")
              /\ built' = built \cup {o}
              /\ building' = [building EXCEPT ![l] = NoObject]
        /\ UNCHANGED <<deployments, preferred, canceled, running, wanted>>

\* load_resident_deployment after the build, by success or by exception.
LoadEnd(l) ==
    LET o == building[l]
    IN  /\ o # NoObject
        /\ building' = [building EXCEPT ![l] = NoObject]
        /\ \/ /\ LoadIsCanceled(o)
              /\ UNCHANGED <<object, built>>
           \/ /\ ~LoadIsCanceled(o)
              /\ Transition(o, "ready")
              /\ built' = built \cup {o}
           \/ /\ ~LoadIsCanceled(o)
              /\ Transition(o, "failed")
              /\ UNCHANGED built
        /\ UNCHANGED <<deployments, preferred, canceled, running, wanted>>

\* Mutant of Activate: the preference stays where it was.
ActivateOnly(id) ==
    \E o \in Objects :
        /\ Finds(id, o)
        /\ ActivateAccepts(object[o].state)
        /\ Transition(o, "active")
        /\ UNCHANGED <<deployments, preferred, canceled, built, building, running, wanted>>

\* activate_resident_deployment.
Activate(id) ==
    \E o \in Objects :
        /\ Finds(id, o)
        /\ ActivateAccepts(object[o].state)
        /\ object[o].state = "ready" => o \in built
        /\ Transition(o, "active")
        /\ preferred' = id.key
        /\ UNCHANGED <<deployments, canceled, built, building, running, wanted>>

\* drain_resident_deployment.
Drain(id) ==
    \E o \in Objects :
        /\ Finds(id, o)
        /\ object[o].state = "active"
        /\ Transition(o, AfterDrain(object[o].state))
        /\ UNCHANGED <<deployments, preferred, canceled, built, building, running, wanted>>

\* Mutant of Unload: a loading resident is not canceled but unloaded like any
\* other.
UnloadWithoutCancel(id) ==
    \E o \in Objects :
        /\ Finds(id, o)
        /\ UnloadAccepts(object[o].state)
        /\ Transition(o, "unloading")
        /\ deployments' = [deployments EXCEPT ![id.key] = NoObject]
        /\ \E p \in Keys \cup {NoKey} :
              /\ SelectsAfterErase(Keys,
                     [k \in Keys |-> IF k = id.key THEN "none" ELSE StateOf(k)],
                     Rank, NoKey, p)
              /\ preferred' = p
        /\ UNCHANGED <<canceled, built, building, running, wanted>>

\* unload_resident_deployment: a loading resident is canceled, any other is
\* moved to unloading; both leave the map and the preference is reselected
\* among the residents that stay (an executable state implies an engine there,
\* see MapIsConsistent).
Unload(id) ==
    \E o \in Objects :
        /\ Finds(id, o)
        /\ UnloadAccepts(object[o].state)
        /\ IF object[o].state = "loading"
           THEN /\ canceled' = canceled \cup {o}
                /\ UNCHANGED object
           ELSE /\ Transition(o, "unloading")
                /\ UNCHANGED canceled
        /\ deployments' = [deployments EXCEPT ![id.key] = NoObject]
        /\ \E p \in Keys \cup {NoKey} :
              /\ SelectsAfterErase(Keys,
                     [k \in Keys |-> IF k = id.key THEN "none" ELSE StateOf(k)],
                     Rank, NoKey, p)
              /\ preferred' = p
        /\ UNCHANGED <<built, building, running, wanted>>

\* deployment_for and validate_stage_deployment for a request that carries an
\* identity; run_stage, close_session and rollback_session share them.
StageBegin(r, id) ==
    /\ running[r] = NoObject
    /\ \E o \in Objects :
          /\ Finds(id, o)
          /\ IsExecutable(o)
          /\ running' = [running EXCEPT ![r] = o]
    /\ wanted' = [wanted EXCEPT ![r] = id]
    /\ UNCHANGED <<deployments, preferred, object, canceled, built, building>>

\* The same for a request without an identity: it resolves to the preferred
\* resident, and only an epoch-0 resident accepts it.
StageBeginUnmanaged(r) ==
    /\ running[r] = NoObject
    /\ preferred = BootKey
    /\ deployments[BootKey] # NoObject
    /\ LET o == deployments[BootKey]
       IN  /\ IsExecutable(o)
           /\ running' = [running EXCEPT ![r] = o]
           /\ wanted' = [wanted EXCEPT ![r] = IdentityOf(o)]
    /\ UNCHANGED <<deployments, preferred, object, canceled, built, building>>

StageEnd(r) ==
    /\ running[r] # NoObject
    /\ running' = [running EXCEPT ![r] = NoObject]
    /\ wanted' = [wanted EXCEPT ![r] = Unasked]
    /\ UNCHANGED <<deployments, preferred, object, canceled, built, building>>

\* require_managed_identity: every operation refuses epoch 0.
ManagedIdentity == {id \in Identity : id.key # BootKey}

Next ==
    \/ \E id \in ManagedIdentity :
          \/ \E l \in Loaders : LoadBegin(l, id)
          \/ Activate(id)
          \/ Drain(id)
          \/ Unload(id)
    \/ \E l \in Loaders : LoadEnd(l)
    \/ \E r \in Runners :
          \/ \E id \in Identity : StageBegin(r, id)
          \/ StageBeginUnmanaged(r)
          \/ StageEnd(r)

Spec == Init /\ [][Next]_vars

\* An engine build returns or throws, and a stage call returns.
Fairness ==
    /\ \A l \in Loaders : WF_vars(LoadEnd(l))
    /\ \A r \in Runners : WF_vars(StageEnd(r))

FairSpec == Spec /\ Fairness

------------------------------------------------------------------------------
\* The preferred key answers GET deployment status and identity-less requests:
\* it is engaged exactly while something is resident, names a resident, and
\* names an executable one whenever any resident is executable.
PreferredServes ==
    /\ preferred = NoKey <=> \A k \in Keys : deployments[k] = NoObject
    /\ preferred # NoKey => deployments[preferred] # NoObject
    /\ (\E k \in Keys : Executable(StateOf(k))) => Executable(StateOf(preferred))

\* A stage call runs outside the lock, yet keeps the resident whose identity it
\* asked for, with its engine, through concurrent drains, unloads and reloads of
\* the same key.
StageKeepsItsResident ==
    \A r \in Runners : running[r] # NoObject =>
        /\ running[r] \in built
        /\ IdentityOf(running[r]) = wanted[r]

\* Two loads never install into one object, a resident that is loading has the
\* one load that will finish it, and a load still in progress never holds an
\* object that someone already made executable.
OneLoadPerResident ==
    /\ \A l1, l2 \in Loaders : building[l1] = building[l2] /\ building[l1] # NoObject => l1 = l2
    /\ \A k \in Keys : StateOf(k) = "loading" => \E l \in Loaders : building[l] = deployments[k]
    /\ \A l \in Loaders : building[l] # NoObject => object[building[l]].state = "loading"

\* What the map and the flags of its residents keep in step, whoever holds the
\* lock: a resident knows its own key, was not canceled or unloaded, and has its
\* engine from the moment it is ready.
MapIsConsistent ==
    \A k \in Keys : deployments[k] # NoObject =>
        LET o == deployments[k]
        IN  /\ object[o].key = k
            /\ o \notin canceled
            /\ object[o].state # "unloading"
            /\ object[o].state \in {"ready", "active", "draining"} => o \in built

\* Epoch 0 is never loaded: it enters the map at the boot of the worker only.
LoadsAreManaged ==
    \A l \in Loaders : building[l] # NoObject => object[building[l]].key # BootKey

\* The inductive invariant.
IInv ==
    /\ TypeOK
    /\ MapIsConsistent
    /\ LoadsAreManaged
    /\ OneLoadPerResident
    /\ StageKeepsItsResident
    /\ PreferredServes

\* transition() never throws "invalid resident deployment transition": whatever
\* the interleaving, a live object only moves along the edges of
\* is_valid_resident_deployment_transition.
LifecycleEdges ==
    [][\A o \in Objects :
          Referenced(o) /\ object'[o].state # object[o].state =>
              ValidTransition(object[o].state, object'[o].state)]_vars

\* An object that left the map while a load or a stage call still holds it
\* never comes back and is never changed again: a canceled load installs
\* nothing, even when the key was loaded anew in the meantime.
ErasedStaysErased ==
    [][\A o \in Objects :
          Referenced(o) /\ ~InMap(o) =>
              /\ ~InMap(o)'
              /\ object'[o] = object[o]
              /\ o \in built' => o \in built]_vars

\* The memory of an unloaded deployment is eventually released: once out of the
\* map, an object loses its last reference.
ErasedIsReleased ==
    \A o \in Objects : (Referenced(o) /\ ~InMap(o)) ~> ~Referenced(o)

\* The manager implements the per-key table it promises the coordinator.
Table == INSTANCE EpochTable WITH
             st <- [k \in Keys |-> StateOf(k)],
             pref <- preferred

ImplementsEpochTable == Table!Spec
==============================================================================
