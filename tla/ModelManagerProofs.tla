-------------------------- MODULE ModelManagerProofs --------------------------
(***************************************************************************)
(* Proofs about ModelManager, for any set of keys, threads and heap cells. *)
(* The inductive invariant is IInv; every action is shown to preserve it,  *)
(* and the action properties and the refinement of EpochTable follow from  *)
(* it.                                                                     *)
(***************************************************************************)
EXTENDS ModelManager, TLAPS

\* What stands for a runner without a stage call is an identity.
LEMMA UnaskedType == Unasked \in Identity
  BY KeysAssumption, ObjectsAssumption DEF Unasked, Identity

\* The initial states, an idle worker or one that booted with an epoch-0
\* deployment, satisfy the inductive invariant.
LEMMA InitIInv == Init => IInv
  <1> SUFFICES ASSUME Init PROVE IInv
    BY Zenon
  <1> USE KeysAssumption, ObjectsAssumption
  <1>1. TypeOK
    BY UnaskedType DEF Init, TypeOK, Resident, States
  <1>2. MapIsConsistent
    BY DEF Init, MapIsConsistent
  <1>3. OneLoadPerResident
    BY DEF Init, OneLoadPerResident, StateOf
  <1>4. StageKeepsItsResident
    BY Zenon DEF Init, StageKeepsItsResident
  <1>5. PreferredServes
    BY DEF Init, PreferredServes, StateOf, Executable
  <1>6. LoadsAreManaged
    BY Zenon DEF Init, LoadsAreManaged
  <1> QED
    BY <1>1, <1>2, <1>3, <1>4, <1>5, <1>6, Zenon DEF IInv

\* A load that starts takes an unreferenced object, so it disturbs no resident,
\* no other load and no stage call.
LEMMA LoadBeginIInv ==
  ASSUME IInv, NEW l \in Loaders, NEW id \in ManagedIdentity, LoadBegin(l, id)
  PROVE  IInv'
  <1> USE KeysAssumption, ObjectsAssumption
  <1>id. id \in Identity /\ id.key \in Keys /\ id.model \in Models
    BY Zenon DEF ManagedIdentity, Identity
  <1>1. PICK o \in Objects :
          /\ ~Referenced(o)
          /\ object' = [object EXCEPT ![o] =
                          [key |-> id.key, model |-> id.model, state |-> "loading"]]
          /\ deployments' = [deployments EXCEPT ![id.key] = o]
          /\ building' = [building EXCEPT ![l] = o]
          /\ canceled' = canceled \ {o}
          /\ built' = built \ {o}
    BY Zenon DEF LoadBegin
  <1>2. /\ building[l] = NoObject
        /\ deployments[id.key] = NoObject
        /\ preferred' = IF preferred = NoKey THEN id.key ELSE preferred
        /\ UNCHANGED <<running, wanted>>
    BY Zenon DEF LoadBegin
  <1>3. /\ \A k \in Keys : deployments[k] # o
        /\ \A m \in Loaders : building[m] # o
        /\ \A r \in Runners : running[r] # o
    BY <1>1, Zenon DEF Referenced, InMap
  <1>4. TypeOK
    BY Zenon DEF IInv
  <1>5. TypeOK'
    BY <1>id, <1>1, <1>2, <1>4, Zenon DEF TypeOK, Resident, States
  <1>6. /\ \A k \in Keys : deployments'[k] = IF k = id.key THEN o ELSE deployments[k]
        /\ \A p \in Objects : p # o => object'[p] = object[p]
        /\ object'[o] = [key |-> id.key, model |-> id.model, state |-> "loading"]
        /\ \A m \in Loaders : building'[m] = IF m = l THEN o ELSE building[m]
    BY <1>id, <1>1, <1>4, Zenon DEF TypeOK
  <1>7. \A k \in Keys : StateOf(k)' = IF k = id.key THEN "loading" ELSE StateOf(k)
    BY <1>id, <1>3, <1>4, <1>6 DEF StateOf, TypeOK
  <1>8. MapIsConsistent'
    BY <1>1, <1>3, <1>4, <1>6 DEF MapIsConsistent, IInv, TypeOK
  <1>9. OneLoadPerResident'
    <2>1. \A l1, l2 \in Loaders :
            building'[l1] = building'[l2] /\ building'[l1] # NoObject => l1 = l2
      BY <1>3, <1>6 DEF OneLoadPerResident, IInv
    <2>2. \A k \in Keys : StateOf(k)' = "loading" =>
            \E m \in Loaders : building'[m] = deployments'[k]
      <3> SUFFICES ASSUME NEW k \in Keys, StateOf(k)' = "loading"
                   PROVE  \E m \in Loaders : building'[m] = deployments'[k]
        BY Zenon
      <3>1. CASE k = id.key
        BY <3>1, <1>6
      <3>2. CASE k # id.key
        <4>1. PICK m \in Loaders : building[m] = deployments[k]
          BY <3>2, <1>7, Zenon DEF OneLoadPerResident, IInv
        <4>2. deployments[k] # NoObject
          BY <3>2, <1>7, Zenon DEF StateOf
        <4>3. m # l
          BY <4>1, <4>2, <1>2, Zenon
        <4> QED
          BY <3>2, <4>1, <4>3, <1>6, Zenon
      <3> QED
        BY <3>1, <3>2, Zenon
    <2>3. \A m \in Loaders : building'[m] # NoObject => object'[building'[m]].state = "loading"
      BY <1>3, <1>4, <1>6 DEF OneLoadPerResident, IInv, TypeOK
    <2> QED
      BY <2>1, <2>2, <2>3, Zenon DEF OneLoadPerResident
  <1>10. StageKeepsItsResident'
    BY <1>1, <1>2, <1>3, <1>4, <1>6 DEF StageKeepsItsResident, IdentityOf, IInv, TypeOK
  <1>11. PreferredServes'
    BY <1>id, <1>2, <1>4, <1>6, <1>7 DEF PreferredServes, Executable, StateOf, IInv, TypeOK
  <1>12. LoadsAreManaged'
    BY <1>3, <1>4, <1>6 DEF IInv, LoadsAreManaged, ManagedIdentity, TypeOK
  <1> QED
    BY <1>5, <1>8, <1>9, <1>10, <1>11, <1>12, Zenon DEF IInv

\* The end of a load changes only the object that load holds: a canceled one is
\* out of the map, any other becomes ready or failed in its place.
LEMMA LoadEndIInv ==
  ASSUME IInv, NEW l \in Loaders, LoadEnd(l)
  PROVE  IInv'
  <1> DEFINE o == building[l]
  <1> USE KeysAssumption, ObjectsAssumption
  <1>1. TypeOK /\ o \in Objects
    BY Zenon DEF IInv, LoadEnd, TypeOK
  <1>2. object[o].state = "loading" /\ \A m \in Loaders : building[m] = o => m = l
    BY <1>1, Zenon DEF IInv, OneLoadPerResident
  <1>3. /\ \A m \in Loaders : building'[m] = IF m = l THEN NoObject ELSE building[m]
        /\ UNCHANGED <<deployments, preferred, canceled, running, wanted>>
    BY <1>1, Zenon DEF LoadEnd, TypeOK
  <1>4. CASE LoadIsCanceled(o) /\ UNCHANGED <<object, built>>
    <2>1. \A k \in Keys : deployments[k] # o
      BY <1>1, <1>4, Zenon DEF LoadIsCanceled, IInv, MapIsConsistent
    <2>2. TypeOK'
      BY <1>1, <1>4, Zenon DEF LoadEnd, TypeOK
    <2>3. \A k \in Keys : StateOf(k)' = StateOf(k)
      BY <1>3, <1>4, Zenon DEF StateOf
    <2>4. OneLoadPerResident'
      <3>1. \A k \in Keys : StateOf(k)' = "loading" =>
              \E m \in Loaders : building'[m] = deployments'[k]
        BY <1>3, <2>1, <2>3, Zenon DEF IInv, OneLoadPerResident
      <3> QED
        BY <1>3, <1>4, <3>1 DEF IInv, OneLoadPerResident
    <2>5. MapIsConsistent' /\ LoadsAreManaged' /\ StageKeepsItsResident'
      BY <1>3, <1>4, Zenon
      DEF IInv, MapIsConsistent, LoadsAreManaged, StageKeepsItsResident, IdentityOf
    <2>6. PreferredServes'
      BY <1>3, <1>4, Zenon DEF IInv, PreferredServes, StateOf
    <2> QED
      BY <2>2, <2>4, <2>5, <2>6, Zenon DEF IInv
  <1>5. CASE /\ ~LoadIsCanceled(o)
             /\ \/ /\ Transition(o, "ready")
                   /\ built' = built \cup {o}
                \/ /\ Transition(o, "failed")
                   /\ UNCHANGED built
    <2> DEFINE key == object[o].key
    <2>1. key \in Keys /\ deployments[key] = o
      BY <1>1, <1>5, Zenon DEF LoadIsCanceled, TypeOK, Resident
    <2>2. \A k \in Keys : deployments[k] = o => k = key
      BY <1>1 DEF IInv, MapIsConsistent
    <2>3. /\ \A p \in Objects : p # o => object'[p] = object[p]
          /\ object'[o].key = key /\ object'[o].model = object[o].model
          /\ object'[o].state \in {"ready", "failed"}
          /\ object'[o].state = "ready" => o \in built'
          /\ built \subseteq built'
      BY <1>1, <1>5 DEF Transition, TypeOK
    <2>4. TypeOK'
      BY <1>1, <1>5 DEF LoadEnd, Transition, TypeOK, Resident, States
    <2>5. \A k \in Keys : StateOf(k)' = IF k = key THEN object'[o].state ELSE StateOf(k)
      BY <1>1, <1>3, <2>1, <2>2, <2>3 DEF StateOf, TypeOK
    <2>6. MapIsConsistent'
      BY <1>1, <1>3, <2>2, <2>3 DEF IInv, MapIsConsistent, TypeOK
    <2>7. OneLoadPerResident'
      <3>1. \A k \in Keys : StateOf(k)' = "loading" =>
              \E m \in Loaders : building'[m] = deployments'[k]
        BY <1>3, <2>1, <2>2, <2>3, <2>5 DEF IInv, OneLoadPerResident
      <3>2. \A m \in Loaders : building'[m] # NoObject => object'[building'[m]].state = "loading"
        BY <1>1, <1>2, <1>3, <2>3 DEF IInv, OneLoadPerResident, TypeOK
      <3> QED
        BY <1>3, <3>1, <3>2 DEF IInv, OneLoadPerResident
    <2>8. StageKeepsItsResident'
      BY <1>1, <1>3, <2>3 DEF IInv, StageKeepsItsResident, IdentityOf, TypeOK
    <2>9. PreferredServes'
      <3>1. ~Executable(StateOf(key))
        BY <1>1, <1>2, <2>1, Zenon DEF Executable, StateOf
      <3>2. \A k \in Keys : Executable(StateOf(k)') <=> Executable(StateOf(k))
        BY <2>3, <2>5, <3>1, Zenon DEF Executable
      <3>3. (\E k \in Keys : Executable(StateOf(k)')) => Executable(StateOf(preferred)')
        <4> SUFFICES ASSUME \E k \in Keys : Executable(StateOf(k)')
                     PROVE  Executable(StateOf(preferred)')
          BY Zenon
        <4>1. Executable(StateOf(preferred))
          BY <3>2, Zenon DEF IInv, PreferredServes
        <4>2. preferred # NoKey
          BY <3>2, Zenon DEF IInv, PreferredServes, Executable, StateOf
        <4> QED
          BY <1>1, <1>3, <3>2, <4>1, <4>2, Zenon DEF TypeOK
      <3> QED
        BY <1>3, <3>3, Zenon DEF IInv, PreferredServes
    <2>10. LoadsAreManaged'
      BY <1>1, <1>3, <2>3 DEF IInv, LoadsAreManaged, TypeOK
    <2> QED
      BY <2>4, <2>6, <2>7, <2>8, <2>9, <2>10, Zenon DEF IInv
  <1> QED
    BY <1>4, <1>5, Zenon DEF LoadEnd

\* What activate and drain have in common: one resident of the map moves between
\* the states that have an engine and are not held by a load.
LEMMA MoveIInv ==
  ASSUME IInv,
         NEW o \in Objects, NEW k \in Keys, deployments[k] = o,
         NEW to \in {"active", "draining"},
         object[o].state \in {"ready", "active"}, o \in built,
         Transition(o, to),
         preferred' = k \/ (object[o].state = "active" /\ preferred' = preferred),
         UNCHANGED <<deployments, canceled, built, building, running, wanted>>
  PROVE  IInv'
  <1> USE KeysAssumption, ObjectsAssumption
  <1>1. TypeOK
    BY Zenon DEF IInv
  <1>2. TypeOK'
    BY <1>1, Zenon DEF Transition, TypeOK, Resident, States
  <1>3. \A j \in Keys : deployments[j] = o => j = k
    BY DEF IInv, MapIsConsistent
  <1>4. /\ \A p \in Objects : p # o => object'[p] = object[p]
        /\ object'[o].key = object[o].key
        /\ object'[o].model = object[o].model
        /\ object'[o].state = to
    BY <1>1, Zenon DEF Transition, TypeOK
  <1>5. \A j \in Keys : StateOf(j)' = IF j = k THEN to ELSE StateOf(j)
    BY <1>1, <1>3, <1>4 DEF StateOf, TypeOK
  <1>6. MapIsConsistent'
    BY <1>1, <1>3, <1>4 DEF IInv, MapIsConsistent, TypeOK
  <1>7. OneLoadPerResident'
    <2>1. \A m \in Loaders : building[m] # o
      BY DEF IInv, OneLoadPerResident
    <2>2. \A m \in Loaders : building'[m] # NoObject => object'[building'[m]].state = "loading"
      BY <1>1, <1>4, <2>1 DEF IInv, OneLoadPerResident, TypeOK
    <2>3. \A j \in Keys : StateOf(j)' = "loading" =>
            \E m \in Loaders : building'[m] = deployments'[j]
      BY <1>5, Zenon DEF IInv, OneLoadPerResident
    <2> QED
      BY <2>2, <2>3, Zenon DEF IInv, OneLoadPerResident
  <1>8. StageKeepsItsResident'
    BY <1>1, <1>4 DEF IInv, StageKeepsItsResident, IdentityOf, TypeOK
  <1>9. PreferredServes'
    <2>1. StateOf(k) = object[o].state
      BY Zenon DEF StateOf
    <2>2. CASE preferred' = k
      BY <2>2, <1>5, Zenon DEF PreferredServes, Executable
    <2>3. CASE object[o].state = "active" /\ preferred' = preferred
      <3>1. Executable(StateOf(k)) /\ preferred # NoKey /\ preferred \in Keys
        BY <2>1, <2>3, <1>1, Zenon DEF IInv, PreferredServes, Executable, TypeOK
      <3>2. Executable(StateOf(preferred)')
        BY <3>1, <1>5, Zenon DEF IInv, PreferredServes, Executable
      <3> QED
        BY <2>3, <3>1, <3>2, Zenon DEF IInv, PreferredServes, Executable
    <2> QED
      BY <2>2, <2>3, Zenon
  <1>10. LoadsAreManaged'
    BY <1>1, <1>4 DEF IInv, LoadsAreManaged, TypeOK
  <1> QED
    BY <1>2, <1>6, <1>7, <1>8, <1>9, <1>10, Zenon DEF IInv

\* Unload erases exactly the key it was asked for and reselects the preference
\* among the residents that stay.
LEMMA UnloadIInv ==
  ASSUME IInv, NEW id \in ManagedIdentity, Unload(id)
  PROVE  IInv'
  <1> USE KeysAssumption, ObjectsAssumption
  <1>id. id \in Identity /\ id.key \in Keys
    BY Zenon DEF ManagedIdentity, Identity
  <1> DEFINE left == [k \in Keys |-> IF k = id.key THEN "none" ELSE StateOf(k)]
  <1>1. PICK o \in Objects :
          /\ deployments[id.key] = o
          /\ UnloadAccepts(object[o].state)
          /\ IF object[o].state = "loading"
             THEN canceled' = canceled \cup {o} /\ UNCHANGED object
             ELSE Transition(o, "unloading") /\ UNCHANGED canceled
          /\ deployments' = [deployments EXCEPT ![id.key] = NoObject]
          /\ \E p \in Keys \cup {NoKey} :
                SelectsAfterErase(Keys, left, Rank, NoKey, p) /\ preferred' = p
          /\ UNCHANGED <<built, building, running, wanted>>
    BY Zenon DEF Unload, Finds
  <1>2. TypeOK
    BY Zenon DEF IInv
  <1>3. TypeOK'
    BY <1>id, <1>1, <1>2 DEF TypeOK, Transition, Resident, States
  <1>4. \A k \in Keys : deployments[k] = o => k = id.key
    BY <1>id, <1>1 DEF IInv, MapIsConsistent
  <1>5. \A k \in Keys : deployments'[k] = IF k = id.key THEN NoObject ELSE deployments[k]
    BY <1>1, <1>2, Zenon DEF TypeOK
  <1>6. /\ \A p \in Objects : p # o => object'[p] = object[p]
        /\ object'[o].key = object[o].key
        /\ object'[o].model = object[o].model
        /\ object[o].state = "loading" => object' = object
    BY <1>1, <1>2 DEF Transition, TypeOK
  <1>7. \A k \in Keys : StateOf(k)' = left[k]
    BY <1>id, <1>2, <1>4, <1>5, <1>6 DEF StateOf, TypeOK
  <1>8. MapIsConsistent'
    <2> SUFFICES ASSUME NEW k \in Keys, deployments'[k] # NoObject
                 PROVE  /\ object'[deployments'[k]].key = k
                        /\ deployments'[k] \notin canceled'
                        /\ object'[deployments'[k]].state # "unloading"
                        /\ object'[deployments'[k]].state \in {"ready", "active", "draining"}
                             => deployments'[k] \in built'
      BY Zenon DEF MapIsConsistent
    <2>1. /\ k # id.key
          /\ deployments'[k] = deployments[k]
          /\ deployments[k] # o
          /\ deployments[k] \in Objects
      BY <1>2, <1>4, <1>5, Zenon DEF TypeOK
    <2> QED
      BY <1>1, <1>6, <2>1 DEF IInv, MapIsConsistent
  <1>9. OneLoadPerResident'
    <2>1. \A m \in Loaders : building'[m] # NoObject => object'[building'[m]].state = "loading"
      BY <1>1, <1>2, <1>6 DEF IInv, OneLoadPerResident, TypeOK
    <2>2. \A k \in Keys : StateOf(k)' = "loading" =>
            \E m \in Loaders : building'[m] = deployments'[k]
      BY <1>1, <1>5, <1>7 DEF IInv, OneLoadPerResident
    <2> QED
      BY <1>1, <2>1, <2>2, Zenon DEF IInv, OneLoadPerResident
  <1>10. StageKeepsItsResident'
    BY <1>1, <1>2, <1>6 DEF IInv, StageKeepsItsResident, IdentityOf, TypeOK
  <1>11. PreferredServes'
    <2>1. SelectsAfterErase(Keys, left, Rank, NoKey, preferred')
      BY <1>1, Zenon
    <2>2. \A k \in Keys : left[k] = "none" <=> deployments'[k] = NoObject
      BY <1>2, <1>5 DEF StateOf, TypeOK, Resident, States
    <2>3. preferred' = NoKey <=> \A k \in Keys : deployments'[k] = NoObject
      BY <2>1, <2>2, Zenon DEF SelectsAfterErase
    <2>4. preferred' # NoKey => preferred' \in Keys /\ left[preferred'] # "none"
      BY <2>1, Zenon DEF SelectsAfterErase
    <2>5. (\E k \in Keys : Executable(left[k])) =>
            preferred' \in Keys /\ Executable(left[preferred'])
      BY <2>1, Zenon DEF SelectsAfterErase, Executable
    <2>6. \A k \in Keys : preferred' = k => StateOf(preferred)' = left[preferred']
      BY <1>7, Zenon
    <2> QED
      BY <1>7, <2>2, <2>3, <2>4, <2>5, <2>6, Zenon DEF PreferredServes
  <1>12. LoadsAreManaged'
    BY <1>1, <1>2, <1>6 DEF IInv, LoadsAreManaged, TypeOK
  <1> QED
    BY <1>3, <1>8, <1>9, <1>10, <1>11, <1>12, Zenon DEF IInv

\* A stage call that begins holds a built object of the identity it asked for;
\* it and its end leave the map alone.
LEMMA StageIInv ==
  ASSUME IInv, NEW r \in Runners,
         \/ \E id \in Identity : StageBegin(r, id)
         \/ StageBeginUnmanaged(r)
         \/ StageEnd(r)
  PROVE  IInv'
  <1> USE KeysAssumption, ObjectsAssumption
  <1>1. UNCHANGED <<deployments, preferred, object, canceled, built, building>>
    BY Zenon DEF StageBegin, StageBeginUnmanaged, StageEnd
  <1>2. TypeOK
    BY Zenon DEF IInv
  <1>3. MapIsConsistent' /\ LoadsAreManaged' /\ OneLoadPerResident' /\ PreferredServes'
    BY <1>1, Zenon
    DEF IInv, MapIsConsistent, LoadsAreManaged, OneLoadPerResident, PreferredServes, StateOf
  <1>4. TypeOK' /\ StageKeepsItsResident'
    <2>1. CASE \E id \in Identity : StageBegin(r, id)
      BY <1>1, <1>2, <2>1
      DEF IInv, StageBegin, Finds, IsExecutable, TypeOK, StageKeepsItsResident, IdentityOf
    <2>2. CASE StageBeginUnmanaged(r)
      <3>1. deployments[BootKey] \in Objects /\ IdentityOf(deployments[BootKey]) \in Identity
        BY <1>2, <2>2, Zenon DEF StageBeginUnmanaged, IdentityOf, TypeOK, Resident, Identity
      <3> QED
        BY <1>1, <1>2, <2>2, <3>1, Zenon
        DEF IInv, StageBeginUnmanaged, IsExecutable, TypeOK, StageKeepsItsResident, IdentityOf
    <2>3. CASE StageEnd(r)
      BY <1>1, <1>2, <2>3, UnaskedType, Zenon
      DEF IInv, StageEnd, TypeOK, StageKeepsItsResident, IdentityOf
    <2> QED
      BY <2>1, <2>2, <2>3, Zenon
  <1> QED
    BY <1>3, <1>4, Zenon DEF IInv

\* Every step preserves the inductive invariant.
LEMMA NextIInv == IInv /\ [Next]_vars => IInv'
  <1> SUFFICES ASSUME IInv, [Next]_vars PROVE IInv'
    BY Zenon
  <1>1. ASSUME NEW id \in ManagedIdentity, NEW l \in Loaders, LoadBegin(l, id)
        PROVE  IInv'
    BY <1>1, LoadBeginIInv, Zenon
  <1>2. ASSUME NEW id \in ManagedIdentity, Activate(id)
        PROVE  IInv'
    <2>1. id.key \in Keys
      BY Zenon DEF ManagedIdentity, Identity
    <2>2. PICK o \in Objects :
            /\ deployments[id.key] = o
            /\ object[o].state \in {"ready", "active"}
            /\ object[o].state = "ready" => o \in built
            /\ Transition(o, "active")
            /\ preferred' = id.key
            /\ UNCHANGED <<deployments, canceled, built, building, running, wanted>>
      BY <1>2, Zenon DEF Activate, Finds, ActivateAccepts
    <2>3. o \in built
      BY <2>1, <2>2, ObjectsAssumption, Zenon DEF IInv, MapIsConsistent
    <2> QED
      BY <2>1, <2>2, <2>3, MoveIInv, Zenon
  <1>3. ASSUME NEW id \in ManagedIdentity, Drain(id)
        PROVE  IInv'
    <2>1. id.key \in Keys
      BY Zenon DEF ManagedIdentity, Identity
    <2>2. PICK o \in Objects :
            /\ deployments[id.key] = o
            /\ object[o].state = "active"
            /\ Transition(o, "draining")
            /\ UNCHANGED <<deployments, preferred, canceled, built, building, running, wanted>>
      BY <1>3, Zenon DEF Drain, Finds, AfterDrain
    <2>3. o \in built
      BY <2>1, <2>2, ObjectsAssumption, Zenon DEF IInv, MapIsConsistent
    <2> QED
      BY <2>1, <2>2, <2>3, MoveIInv, Zenon
  <1>4. ASSUME NEW id \in ManagedIdentity, Unload(id)
        PROVE  IInv'
    BY <1>4, UnloadIInv, Zenon
  <1>5. ASSUME NEW l \in Loaders, LoadEnd(l)
        PROVE  IInv'
    BY <1>5, LoadEndIInv, Zenon
  <1>6. ASSUME NEW r \in Runners,
               \/ \E id \in Identity : StageBegin(r, id)
               \/ StageBeginUnmanaged(r)
               \/ StageEnd(r)
        PROVE  IInv'
    BY <1>6, StageIInv, Zenon
  <1>7. CASE UNCHANGED vars
    BY <1>7, Zenon DEF vars, IInv, TypeOK, MapIsConsistent, LoadsAreManaged, OneLoadPerResident,
                StageKeepsItsResident, PreferredServes, StateOf, IdentityOf
  <1> QED
    BY <1>1, <1>2, <1>3, <1>4, <1>5, <1>6, <1>7, Zenon DEF Next

------------------------------------------------------------------------------
\* The inductive invariant holds in every reachable state.
THEOREM Invariance == Spec => []IInv
  <1>1. Init => IInv
    BY InitIInv, Zenon
  <1>2. IInv /\ [Next]_vars => IInv'
    BY NextIInv, Zenon
  <1> QED
    BY <1>1, <1>2, PTL DEF Spec

\* Type correctness of the worker's deployment map.
THEOREM TypeCorrect == Spec => []TypeOK
  <1>1. IInv => TypeOK
    BY Zenon DEF IInv
  <1> QED
    BY <1>1, Invariance, PTL

\* The preferred key is engaged exactly while something is resident and names an
\* executable resident whenever there is one, for any map order of the keys
\* (select_preferred_after_erase, activate, load).
THEOREM PreferenceCorrect == Spec => []PreferredServes
  <1>1. IInv => PreferredServes
    BY Zenon DEF IInv
  <1> QED
    BY <1>1, Invariance, PTL

\* A stage call keeps the engine and the identity it asked for although it runs
\* without the lock (run_stage, close_session, rollback_session).
THEOREM StageCallsCorrect == Spec => []StageKeepsItsResident
  <1>1. IInv => StageKeepsItsResident
    BY Zenon DEF IInv
  <1> QED
    BY <1>1, Invariance, PTL

\* A loading resident has exactly the one load that will finish it
\* (load_resident_deployment).
THEOREM LoadsCorrect == Spec => []OneLoadPerResident
  <1>1. IInv => OneLoadPerResident
    BY Zenon DEF IInv
  <1> QED
    BY <1>1, Invariance, PTL

\* transition() is never asked for an edge it rejects with a logic_error.
THEOREM TransitionsValid == Spec => LifecycleEdges
  <1> USE KeysAssumption, ObjectsAssumption
  <1>1. ASSUME IInv, [Next]_vars, NEW o \in Objects, Referenced(o),
               object'[o].state # object[o].state
        PROVE  ValidTransition(object[o].state, object'[o].state)
    <2>1. TypeOK
      BY <1>1, Zenon DEF IInv
    <2>2. ASSUME NEW id \in ManagedIdentity, NEW l \in Loaders, LoadBegin(l, id)
          PROVE  FALSE
      BY <1>1, <2>1, <2>2, Zenon DEF LoadBegin, TypeOK
    <2>3. ASSUME NEW id \in ManagedIdentity, Activate(id)
          PROVE  ValidTransition(object[o].state, object'[o].state)
      BY <1>1, <2>1, <2>3 DEF Activate, ActivateAccepts, Transition, ValidTransition, TypeOK
    <2>4. ASSUME NEW id \in ManagedIdentity, Drain(id)
          PROVE  ValidTransition(object[o].state, object'[o].state)
      BY <1>1, <2>1, <2>4 DEF Drain, AfterDrain, Transition, ValidTransition, TypeOK
    <2>5. ASSUME NEW id \in ManagedIdentity, Unload(id)
          PROVE  ValidTransition(object[o].state, object'[o].state)
      BY <1>1, <2>1, <2>5 DEF Unload, UnloadAccepts, Transition, ValidTransition, TypeOK
    <2>6. ASSUME NEW l \in Loaders, LoadEnd(l)
          PROVE  ValidTransition(object[o].state, object'[o].state)
      <3>1. object[building[l]].state = "loading"
        BY <1>1, <2>6, Zenon DEF LoadEnd, IInv, OneLoadPerResident
      <3> QED
        BY <1>1, <2>1, <2>6, <3>1 DEF LoadEnd, Transition, ValidTransition, TypeOK
    <2>7. ASSUME NEW r \in Runners,
                 \/ \E id \in Identity : StageBegin(r, id)
                 \/ StageBeginUnmanaged(r)
                 \/ StageEnd(r)
          PROVE  FALSE
      BY <1>1, <2>7, Zenon DEF StageBegin, StageBeginUnmanaged, StageEnd
    <2>8. ~UNCHANGED vars
      BY <1>1, Zenon DEF vars
    <2> QED
      BY <1>1, <2>2, <2>3, <2>4, <2>5, <2>6, <2>7, <2>8, Zenon DEF Next
  <1>2. IInv /\ [Next]_vars =>
          [\A o \in Objects :
             Referenced(o) /\ object'[o].state # object[o].state =>
                 ValidTransition(object[o].state, object'[o].state)]_vars
    BY <1>1, Zenon
  <1> QED
    BY <1>2, Invariance, PTL DEF Spec, LifecycleEdges

\* An unloaded resident that a load or a stage call still holds stays out of the
\* map and unchanged: a canceled load installs nothing.
THEOREM ErasureIsFinal == Spec => ErasedStaysErased
  <1> USE KeysAssumption, ObjectsAssumption
  <1> DEFINE Kept(o) == /\ ~InMap(o)'
                        /\ object'[o] = object[o]
                        /\ o \in built' => o \in built
  <1>1. ASSUME IInv, [Next]_vars, NEW o \in Objects, Referenced(o), ~InMap(o)
        PROVE  Kept(o)
    <2>1. TypeOK
      BY <1>1, Zenon DEF IInv
    <2>2. ASSUME NEW id \in ManagedIdentity, NEW l \in Loaders, LoadBegin(l, id)
          PROVE  Kept(o)
      <3>1. id.key \in Keys
        BY Zenon DEF ManagedIdentity, Identity
      <3> QED
        BY <1>1, <2>1, <2>2, <3>1 DEF LoadBegin, InMap, TypeOK
    <2>3. ASSUME NEW id \in ManagedIdentity, Activate(id) \/ Drain(id)
          PROVE  Kept(o)
      <3>1. id.key \in Keys
        BY Zenon DEF ManagedIdentity, Identity
      <3> QED
        BY <1>1, <2>1, <2>3, <3>1, Zenon DEF Activate, Drain, Finds, Transition, InMap, TypeOK
    <2>4. ASSUME NEW id \in ManagedIdentity, Unload(id)
          PROVE  Kept(o)
      <3>1. id.key \in Keys
        BY Zenon DEF ManagedIdentity, Identity
      <3> QED
        BY <1>1, <2>1, <2>4, <3>1 DEF Unload, Finds, Transition, InMap, TypeOK
    <2>5. ASSUME NEW l \in Loaders, LoadEnd(l)
          PROVE  Kept(o)
      <3>1. building[l] \in Objects /\ object[building[l]].key \in Keys
        BY <2>1, <2>5, Zenon DEF LoadEnd, TypeOK, Resident
      <3>2. building[l] = o => LoadIsCanceled(o)
        BY <1>1, <3>1, Zenon DEF LoadIsCanceled, InMap
      <3> QED
        BY <1>1, <2>1, <2>5, <3>1, <3>2, Zenon DEF LoadEnd, Transition, InMap, TypeOK
    <2>6. ASSUME NEW r \in Runners,
                 \/ \E id \in Identity : StageBegin(r, id)
                 \/ StageBeginUnmanaged(r)
                 \/ StageEnd(r)
          PROVE  Kept(o)
      BY <1>1, <2>6, Zenon DEF StageBegin, StageBeginUnmanaged, StageEnd, InMap
    <2>7. CASE UNCHANGED vars
      BY <1>1, <2>7, Zenon DEF vars, InMap
    <2> QED
      BY <1>1, <2>2, <2>3, <2>4, <2>5, <2>6, <2>7, Zenon DEF Next
  <1>2. IInv /\ [Next]_vars =>
          [\A o \in Objects : Referenced(o) /\ ~InMap(o) =>
              /\ ~InMap(o)'
              /\ object'[o] = object[o]
              /\ o \in built' => o \in built]_vars
    BY <1>1, Zenon
  <1> QED
    BY <1>2, Invariance, PTL DEF Spec, ErasedStaysErased

------------------------------------------------------------------------------
\* The table a state maps to.
Shown == [k \in Keys |-> StateOf(k)]

\* What a step that changes the resident of one key, and only that one, does to
\* the table.
LEMMA TableUpdate ==
  ASSUME NEW key \in Keys, NEW state,
         \A k \in Keys : StateOf(k)' = IF k = key THEN state ELSE StateOf(k)
  PROVE  Shown' = [Shown EXCEPT ![key] = state]
  BY Zenon DEF Shown

\* Every step of the manager is a step of the table or leaves it alone.
LEMMA StepRefines ==
  ASSUME IInv, [Next]_vars
  PROVE  [Table!Next]_(Table!tableVars)
  <1> USE KeysAssumption, ObjectsAssumption
  <1>1. TypeOK
    BY Zenon DEF IInv
  <1>2. \A k \in Keys : deployments[k] # NoObject => deployments[k] \in Objects
    BY <1>1, Zenon DEF TypeOK
  <1>3. ASSUME NEW j \in Keys, NEW k \in Keys,
               deployments[j] = deployments[k], deployments[j] # NoObject
        PROVE  j = k
    BY <1>3 DEF IInv, MapIsConsistent
  <1>m. \A id \in ManagedIdentity : id.key \in Table!Managed /\ id.key \in Keys
    BY Zenon DEF Table!Managed, ManagedIdentity, Identity
  <1>4. ASSUME NEW id \in ManagedIdentity, NEW l \in Loaders, LoadBegin(l, id)
        PROVE  Table!Load(id.key)
    <2>1. \A k \in Keys : StateOf(k)' = IF k = id.key THEN "loading" ELSE StateOf(k)
      BY <1>m, <1>1, <1>2, <1>4 DEF LoadBegin, Referenced, InMap, StateOf, TypeOK
    <2>2. Shown' = [Shown EXCEPT ![id.key] = "loading"]
      BY <1>m, <2>1, TableUpdate, Zenon
    <2>3. Shown[id.key] = "none" /\ preferred' = IF preferred = NoKey THEN id.key ELSE preferred
      BY <1>m, <1>4, Zenon DEF LoadBegin, Shown, StateOf
    <2> QED
      BY <2>2, <2>3, Zenon DEF Table!Load, Shown
  <1>5. ASSUME NEW id \in ManagedIdentity, Activate(id)
        PROVE  Table!Activate(id.key)
    <2>1. PICK o \in Objects :
            /\ deployments[id.key] = o
            /\ ActivateAccepts(object[o].state)
            /\ Transition(o, "active")
            /\ preferred' = id.key
            /\ UNCHANGED deployments
      BY <1>5, Zenon DEF Activate, Finds
    <2>2. \A k \in Keys : StateOf(k)' = IF k = id.key THEN "active" ELSE StateOf(k)
      BY <1>m, <1>1, <1>2, <1>3, <2>1, Zenon DEF Transition, StateOf, TypeOK
    <2>3. Shown' = [Shown EXCEPT ![id.key] = "active"] /\ Shown[id.key] = object[o].state
      BY <1>m, <2>1, <2>2, TableUpdate, Zenon DEF Shown, StateOf
    <2> QED
      BY <2>1, <2>3, Zenon DEF Table!Activate, Table!ActivateAccepts, ActivateAccepts, Shown
  <1>6. ASSUME NEW id \in ManagedIdentity, Drain(id)
        PROVE  Table!Drain(id.key)
    <2>1. PICK o \in Objects :
            /\ deployments[id.key] = o
            /\ object[o].state = "active"
            /\ Transition(o, "draining")
            /\ UNCHANGED <<deployments, preferred>>
      BY <1>6, Zenon DEF Drain, Finds, AfterDrain
    <2>2. \A k \in Keys : StateOf(k)' = IF k = id.key THEN "draining" ELSE StateOf(k)
      BY <1>m, <1>1, <1>2, <1>3, <2>1, Zenon DEF Transition, StateOf, TypeOK
    <2>3. Shown' = [Shown EXCEPT ![id.key] = "draining"] /\ Shown[id.key] = "active"
      <3>1. Shown' = [Shown EXCEPT ![id.key] = "draining"]
        BY <1>m, <2>2, TableUpdate, Zenon
      <3>2. Shown[id.key] = "active"
        BY <1>m, <2>1, Zenon DEF Shown, StateOf
      <3> QED
        BY <3>1, <3>2, Zenon
    <2> QED
      BY <2>1, <2>3, Zenon DEF Table!Drain, Table!AfterDrain, Shown
  <1>7. ASSUME NEW id \in ManagedIdentity, Unload(id)
        PROVE  Table!Unload(id.key)
    <2> DEFINE left == [k \in Keys |-> IF k = id.key THEN "none" ELSE StateOf(k)]
    <2>1. PICK o \in Objects :
            /\ deployments[id.key] = o
            /\ UnloadAccepts(object[o].state)
            /\ IF object[o].state = "loading" THEN UNCHANGED object
                                              ELSE Transition(o, "unloading")
            /\ deployments' = [deployments EXCEPT ![id.key] = NoObject]
            /\ \E p \in Keys \cup {NoKey} :
                  SelectsAfterErase(Keys, left, Rank, NoKey, p) /\ preferred' = p
      BY <1>7, Zenon DEF Unload, Finds
    <2>2. \A k \in Keys : StateOf(k)' = IF k = id.key THEN "none" ELSE StateOf(k)
      BY <1>m, <1>1, <1>2, <1>3, <2>1 DEF Transition, StateOf, TypeOK
    <2>3. /\ Shown' = [Shown EXCEPT ![id.key] = "none"]
          /\ Shown[id.key] = object[o].state
          /\ Shown' = left
      <3>1. Shown' = [Shown EXCEPT ![id.key] = "none"]
        BY <1>m, <2>2, TableUpdate, Zenon
      <3>2. Shown[id.key] = object[o].state
        BY <1>m, <2>1, Zenon DEF Shown, StateOf
      <3>3. Shown' = left
        BY <2>2, Zenon DEF Shown
      <3> QED
        BY <3>1, <3>2, <3>3, Zenon
    <2>4. \E p \in Keys \cup {NoKey} :
            Table!SelectsAfterErase(Keys, Shown', Rank, NoKey, p) /\ preferred' = p
      BY <2>1, <2>3 DEF SelectsAfterErase, Table!SelectsAfterErase, Executable, Table!Executable
    <2> QED
      BY <2>1, <2>3, <2>4, Zenon DEF Table!Unload, Table!UnloadAccepts, UnloadAccepts, Shown
  <1>8. ASSUME NEW l \in Loaders, LoadEnd(l)
        PROVE  [Table!Next]_(Table!tableVars)
    <2> DEFINE o == building[l]
               key == object[o].key
    <2>1. o \in Objects /\ key \in Keys /\ UNCHANGED <<deployments, preferred>>
      BY <1>1, <1>8, Zenon DEF LoadEnd, TypeOK, Resident
    <2>2. CASE UNCHANGED object
      BY <2>1, <2>2, Zenon DEF Table!tableVars, StateOf
    <2>3. CASE \E out \in {"ready", "failed"} : ~LoadIsCanceled(o) /\ Transition(o, out)
      <3>1. PICK out \in {"ready", "failed"} : ~LoadIsCanceled(o) /\ Transition(o, out)
        BY <2>3, Zenon
      <3>2. deployments[key] = o /\ object[o].state = "loading"
        BY <2>1, <3>1, Zenon DEF LoadIsCanceled, IInv, OneLoadPerResident
      <3>3. key # BootKey
        BY <2>1, Zenon DEF IInv, LoadsAreManaged
      <3>4. \A k \in Keys : StateOf(k)' = IF k = key THEN out ELSE StateOf(k)
        BY <1>1, <1>2, <1>3, <2>1, <3>1, <3>2, Zenon DEF Transition, StateOf, TypeOK
      <3>5. Shown' = [Shown EXCEPT ![key] = out] /\ Shown[key] = "loading"
        BY <2>1, <3>2, <3>4, TableUpdate, Zenon DEF Shown, StateOf
      <3> QED
        BY <2>1, <3>3, <3>5, Zenon DEF Table!Loaded, Table!Next, Table!Managed, Shown
    <2> QED
      BY <1>8, <2>2, <2>3, Zenon DEF LoadEnd
  <1>9. ASSUME NEW r \in Runners,
               \/ \E id \in Identity : StageBegin(r, id)
               \/ StageBeginUnmanaged(r)
               \/ StageEnd(r)
        PROVE  UNCHANGED Table!tableVars
    BY <1>9, Zenon DEF StageBegin, StageBeginUnmanaged, StageEnd, Table!tableVars, StateOf
  <1>10. CASE UNCHANGED vars
    BY <1>10, Zenon DEF vars, Table!tableVars, StateOf
  <1> QED
    BY <1>m, <1>4, <1>5, <1>6, <1>7, <1>8, <1>9, <1>10, Zenon DEF Next, Table!Next

\* The manager implements the per-key table that the coordinator relies on.
THEOREM Refinement == Spec => ImplementsEpochTable
  <1>1. Init => Table!Init
    BY KeysAssumption, ObjectsAssumption DEF Init, Table!Init, StateOf
  <1>2. IInv /\ [Next]_vars => [Table!Next]_(Table!tableVars)
    BY StepRefines, Zenon
  <1> QED
    BY <1>1, <1>2, Invariance, PTL DEF Spec, ImplementsEpochTable, Table!Spec
==============================================================================
