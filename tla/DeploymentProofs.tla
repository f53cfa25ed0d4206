--------------------------- MODULE DeploymentProofs ---------------------------
(***************************************************************************)
(* The theorems about Deployment, for any finite sets of nodes and         *)
(* sessions, any number of epochs and any number of late calls.            *)
(*                                                                         *)
(* The inductive invariant IInv says which epochs the controller's program *)
(* counter may touch: what it drains and unloads, and what late drains and *)
(* unloads are still under way, is past or being rolled back, never the    *)
(* published epoch, and what it unloads is pinned by no session.  Type     *)
(* correctness, the counts, the routes and the refinement of EpochHandoff  *)
(* follow.  On top of IInv, Clean says where partitions are: apart from    *)
(* those that a late load left, only on a worker of the plan of an epoch   *)
(* that the coordinator tracks, and an unloadPlan without a failure so far *)
(* has emptied the workers it is done with.                                *)
(***************************************************************************)
EXTENDS Deployment, FiniteSetTheorems, TLAPS

UndoPcs   == {"undoDrain", "undoUnload"}
RetirePcs == {"retryDrain", "retryWait", "retryUnload",
              "retireDrain", "retireWait", "retireUnload"}
AttemptPcs == PreparePcs \cup UndoPcs
JudgePcs   == {"judgeMembers", "judge"}

\* The epochs that were published or attempted, and are no longer.
Past == (1..lastEpoch) \ {active, preparing}

\* The epoch at hand is the open attempt, the newest one, while it is prepared
\* or rolled back; a past one while it is retired; the published one while it is
\* repaired.
EpochAtHand ==
    /\ IF pc \in AttemptPcs
       THEN cur = preparing /\ preparing = lastEpoch /\ preparing # NoEpoch
       ELSE preparing = NoEpoch
    /\ active <= lastEpoch
    /\ pc \in AttemptPcs => active # preparing
    /\ pc \in AttemptPcs /\ op # "switch" => active # NoEpoch
    /\ pc \in RetirePcs => cur \in Past
    /\ pc \in RepairPcs => cur = active
    /\ pc \in RepairPcs \cup JudgePcs => active # NoEpoch
    /\ pc \in {"repairLoad", "repairLoading", "repairActivate", "loading"} => at \in Nodes

\* An epoch that may be taken off the workers.
Leaving(e) == e \in Past \/ (pc \in UndoPcs /\ e = preparing)

\* Only epochs that are leaving wait for a retirement or are drained late.
RetiresLeaving ==
    /\ draining \subseteq Past
    /\ queue \subseteq Past
    /\ \A e \in closed : Leaving(e)
    /\ \A m \in late : m.call = "drain" => Leaving(m.epoch)
    /\ \A m \in late : m.call = "unload" => m.epoch \in closed

\* Only epochs without sessions are closed.
Unpinned ==
    /\ \A e \in Epochs : e > lastEpoch \/ e = preparing \/ e \in closed => inFlight[e] = 0
    /\ pc \in UnloadPcs => inFlight[cur] = 0

Held(n, e)   == st[n][e] = "active" \/ <<n, e>> \in wiped
Served(n, e) == Executable(st[n][e]) \/ <<n, e>> \in wiped

\* SessionKeepsRoute and PublishedIsActive, and how a route comes about.
Routes ==
    /\ SessionKeepsRoute
    /\ PublishedIsActive
    /\ pc = "activate" => \A n \in planOf[cur] \ todo : Held(n, cur)

\* The part of the invariant that the workers have no part in.
Control == StateType /\ LoopType /\ EpochAtHand /\ RetiresLeaving /\ CountsSessions /\ Unpinned

IInv == Control /\ RuntimeType /\ Routes

-------------------------------------------------------------------------------
\* The bound on epochs is a number.
LEMMA MaxEpochNat == MaxEpoch \in Nat
  BY ConstantsAssumption, Zenon

USE DEF NoEpoch, Epochs

\* Epochs that no session pins.
LEMMA NoSessions ==
  ASSUME StateType, CountsSessions, NEW e \in 0..MaxEpoch, inFlight[e] = 0
  PROVE  \A s \in Sessions : sess[s] # e
  <1> DEFINE S == {s \in Sessions : sess[s] = e}
  <1>1. IsFiniteSet(S)
    BY ConstantsAssumption, FS_Subset, Zenon
  <1>2. Cardinality(S) = 0
    BY Zenon DEF CountsSessions
  <1>3. S = {}
    BY <1>1, <1>2, FS_EmptySet, Zenon
  <1> QED
    BY <1>3, Zenon

\* A step of one partition.
LEMMA BecomesEffect ==
  ASSUME RuntimeType, NEW n \in Nodes, NEW e \in Epochs, NEW s \in States \cup {"none"},
         Becomes(n, e, s)
  PROVE  /\ st' \in [Nodes -> [Epochs -> States \cup {"none"}]]
         /\ st'[n][e] = s
         /\ \A m \in Nodes, f \in Epochs : m # n \/ f # e => st'[m][f] = st[m][f]
  <1> DEFINE row == [st[n] EXCEPT ![e] = s]
  <1>1. st' = [st EXCEPT ![n] = row]
    BY Zenon DEF Becomes
  <1>2. /\ row \in [Epochs -> States \cup {"none"}]
        /\ row[e] = s
        /\ \A f \in Epochs : f # e => row[f] = st[n][f]
    BY Zenon DEF RuntimeType
  <1> HIDE DEF row
  <1> QED
    BY <1>1, <1>2, Zenon DEF RuntimeType

OthersUnchanged(n, e) ==
    \A m \in Nodes, f \in Epochs : m # n \/ f # e =>
        st'[m][f] = st[m][f] /\ (<<m, f>> \in wiped' <=> <<m, f>> \in wiped)

\* What a call does to the partition it is about, and that it does nothing else.
LEMMA PerformEffect ==
  ASSUME RuntimeType, NEW call, NEW n \in Nodes, NEW e \in Epochs, Perform(call, n, e)
  PROVE  /\ RuntimeType'
         /\ OthersUnchanged(n, e)
         /\ \/ st'[n][e] = st[n][e] /\ wiped' = wiped
            \/ call = "load" /\ st[n][e] = "none" /\ st'[n][e] = "loading" /\ wiped' = wiped
            \/ call = "activate" /\ st[n][e] # "none" /\ st'[n][e] = "active"
            \/ call = "drain" /\ st[n][e] # "none" /\ st'[n][e] = "draining" /\ wiped' = wiped
            \/ call = "unload" /\ st'[n][e] = "none" /\ wiped' = wiped
  <1>1. CASE call = "load" /\ RuntimeLoad(n, e)
    <2>1. CASE st[n][e] = "none"
      <3>1. Becomes(n, e, "loading") /\ wiped' = wiped /\ pref' \in [Nodes -> 0..MaxEpoch]
        BY <1>1, <2>1 DEF RuntimeLoad, RuntimeType
      <3> QED
        BY <1>1, <2>1, <3>1, BecomesEffect DEF RuntimeType, States, OthersUnchanged
    <2>2. CASE st[n][e] # "none"
      BY <1>1, <2>2, Zenon DEF RuntimeLoad, RuntimeType, OthersUnchanged
    <2> QED
      BY <2>1, <2>2, Zenon
  <1>2. CASE call = "activate" /\ RuntimeActivate(n, e)
    <2>1. CASE ActivateAccepts(st[n][e])
      <3>1. /\ Becomes(n, e, "active") /\ wiped' = wiped \ {<<n, e>>}
            /\ pref' \in [Nodes -> 0..MaxEpoch] /\ st[n][e] # "none"
        BY <1>2, <2>1 DEF RuntimeActivate, RuntimeType, ActivateAccepts
      <3>2. /\ st' \in [Nodes -> [Epochs -> States \cup {"none"}]] /\ st'[n][e] = "active"
            /\ \A m \in Nodes, f \in Epochs : m # n \/ f # e => st'[m][f] = st[m][f]
        <4>1. "active" \in States \cup {"none"}
          BY DEF States
        <4> QED
          BY <3>1, <4>1, BecomesEffect, Zenon
      <3> QED
        BY <1>2, <3>1, <3>2 DEF RuntimeType, OthersUnchanged
    <2>2. CASE ~ActivateAccepts(st[n][e])
      BY <1>2, <2>2, Zenon DEF RuntimeActivate, RuntimeType, runtimeVars, OthersUnchanged
    <2> QED
      BY <2>1, <2>2, Zenon
  <1>3. CASE call = "drain" /\ RuntimeDrain(n, e)
    <2>1. Becomes(n, e, AfterDrain(st[n][e])) /\ wiped' = wiped /\ pref' = pref
      BY <1>3, Zenon DEF RuntimeDrain
    <2>2. /\ AfterDrain(st[n][e]) \in States \cup {"none"}
          /\ AfterDrain(st[n][e]) = st[n][e] \/ (AfterDrain(st[n][e]) = "draining" /\ st[n][e] = "active")
      BY Zenon DEF AfterDrain, RuntimeType, States
    <2> QED
      BY <1>3, <2>1, <2>2, BecomesEffect DEF RuntimeType, OthersUnchanged
  <1>4. CASE call = "unload" /\ RuntimeUnload(n, e)
    <2>1. CASE UnloadAccepts(st[n][e])
      <3>1. /\ Becomes(n, e, "none") /\ wiped' = wiped
            /\ \E p \in 0..MaxEpoch : pref' = [pref EXCEPT ![n] = p]
        BY <1>4, <2>1, Zenon DEF RuntimeUnload
      <3>2. pref' \in [Nodes -> 0..MaxEpoch]
        BY <3>1, Zenon DEF RuntimeType
      <3> QED
        BY <1>4, <3>1, <3>2, BecomesEffect DEF RuntimeType, OthersUnchanged
    <2>2. CASE ~UnloadAccepts(st[n][e])
      BY <1>4, <2>2, Zenon DEF RuntimeUnload, RuntimeType, runtimeVars, OthersUnchanged
    <2> QED
      BY <2>1, <2>2, Zenon
  <1> QED
    BY <1>1, <1>2, <1>3, <1>4, Zenon DEF Perform

\* Only a drain or an unload ends the activation of a partition, only an unload
\* takes an executable one away, and each only of its own epoch.
LEMMA PerformKeeps ==
  ASSUME RuntimeType, NEW call, NEW n \in Nodes, NEW e \in Epochs, Perform(call, n, e),
         NEW m \in Nodes, NEW f \in Epochs
  PROVE  /\ Held(m, f) /\ (f # e \/ call \notin {"drain", "unload"}) => Held(m, f)'
         /\ Served(m, f) /\ (f # e \/ call # "unload") => Served(m, f)'
  <1>1. CASE m # n \/ f # e
    <2>1. OthersUnchanged(n, e)
      BY PerformEffect, Zenon
    <2>2. st'[m][f] = st[m][f] /\ (<<m, f>> \in wiped' <=> <<m, f>> \in wiped)
      BY <1>1, <2>1, Zenon DEF OthersUnchanged
    <2> QED
      BY <2>2, Zenon DEF Held, Served
  <1>2. CASE m = n /\ f = e
    <2>1. \/ st'[n][e] = st[n][e] /\ wiped' = wiped
          \/ call = "load" /\ st[n][e] = "none" /\ wiped' = wiped
          \/ call = "activate" /\ st'[n][e] = "active"
          \/ call = "drain" /\ st'[n][e] = "draining" /\ wiped' = wiped
          \/ call = "unload"
      BY PerformEffect
    <2> QED
      BY <1>2, <2>1, Zenon DEF Held, Served, Executable
  <1> QED
    BY <1>1, <1>2, Zenon

\* Steps that keep the published plan, the sessions and what both rest on.
LEMMA RoutesKept ==
  ASSUME StateType, LoopType, RuntimeType, Routes, UNCHANGED <<active, planOf, sess>>,
         active # NoEpoch => \A n \in Nodes : Held(n, active) => Held(n, active)',
         \A s \in Sessions : sess[s] \in Epochs =>
             \A n \in Nodes : Served(n, sess[s]) => Served(n, sess[s])',
         pc' = "activate" =>
             /\ pc = "activate" /\ cur' = cur /\ todo' = todo /\ cur \in Epochs
             /\ \A n \in Nodes : Held(n, cur) => Held(n, cur)'
  PROVE  Routes'
  <1>1. SessionKeepsRoute'
    BY Zenon DEF Routes, SessionKeepsRoute, Served, StateType
  <1>2. PublishedIsActive'
    BY DEF Routes, PublishedIsActive, Held, StateType
  <1>3. pc' = "activate" => \A n \in planOf'[cur'] \ todo' : Held(n, cur)'
    BY Zenon DEF Routes, StateType
  <1> QED
    BY <1>1, <1>2, <1>3, Zenon DEF Routes, Held

\* The same, when the workers do not change.
LEMMA RoutesUntouched ==
  ASSUME StateType, LoopType, RuntimeType, Routes, UNCHANGED <<active, planOf, sess, runtimeVars>>,
         pc' = "activate" => pc = "activate" /\ cur' = cur /\ todo' = todo
  PROVE  Routes'
  BY Zenon DEF Routes, SessionKeepsRoute, PublishedIsActive, Held, StateType, runtimeVars

-------------------------------------------------------------------------------
USE DEF AttemptPcs, PreparePcs, UndoPcs, RetirePcs, RepairPcs, JudgePcs

\* Steps that open, publish, pin and close nothing.
LEMMA QuietControl ==
  ASSUME Control, StateType', LoopType', EpochAtHand',
         UNCHANGED <<active, preparing, lastEpoch, inFlight, sess, closed>>,
         draining' \subseteq Past, queue' \subseteq Past,
         \A m \in late' : m \in late \/ m.call \notin {"drain", "unload"},
         pc \in UndoPcs => pc' \in UndoPcs,
         pc' \in UnloadPcs => inFlight[cur'] = 0
  PROVE  Control'
  <1>1. RetiresLeaving'
    BY Zenon DEF Control, RetiresLeaving, Leaving, Past
  <1>2. CountsSessions'
    BY Zenon DEF Control, CountsSessions
  <1>3. Unpinned'
    BY Zenon DEF Control, Unpinned
  <1> QED
    BY <1>1, <1>2, <1>3, Zenon DEF Control

\* A plan names nodes of the cluster.
LEMMA PlanNodes == ASSUME StateType, NEW e \in Epochs PROVE planOf[e] \subseteq Nodes
  BY Zenon DEF StateType

\* The range of epoch variables: the epochs and NoEpoch.
LEMMA EpochBounds == NoEpoch \in 0..MaxEpoch /\ \A e \in 0..MaxEpoch : e \in Epochs <=> e # NoEpoch
  BY MaxEpochNat

\* Moving the loop to another step keeps its variables typed.
LEMMA GotoType ==
  ASSUME LoopType, NEW where \in Pcs, NEW nodes \in SUBSET Nodes, Goto(where, nodes),
         cur' \in 0..MaxEpoch, op' \in {"none", "switch", "reconcile"}, queue' \subseteq Epochs
  PROVE  LoopType'
  BY Zenon DEF LoopType, Goto

\* So does leaving a loop.
LEMMA LeaveType == ASSUME LoopType, NEW where \in Pcs, Leave(where) PROVE LoopType'
  BY EpochBounds, GotoType, Zenon DEF LoopType, Leave

\* So does the end of an operation.
LEMMA ReturnType == ASSUME LoopType, Return PROVE LoopType'
  <1>1. "idle" \in Pcs
    BY Zenon DEF Pcs
  <1> QED
    BY <1>1, EpochBounds, GotoType, Zenon DEF Return

\* A failed prepare or repair.
LEMMA OnErrorControl ==
  ASSUME Control, OnError, pc \in PreparePcs \cup RepairPcs,
         UNCHANGED <<stateVars, inFlight, sess, closed>>,
         late' \subseteq LateCalls,
         \A m \in late' : m \in late \/ m.call \notin {"drain", "unload"}
  PROVE  Control' /\ pc' # "activate"
  <1> StateType'
    BY Zenon DEF Control, StateType, stateVars
  <1>1. CASE pc \in RepairPcs
    <2>1. LoopType'
      BY <1>1, LeaveType, Zenon DEF Control, OnError, Pcs
    <2>2. EpochAtHand'
      BY <1>1, Zenon DEF Control, EpochAtHand, OnError, Leave, Goto, stateVars
    <2> QED
      BY <1>1, <2>1, <2>2, QuietControl, Zenon
      DEF Control, RetiresLeaving, OnError, Leave, Goto, stateVars, UnloadPcs
  <1>2. CASE pc \in PreparePcs
    <2>1. cur \in Epochs /\ "undoDrain" \in Pcs /\ LoopType /\ queue \subseteq Epochs
      BY <1>2, EpochBounds, Zenon DEF Control, EpochAtHand, LoopType, Pcs, DrainPcs
    <2>2. Goto("undoDrain", planOf[cur]) /\ UNCHANGED <<op, cur, queue>>
      BY <1>2, Zenon DEF OnError
    <2>3. LoopType'
      BY <2>1, <2>2, PlanNodes, GotoType, Zenon DEF Control, LoopType
    <2>4. EpochAtHand'
      BY <1>2, <2>2, Zenon DEF Control, EpochAtHand, Goto, stateVars, Past
    <2> QED
      BY <1>2, <2>2, <2>3, <2>4, QuietControl, Zenon
      DEF Control, RetiresLeaving, Goto, stateVars, UnloadPcs
  <1> QED
    BY <1>1, <1>2, Zenon

\* An error before publication touches neither the state nor the counts.
LEMMA OnErrorQuiet ==
  ASSUME Control, OnError, pc \in PreparePcs \cup RepairPcs,
         UNCHANGED <<stateVars, inFlight, late, sess, closed>>
  PROVE  Control' /\ pc' # "activate"
  <1>1. late' \subseteq LateCalls
    BY Zenon DEF Control, StateType
  <1> QED
    BY <1>1, OnErrorControl, Zenon

\* A pass of Reconcile begins.
LEMMA ReconcileBeginControl == ASSUME Control, ReconcileBegin PROVE Control'
  <1> StateType'
    BY Zenon DEF Control, StateType, ReconcileBegin, stateVars
  <1>1. LoopType'
    BY Zenon DEF Control, LoopType, StateType, ReconcileBegin, Goto, Pcs
  <1>2. EpochAtHand'
    BY Zenon DEF Control, EpochAtHand, ReconcileBegin, Goto, stateVars
  <1> QED
    BY <1>1, <1>2, QuietControl, Zenon
    DEF Control, RetiresLeaving, ReconcileBegin, Goto, stateVars, UnloadPcs

\* RetryRetirements takes the next draining epoch, or all are done.
LEMMA RetryNextControl == ASSUME Control, RetryNext PROVE Control'
  <1> StateType'
    BY Zenon DEF Control, StateType, RetryNext, stateVars
  <1>1. CASE queue = {} /\ Leave("build")
    <2>1. LoopType'
      BY <1>1, LeaveType, Zenon DEF Control, Pcs
    <2>2. EpochAtHand'
      BY <1>1, Zenon DEF Control, EpochAtHand, RetryNext, Leave, Goto, stateVars
    <2> QED
      BY <1>1, <2>1, <2>2, QuietControl, Zenon
      DEF Control, RetiresLeaving, RetryNext, Leave, Goto, stateVars, UnloadPcs
  <1>2. ASSUME NEW e \in queue, Goto("retryDrain", planOf[e]), cur' = e, queue' = queue \ {e},
               UNCHANGED op
        PROVE  Control'
    <2>1. e \in Epochs /\ e \in Past /\ "retryDrain" \in Pcs /\ e \in 0..MaxEpoch
      BY DEF Control, LoopType, RetiresLeaving, Pcs, DrainPcs
    <2>2. LoopType'
      BY <1>2, <2>1, PlanNodes, GotoType, Zenon DEF Control, LoopType
    <2>3. EpochAtHand'
      BY <1>2, <2>1, Zenon DEF Control, EpochAtHand, RetryNext, Goto, stateVars, Past
    <2> QED
      BY <1>2, <2>2, <2>3, QuietControl, Zenon
      DEF Control, RetiresLeaving, RetryNext, Goto, stateVars, UnloadPcs
  <1> QED
    BY <1>1, <1>2, Zenon DEF RetryNext

\* Steps after which the loop is at no epoch.
LEMMA LeaveControl ==
  ASSUME Control, NEW where \in {"build", "retry", "judgeMembers"}, Leave(where),
         pc \notin AttemptPcs, where = "judgeMembers" => active # NoEpoch,
         UNCHANGED <<active, preparing, lastEpoch, planOf, inFlight, late, sess, closed>>,
         phase' \in Phases, draining' \subseteq draining
  PROVE  Control' /\ pc' # "activate"
  <1>1. StateType'
    BY Zenon DEF Control, StateType
  <1>2. LoopType'
    BY LeaveType, Zenon DEF Control, Pcs
  <1>3. EpochAtHand'
    BY Zenon DEF Control, EpochAtHand, Leave, Goto
  <1> QED
    BY <1>1, <1>2, <1>3, QuietControl, Zenon DEF Control, RetiresLeaving, Leave, Goto, UnloadPcs

\* An operation that has no attempt at hand ends.
LEMMA ReturnControl ==
  ASSUME Control, Return, pc \notin AttemptPcs,
         UNCHANGED <<active, preparing, lastEpoch, planOf, inFlight, late, sess, closed>>,
         phase' \in Phases, draining' \subseteq draining
  PROVE  Control' /\ pc' # "activate"
  <1>1. StateType'
    BY Zenon DEF Control, StateType
  <1>2. LoopType'
    BY ReturnType, Zenon DEF Control
  <1>3. EpochAtHand'
    BY Zenon DEF Control, EpochAtHand, Return, Goto
  <1> QED
    BY <1>1, <1>2, <1>3, QuietControl, Zenon DEF Control, RetiresLeaving, Return, Goto, UnloadPcs

\* recordReconcileError changes the phase and nothing else.
LEMMA RecordedPhase ==
  ASSUME StateType, NEW healthy, RecordReconcileError(healthy)
  PROVE  phase' \in Phases /\ UNCHANGED <<active, preparing, lastEpoch, planOf, draining>>
  BY Zenon DEF RecordReconcileError, ServingPhase, StateType, Phases

\* beginTransition opens an attempt with an epoch that nobody has seen yet.
LEMMA BeginTransitionControl ==
  ASSUME Control, NEW P \in SUBSET Nodes, BeginTransition(P), pc \notin AttemptPcs,
         op' \in {"none", "switch", "reconcile"}, op' # "switch" => active # NoEpoch,
         queue' = queue, UNCHANGED <<inFlight, late, sess, closed>>
  PROVE  Control' /\ pc' # "activate"
  <1>1. /\ lastEpoch' = lastEpoch + 1 /\ lastEpoch \in Nat /\ lastEpoch' \in Epochs
        /\ preparing = NoEpoch /\ preparing' = lastEpoch' /\ cur' = lastEpoch'
        /\ UNCHANGED <<active, draining>>
        /\ planOf' = [planOf EXCEPT ![lastEpoch + 1] = P]
        /\ phase' = "preparing" /\ Goto("load", P)
    BY MaxEpochNat DEF BeginTransition, Control, StateType
  <1>2. StateType'
    BY <1>1, MaxEpochNat DEF Control, StateType, Phases
  <1>3. LoopType'
    <2>1. "load" \in Pcs /\ cur' \in 0..MaxEpoch /\ queue' \subseteq Epochs
      BY <1>1 DEF Control, LoopType, Pcs
    <2> QED
      BY <1>1, <2>1, GotoType, Zenon DEF Control
  <1>4. active <= lastEpoch /\ active \in Int
    BY DEF Control, EpochAtHand, StateType
  <1>5. EpochAtHand'
    BY <1>1, <1>4 DEF EpochAtHand, Goto
  <1>6. \A e \in Past : e \in Past'
    BY <1>1 DEF Past
  <1>7. RetiresLeaving'
    BY <1>1, <1>6, Zenon DEF Control, RetiresLeaving, Leaving
  <1>8. CountsSessions'
    BY Zenon DEF Control, CountsSessions
  <1>9. Unpinned'
    BY <1>1 DEF Control, Unpinned, Goto, UnloadPcs
  <1> QED
    BY <1>1, <1>2, <1>3, <1>5, <1>7, <1>8, <1>9, Zenon DEF Control, Goto

\* A switch that an operator requests begins.
LEMMA SwitchBeginControl ==
  ASSUME Control, NEW fresh \in SUBSET Nodes, SwitchBegin(fresh)
  PROVE  Control' /\ pc' # "activate"
  <1>1. PICK P \in Plans(fresh) : BeginTransition(P)
    BY Zenon DEF SwitchBegin
  <1>2. P \in SUBSET Nodes
    BY Zenon DEF Plans
  <1> QED
    BY <1>1, <1>2, BeginTransitionControl, Zenon DEF SwitchBegin

\* The plan is built and BeginTransition gives it the next epoch.
LEMMA BuildControl ==
  ASSUME Control, NEW fresh \in SUBSET Nodes, Build(fresh)
  PROVE  Control' /\ pc' # "activate"
  <1> pc = "build" /\ op \in {"none", "switch", "reconcile"}
    BY Zenon DEF Build, Control, LoopType
  <1>1. CASE Return /\ UNCHANGED stateVars
    BY <1>1, ReturnControl, Zenon DEF Build, stateVars, Control, StateType
  <1>2. CASE active # NoEpoch /\ Leave("judgeMembers") /\ UNCHANGED stateVars
    BY <1>2, LeaveControl, Zenon DEF Build, stateVars, Control, StateType
  <1>3. CASE /\ active # NoEpoch /\ Goto("repair", planOf[active]) /\ cur' = active
             /\ UNCHANGED <<stateVars, op, queue>>
    <2>1. StateType'
      BY <1>3, Zenon DEF Control, StateType, stateVars, Build
    <2>2. active \in Epochs /\ active \in 0..MaxEpoch /\ "repair" \in Pcs
      BY <1>3, EpochBounds, Zenon DEF Control, StateType, Pcs
    <2>3. LoopType'
      <3>1. planOf[active] \in SUBSET Nodes
        BY <2>2, PlanNodes, Zenon DEF Control
      <3>2. cur' \in 0..MaxEpoch /\ op' \in {"none", "switch", "reconcile"} /\ queue' \subseteq Epochs
        BY <1>3, <2>2, Zenon DEF Control, LoopType
      <3> QED
        BY <1>3, <2>2, <3>1, <3>2, GotoType, Zenon DEF Control
    <2>4. EpochAtHand'
      <3>1. pc' = "repair" /\ UNCHANGED <<active, preparing, lastEpoch>>
        BY <1>3, Zenon DEF Goto, stateVars
      <3> QED
        BY <1>3, <3>1, Zenon DEF Control, EpochAtHand
    <2> QED
      BY <1>3, <2>1, <2>3, <2>4, QuietControl, Zenon
      DEF Build, Control, RetiresLeaving, Goto, stateVars, UnloadPcs
  <1>4. ASSUME active # NoEpoch, NEW P \in Plans(fresh), BeginTransition(P), UNCHANGED <<op, queue>>
        PROVE  Control' /\ pc' # "activate"
    <2>1. P \in SUBSET Nodes
      BY Zenon DEF Plans
    <2> QED
      BY <1>4, <2>1, BeginTransitionControl, Zenon DEF Build
  <1> QED
    BY <1>1, <1>2, <1>3, <1>4, Zenon DEF Build

\* Steps within the loop over a plan's stages.
LEMMA LoopStepControl ==
  ASSUME Control, UNCHANGED <<stateVars, op, cur, queue, inFlight, late, sess, closed>>,
         pc' \in Pcs, todo' \subseteq Nodes, at' \in Nodes \cup {NoNode}, outcome' \in {"ok", "error"},
         EpochAtHand', pc \in UndoPcs => pc' \in UndoPcs, pc' \in UnloadPcs => inFlight[cur] = 0
  PROVE  Control'
  <1>1. StateType'
    BY Zenon DEF Control, StateType, stateVars
  <1>2. LoopType'
    BY Zenon DEF Control, LoopType
  <1> QED
    BY <1>1, <1>2, QuietControl, Zenon DEF Control, RetiresLeaving, stateVars

\* A load call is answered.
LEMMA LoadAnsweredControl ==
  ASSUME Control, NEW n \in Nodes, LoadAnswered(n)
  PROVE  Control' /\ pc' # "activate"
  <1>1. CASE OnError
    BY <1>1, OnErrorQuiet, Zenon DEF LoadAnswered
  <1>2. CASE /\ pc' = IF pc = "load" THEN "loading" ELSE "repairLoading"
             /\ at' = n
             /\ UNCHANGED <<op, cur, todo, outcome, queue>>
    <2>1. pc' \in Pcs
      BY <1>2, Zenon DEF Pcs
    <2>2. EpochAtHand'
      BY <1>2, Zenon DEF LoadAnswered, Control, EpochAtHand, stateVars
    <2> QED
      BY <1>2, <2>1, <2>2, LoopStepControl, Zenon DEF LoadAnswered, Control, LoopType, UnloadPcs
  <1> QED
    BY <1>1, <1>2, Zenon DEF LoadAnswered

\* The wait for the load ends with the state the worker reports.
LEMMA LoadReturnsControl ==
  ASSUME Control, LoadReturns
  PROVE  Control' /\ pc' # "activate"
  <1>1. CASE OnError
    BY <1>1, OnErrorQuiet, Zenon DEF LoadReturns
  <1>2. CASE /\ pc' = IF pc = "loading" THEN "load" ELSE "repairActivate"
             /\ todo' = IF pc = "loading" THEN todo \ {at} ELSE todo
             /\ at' = IF pc = "loading" THEN NoNode ELSE at
             /\ UNCHANGED <<op, cur, outcome, queue>>
    <2>1. pc' \in Pcs
      BY <1>2, Zenon DEF Pcs
    <2>2. EpochAtHand'
      BY <1>2, Zenon DEF LoadReturns, Control, EpochAtHand, stateVars
    <2> QED
      BY <1>2, <2>1, <2>2, LoopStepControl, Zenon DEF LoadReturns, Control, LoopType, UnloadPcs
  <1> QED
    BY <1>1, <1>2, Zenon DEF LoadReturns

\* An activate call is answered.
LEMMA ActivateAnsweredControl ==
  ASSUME Control, NEW n \in Nodes, ActivateAnswered(n)
  PROVE  Control'
  <1>1. CASE OnError
    BY <1>1, OnErrorQuiet, Zenon DEF ActivateAnswered
  <1>2. CASE /\ pc' = IF pc = "activate" THEN "activate" ELSE "repair"
             /\ todo' = todo \ {n}
             /\ at' = NoNode
             /\ UNCHANGED <<op, cur, outcome, queue>>
    <2>1. pc' \in Pcs
      BY <1>2, Zenon DEF Pcs
    <2>2. EpochAtHand'
      BY <1>2, Zenon DEF ActivateAnswered, Control, EpochAtHand, stateVars
    <2> QED
      BY <1>2, <2>1, <2>2, LoopStepControl, Zenon DEF ActivateAnswered, Control, LoopType, UnloadPcs
  <1> QED
    BY <1>1, <1>2, Zenon DEF ActivateAnswered

\* A drain call is answered.
LEMMA DrainAnsweredControl == ASSUME Control, NEW n \in Nodes, DrainAnswered(n) PROVE Control'
  <1>1. EpochAtHand'
    <2>1. UNCHANGED <<pc, op, cur, at, active, preparing, lastEpoch>>
      BY Zenon DEF DrainAnswered, stateVars
    <2> QED
      BY <2>1, Zenon DEF Control, EpochAtHand, Past
  <1> QED
    BY <1>1, LoopStepControl, Zenon DEF DrainAnswered, Control, LoopType, Unpinned

\* Every stage is loaded.
LEMMA LoadsDoneControl == ASSUME Control, LoadsDone PROVE Control'
  <1>1. cur \in Epochs /\ "activate" \in Pcs
    BY EpochBounds, Zenon DEF LoadsDone, Control, EpochAtHand, LoopType, Pcs
  <1>2. EpochAtHand'
    BY Zenon DEF LoadsDone, Control, EpochAtHand, Goto, stateVars
  <1>3. /\ pc = "load" /\ pc' = "activate" /\ todo' = planOf[cur]
        /\ at' \in Nodes \cup {NoNode} /\ outcome' \in {"ok", "error"}
        /\ UNCHANGED <<stateVars, op, cur, queue, inFlight, late, sess, closed>>
    BY Zenon DEF LoadsDone, Goto
  <1>4. todo' \subseteq Nodes
    BY <1>1, <1>3, PlanNodes, Zenon DEF Control
  <1> QED
    BY <1>1, <1>2, <1>3, <1>4, LoopStepControl, Zenon DEF UnloadPcs

\* Every stage of the epoch that leaves was asked to drain.
LEMMA DrainsDoneControl == ASSUME Control, DrainsDone PROVE Control'
  <1>1. cur \in Epochs /\ UNCHANGED <<stateVars, op, cur, queue, inFlight, late, sess, closed>>
    BY EpochBounds, Zenon DEF DrainsDone, Control, EpochAtHand, StateType, LoopType, Past, DrainPcs
  <1>2. CASE pc = "undoDrain"
    <2>1. pc' = "undoUnload" /\ todo' = planOf[cur] /\ UNCHANGED <<at, outcome>> /\ pc' \in Pcs
      BY <1>2, Zenon DEF DrainsDone, Pcs, UnloadPcs
    <2>2. EpochAtHand' /\ inFlight[cur] = 0
      BY <1>1, <1>2, <2>1, Zenon DEF Control, EpochAtHand, Unpinned, stateVars
    <2> QED
      BY <1>1, <2>1, <2>2, PlanNodes, LoopStepControl, Zenon DEF Control, LoopType
  <1>3. CASE pc \in {"retryDrain", "retireDrain"}
    <2>1. pc' \in WaitPcs /\ todo' = {} /\ UNCHANGED <<at, outcome>> /\ pc' \in Pcs
      BY <1>3, Zenon DEF DrainsDone, Pcs, WaitPcs
    <2>2. EpochAtHand'
      BY <1>1, <1>3, <2>1, Zenon DEF Control, EpochAtHand, stateVars, Past, WaitPcs
    <2> QED
      BY <1>1, <1>3, <2>1, <2>2, LoopStepControl, Zenon DEF Control, LoopType, WaitPcs, UnloadPcs
  <1> QED
    BY <1>2, <1>3, Zenon DEF DrainsDone, DrainPcs

\* The epoch that leaves has no session any more.
LEMMA WaitDoneControl == ASSUME Control, WaitDone PROVE Control'
  <1>1. cur \in Epochs
    BY EpochBounds, Zenon DEF WaitDone, Control, EpochAtHand, StateType, LoopType, Past, WaitPcs
  <1>2. pc' \in Pcs
    BY Zenon DEF WaitDone, Pcs, UnloadPcs
  <1>3. EpochAtHand'
    BY Zenon DEF WaitDone, Control, EpochAtHand, stateVars, Past, WaitPcs
  <1> QED
    BY <1>1, <1>2, <1>3, PlanNodes, LoopStepControl, Zenon DEF WaitDone, Control, LoopType, WaitPcs

\* Only an epoch that leaves is drained and unloaded.
LEMMA LeavingAtHand ==
  ASSUME Control, pc \in DrainPcs \cup UnloadPcs
  PROVE  Leaving(cur) /\ cur \in Epochs
  <1>1. pc \in RetirePcs \cup UndoPcs
    BY Zenon DEF DrainPcs, UnloadPcs
  <1>2. Leaving(cur)
    BY <1>1, Zenon DEF Control, EpochAtHand, Leaving
  <1> QED
    BY <1>1, <1>2, EpochBounds, Zenon DEF Control, EpochAtHand, LoopType, Past

\* A stage of drainPlan or unloadPlan, answered or not.
LEMMA DropStageControl ==
  ASSUME Control, pc \in DrainPcs \cup UnloadPcs, NEW n \in Nodes,
         todo' = todo \ {n}, outcome' \in {"ok", "error"},
         UNCHANGED <<stateVars, inFlight, sess, pc, op, cur, at, queue>>, NoteUnload,
         late' \subseteq late \cup {[call |-> CallOf, node |-> n, epoch |-> cur, done |-> FALSE]}
  PROVE  Control'
  <1>1. Leaving(cur) /\ cur \in Epochs /\ CallOf = (IF pc \in DrainPcs THEN "drain" ELSE "unload")
    BY LeavingAtHand, Zenon DEF CallOf, DrainPcs, UnloadPcs
  <1>2. /\ closed' = (IF pc \in UnloadPcs THEN closed \cup {cur} ELSE closed)
        /\ DrainPcs \cap UnloadPcs = {}
    BY Zenon DEF NoteUnload, DrainPcs, UnloadPcs
  <1>3. [call |-> CallOf, node |-> n, epoch |-> cur, done |-> FALSE] \in LateCalls
    BY <1>1, Zenon DEF Calls, LateCalls
  <1>4. StateType'
    BY Zenon, <1>1, <1>2, <1>3 DEF Control, StateType, stateVars
  <1>5. LoopType'
    BY Zenon DEF Control, LoopType
  <1>6. EpochAtHand'
    BY Zenon DEF Control, EpochAtHand, stateVars, Past
  <1>7. RetiresLeaving'
    <2>1. \A e \in Epochs : Leaving(e) => Leaving(e)'
      BY Zenon DEF Leaving, Past, stateVars
    <2>2. draining' \subseteq Past' /\ queue' \subseteq Past'
      BY Zenon DEF Control, RetiresLeaving, Past, stateVars
    <2>3. \A e \in closed' : Leaving(e)'
      BY <1>1, <1>2, <2>1, Zenon DEF Control, RetiresLeaving, StateType
    <2>4. \A m \in late' : m \in late \/ (m.call = CallOf /\ m.epoch = cur)
      OBVIOUS
    <2>5. \A m \in late' : m.call = "drain" => Leaving(m.epoch)'
      BY <1>1, <2>1, <2>4, Zenon DEF Control, RetiresLeaving, StateType, LateCalls
    <2>6. \A m \in late' : m.call = "unload" => m.epoch \in closed'
      BY <1>1, <1>2, <2>4, Zenon DEF Control, RetiresLeaving
    <2> QED
      BY <2>2, <2>3, <2>5, <2>6, Zenon DEF RetiresLeaving
  <1>8. CountsSessions'
    BY Zenon DEF Control, CountsSessions
  <1>9. Unpinned'
    BY <1>2, Zenon DEF Control, Unpinned, stateVars
  <1> QED
    BY <1>4, <1>5, <1>6, <1>7, <1>8, <1>9, Zenon DEF Control

\* A call that fails, whether or not it is still under way.
LEMMA CallFailedControl ==
  ASSUME Control, NEW n \in Nodes, pc \in CallPcs, CallFailed(n), NoteUnload,
         UNCHANGED <<stateVars, inFlight, sess>>,
         late' \subseteq late \cup {[call |-> CallOf, node |-> n, epoch |-> cur, done |-> FALSE]}
  PROVE  Control' /\ pc' # "activate"
  <1>1. CASE pc \in DrainPcs \cup UnloadPcs
    BY <1>1, DropStageControl, Zenon DEF CallFailed, DrainPcs, UnloadPcs
  <1>2. CASE pc \notin DrainPcs \cup UnloadPcs
    <2>1. pc \in {"load", "repairLoad", "activate", "repairActivate"} /\ cur \in Epochs
      BY <1>2, EpochBounds, Zenon DEF CallPcs, Control, EpochAtHand, LoopType
    <2>2. CallOf \in {"load", "activate"}
      BY <2>1, Zenon DEF CallOf, DrainPcs
    <2>3. closed' = closed /\ OnError
      BY <1>2, Zenon DEF NoteUnload, CallFailed
    <2> DEFINE delayed == [call |-> CallOf, node |-> n, epoch |-> cur, done |-> FALSE]
    <2>6. delayed \in LateCalls
      BY <2>1, <2>2, Zenon DEF Calls, LateCalls
    <2>7. delayed.call = CallOf
      BY Zenon
    <2>8. late' \subseteq late \cup {delayed}
      BY Zenon
    <2> HIDE DEF delayed
    <2>4. late' \subseteq LateCalls
      BY <2>6, <2>8, Zenon DEF Control, StateType
    <2>5. \A m \in late' : m \in late \/ m.call \notin {"drain", "unload"}
      BY <2>2, <2>7, <2>8, Zenon
    <2> QED
      BY <2>1, <2>3, <2>4, <2>5, OnErrorControl, Zenon
  <1> QED
    BY <1>1, <1>2, Zenon

\* An unload call is answered.
LEMMA UnloadAnsweredControl == ASSUME Control, NEW n \in Nodes, UnloadAnswered(n) PROVE Control'
  <1>1. outcome' \in {"ok", "error"}
    BY Zenon DEF UnloadAnswered, Control, LoopType
  <1> QED
    BY <1>1, DropStageControl, Zenon DEF UnloadAnswered

\* publish hands over from one epoch to the next.
LEMMA PublishControl == ASSUME Control, Publish PROVE Control' /\ pc' # "activate"
  <1>1. /\ pc = "activate" /\ active' = cur /\ preparing' = NoEpoch
        /\ UNCHANGED <<lastEpoch, planOf, inFlight, late, sess, closed>>
        /\ cur = preparing /\ preparing = lastEpoch /\ cur \in Epochs /\ active # cur
        /\ active \in 0..lastEpoch /\ lastEpoch \in 0..MaxEpoch
    BY EpochBounds DEF Publish, Control, EpochAtHand, StateType
  <1>2. \A e \in Past : e \in Past'
    BY <1>1 DEF Past
  <1>3. active # NoEpoch => active \in Past'
    BY <1>1 DEF Past
  <1>4. /\ active = NoEpoch => phase' = "active" /\ Return /\ draining' = draining
        /\ active # NoEpoch =>
              /\ phase' = "draining" /\ draining' = draining \cup {active}
              /\ Goto("retireDrain", planOf[active]) /\ cur' = active /\ UNCHANGED <<op, queue>>
    BY Zenon DEF Publish
  <1>5. StateType'
    BY <1>1, <1>4, EpochBounds, Zenon DEF Control, StateType, Phases
  <1>6. LoopType'
    <2>1. CASE active = NoEpoch
      BY <1>4, <2>1, ReturnType, Zenon DEF Control
    <2>2. CASE active # NoEpoch
      <3>1. active \in Epochs /\ active \in 0..MaxEpoch /\ "retireDrain" \in Pcs
        BY <2>2, EpochBounds, Zenon DEF Control, StateType, Pcs, DrainPcs
      <3> QED
        BY <1>4, <2>2, <3>1, PlanNodes, GotoType, Zenon DEF Control, LoopType
    <2> QED
      BY <2>1, <2>2, Zenon
  <1>7. EpochAtHand'
    BY <1>1, <1>3, <1>4 DEF EpochAtHand, Return, Goto
  <1>8. RetiresLeaving'
    BY <1>1, <1>2, <1>3, <1>4, Zenon DEF Control, RetiresLeaving, Leaving, Return
  <1>9. CountsSessions' /\ Unpinned'
    BY <1>1, <1>4 DEF Control, CountsSessions, Unpinned, Return, Goto, UnloadPcs
  <1> QED
    BY <1>4, <1>5, <1>6, <1>7, <1>8, <1>9, Zenon DEF Control, Return, Goto

\* rollbackPreparedPlan ends: the attempt is past.
LEMMA RollbackControl ==
  ASSUME Control, NEW fresh \in SUBSET Nodes, Rollback(fresh)
  PROVE  Control' /\ pc' # "activate"
  <1>1. /\ pc = "undoUnload" /\ preparing' = NoEpoch
        /\ UNCHANGED <<active, lastEpoch, planOf, inFlight, late, sess, closed>>
        /\ draining' \subseteq draining \cup {cur}
        /\ cur = preparing /\ preparing = lastEpoch /\ cur \in Epochs /\ active # cur
        /\ op # "switch" => active # NoEpoch
    BY EpochBounds, Zenon DEF Rollback, Control, EpochAtHand, StateType
  <1>2. (\A e \in Past : e \in Past') /\ cur \in Past'
    BY <1>1 DEF Past
  <1>3. phase' \in Phases
    BY Zenon DEF Rollback, ServingPhase, Phases
  <1>4. StateType'
    BY <1>1, <1>3, EpochBounds, Zenon DEF Control, StateType
  <1>5. IF op = "switch" THEN Return ELSE Leave("judgeMembers")
    BY Zenon DEF Rollback
  <1>6. LoopType'
    BY <1>5, ReturnType, LeaveType, Zenon DEF Control, Pcs
  <1>7. EpochAtHand'
    BY <1>1, <1>5, Zenon DEF Control, EpochAtHand, Return, Leave, Goto
  <1>8. RetiresLeaving'
    BY <1>1, <1>2, <1>5, Zenon DEF Control, RetiresLeaving, Leaving, Return, Leave
  <1>9. CountsSessions' /\ Unpinned'
    BY <1>1, <1>5 DEF Control, CountsSessions, Unpinned, Return, Leave, Goto, UnloadPcs
  <1> QED
    BY <1>4, <1>5, <1>6, <1>7, <1>8, <1>9, Zenon DEF Control, Return, Leave, Goto

\* The end of retirePlan.
LEMMA RetireEndControl ==
  ASSUME Control, pc \in {"retryWait", "retryUnload", "retireWait", "retireUnload"}, AfterRetire,
         UNCHANGED <<active, preparing, lastEpoch, planOf, inFlight, late, sess, closed>>,
         phase' \in Phases, draining' \subseteq draining
  PROVE  Control' /\ pc' # "activate"
  <1>1. CASE pc \in {"retryWait", "retryUnload"}
    BY <1>1, LeaveControl, Zenon DEF AfterRetire
  <1>2. CASE pc \notin {"retryWait", "retryUnload"}
    BY <1>2, ReturnControl, Zenon DEF AfterRetire
  <1> QED
    BY <1>1, <1>2, Zenon

\* A retirement that fails leaves its epoch draining.
LEMMA RetireFailedControl ==
  ASSUME Control, pc \in {"retryWait", "retryUnload", "retireWait", "retireUnload"}, RetireFailed,
         UNCHANGED <<inFlight, late, sess, closed>>
  PROVE  Control' /\ pc' # "activate" /\ UNCHANGED <<active, planOf>>
  <1>1. /\ UNCHANGED <<active, preparing, lastEpoch, planOf, draining>>
        /\ phase' \in Phases
    BY RecordedPhase, Zenon DEF RetireFailed, stateVars, Control, StateType
  <1> QED
    BY <1>1, RetireEndControl, Zenon DEF RetireFailed

\* Every stage of the epoch that leaves is unloaded: it is forgotten.
LEMMA UnloadsDoneControl ==
  ASSUME Control, UnloadsDone
  PROVE  Control' /\ pc' # "activate" /\ UNCHANGED <<active, planOf>>
  <1>1. CASE FinishDraining /\ AfterRetire
    <2>1. /\ UNCHANGED <<active, preparing, lastEpoch, planOf>>
          /\ draining' \subseteq draining /\ phase' \in Phases
      BY <1>1, Zenon DEF FinishDraining, Control, StateType, Phases
    <2> QED
      BY <1>1, <2>1, RetireEndControl, Zenon DEF UnloadsDone
  <1>2. CASE RetireFailed
    BY <1>2, RetireFailedControl, Zenon DEF UnloadsDone
  <1> QED
    BY <1>1, <1>2, Zenon DEF UnloadsDone

\* The wait for sessions times out.
LEMMA WaitTimesOutControl ==
  ASSUME Control, WaitTimesOut
  PROVE  Control' /\ pc' # "activate" /\ UNCHANGED <<active, planOf>>
  BY RetireFailedControl, Zenon DEF WaitTimesOut, WaitPcs

\* Repair asks a worker for the state of its stage.
LEMMA RepairInspectsControl ==
  ASSUME Control, NEW n \in Nodes, RepairInspects(n)
  PROVE  Control' /\ pc' # "activate"
  <1> pc = "repair" /\ UNCHANGED <<stateVars, inFlight, late, sess, closed>>
    BY Zenon DEF RepairInspects
  <1>1. CASE OnError
    BY <1>1, OnErrorQuiet, Zenon
  <1>2. CASE todo' = todo \ {n} /\ UNCHANGED <<pc, op, cur, at, outcome, queue>>
    <2>1. EpochAtHand'
      BY <1>2, Zenon DEF Control, EpochAtHand, stateVars
    <2> QED
      BY <1>2, <2>1, LoopStepControl, Zenon DEF Control, LoopType, UnloadPcs
  <1>3. CASE /\ pc' \in {"repairActivate", "repairLoad"} /\ at' = n
             /\ UNCHANGED <<op, cur, todo, outcome, queue>>
    <2>1. EpochAtHand'
      BY <1>3, Zenon DEF Control, EpochAtHand, stateVars
    <2>2. pc' \in Pcs
      BY <1>3, Zenon DEF Pcs
    <2> QED
      BY <1>3, <2>1, <2>2, LoopStepControl, Zenon DEF Control, LoopType, UnloadPcs
  <1> QED
    BY <1>1, <1>2, <1>3, Zenon DEF RepairInspects

\* Repair has visited every stage.
LEMMA RepairDoneControl ==
  ASSUME Control, RepairDone
  PROVE  Control' /\ pc' # "activate" /\ UNCHANGED <<active, planOf>>
  <1>1. /\ UNCHANGED <<active, preparing, lastEpoch, planOf, draining>>
        /\ phase' \in Phases
    BY RecordedPhase, Zenon DEF RepairDone, Control
  <1> QED
    BY <1>1, ReturnControl, Zenon DEF RepairDone

\* Reconcile compares the plan with the members that are fresh.
LEMMA JudgeMembersControl ==
  ASSUME Control, NEW fresh \in SUBSET Nodes, JudgeMembers(fresh)
  PROVE  Control' /\ pc' # "activate"
  <1>1. pc = "judgeMembers" /\ active \in Epochs /\ "judge" \in Pcs
    BY EpochBounds, Zenon DEF JudgeMembers, Control, EpochAtHand, StateType, Pcs
  <1>2. /\ pc' = "judge" /\ todo' \subseteq Nodes /\ at' = NoNode /\ outcome' \in {"ok", "error"}
        /\ UNCHANGED <<stateVars, op, cur, queue, inFlight, late, sess, closed>>
    BY <1>1, PlanNodes, Zenon DEF JudgeMembers, Goto, Control
  <1>3. EpochAtHand'
    BY <1>1, <1>2, Zenon DEF Control, EpochAtHand, stateVars
  <1> QED
    BY <1>1, <1>2, <1>3, LoopStepControl, Zenon DEF UnloadPcs

\* Reconcile asks a worker of the route for its status.
LEMMA JudgeStatusControl ==
  ASSUME Control, NEW n \in Nodes, JudgeStatus(n)
  PROVE  Control' /\ pc' # "activate"
  <1>1. /\ pc = "judge" /\ todo' \subseteq Nodes /\ outcome' \in {"ok", "error"}
        /\ UNCHANGED <<stateVars, pc, op, cur, at, queue, inFlight, late, sess, closed>>
    BY Zenon DEF JudgeStatus, Control, LoopType
  <1>2. EpochAtHand'
    BY <1>1, Zenon DEF Control, EpochAtHand, stateVars
  <1> QED
    BY <1>1, <1>2, LoopStepControl, Zenon DEF Control, LoopType, UnloadPcs

\* Every worker of the route was asked.
LEMMA JudgeDoneControl ==
  ASSUME Control, JudgeDone
  PROVE  Control' /\ pc' # "activate" /\ UNCHANGED <<active, planOf>>
  <1>1. /\ UNCHANGED <<active, preparing, lastEpoch, planOf, draining>>
        /\ phase' \in Phases
    BY RecordedPhase, Zenon DEF JudgeDone, Control
  <1> QED
    BY <1>1, ReturnControl, Zenon DEF JudgeDone

\* A status request is not answered.
LEMMA StatusLostControl ==
  ASSUME Control, NEW n \in Nodes, StatusLost(n)
  PROVE  Control' /\ pc' # "activate"
  <1>1. CASE pc = "repair"
    BY <1>1, OnErrorQuiet, Zenon DEF StatusLost
  <1>2. CASE pc # "repair"
    <2>1. /\ pc = "judge" /\ todo' = {} /\ outcome' = "error"
          /\ UNCHANGED <<stateVars, pc, op, cur, at, queue, inFlight, late, sess, closed>>
      BY <1>2, Zenon DEF StatusLost
    <2>2. EpochAtHand'
      BY <2>1, Zenon DEF Control, EpochAtHand, stateVars
    <2> QED
      BY <2>1, <2>2, LoopStepControl, Zenon DEF Control, LoopType, UnloadPcs
  <1> QED
    BY <1>1, <1>2, Zenon

\* The wait for a load times out or cannot be asked about.
LEMMA LoadGivenUpControl ==
  ASSUME Control, LoadTimesOut \/ ProbeFails
  PROVE  Control' /\ pc' # "activate"
  BY OnErrorQuiet, Zenon DEF LoadTimesOut, ProbeFails

\* Steps of the workers alone.
LEMMA WorkerControl ==
  ASSUME Control, UNCHANGED <<stateVars, ctlVars, inFlight, sess, closed>>,
         late' \subseteq LateCalls,
         \A m \in late' : \E k \in late : k.call = m.call /\ k.epoch = m.epoch
  PROVE  Control'
  <1>1. StateType' /\ LoopType'
    BY Zenon DEF Control, StateType, LoopType, stateVars, ctlVars
  <1>2. EpochAtHand'
    BY Zenon DEF Control, EpochAtHand, Past, stateVars, ctlVars
  <1>3. RetiresLeaving'
    <2>1. \A e \in Epochs : Leaving(e) => Leaving(e)'
      BY Zenon DEF Leaving, Past, stateVars, ctlVars
    <2>2. draining' \subseteq Past' /\ queue' \subseteq Past'
      BY Zenon DEF Control, RetiresLeaving, Past, stateVars, ctlVars
    <2>3. \A e \in closed' : Leaving(e)'
      BY <2>1, Zenon DEF Control, RetiresLeaving, StateType
    <2>4. \A k \in late : k.call = "drain" => Leaving(k.epoch)'
      BY <2>1, Zenon DEF Control, RetiresLeaving, StateType, LateCalls
    <2>5. \A m \in late' : m.call = "drain" => Leaving(m.epoch)'
      BY <2>4, Zenon
    <2>6. \A m \in late' : m.call = "unload" => m.epoch \in closed'
      BY Zenon DEF Control, RetiresLeaving
    <2> QED
      BY <2>2, <2>3, <2>5, <2>6, Zenon DEF RetiresLeaving
  <1>4. CountsSessions' /\ Unpinned'
    BY Zenon DEF Control, CountsSessions, Unpinned, stateVars, ctlVars
  <1> QED
    BY <1>1, <1>2, <1>3, <1>4, Zenon DEF Control

\* The delayed calls stay as they are.
LEMMA LateStays ==
  ASSUME Control, late' = late
  PROVE  /\ late' \subseteq LateCalls
         /\ \A m \in late' : \E k \in late : k.call = m.call /\ k.epoch = m.epoch
  BY Zenon DEF Control, StateType

\* An admission pins the published epoch, which is not leaving.
LEMMA AdmitControl == ASSUME Control, NEW s \in Sessions, Admit(s) PROVE Control'
  <1>1. /\ sess[s] = NotAdmitted /\ active \in 0..MaxEpoch
        /\ inFlight' = [inFlight EXCEPT ![active] = inFlight[active] + 1]
        /\ sess' = [sess EXCEPT ![s] = active]
        /\ UNCHANGED <<stateVars, ctlVars, runtimeVars, late, closed>>
    BY Zenon DEF Admit, Control, StateType
  <1>2. StateType' /\ LoopType'
    BY <1>1 DEF Control, StateType, LoopType, stateVars, ctlVars
  <1>3. EpochAtHand'
    BY <1>1, Zenon DEF Control, EpochAtHand, Past, stateVars, ctlVars
  <1>4. RetiresLeaving'
    BY <1>1, Zenon DEF Control, RetiresLeaving, Leaving, Past, stateVars, ctlVars
  <1>5. ASSUME NEW e \in 0..MaxEpoch
        PROVE  inFlight'[e] = Cardinality({t \in Sessions : sess'[t] = e})
    <2> DEFINE S == {t \in Sessions : sess[t] = e}
    <2>1. IsFiniteSet(S) /\ inFlight[e] = Cardinality(S)
      BY ConstantsAssumption, FS_Subset, Zenon DEF Control, CountsSessions
    <2>2. CASE e = active
      <3>1. {t \in Sessions : sess'[t] = e} = S \cup {s} /\ s \notin S
        BY <1>1, <2>2 DEF Control, StateType, NotAdmitted
      <3> HIDE DEF S
      <3>2. Cardinality(S \cup {s}) = Cardinality(S) + 1
        BY <2>1, <3>1, FS_AddElement, Zenon
      <3>3. inFlight'[e] = inFlight[e] + 1
        BY <1>1, <2>2, Zenon DEF Control, StateType
      <3> QED
        BY <2>1, <3>1, <3>2, <3>3, Zenon
    <2>3. CASE e # active
      <3>1. {t \in Sessions : sess'[t] = e} = S
        BY <1>1, <2>3 DEF Control, StateType, NotAdmitted
      <3> QED
        BY <1>1, <2>1, <2>3, <3>1, Zenon DEF Control, StateType
    <2> QED
      BY <2>2, <2>3, Zenon
  <1>6. CountsSessions'
    BY <1>5, Zenon DEF CountsSessions
  <1>7. Unpinned'
    <2>1. \A e \in Epochs : Leaving(e) \/ e > lastEpoch \/ e = preparing => e # active
      BY DEF Control, EpochAtHand, StateType, Leaving, Past
    <2>2. pc \in UnloadPcs => Leaving(cur) /\ cur \in Epochs
      BY LeavingAtHand, Zenon
    <2>3. \A e \in Epochs : e # active => inFlight'[e] = inFlight[e]
      BY <1>1 DEF Control, StateType
    <2> QED
      BY <1>1, <2>1, <2>2, <2>3, Zenon DEF Control, Unpinned, RetiresLeaving, stateVars, ctlVars
  <1> QED
    BY <1>2, <1>3, <1>4, <1>6, <1>7, Zenon DEF Control

\* A session ends and gives its epoch back.
LEMMA ReleaseControl ==
  ASSUME Control, NEW s \in Sessions, Release(s)
  PROVE  Control' /\ inFlight[sess[s]] > 0 /\ sess[s] \in 0..MaxEpoch
  <1>1. /\ sess[s] \in 0..MaxEpoch
        /\ inFlight' = [inFlight EXCEPT ![sess[s]] = inFlight[sess[s]] - 1]
        /\ sess' = [sess EXCEPT ![s] = NotAdmitted]
        /\ UNCHANGED <<stateVars, ctlVars, runtimeVars, late, closed>>
    BY Zenon DEF Release, Control, StateType
  <1>2. ASSUME NEW e \in 0..MaxEpoch
        PROVE  /\ inFlight'[e] = Cardinality({t \in Sessions : sess'[t] = e})
               /\ e = sess[s] => inFlight[e] > 0
    <2> DEFINE S == {t \in Sessions : sess[t] = e}
    <2>1. IsFiniteSet(S) /\ inFlight[e] = Cardinality(S) /\ inFlight[e] \in Nat
      BY ConstantsAssumption, FS_Subset, Zenon DEF Control, CountsSessions, StateType
    <2>2. CASE e = sess[s]
      <3>1. {t \in Sessions : sess'[t] = e} = S \ {s} /\ s \in S
        BY <1>1, <2>2 DEF Control, StateType, NotAdmitted
      <3>2. Cardinality(S \ {s}) = Cardinality(S) - 1
        BY <2>1, <3>1, FS_RemoveElement, Zenon
      <3>3. inFlight'[e] = inFlight[e] - 1
        BY <1>1, <2>2, Zenon DEF Control, StateType
      <3>4. Cardinality(S) # 0
        BY <2>1, <3>1, FS_EmptySet, Zenon
      <3> QED
        BY <2>1, <3>1, <3>2, <3>3, <3>4
    <2>3. CASE e # sess[s]
      <3>1. {t \in Sessions : sess'[t] = e} = S
        BY <1>1, <2>3 DEF Control, StateType, NotAdmitted
      <3> QED
        BY <1>1, <2>1, <2>3, <3>1, Zenon DEF Control, StateType
    <2> QED
      BY <2>2, <2>3, Zenon
  <1>3. inFlight[sess[s]] > 0
    BY <1>1, <1>2, Zenon
  <1>4. inFlight' \in [0..MaxEpoch -> Nat]
    BY <1>1, <1>3 DEF Control, StateType
  <1>5. StateType' /\ LoopType'
    BY <1>1, <1>4, Zenon DEF Control, StateType, LoopType, stateVars, ctlVars
  <1>6. EpochAtHand'
    BY <1>1, Zenon DEF Control, EpochAtHand, Past, stateVars, ctlVars
  <1>7. RetiresLeaving'
    BY <1>1, Zenon DEF Control, RetiresLeaving, Leaving, Past, stateVars, ctlVars
  <1>8. CountsSessions'
    BY <1>2, Zenon DEF CountsSessions
  <1>9. Unpinned'
    <2>1. \A e \in 0..MaxEpoch : inFlight[e] = 0 => inFlight'[e] = 0
      BY <1>1, <1>3 DEF Control, StateType
    <2>2. pc \in UnloadPcs => cur \in 0..MaxEpoch
      BY Zenon DEF Control, LoopType
    <2> QED
      BY <1>1, <2>1, <2>2 DEF Control, Unpinned, stateVars, ctlVars
  <1> QED
    BY <1>1, <1>3, <1>5, <1>6, <1>7, <1>8, <1>9, Zenon DEF Control

-------------------------------------------------------------------------------
\* A call on a worker, in time or late, touches no route that is in use.
LEMMA PerformRoutes ==
  ASSUME Control, RuntimeType, Routes, NEW call, NEW n \in Nodes, NEW e \in Epochs,
         Perform(call, n, e),
         call \in {"drain", "unload"} => Leaving(e), call = "unload" => inFlight[e] = 0,
         UNCHANGED <<active, planOf, sess>>,
         pc' = "activate" => pc = "activate" /\ cur' = cur /\ todo' = todo
  PROVE  RuntimeType' /\ Routes'
  <1>1. RuntimeType'
    BY PerformEffect, Zenon
  <1>2. ASSUME active # NoEpoch, NEW m \in Nodes, Held(m, active)
        PROVE  Held(m, active)'
    <2>1. active \in Epochs
      BY <1>2, EpochBounds, Zenon DEF Control, StateType
    <2>2. Leaving(e) => e # active
      BY Zenon DEF Leaving, Past, Control, EpochAtHand
    <2> QED
      BY <1>2, <2>1, <2>2, PerformKeeps, Zenon
  <1>3. ASSUME NEW s \in Sessions, sess[s] \in Epochs, NEW m \in Nodes, Served(m, sess[s])
        PROVE  Served(m, sess[s])'
    <2>1. call = "unload" => sess[s] # e
      BY NoSessions DEF Control
    <2> QED
      BY <1>3, <2>1, PerformKeeps, Zenon
  <1>4. ASSUME pc' = "activate"
        PROVE  /\ pc = "activate" /\ cur' = cur /\ todo' = todo /\ cur \in Epochs
               /\ \A m \in Nodes : Held(m, cur) => Held(m, cur)'
    <2>1. pc = "activate" /\ cur' = cur /\ todo' = todo /\ cur \in Epochs
      BY <1>4, EpochBounds, Zenon DEF Control, EpochAtHand, LoopType
    <2>2. Leaving(e) => e # cur
      BY <2>1, Zenon DEF Leaving, Past, Control, EpochAtHand
    <2>3. \A m \in Nodes : Held(m, cur) => Held(m, cur)'
      BY <2>1, <2>2, PerformKeeps, Zenon
    <2> QED
      BY <2>1, <2>3, Zenon
  <1> QED
    BY <1>1, <1>2, <1>3, <1>4, RoutesKept, Zenon DEF Control

\* BeginTransition leaves the workers and the routes alone.
LEMMA BeginTransitionRoutes ==
  ASSUME Control, RuntimeType, Routes, NEW P, BeginTransition(P),
         pc' # "activate", UNCHANGED <<sess, runtimeVars>>
  PROVE  Routes'
  <1>1. /\ active' = active /\ active \in 0..lastEpoch /\ lastEpoch + 1 \in Epochs
        /\ planOf' = [planOf EXCEPT ![lastEpoch + 1] = P]
    BY MaxEpochNat DEF BeginTransition, Control, StateType, EpochAtHand
  <1>2. \A e \in Epochs : e # lastEpoch + 1 => planOf'[e] = planOf[e]
    BY <1>1, Zenon DEF Control, StateType
  <1>3. \A s \in Sessions : sess[s] # lastEpoch + 1
    <2>1. lastEpoch + 1 > lastEpoch
      BY DEF Control, StateType
    <2> QED
      BY <1>1, <2>1, NoSessions DEF Control, Unpinned
  <1>4. SessionKeepsRoute'
    BY <1>2, <1>3, Zenon DEF Routes, SessionKeepsRoute, runtimeVars
  <1>5. PublishedIsActive'
    <2>1. active # NoEpoch => active \in Epochs /\ active # lastEpoch + 1
      BY <1>1, MaxEpochNat DEF Control, StateType
    <2> QED
      BY <1>1, <1>2, <2>1, Zenon DEF Routes, PublishedIsActive, runtimeVars
  <1> QED
    BY <1>4, <1>5, Zenon DEF Routes

\* Activation starts with no stage activated yet.
LEMMA LoadsDoneRoutes == ASSUME Control, RuntimeType, Routes, LoadsDone PROVE Routes'
  <1>1. /\ UNCHANGED <<active, planOf, sess, runtimeVars>>
        /\ cur' = cur /\ todo' = planOf[cur]
    BY Zenon DEF LoadsDone, Goto, stateVars
  <1>2. SessionKeepsRoute' /\ PublishedIsActive'
    BY <1>1, Zenon DEF Routes, SessionKeepsRoute, PublishedIsActive, runtimeVars
  <1> QED
    BY <1>1, <1>2, Zenon DEF Routes

\* Publication makes the epoch the route: every stage of it is active.
LEMMA PublishRoutes == ASSUME Control, RuntimeType, Routes, Publish, pc' # "activate" PROVE Routes'
  <1>1. /\ active' = cur /\ pc = "activate" /\ todo = {}
        /\ UNCHANGED <<planOf, sess, runtimeVars>>
    BY Zenon DEF Publish
  <1>2. SessionKeepsRoute' /\ PublishedIsActive'
    BY <1>1, Zenon DEF Routes, SessionKeepsRoute, PublishedIsActive, Held, runtimeVars
  <1> QED
    BY <1>2, Zenon DEF Routes

\* An activated stage of the attempt is active on its worker.
LEMMA ActivateAnsweredRoutes ==
  ASSUME Control, RuntimeType, Routes, NEW n \in Nodes, ActivateAnswered(n)
  PROVE  RuntimeType' /\ Routes'
  <1>1. /\ cur \in Epochs /\ Perform("activate", n, cur)
        /\ UNCHANGED <<active, planOf, sess>>
    BY EpochBounds, Zenon
    DEF ActivateAnswered, Perform, Control, EpochAtHand, LoopType, stateVars
  <1>2. CASE pc' # "activate"
    BY <1>1, <1>2, PerformRoutes, Zenon
  <1>3. CASE pc' = "activate"
    <2>1. /\ ActivateAccepts(st[n][cur]) /\ RuntimeActivate(n, cur)
          /\ pc = "activate" /\ cur' = cur /\ todo' = todo \ {n}
      BY Zenon, <1>3 DEF ActivateAnswered, OnError, Leave, Goto
    <2> RuntimeType'
      BY <1>1, PerformEffect, Zenon
    <2>2. ASSUME NEW m \in Nodes, NEW f \in Epochs
          PROVE  (Held(m, f) => Held(m, f)') /\ (Served(m, f) => Served(m, f)')
      BY <1>1, PerformKeeps
    <2>3. Held(n, cur)'
      <3>1. Becomes(n, cur, "active")
        BY <2>1, Zenon DEF RuntimeActivate
      <3> QED
        BY <1>1, <2>1, <3>1, BecomesEffect DEF Held, States
    <2>4. SessionKeepsRoute'
      BY Zenon, <1>1, <2>2 DEF Routes, SessionKeepsRoute, Served, Control, StateType
    <2>5. PublishedIsActive'
      BY Zenon, <1>1, <2>2, EpochBounds DEF Routes, PublishedIsActive, Held, Control, StateType
    <2>6. \A m \in planOf[cur] \ todo' : Held(m, cur)'
      BY Zenon, <1>1, <2>1, <2>2, <2>3, PlanNodes DEF Routes, Control
    <2> QED
      BY <1>1, <2>1, <2>2, <2>4, <2>5, <2>6, Zenon DEF Routes
  <1> QED
    BY <1>2, <1>3, Zenon

\* A restart, or the end of a build, takes no partition that is not marked.
LEMMA WorkerRoutes ==
  ASSUME Control, RuntimeType, Routes, NEW n \in Nodes,
         WorkerRestarts(n) \/ \E e \in Epochs : WorkerLoaded(n, e) \/ WorkerLoadFails(n, e)
  PROVE  Control' /\ RuntimeType' /\ Routes'
  <1>1. UNCHANGED <<stateVars, ctlVars, inFlight, late, sess, closed>>
    BY Zenon DEF WorkerRestarts, WorkerLoaded, WorkerLoadFails
  <1>2. RuntimeType' /\ \A m \in Nodes, f \in Epochs :
            (Held(m, f) => Held(m, f)') /\ (Served(m, f) => Served(m, f)')
    <2>1. CASE WorkerRestarts(n)
      <3>1. /\ st' = [st EXCEPT ![n] = [e \in Epochs |-> "none"]]
            /\ pref' = [pref EXCEPT ![n] = NoEpoch]
            /\ wiped' = wiped \cup {<<n, e>> : e \in {f \in Epochs : st[n][f] # "none"}}
        BY Zenon, <2>1 DEF WorkerRestarts
      <3>2. RuntimeType'
        BY <3>1, EpochBounds DEF RuntimeType
      <3>3. \A m \in Nodes, f \in Epochs : m # n => st'[m][f] = st[m][f]
        BY <3>1, Zenon DEF RuntimeType
      <3>4. \A f \in Epochs : st[n][f] # "none" => <<n, f>> \in wiped'
        BY <3>1, Zenon
      <3>5. wiped \subseteq wiped'
        BY <3>1, Zenon
      <3> QED
        BY <3>2, <3>3, <3>4, <3>5, Zenon DEF Held, Served, Executable
    <2>2. ASSUME NEW e \in Epochs, WorkerLoaded(n, e) \/ WorkerLoadFails(n, e)
          PROVE  RuntimeType' /\ \A m \in Nodes, f \in Epochs :
                    (Held(m, f) => Held(m, f)') /\ (Served(m, f) => Served(m, f)')
      <3>1. /\ st[n][e] = "loading" /\ UNCHANGED <<pref, wiped>>
            /\ \E s \in {"ready", "failed"} : Becomes(n, e, s)
        BY <2>2, Zenon DEF WorkerLoaded, WorkerLoadFails
      <3>2. /\ st' \in [Nodes -> [Epochs -> States \cup {"none"}]]
            /\ \A m \in Nodes, f \in Epochs : m # n \/ f # e => st'[m][f] = st[m][f]
        BY <3>1, BecomesEffect, Zenon DEF States
      <3> QED
        BY <3>1, <3>2, Zenon DEF RuntimeType, Held, Served, Executable
    <2> QED
      BY <2>1, <2>2, Zenon
  <1>3. Control'
    BY <1>1, WorkerControl, LateStays, Zenon
  <1>4. SessionKeepsRoute'
    BY Zenon, <1>1, <1>2 DEF Routes, SessionKeepsRoute, Served, stateVars, Control, StateType
  <1>5. PublishedIsActive'
    BY Zenon, <1>1, <1>2, EpochBounds
       DEF Routes, PublishedIsActive, Held, stateVars, Control, StateType
  <1>6. pc' = "activate" => \A m \in planOf'[cur'] \ todo' : Held(m, cur)'
    <2>1. pc = "activate" => cur \in Epochs
      BY EpochBounds, Zenon DEF Control, EpochAtHand, LoopType
    <2> QED
      BY Zenon, <1>1, <1>2, <2>1, PlanNodes DEF Routes, stateVars, ctlVars, Control
  <1> QED
    BY Zenon, <1>2, <1>3, <1>4, <1>5, <1>6 DEF Routes

\* A session is admitted to the active epoch.
LEMMA AdmitRoutes == ASSUME Control, RuntimeType, Routes, NEW s \in Sessions, Admit(s) PROVE Routes'
  <1>1. /\ sess' = [sess EXCEPT ![s] = active]
        /\ UNCHANGED <<stateVars, ctlVars, runtimeVars>>
    BY Zenon DEF Admit
  <1>2. SessionKeepsRoute'
    <2>1. \A t \in Sessions : sess'[t] = sess[t] \/ sess'[t] = active
      BY <1>1, Zenon DEF Control, StateType
    <2>2. active \in Epochs => \A n \in planOf[active] : Served(n, active)
      BY DEF Routes, PublishedIsActive, Served, Executable
    <2> QED
      BY <1>1, <2>1, <2>2 DEF Routes, SessionKeepsRoute, Served, stateVars, runtimeVars
  <1> QED
    BY <1>1, <1>2, Zenon DEF Routes, PublishedIsActive, Held, stateVars, ctlVars, runtimeVars

\* The end of a session takes no route from the others.
LEMMA ReleaseRoutes == ASSUME Control, RuntimeType, Routes, NEW s \in Sessions, Release(s) PROVE Routes'
  <1>1. /\ sess' = [sess EXCEPT ![s] = NotAdmitted]
        /\ UNCHANGED <<stateVars, ctlVars, runtimeVars>>
    BY Zenon DEF Release
  <1>2. SessionKeepsRoute'
    <2>1. \A t \in Sessions : sess'[t] = sess[t] \/ sess'[t] = NotAdmitted
      BY <1>1, Zenon DEF Control, StateType
    <2>2. NotAdmitted \notin Epochs
      BY MaxEpochNat DEF NotAdmitted
    <2> QED
      BY <1>1, <2>1, <2>2 DEF Routes, SessionKeepsRoute, stateVars, runtimeVars
  <1> QED
    BY <1>1, <1>2, Zenon DEF Routes, PublishedIsActive, Held, stateVars, ctlVars, runtimeVars

-------------------------------------------------------------------------------
\* The steps that only move the loop.
LEMMA ControllerIInv ==
  ASSUME IInv, NEW fresh \in SUBSET Nodes, SwitchBegin(fresh) \/ ControllerStep(fresh)
  PROVE  IInv'
  <1> Control /\ RuntimeType /\ Routes /\ StateType /\ LoopType
    BY Zenon DEF IInv, Control
  <1>0. UNCHANGED <<runtimeVars, sess>> /\ RuntimeType'
    BY Zenon DEF SwitchBegin, ControllerStep, RetryNext, Build, LoadReturns, LoadsDone, Publish,
           DrainsDone, WaitDone, UnloadsDone, Rollback, RepairDone, JudgeMembers, JudgeDone,
           RuntimeType, runtimeVars
  <1>1. CASE SwitchBegin(fresh)
    BY <1>0, <1>1, SwitchBeginControl, BeginTransitionRoutes, Zenon DEF IInv, SwitchBegin
  <1>2. CASE RetryNext
    BY <1>0, <1>2, RetryNextControl, RoutesUntouched, Zenon
       DEF IInv, RetryNext, Leave, Goto, stateVars
  <1>3. CASE Build(fresh)
    <2>1. CASE UNCHANGED stateVars
      BY <1>0, <1>3, <2>1, BuildControl, RoutesUntouched, Zenon DEF IInv, stateVars
    <2>2. CASE \E P \in Plans(fresh) : BeginTransition(P)
      BY <1>0, <1>3, <2>2, BuildControl, BeginTransitionRoutes, Zenon DEF IInv
    <2> QED
      BY <1>3, <2>1, <2>2, Zenon DEF Build
  <1>4. CASE LoadReturns
    BY <1>0, <1>4, LoadReturnsControl, RoutesUntouched, Zenon DEF IInv, LoadReturns, stateVars
  <1>5. CASE LoadsDone
    BY <1>0, <1>5, LoadsDoneControl, LoadsDoneRoutes, Zenon DEF IInv
  <1>6. CASE Publish
    BY <1>0, <1>6, PublishControl, PublishRoutes, Zenon DEF IInv
  <1>7. CASE DrainsDone
    <2>1. pc' # "activate"
      BY <1>7, Zenon DEF DrainsDone, DrainPcs
    <2> QED
      BY <1>0, <1>7, <2>1, DrainsDoneControl, RoutesUntouched, Zenon DEF IInv, DrainsDone, stateVars
  <1>8. CASE WaitDone
    BY <1>0, <1>8, WaitDoneControl, RoutesUntouched, Zenon DEF IInv, WaitDone, stateVars
  <1>9. CASE UnloadsDone
    BY <1>0, <1>9, UnloadsDoneControl, RoutesUntouched, Zenon DEF IInv
  <1>10. CASE Rollback(fresh)
    BY <1>0, <1>10, RollbackControl, RoutesUntouched DEF IInv, Rollback
  <1>11. CASE RepairDone
    BY <1>0, <1>11, RepairDoneControl, RoutesUntouched, Zenon DEF IInv
  <1>12. CASE JudgeMembers(fresh)
    BY <1>0, <1>12, JudgeMembersControl, RoutesUntouched DEF IInv, JudgeMembers, stateVars
  <1>13. CASE JudgeDone
    BY <1>0, <1>13, JudgeDoneControl, RoutesUntouched, Zenon DEF IInv
  <1> QED
    BY <1>1, <1>2, <1>3, <1>4, <1>5, <1>6, <1>7, <1>8, <1>9, <1>10, <1>11, <1>12, <1>13, Zenon
    DEF ControllerStep

\* What is called may be done to the worker.
LEMMA CallAtHand ==
  ASSUME Control, pc \in CallPcs
  PROVE  /\ cur \in Epochs
         /\ CallOf \in {"drain", "unload"} => Leaving(cur)
         /\ CallOf = "unload" => inFlight[cur] = 0
  <1>1. CASE pc \in DrainPcs \cup UnloadPcs
    <2>1. CallOf = "unload" => pc \in UnloadPcs
      BY <1>1, Zenon DEF CallOf, DrainPcs, UnloadPcs
    <2> QED
      BY <1>1, <2>1, LeavingAtHand, Zenon DEF Control, Unpinned
  <1>2. CASE pc \notin DrainPcs \cup UnloadPcs
    <2>1. pc \in {"load", "repairLoad", "activate", "repairActivate"}
      BY <1>2, Zenon DEF CallPcs
    <2> QED
      BY <2>1, EpochBounds, Zenon DEF CallOf, DrainPcs, Control, EpochAtHand, LoopType
  <1> QED
    BY <1>1, <1>2, Zenon

\* A worker's answer to a call, or the loss of it.
LEMMA CallAnsweredIInv ==
  ASSUME IInv, NEW n \in Nodes, CallAnswered(n) \/ CallUnanswered(n)
  PROVE  IInv'
  <1> Control /\ RuntimeType /\ Routes /\ StateType /\ LoopType
    BY Zenon DEF IInv, Control
  <1>1. CASE LoadAnswered(n)
    <2>1. /\ cur \in Epochs /\ Perform("load", n, cur) /\ UNCHANGED <<active, planOf, sess>>
      BY <1>1, CallAtHand, Zenon DEF LoadAnswered, Perform, CallPcs, stateVars
    <2> QED
      BY <1>1, <2>1, LoadAnsweredControl, PerformRoutes, Zenon DEF IInv
  <1>2. CASE ActivateAnswered(n)
    BY <1>2, ActivateAnsweredControl, ActivateAnsweredRoutes, Zenon DEF IInv
  <1>3. CASE DrainAnswered(n)
    <2>1. /\ cur \in Epochs /\ Perform("drain", n, cur) /\ UNCHANGED <<active, planOf, sess>>
          /\ Leaving(cur) /\ pc' # "activate"
      BY <1>3, LeavingAtHand, Zenon DEF DrainAnswered, Perform, stateVars, DrainPcs
    <2> QED
      BY <1>3, <2>1, DrainAnsweredControl, PerformRoutes, Zenon DEF IInv
  <1>4. CASE UnloadAnswered(n)
    <2>1. /\ cur \in Epochs /\ Perform("unload", n, cur) /\ UNCHANGED <<active, planOf, sess>>
          /\ Leaving(cur) /\ pc' # "activate" /\ inFlight[cur] = 0
      BY <1>4, LeavingAtHand, Zenon
         DEF UnloadAnswered, Perform, stateVars, UnloadPcs, Control, Unpinned
    <2> QED
      BY <1>4, <2>1, UnloadAnsweredControl, PerformRoutes, Zenon DEF IInv
  <1>5. CASE RepairInspects(n)
    <2>1. UNCHANGED <<active, planOf, sess, runtimeVars>> /\ RuntimeType'
      BY <1>5, Zenon DEF RepairInspects, stateVars, RuntimeType, runtimeVars
    <2> QED
      BY <1>5, <2>1, RepairInspectsControl, RoutesUntouched, Zenon DEF IInv
  <1>6. CASE JudgeStatus(n)
    <2>1. UNCHANGED <<active, planOf, sess, runtimeVars>> /\ RuntimeType'
      BY <1>6, Zenon DEF JudgeStatus, stateVars, RuntimeType, runtimeVars
    <2> QED
      BY <1>6, <2>1, JudgeStatusControl, RoutesUntouched, Zenon DEF IInv
  <1>7. CASE CallUnsent(n)
    <2>1. UNCHANGED <<active, planOf, sess, runtimeVars>> /\ RuntimeType'
      BY <1>7, Zenon DEF CallUnsent, stateVars, RuntimeType, runtimeVars
    <2>2. Control' /\ pc' # "activate"
      BY <1>7, CallFailedControl, Zenon DEF CallUnsent
    <2> QED
      BY <2>1, <2>2, RoutesUntouched, Zenon DEF IInv
  <1>8. CASE StatusLost(n)
    <2>1. UNCHANGED <<active, planOf, sess, runtimeVars>> /\ RuntimeType'
      BY <1>8, Zenon DEF StatusLost, stateVars, RuntimeType, runtimeVars
    <2> QED
      BY <1>8, <2>1, StatusLostControl, RoutesUntouched, Zenon DEF IInv
  <1> QED
    BY <1>1, <1>2, <1>3, <1>4, <1>5, <1>6, <1>7, <1>8, Zenon DEF CallAnswered, CallUnanswered

\* A call that arrives late, a timeout or a failed probe.
LEMMA FaultIInv == ASSUME IInv, Fault PROVE IInv'
  <1> Control /\ RuntimeType /\ Routes /\ StateType /\ LoopType
    BY Zenon DEF IInv, Control
  <1>1. CASE LoadTimesOut \/ ProbeFails
    <2>1. UNCHANGED <<active, planOf, sess, runtimeVars>> /\ RuntimeType'
      BY <1>1, Zenon DEF LoadTimesOut, ProbeFails, stateVars, RuntimeType, runtimeVars
    <2> QED
      BY <1>1, <2>1, LoadGivenUpControl, RoutesUntouched, Zenon DEF IInv
  <1>2. CASE WaitTimesOut
    <2>1. UNCHANGED <<sess, runtimeVars>> /\ RuntimeType'
      BY <1>2, Zenon DEF WaitTimesOut, RuntimeType, runtimeVars
    <2> QED
      BY <1>2, <2>1, WaitTimesOutControl, RoutesUntouched, Zenon DEF IInv
  <1>3. ASSUME NEW n \in Nodes,
               WorkerRestarts(n) \/ \E e \in Epochs : WorkerLoadFails(n, e)
        PROVE  IInv'
    BY <1>3, WorkerRoutes, Zenon DEF IInv
  <1>4. ASSUME NEW n \in Nodes, ReplyLost(n)
        PROVE  IInv'
    <2>1. Control' /\ pc' # "activate"
      BY <1>4, CallFailedControl, Zenon DEF ReplyLost
    <2>2. UNCHANGED <<active, planOf, sess>> /\ Perform(CallOf, n, cur) /\ pc \in CallPcs
      BY <1>4, Zenon DEF ReplyLost, stateVars
    <2> QED
      BY <2>1, <2>2, CallAtHand, PerformRoutes, Zenon DEF IInv
  <1>5. ASSUME NEW n \in Nodes, CallDelayed(n)
        PROVE  IInv'
    <2>1. Control' /\ pc' # "activate"
      BY <1>5, CallFailedControl, Zenon DEF CallDelayed
    <2>2. UNCHANGED <<active, planOf, sess, runtimeVars>> /\ RuntimeType'
      BY <1>5, Zenon DEF CallDelayed, stateVars, RuntimeType, runtimeVars
    <2> QED
      BY <2>1, <2>2, RoutesUntouched, Zenon DEF IInv
  <1> QED
    BY <1>1, <1>2, <1>3, <1>4, <1>5, Zenon DEF Fault

\* A step of a worker: the end of a load, or a restart.
LEMMA WorkerIInv == ASSUME IInv, WorkerStep PROVE IInv'
  <1> Control /\ RuntimeType /\ Routes /\ StateType /\ LoopType
    BY Zenon DEF IInv, Control
  <1>1. ASSUME NEW n \in Nodes, NEW e \in Epochs, WorkerLoaded(n, e)
        PROVE  IInv'
    BY <1>1, WorkerRoutes, Zenon DEF IInv
  <1>2. ASSUME NEW m \in late, LateCall(m)
        PROVE  IInv'
    <2>1. /\ m.node \in Nodes /\ m.epoch \in Epochs /\ Perform(m.call, m.node, m.epoch)
          /\ UNCHANGED <<stateVars, ctlVars, inFlight, sess, closed>>
      BY <1>2, Zenon DEF LateCall, StateType, LateCalls
    <2> DEFINE performed == [m EXCEPT !.done = TRUE]
    <2>5. performed \in LateCalls /\ performed.call = m.call /\ performed.epoch = m.epoch
      BY Zenon DEF StateType, LateCalls
    <2>6. late' = (late \ {m}) \cup {performed}
      BY <1>2, Zenon DEF LateCall
    <2> HIDE DEF performed
    <2>7. late' \subseteq LateCalls
      BY <2>5, <2>6, Zenon DEF StateType
    <2>8. \A l \in late' : \E k \in late : k.call = l.call /\ k.epoch = l.epoch
      BY <2>5, <2>6, Zenon
    <2>2. Control'
      BY <2>1, <2>7, <2>8, WorkerControl, Zenon
    <2>3. /\ m.call \in {"drain", "unload"} => Leaving(m.epoch)
          /\ m.call = "unload" => inFlight[m.epoch] = 0
      BY <2>1, Zenon DEF Control, RetiresLeaving, Unpinned
    <2>4. UNCHANGED <<active, planOf, pc, cur, todo, sess>>
      BY <2>1, Zenon DEF stateVars, ctlVars
    <2> QED
      BY <2>1, <2>2, <2>3, <2>4, PerformRoutes, Zenon DEF IInv
  <1> QED
    BY <1>1, <1>2, Zenon DEF WorkerStep

\* A session is admitted or ends.
LEMMA SessionIInv == ASSUME IInv, SessionStep PROVE IInv'
  <1> Control /\ RuntimeType /\ Routes
    BY Zenon DEF IInv
  <1>1. ASSUME NEW s \in Sessions, Admit(s) PROVE IInv'
    BY <1>1, AdmitControl, AdmitRoutes, Zenon DEF IInv, Admit, RuntimeType, runtimeVars
  <1>2. ASSUME NEW s \in Sessions, Release(s) PROVE IInv'
    BY <1>2, ReleaseControl, ReleaseRoutes, Zenon DEF IInv, Release, RuntimeType, runtimeVars
  <1> QED
    BY <1>1, <1>2, Zenon DEF SessionStep

\* The coordinator starts with no epoch and empty workers.
LEMMA InitIInv == Init => IInv
  <1> SUFFICES ASSUME Init PROVE IInv
    BY Zenon
  <1>1. StateType /\ LoopType /\ RuntimeType
    BY EpochBounds, Zenon DEF Init, StateType, LoopType, RuntimeType, Phases, Pcs, NotAdmitted
  <1>2. EpochAtHand /\ RetiresLeaving
    BY DEF Init, EpochAtHand, RetiresLeaving
  <1>3. CountsSessions
    <2>1. \A e \in 0..MaxEpoch : {s \in Sessions : sess[s] = e} = {}
      BY DEF Init, NotAdmitted
    <2> QED
      BY <2>1, FS_EmptySet, Zenon DEF Init, CountsSessions
  <1>4. Unpinned
    BY DEF Init, Unpinned, UnloadPcs
  <1>5. Routes
    BY MaxEpochNat, Zenon DEF Init, Routes, SessionKeepsRoute, PublishedIsActive, NotAdmitted
  <1> QED
    BY <1>1, <1>2, <1>3, <1>4, <1>5 DEF IInv, Control

\* Every step keeps the invariant.
LEMMA NextIInv == IInv /\ [Next]_vars => IInv'
  <1> SUFFICES ASSUME IInv, [Next]_vars PROVE IInv'
    BY Zenon
  <1> Control /\ RuntimeType /\ Routes /\ StateType /\ LoopType
    BY Zenon DEF IInv, Control
  <1>1. ASSUME NEW fresh \in SUBSET Nodes, SwitchBegin(fresh) \/ ControllerStep(fresh)
        PROVE  IInv'
    BY <1>1, ControllerIInv, Zenon
  <1>2. CASE ReconcileBegin
    <2>1. UNCHANGED <<active, planOf, sess, runtimeVars>> /\ RuntimeType' /\ pc' # "activate"
      BY <1>2, Zenon DEF ReconcileBegin, Goto, stateVars, RuntimeType, runtimeVars
    <2> QED
      BY <1>2, <2>1, ReconcileBeginControl, RoutesUntouched DEF IInv
  <1>3. ASSUME NEW n \in Nodes, CallAnswered(n) \/ CallUnanswered(n)
        PROVE  IInv'
    BY <1>3, CallAnsweredIInv, Zenon
  <1>4. CASE UNCHANGED vars
    <2>1. /\ UNCHANGED <<active, planOf, sess, runtimeVars, pc, cur, todo>>
          /\ UNCHANGED <<stateVars, ctlVars, inFlight, sess, closed, late>>
      BY <1>4, Zenon DEF vars, stateVars, ctlVars
    <2>2. RuntimeType'
      BY <2>1, Zenon DEF RuntimeType, runtimeVars
    <2> QED
      BY <2>1, <2>2, WorkerControl, LateStays, RoutesUntouched DEF IInv
  <1> QED
    BY <1>1, <1>2, <1>3, <1>4, WorkerIInv, SessionIInv, FaultIInv DEF Next

\* The invariant of the control plane: TypeOK, exact admission counts, and that
\* nothing is taken from an epoch that serves or is pinned.
THEOREM Invariance == Spec => []IInv
  BY InitIInv, NextIInv, PTL DEF Spec

\* Every variable of the control plane, its loop and the workers has its type.
THEOREM TypeCorrect == Spec => []TypeOK
  <1>1. IInv => TypeOK
    BY Zenon DEF IInv, Control, TypeOK
  <1> QED
    BY <1>1, Invariance, PTL

\* admit and release keep the in-flight count of every epoch at the number of
\* sessions admitted to it, so that waitForEpoch waits for exactly those.
THEOREM CountsCorrect == Spec => []CountsSessions
  <1>1. IInv => CountsSessions
    BY Zenon DEF IInv, Control
  <1> QED
    BY <1>1, Invariance, PTL

\* A session keeps every partition of the plan it was admitted with, whatever is
\* drained, unloaded, rolled back, retried or delivered late meanwhile.
THEOREM RouteCorrect == Spec => []SessionKeepsRoute
  <1>1. IInv => SessionKeepsRoute
    BY Zenon DEF IInv, Routes
  <1> QED
    BY <1>1, Invariance, PTL

\* The published plan is active on all of its workers that did not restart.
THEOREM PublishedCorrect == Spec => []PublishedIsActive
  <1>1. IInv => PublishedIsActive
    BY Zenon DEF IInv, Routes
  <1> QED
    BY <1>1, Invariance, PTL

-------------------------------------------------------------------------------
\* An unload, sent or not, closes an epoch that neither serves nor is pinned.
LEMMA UnloadHandoff ==
  ASSUME Control, NoteUnload, UNCHANGED <<active, inFlight>>
  PROVE  [Handoff!Next]_(Handoff!handoffVars)
  <1>1. CASE pc \in UnloadPcs
    <2>1. cur \in Epochs /\ Leaving(cur) /\ inFlight[cur] = 0
      BY <1>1, LeavingAtHand, Zenon DEF Control, Unpinned
    <2>2. cur # active
      BY <2>1, Zenon DEF Leaving, Past, Control, EpochAtHand
    <2>3. closed' = closed \cup {cur}
      BY <1>1, Zenon DEF NoteUnload
    <2> QED
      BY <2>1, <2>2, <2>3, Zenon DEF Handoff!Next, Handoff!Close
  <1>2. CASE pc \notin UnloadPcs
    BY <1>2, Zenon DEF NoteUnload, Handoff!handoffVars
  <1> QED
    BY <1>1, <1>2, Zenon

\* PublishPrepared is the publication of EpochHandoff.
LEMMA PublishHandoff == ASSUME Control, Publish PROVE Handoff!Publish
  <1>1. /\ active' = cur /\ UNCHANGED <<inFlight, closed>> /\ pc = "activate"
        /\ cur = preparing /\ preparing = lastEpoch /\ active <= lastEpoch /\ active # cur
        /\ cur \in Epochs
    BY EpochBounds, Zenon DEF Publish, Control, EpochAtHand, LoopType
  <1>2. cur \notin closed
    BY <1>1, Zenon DEF Control, RetiresLeaving, Leaving, Past
  <1>3. cur > active
    BY <1>1 DEF Control, StateType
  <1> QED
    BY <1>1, <1>2, <1>3, Zenon DEF Handoff!Publish

\* Every step is a step of EpochHandoff, or leaves its variables alone.
LEMMA StepHandoff ==
  ASSUME IInv, [Next]_vars
  PROVE  [Handoff!Next]_(Handoff!handoffVars)
  <1> Control
    BY Zenon DEF IInv
  <1>1. ASSUME NEW fresh \in SUBSET Nodes, SwitchBegin(fresh) \/ ControllerStep(fresh)
        PROVE  [Handoff!Next]_(Handoff!handoffVars)
    <2>1. CASE Publish
      BY <2>1, PublishHandoff, Zenon DEF Handoff!Next
    <2>2. CASE SwitchBegin(fresh)
      BY <2>2, Zenon DEF SwitchBegin, BeginTransition, Handoff!handoffVars
    <2>3. CASE Build(fresh)
      BY <2>3, Zenon DEF Build, BeginTransition, stateVars, Handoff!handoffVars
    <2>4. CASE UnloadsDone
      BY <2>4, UnloadsDoneControl, Zenon DEF UnloadsDone, Handoff!handoffVars
    <2>5. CASE RepairDone
      BY <2>5, RepairDoneControl, Zenon DEF RepairDone, Handoff!handoffVars
    <2>6. CASE JudgeDone
      BY <2>6, JudgeDoneControl, Zenon DEF JudgeDone, Handoff!handoffVars
    <2>7. CASE RetryNext \/ LoadReturns \/ LoadsDone \/ DrainsDone \/ WaitDone
                 \/ Rollback(fresh) \/ JudgeMembers(fresh)
      BY <2>7, Zenon DEF RetryNext, LoadReturns, LoadsDone, DrainsDone, WaitDone, Rollback,
                  JudgeMembers, stateVars, Handoff!handoffVars
    <2> QED
      BY <1>1, <2>1, <2>2, <2>3, <2>4, <2>5, <2>6, <2>7 DEF ControllerStep
  <1>2. CASE ReconcileBegin
    BY <1>2, Zenon DEF ReconcileBegin, stateVars, Handoff!handoffVars
  <1>3. ASSUME NEW n \in Nodes, CallAnswered(n) \/ CallUnanswered(n)
        PROVE  [Handoff!Next]_(Handoff!handoffVars)
    <2>1. CASE UnloadAnswered(n) \/ CallUnsent(n)
      BY <2>1, UnloadHandoff, Zenon DEF UnloadAnswered, CallUnsent, stateVars
    <2>2. CASE LoadAnswered(n) \/ ActivateAnswered(n) \/ DrainAnswered(n)
                 \/ RepairInspects(n) \/ JudgeStatus(n) \/ StatusLost(n)
      BY <2>2, Zenon DEF LoadAnswered, ActivateAnswered, DrainAnswered, RepairInspects, JudgeStatus,
                  StatusLost, stateVars, Handoff!handoffVars
    <2> QED
      BY <1>3, <2>1, <2>2, Zenon DEF CallAnswered, CallUnanswered
  <1>4. CASE WorkerStep
    BY <1>4, Zenon DEF WorkerStep, WorkerLoaded, LateCall, stateVars, Handoff!handoffVars
  <1>5. ASSUME NEW s \in Sessions, Admit(s) PROVE Handoff!Next
    BY <1>5, Zenon DEF Admit, stateVars, Handoff!Next, Handoff!Pin
  <1>6. ASSUME NEW s \in Sessions, Release(s) PROVE Handoff!Next
    BY <1>6, ReleaseControl, Zenon DEF Release, stateVars, Handoff!Next, Handoff!Unpin
  <1>7. CASE Fault
    <2>1. CASE LoadTimesOut \/ ProbeFails
      BY <2>1, Zenon DEF LoadTimesOut, ProbeFails, stateVars, Handoff!handoffVars
    <2>2. CASE WaitTimesOut
      BY <2>2, WaitTimesOutControl, Zenon DEF WaitTimesOut, Handoff!handoffVars
    <2>3. ASSUME NEW n \in Nodes, WorkerRestarts(n) \/ \E e \in Epochs : WorkerLoadFails(n, e)
          PROVE  [Handoff!Next]_(Handoff!handoffVars)
      BY <2>3, Zenon DEF WorkerRestarts, WorkerLoadFails, stateVars, Handoff!handoffVars
    <2>4. ASSUME NEW n \in Nodes, ReplyLost(n) \/ CallDelayed(n)
          PROVE  [Handoff!Next]_(Handoff!handoffVars)
      BY <2>4, UnloadHandoff, Zenon DEF ReplyLost, CallDelayed, stateVars
    <2> QED
      BY <1>7, <2>1, <2>2, <2>3, <2>4 DEF Fault
  <1>8. CASE UNCHANGED vars
    BY <1>8, Zenon DEF vars, stateVars, Handoff!handoffVars
  <1> QED
    BY <1>1, <1>2, <1>3, <1>4, <1>5, <1>6, <1>7, <1>8 DEF Next, SessionStep

\* The control plane implements EpochHandoff: it publishes epochs in increasing
\* order, admits to the published one only, and closes an epoch only when it
\* neither serves nor is pinned.
THEOREM HandoffCorrect == Spec => ImplementsHandoff
  <1>1. Init => Handoff!Init
    BY Zenon DEF Init, Handoff!Init
  <1>2. IInv /\ [Next]_vars => [Handoff!Next]_(Handoff!handoffVars)
    BY StepHandoff, Zenon
  <1> QED
    BY <1>1, <1>2, Invariance, PTL DEF Spec, ImplementsHandoff, Handoff!Spec

-------------------------------------------------------------------------------
(* Cleanup *)

\* A partition that no late load left.
Resident(n, e) == st[n][e] # "none" /\ ~LoadedLate(n, e)

\* Partitions are where a tracked plan has them.
Placed ==
    \A n \in Nodes, e \in Epochs :
        /\ Resident(n, e) => e \in Tracked /\ n \in planOf[e]
        /\ st[n][e] # "unloading"

\* The stages of a plan that the loop has still to load or activate, and the
\* one it is at.
StagesOfPlan ==
    /\ pc \in PreparePcs \cup RepairPcs => todo \subseteq planOf[cur]
    /\ pc \in {"loading", "repairLoad", "repairLoading", "repairActivate"} => at \in planOf[cur]

\* unloadPlan: the workers that answered hold nothing of the epoch.
Emptied ==
    pc \in UnloadPcs /\ outcome = "ok" => \A n \in Nodes \ todo : ~Resident(n, cur)

Clean == Placed /\ StagesOfPlan /\ Emptied


\* A step that brings no partition onto a worker.
NothingLoaded ==
    \A n \in Nodes, e \in Epochs : (Resident(n, e)' => Resident(n, e)) /\ st'[n][e] # "unloading"

\* What was loaded late stays on record.
LateKept == \A n \in Nodes, e \in Epochs : LoadedLate(n, e) => LoadedLate(n, e)'

\* It does when no call is added or performed.
LEMMA LateSame == ASSUME late' = late PROVE LateKept
  BY Zenon DEF LateKept, LoadedLate

\* A step that leaves the workers alone loads nothing.
LEMMA IdleWorkers == ASSUME Placed, LateKept, UNCHANGED runtimeVars PROVE NothingLoaded
  BY Zenon DEF Placed, NothingLoaded, Resident, LateKept, runtimeVars

\* While nothing is loaded and no epoch is forgotten, all stages are in known plans.
LEMMA PlacedKept ==
  ASSUME Placed, NothingLoaded, planOf' = planOf, \A e \in Tracked : e \in Tracked'
  PROVE  Placed'
  BY Zenon DEF Placed, NothingLoaded

\* Only a load brings a partition onto a worker.
LEMMA PerformPlaces ==
  ASSUME RuntimeType, Placed, LateKept, NEW call, NEW n \in Nodes, NEW e \in Epochs,
         Perform(call, n, e)
  PROVE  /\ \A m \in Nodes, f \in Epochs : st'[m][f] # "unloading" /\
               (Resident(m, f)' => Resident(m, f) \/ (call = "load" /\ m = n /\ f = e))
  <1>1. OthersUnchanged(n, e)
    BY PerformEffect, Zenon
  <1>2. \/ st'[n][e] = st[n][e]
        \/ call = "load" /\ st'[n][e] = "loading"
        \/ call = "activate" /\ st[n][e] # "none" /\ st'[n][e] = "active"
        \/ call = "drain" /\ st[n][e] # "none" /\ st'[n][e] = "draining"
        \/ call = "unload" /\ st'[n][e] = "none"
    BY PerformEffect
  <1>3. ASSUME NEW m \in Nodes, NEW f \in Epochs
        PROVE  st'[m][f] # "unloading" /\
               (Resident(m, f)' => Resident(m, f) \/ (call = "load" /\ m = n /\ f = e))
    <2>1. CASE m = n /\ f = e
      BY <1>2, <2>1, Zenon DEF Placed, Resident, LateKept
    <2>2. CASE m # n \/ f # e
      BY <1>1, <2>2, Zenon DEF OthersUnchanged, Placed, Resident, LateKept
    <2> QED
      BY <2>1, <2>2, Zenon
  <1> QED
    BY <1>3, Zenon

\* Only a load call places a stage.
LEMMA PerformLoadsNothing ==
  ASSUME RuntimeType, Placed, LateKept, NEW call, NEW n \in Nodes, NEW e \in Epochs,
         Perform(call, n, e), call # "load"
  PROVE  NothingLoaded
  BY PerformPlaces, Zenon DEF NothingLoaded

\* The loop is at no stage of a load, an activation or an unload.
LEMMA ElsewhereInLoop ==
  ASSUME pc' \notin UnloadPcs \cup PreparePcs \cup RepairPcs
  PROVE  StagesOfPlan' /\ Emptied'
  BY Zenon DEF StagesOfPlan, Emptied

\* A step that loads nothing, forgets no epoch and ends the loop over a plan
LEMMA QuietClean ==
  ASSUME Clean, planOf' = planOf, NothingLoaded,
         \A e \in Tracked : e \in Tracked',
         pc' \notin UnloadPcs \cup PreparePcs \cup RepairPcs
  PROVE  Clean'
  BY PlacedKept, ElsewhereInLoop, Zenon DEF Clean

\* The epochs the coordinator knows are part of its state.
LEMMA TrackedKept == ASSUME UNCHANGED stateVars PROVE Tracked' = Tracked /\ planOf' = planOf
  BY Zenon DEF Tracked, stateVars

\* A failed prepare or repair leaves the loop over its plan.
LEMMA OnErrorLeaves ==
  ASSUME OnError PROVE pc' \notin UnloadPcs \cup PreparePcs \cup RepairPcs
  BY Zenon DEF OnError, Leave, Goto, UnloadPcs

\* A load call places a stage on a node of the epoch's plan.
LEMMA LoadPlaces ==
  ASSUME IInv, Clean, NEW n \in Nodes, pc \in {"load", "repairLoad"}, Target(n),
         Perform("load", n, cur), LateKept, UNCHANGED stateVars
  PROVE  Placed' /\ n \in planOf[cur]
  <1>1. n \in planOf[cur]
    BY Zenon DEF Target, Clean, StagesOfPlan
  <1>2. cur \in Epochs /\ cur \in Tracked
    BY EpochBounds, Zenon DEF IInv, Control, EpochAtHand, LoopType, Tracked
  <1>3. \A m \in Nodes, f \in Epochs : st'[m][f] # "unloading" /\
               (Resident(m, f)' => Resident(m, f) \/ (m = n /\ f = cur))
    BY <1>2, PerformPlaces DEF IInv, Clean
  <1>4. Tracked' = Tracked /\ planOf' = planOf
    BY TrackedKept, Zenon
  <1> QED
    BY <1>1, <1>2, <1>3, <1>4, Zenon DEF Clean, Placed

\* A new epoch has nothing loaded: an epoch that is not tracked has no partition.
LEMMA BeginTransitionClean ==
  ASSUME IInv, Clean, NEW P \in SUBSET Nodes, BeginTransition(P), UNCHANGED <<late, runtimeVars>>
  PROVE  Clean'
  <1>1. /\ lastEpoch + 1 \in Epochs /\ lastEpoch \in Nat /\ preparing = NoEpoch
        /\ preparing' = lastEpoch + 1 /\ cur' = lastEpoch + 1 /\ UNCHANGED <<active, draining>>
        /\ planOf' = [planOf EXCEPT ![lastEpoch + 1] = P] /\ pc' = "load" /\ todo' = P
    BY MaxEpochNat DEF BeginTransition, Goto, IInv, Control, StateType
  <1>2. planOf'[lastEpoch + 1] = P /\ \A e \in Epochs : e # lastEpoch + 1 => planOf'[e] = planOf[e]
    BY <1>1, Zenon DEF IInv, Control, StateType
  <1>3. \A e \in Tracked : e \in Tracked'
    BY <1>1, Zenon DEF Tracked
  <1>4. lastEpoch + 1 \notin Tracked
    BY <1>1 DEF Tracked, IInv, Control, StateType, EpochAtHand, RetiresLeaving, Past
  <1>5. Placed'
    BY <1>2, <1>3, <1>4, IdleWorkers, LateSame, Zenon DEF Clean, Placed, NothingLoaded
  <1>6. StagesOfPlan' /\ Emptied'
    BY <1>1, <1>2, Zenon DEF StagesOfPlan, Emptied, UnloadPcs
  <1> QED
    BY <1>5, <1>6, Zenon DEF Clean

\* An unloadPlan that starts: workers outside the plan hold nothing of it.
LEMMA UnloadStarts ==
  ASSUME IInv, Clean, cur \in Epochs, cur' = cur, todo' = planOf[cur],
         UNCHANGED <<stateVars, late, runtimeVars>>, pc' \in UnloadPcs
  PROVE  Clean'
  <1>1. Placed'
    BY IdleWorkers, LateSame, TrackedKept, PlacedKept, Zenon DEF Clean
  <1>2. \A n \in Nodes \ todo' : ~Resident(n, cur)'
    BY Zenon DEF Clean, Placed, Resident, LoadedLate, runtimeVars
  <1>3. Emptied' /\ StagesOfPlan'
    BY <1>2, Zenon DEF Emptied, StagesOfPlan, UnloadPcs, Resident
  <1> QED
    BY <1>1, <1>3, Zenon DEF Clean

\* Draining moves no stage.
LEMMA DrainsDoneClean == ASSUME IInv, Clean, DrainsDone PROVE Clean'
  <1>1. UNCHANGED <<stateVars, late, runtimeVars>> /\ cur' = cur /\ cur \in Epochs
    BY LeavingAtHand, Zenon DEF DrainsDone, IInv
  <1>2. CASE pc = "undoDrain"
    BY <1>1, <1>2, UnloadStarts, Zenon DEF DrainsDone, UnloadPcs
  <1>3. CASE pc # "undoDrain"
    <2>1. pc' \in {"retryWait", "retireWait"}
      BY <1>3, Zenon DEF DrainsDone, DrainPcs
    <2> QED
      BY <1>1, <2>1, QuietClean, TrackedKept, IdleWorkers, LateSame, Zenon DEF Clean, UnloadPcs
  <1> QED
    BY <1>2, <1>3, Zenon

\* Unloading starts with every stage of the plan still to do.
LEMMA WaitDoneClean == ASSUME IInv, Clean, WaitDone PROVE Clean'
  <1>1. cur \in Epochs
    BY EpochBounds, Zenon DEF WaitDone, WaitPcs, IInv, Control, EpochAtHand, LoopType, Past
  <1> QED
    BY <1>1, UnloadStarts, Zenon DEF WaitDone, UnloadPcs

\* The end of unloadPlan without a failure: the epoch is gone from every worker.
LEMMA EpochForgotten ==
  ASSUME IInv, Clean, pc \in UnloadPcs, todo = {}, UNCHANGED <<planOf, late, runtimeVars>>,
         \A e \in Tracked : e \in Tracked' \/ (outcome = "ok" /\ e = cur),
         pc' \notin UnloadPcs \cup PreparePcs \cup RepairPcs
  PROVE  Clean'
  <1>1. outcome = "ok" => \A n \in Nodes : ~Resident(n, cur)
    BY Zenon DEF Clean, Emptied
  <1>2. Placed'
    BY <1>1, IdleWorkers, LateSame
       DEF Clean, Placed, NothingLoaded, Resident, LoadedLate, runtimeVars
  <1> QED
    BY <1>2, ElsewhereInLoop, Zenon DEF Clean

\* A retirement that fails keeps its epoch among the known ones.
LEMMA RetireFailedTracks ==
  ASSUME IInv, RetireFailed
  PROVE  /\ Tracked' = Tracked /\ planOf' = planOf
         /\ pc' \notin UnloadPcs \cup PreparePcs \cup RepairPcs
  <1>1. UNCHANGED <<active, preparing, draining, planOf>>
    BY RecordedPhase, Zenon DEF RetireFailed, stateVars, IInv, Control
  <1>2. pc' \notin UnloadPcs \cup PreparePcs \cup RepairPcs
    BY Zenon DEF RetireFailed, AfterRetire, Leave, Return, Goto, UnloadPcs
  <1> QED
    BY <1>1, <1>2, Zenon DEF Tracked

\* An epoch is forgotten after every stage of its plan is gone.
LEMMA UnloadsDoneClean == ASSUME IInv, Clean, UnloadsDone PROVE Clean'
  <1>1. CASE outcome = "ok"
    <2>1. FinishDraining /\ AfterRetire
      BY <1>1, Zenon DEF UnloadsDone
    <2>2. planOf' = planOf /\ \A e \in Tracked : e \in Tracked' \/ e = cur
      BY <2>1, Zenon DEF FinishDraining, Tracked
    <2>3. pc' \notin UnloadPcs \cup PreparePcs \cup RepairPcs
      BY <2>1, Zenon DEF AfterRetire, Leave, Return, Goto, UnloadPcs
    <2> QED
      BY <1>1, <2>2, <2>3, EpochForgotten, Zenon DEF UnloadsDone, UnloadPcs
  <1>2. CASE outcome # "ok"
    BY <1>2, RetireFailedTracks, EpochForgotten, Zenon DEF UnloadsDone, UnloadPcs
  <1> QED
    BY <1>1, <1>2, Zenon

\* Rollback forgets a failed attempt only after unloading it; otherwise it drains.
LEMMA RollbackClean == ASSUME IInv, Clean, NEW fresh \in SUBSET Nodes, Rollback(fresh) PROVE Clean'
  <1>1. cur = preparing /\ outcome \in {"ok", "error"}
    BY Zenon DEF Rollback, IInv, Control, EpochAtHand, LoopType
  <1>2. /\ UNCHANGED <<active, planOf>> /\ preparing' = NoEpoch
        /\ draining' = IF outcome = "error" THEN draining \cup {cur} ELSE draining
    BY Zenon DEF Rollback
  <1>3. \A e \in Tracked : e \in Tracked' \/ (outcome = "ok" /\ e = cur)
    BY <1>1, <1>2, Zenon DEF Tracked
  <1>4. pc' \notin UnloadPcs \cup PreparePcs \cup RepairPcs
    BY Zenon DEF Rollback, Leave, Return, Goto, UnloadPcs
  <1> QED
    BY <1>2, <1>3, <1>4, EpochForgotten, Zenon DEF Rollback, UnloadPcs

\* Publication keeps the replaced epoch among the draining ones.
LEMMA PublishClean == ASSUME IInv, Clean, Publish PROVE Clean'
  <1>1. cur = preparing
    BY Zenon DEF Publish, IInv, Control, EpochAtHand
  <1>2. \A e \in Tracked : e \in Tracked'
    BY <1>1, Zenon DEF Publish, Tracked
  <1>3. pc' \notin UnloadPcs \cup PreparePcs \cup RepairPcs
    BY Zenon DEF Publish, Return, Goto, UnloadPcs
  <1> QED
    BY <1>2, <1>3, QuietClean, IdleWorkers, LateSame, Zenon DEF Publish, Clean

\* Steps within the loop over a plan that is loaded, activated or repaired.
LEMMA LoopClean ==
  ASSUME Clean, Placed', planOf' = planOf, cur' = cur, todo' \subseteq todo,
         pc \in PreparePcs \cup RepairPcs, pc' \in PreparePcs \cup RepairPcs,
         pc' \in {"loading", "repairLoad", "repairLoading", "repairActivate"} =>
             at' \in planOf[cur]
  PROVE  Clean'
  <1>1. StagesOfPlan' /\ Emptied'
    BY Zenon DEF Clean, StagesOfPlan, Emptied, UnloadPcs
  <1> QED
    BY <1>1, Zenon DEF Clean

\* The steps of the controller between its calls.
LEMMA ControllerClean ==
  ASSUME IInv, Clean, NEW fresh \in SUBSET Nodes, SwitchBegin(fresh) \/ ControllerStep(fresh)
  PROVE  Clean'
  <1> DEFINE Elsewhere == UnloadPcs \cup PreparePcs \cup RepairPcs
  <1>1. CASE SwitchBegin(fresh)
    BY <1>1, BeginTransitionClean, Zenon DEF SwitchBegin, Plans
  <1>2. CASE RetryNext
    <2>1. pc' \notin Elsewhere
      BY <1>2, Zenon DEF RetryNext, Leave, Goto, UnloadPcs
    <2> QED
      BY <1>2, <2>1, QuietClean, TrackedKept, IdleWorkers, LateSame, Zenon DEF RetryNext, Clean
  <1>3. CASE Build(fresh)
    <2>1. CASE UNCHANGED stateVars /\ pc' \notin Elsewhere
      BY <1>3, <2>1, QuietClean, TrackedKept, IdleWorkers, LateSame, Zenon DEF Build, Clean
    <2>2. CASE /\ Goto("repair", planOf[active]) /\ cur' = active /\ UNCHANGED stateVars
      <3>1. Placed' /\ planOf' = planOf
        BY <1>3, <2>2, TrackedKept, IdleWorkers, LateSame, PlacedKept DEF Build, Clean
      <3>2. StagesOfPlan' /\ Emptied'
        BY Zenon, <2>2, <3>1 DEF StagesOfPlan, Emptied, Goto, UnloadPcs
      <3> QED
        BY <1>3, <3>1, <3>2, Zenon DEF Build, Clean
    <2>3. CASE \E P \in Plans(fresh) : BeginTransition(P)
      BY Zenon, <1>3, <2>3, BeginTransitionClean DEF Build, Plans
    <2>4. Return \/ Leave("judgeMembers") => pc' \notin Elsewhere
      BY Zenon DEF Return, Leave, Goto, UnloadPcs
    <2> QED
      BY <1>3, <2>1, <2>2, <2>3, <2>4, Zenon DEF Build
  <1>4. CASE LoadReturns
    <2>1. UNCHANGED <<stateVars, late, runtimeVars>>
      BY <1>4, Zenon DEF LoadReturns
    <2>2. CASE OnError
      BY <2>1, <2>2, OnErrorLeaves, QuietClean, TrackedKept, IdleWorkers, LateSame DEF Clean
    <2>3. CASE ~OnError
      <3>1. /\ todo' \subseteq todo /\ cur' = cur
            /\ pc \in PreparePcs \cup RepairPcs /\ pc' \in PreparePcs \cup RepairPcs
            /\ pc' = "repairActivate" => at' \in planOf[cur]
            /\ pc' \in {"load", "repairActivate"}
        BY <1>4, <2>3, Zenon DEF LoadReturns, Clean, StagesOfPlan
      <3>2. Placed' /\ planOf' = planOf
        BY <2>1, TrackedKept, IdleWorkers, LateSame, PlacedKept DEF Clean
      <3> QED
        BY <2>1, <3>1, <3>2, LoopClean
    <2> QED
      BY <2>2, <2>3, Zenon
  <1>5. CASE LoadsDone
    <2>1. UNCHANGED <<stateVars, late, runtimeVars>> /\ cur' = cur /\ todo' = planOf[cur] /\ pc' = "activate"
      BY <1>5, Zenon DEF LoadsDone, Goto
    <2>2. Placed' /\ planOf' = planOf
      BY <2>1, TrackedKept, IdleWorkers, LateSame, PlacedKept DEF Clean
    <2>3. StagesOfPlan' /\ Emptied'
      BY <2>1, <2>2, Zenon DEF StagesOfPlan, Emptied, UnloadPcs
    <2> QED
      BY <2>1, <2>2, <2>3, Zenon DEF Clean
  <1>6. CASE RepairDone \/ JudgeDone
    <2>1. UNCHANGED <<active, preparing, draining, planOf, late, runtimeVars>>
      BY <1>6, RecordedPhase, Zenon DEF RepairDone, JudgeDone, IInv, Control
    <2>2. pc' \notin Elsewhere
      BY <1>6, Zenon DEF RepairDone, JudgeDone, Return, Goto, UnloadPcs
    <2> QED
      BY <2>1, <2>2, QuietClean, IdleWorkers, LateSame, Zenon DEF Clean, Tracked
  <1>7. CASE JudgeMembers(fresh)
    <2>1. pc' \notin Elsewhere
      BY Zenon, <1>7 DEF JudgeMembers, Goto, UnloadPcs
    <2> QED
      BY <1>7, <2>1, QuietClean, TrackedKept, IdleWorkers, LateSame DEF JudgeMembers, Clean
  <1> QED
    BY <1>1, <1>2, <1>3, <1>4, <1>5, <1>6, <1>7, PublishClean, DrainsDoneClean, WaitDoneClean,
       UnloadsDoneClean, RollbackClean DEF ControllerStep

\* An unloaded stage is gone from its worker.
LEMMA UnloadAnsweredClean == ASSUME IInv, Clean, NEW n \in Nodes, UnloadAnswered(n) PROVE Clean'
  <1>1. /\ pc \in UnloadPcs /\ pc' = pc /\ cur' = cur /\ todo' = todo \ {n} /\ cur \in Epochs
        /\ Perform("unload", n, cur) /\ UNCHANGED <<stateVars, late>>
        /\ outcome' = IF st[n][cur] = "active" THEN "error" ELSE outcome
    BY Zenon, LeavingAtHand DEF UnloadAnswered, Perform, IInv
  <1>2. NothingLoaded
    BY <1>1, PerformLoadsNothing, LateSame DEF IInv, Clean
  <1>3. Placed'
    BY <1>1, <1>2, TrackedKept, PlacedKept, Zenon DEF Clean
  <1>4. outcome' = "ok" => outcome = "ok" /\ st'[n][cur] = "none"
    <2>1. CASE UnloadAccepts(st[n][cur])
      <3>1. Becomes(n, cur, "none")
        BY Zenon, <2>1 DEF UnloadAnswered, RuntimeUnload
      <3>2. st'[n][cur] = "none"
        <4>1. RuntimeType /\ n \in Nodes /\ cur \in Epochs
          BY <1>1, Zenon DEF IInv
        <4> QED
          BY ONLY <3>1, <4>1, BecomesEffect
      <3> QED
        BY <1>1, <3>2, Zenon
    <2>2. CASE ~UnloadAccepts(st[n][cur])
      <3>1. st' = st
        BY Zenon, <2>2 DEF UnloadAnswered, RuntimeUnload, runtimeVars
      <3>2. st[n][cur] \in {"active", "none"}
        BY <1>1, <2>2, Zenon DEF UnloadAccepts, IInv, RuntimeType, Clean, Placed, States
      <3> QED
        BY Zenon, <1>1, <3>1, <3>2
    <2> QED
      BY <2>1, <2>2, Zenon
  <1>5. Emptied' /\ StagesOfPlan'
    BY Zenon, <1>1, <1>2, <1>4 DEF Clean, Emptied, StagesOfPlan, NothingLoaded, Resident, UnloadPcs
  <1> QED
    BY <1>1, <1>3, <1>5 DEF Clean

\* A failed call ends the loop over the plan, or marks its outcome as an error.
LEMMA CallFailedClean ==
  ASSUME IInv, Clean, NEW n \in Nodes, pc \in CallPcs, CallFailed(n),
         UNCHANGED stateVars, Placed'
  PROVE  Clean'
  <1>1. CASE pc \in DrainPcs \cup UnloadPcs
    <2>1. pc' = pc /\ outcome' = "error"
      BY <1>1, Zenon DEF CallFailed
    <2>2. StagesOfPlan' /\ Emptied'
      BY Zenon, <1>1, <2>1 DEF StagesOfPlan, Emptied, DrainPcs, UnloadPcs
    <2> QED
      BY <2>2, Zenon DEF Clean
  <1>2. CASE pc \notin DrainPcs \cup UnloadPcs
    <2>1. StagesOfPlan' /\ Emptied'
      BY Zenon, <1>2, OnErrorLeaves, ElsewhereInLoop DEF CallFailed
    <2> QED
      BY <2>1, Zenon DEF Clean
  <1> QED
    BY <1>1, <1>2, Zenon

\* A worker's answer to a call, or the loss of it.
LEMMA CallsClean ==
  ASSUME IInv, Clean, NEW n \in Nodes, CallAnswered(n) \/ CallUnanswered(n)
  PROVE  Clean'
  <1>1. CASE LoadAnswered(n)
    <2>1. UNCHANGED <<stateVars, late>> /\ Perform("load", n, cur) /\ pc \in {"load", "repairLoad"}
      BY Zenon, <1>1 DEF LoadAnswered, Perform
    <2>2. Placed' /\ n \in planOf[cur] /\ planOf' = planOf
      BY <1>1, <2>1, LoadPlaces, LateSame, TrackedKept, Zenon DEF LoadAnswered
    <2>3. CASE OnError
      BY <2>1, <2>2, <2>3, OnErrorLeaves, ElsewhereInLoop DEF Clean
    <2>4. CASE ~OnError
      BY Zenon, <1>1, <2>1, <2>2, <2>4, LoopClean DEF LoadAnswered
    <2> QED
      BY <2>3, <2>4, Zenon
  <1>2. CASE ActivateAnswered(n)
    <2>1. /\ UNCHANGED <<stateVars, late>> /\ Perform("activate", n, cur)
          /\ pc \in {"activate", "repairActivate"} /\ cur \in Epochs
      BY <1>2, CallAtHand, Zenon DEF ActivateAnswered, Perform, CallPcs, IInv
    <2>2. Placed' /\ planOf' = planOf
      BY <2>1, PerformLoadsNothing, LateSame, PlacedKept, TrackedKept DEF IInv, Clean
    <2>3. CASE OnError
      BY <2>1, <2>2, <2>3, OnErrorLeaves, ElsewhereInLoop DEF Clean
    <2>4. CASE ~OnError
      BY Zenon, <1>2, <2>1, <2>2, <2>4, LoopClean DEF ActivateAnswered
    <2> QED
      BY <2>3, <2>4, Zenon
  <1>3. CASE DrainAnswered(n)
    <2>1. /\ UNCHANGED <<stateVars, late>> /\ Perform("drain", n, cur) /\ cur \in Epochs
          /\ pc' \notin UnloadPcs \cup PreparePcs \cup RepairPcs
      BY <1>3, LeavingAtHand DEF DrainAnswered, Perform, IInv, DrainPcs, UnloadPcs
    <2> QED
      BY <2>1, PerformLoadsNothing, LateSame, QuietClean, TrackedKept DEF IInv, Clean
  <1>4. CASE RepairInspects(n)
    <2>1. /\ UNCHANGED <<stateVars, late, runtimeVars>> /\ pc = "repair" /\ n \in planOf[cur]
      BY Zenon, <1>4 DEF RepairInspects, Clean, StagesOfPlan
    <2>2. Placed' /\ planOf' = planOf
      BY <2>1, IdleWorkers, LateSame, PlacedKept, TrackedKept DEF Clean
    <2>3. CASE OnError
      BY <2>1, <2>2, <2>3, OnErrorLeaves, ElsewhereInLoop DEF Clean
    <2>4. CASE ~OnError
      BY <1>4, <2>1, <2>2, <2>4, LoopClean DEF RepairInspects
    <2> QED
      BY <2>3, <2>4, Zenon
  <1>5. CASE JudgeStatus(n)
    BY <1>5, QuietClean, IdleWorkers, LateSame, TrackedKept DEF JudgeStatus, Clean, UnloadPcs
  <1>6. CASE StatusLost(n)
    <2>1. pc' \notin UnloadPcs \cup PreparePcs \cup RepairPcs
      BY <1>6, OnErrorLeaves, Zenon DEF StatusLost, UnloadPcs
    <2> QED
      BY <1>6, <2>1, QuietClean, IdleWorkers, LateSame, TrackedKept DEF StatusLost, Clean
  <1>7. CASE CallUnsent(n)
    <2>1. Placed'
      BY <1>7, IdleWorkers, LateSame, PlacedKept, TrackedKept, Zenon DEF CallUnsent, Clean
    <2> QED
      BY <1>7, <2>1, CallFailedClean, Zenon DEF CallUnsent
  <1> QED
    BY <1>1, <1>2, <1>3, <1>4, <1>5, <1>6, <1>7, UnloadAnsweredClean
    DEF CallAnswered, CallUnanswered

\* Steps that leave the coordinator alone.
LEMMA AsideClean ==
  ASSUME IInv, Clean, NothingLoaded, UNCHANGED <<stateVars, ctlVars>>
  PROVE  Clean'
  <1>1. Placed'
    BY PlacedKept, TrackedKept, Zenon DEF Clean
  <1>2. StagesOfPlan'
    BY Zenon DEF Clean, StagesOfPlan, stateVars, ctlVars
  <1>3. pc \in UnloadPcs => cur \in Epochs
    BY LeavingAtHand, Zenon DEF IInv
  <1>4. Emptied'
    BY Zenon, <1>3 DEF Clean, Emptied, NothingLoaded, Resident, ctlVars
  <1> QED
    BY <1>1, <1>2, <1>4, Zenon DEF Clean

\* A worker's load ends, or the worker restarts empty.
LEMMA WorkersClean ==
  ASSUME IInv, Clean, NEW n \in Nodes,
         WorkerRestarts(n) \/ \E e \in Epochs : WorkerLoaded(n, e) \/ WorkerLoadFails(n, e)
  PROVE  Clean'
  <1>1. UNCHANGED <<stateVars, ctlVars, late>>
    BY Zenon DEF WorkerRestarts, WorkerLoaded, WorkerLoadFails
  <1>2. NothingLoaded
    <2>1. CASE WorkerRestarts(n)
      <3>1. \A m \in Nodes, e \in Epochs : st'[m][e] = st[m][e] \/ st'[m][e] = "none"
        BY <2>1, Zenon DEF WorkerRestarts, IInv, RuntimeType
      <3> QED
        BY <1>1, <3>1, Zenon DEF NothingLoaded, Resident, LoadedLate, Clean, Placed
    <2>2. ASSUME NEW e \in Epochs, WorkerLoaded(n, e) \/ WorkerLoadFails(n, e)
          PROVE  NothingLoaded
      <3>1. PICK s \in {"ready", "failed"} : Becomes(n, e, s) /\ st[n][e] = "loading"
        BY <2>2, Zenon DEF WorkerLoaded, WorkerLoadFails
      <3>2. st'[n][e] = s /\ \A m \in Nodes, f \in Epochs : m # n \/ f # e => st'[m][f] = st[m][f]
        BY <3>1, BecomesEffect, Zenon DEF IInv, States
      <3> QED
        BY Zenon, <1>1, <3>1, <3>2 DEF NothingLoaded, Resident, LoadedLate, Clean, Placed
    <2> QED
      BY <2>1, <2>2, Zenon
  <1> QED
    BY <1>1, <1>2, AsideClean, Zenon

\* A delayed call takes effect: a load is on record as late from then on.
LEMMA LateCallClean == ASSUME IInv, Clean, NEW m \in late, LateCall(m) PROVE Clean'
  <1>1. /\ m.node \in Nodes /\ m.epoch \in Epochs /\ Perform(m.call, m.node, m.epoch)
        /\ UNCHANGED <<stateVars, ctlVars>> /\ ~m.done
    BY Zenon DEF LateCall, IInv, Control, StateType, LateCalls
  <1> DEFINE performed == [m EXCEPT !.done = TRUE]
  <1>2. performed.call = m.call /\ performed.node = m.node /\ performed.epoch = m.epoch /\ performed.done
    BY Zenon DEF IInv, Control, StateType, LateCalls
  <1>3. late' = (late \ {m}) \cup {performed}
    BY Zenon DEF LateCall
  <1> HIDE DEF performed
  <1>4. LateKept
    BY <1>1, <1>3, Zenon DEF LateKept, LoadedLate
  <1>5. m.call = "load" => LoadedLate(m.node, m.epoch)'
    BY <1>2, <1>3, Zenon DEF LoadedLate
  <1>6. NothingLoaded
    <2>1. CASE m.call = "load"
      <3>1. ~Resident(m.node, m.epoch)'
        BY <1>5, <2>1, Zenon DEF Resident
      <3>2. \A k \in Nodes, f \in Epochs : st'[k][f] # "unloading" /\
               (Resident(k, f)' => Resident(k, f) \/ (k = m.node /\ f = m.epoch))
        <4>1. RuntimeType /\ Placed
          BY Zenon DEF IInv, Clean
        <4>2. Perform(m.call, m.node, m.epoch) /\ m.node \in Nodes /\ m.epoch \in Epochs
          BY <1>1, Zenon
        <4>3. \A k \in Nodes, f \in Epochs : st'[k][f] # "unloading" /\
                 (Resident(k, f)' => Resident(k, f)
                                     \/ (m.call = "load" /\ k = m.node /\ f = m.epoch))
          BY ONLY <1>4, <4>1, <4>2, PerformPlaces, Zenon
        <4> QED
          BY ONLY <4>3, Zenon
      <3> QED
        BY <3>1, <3>2, Zenon DEF NothingLoaded
    <2>2. CASE m.call # "load"
      BY <1>1, <1>4, <2>2, PerformLoadsNothing, Zenon DEF IInv, Clean
    <2> QED
      BY <2>1, <2>2, Zenon
  <1> QED
    BY <1>1, <1>6, AsideClean, Zenon

\* Timeouts, failed probes, lost replies and delayed calls.
LEMMA FaultClean == ASSUME IInv, Clean, Fault PROVE Clean'
  <1>1. CASE LoadTimesOut \/ ProbeFails
    BY <1>1, OnErrorLeaves, QuietClean, IdleWorkers, LateSame, TrackedKept, Zenon
    DEF LoadTimesOut, ProbeFails, Clean
  <1>2. CASE WaitTimesOut
    BY <1>2, RetireFailedTracks, QuietClean, IdleWorkers, LateSame, Zenon DEF WaitTimesOut, Clean
  <1>3. ASSUME NEW n \in Nodes, ReplyLost(n) PROVE Clean'
    <2>1. /\ UNCHANGED <<stateVars, late>> /\ Perform(CallOf, n, cur) /\ cur \in Epochs
          /\ pc \in CallPcs /\ Target(n) /\ CallFailed(n)
      BY <1>3, CallAtHand, Zenon DEF ReplyLost, IInv
    <2>2. Placed'
      <3>1. CASE CallOf = "load"
        <4>1. pc \in {"load", "repairLoad"}
          BY <2>1, <3>1, Zenon DEF CallOf, CallPcs, DrainPcs, UnloadPcs
        <4> QED
          BY Zenon, <2>1, <3>1, <4>1, LoadPlaces, LateSame
      <3>2. CASE CallOf # "load"
        BY <2>1, <3>2, PerformLoadsNothing, LateSame, PlacedKept, TrackedKept, Zenon DEF IInv, Clean
      <3> QED
        BY <3>1, <3>2, Zenon
    <2> QED
      BY <2>1, <2>2, CallFailedClean, Zenon
  <1>4. ASSUME NEW n \in Nodes, CallDelayed(n) PROVE Clean'
    <2>1. /\ UNCHANGED <<stateVars, runtimeVars>> /\ late \subseteq late'
          /\ pc \in CallPcs /\ CallFailed(n)
      BY <1>4, Zenon DEF CallDelayed
    <2>2. LateKept
      BY <2>1, Zenon DEF LateKept, LoadedLate
    <2>3. Placed'
      BY <2>1, <2>2, IdleWorkers, PlacedKept, TrackedKept, Zenon DEF Clean
    <2> QED
      BY <2>1, <2>3, CallFailedClean, Zenon
  <1> QED
    BY <1>1, <1>2, <1>3, <1>4, WorkersClean, Zenon DEF Fault

\* Every step keeps the invariant.
LEMMA NextClean == ASSUME IInv, Clean, [Next]_vars PROVE Clean'
  <1>1. CASE ReconcileBegin
    BY <1>1, QuietClean, IdleWorkers, LateSame, TrackedKept, Zenon
       DEF ReconcileBegin, Goto, Clean, UnloadPcs
  <1>2. CASE WorkerStep
    BY <1>2, WorkersClean, LateCallClean, Zenon DEF WorkerStep
  <1>3. CASE SessionStep
    BY <1>3, AsideClean, IdleWorkers, LateSame, Zenon DEF SessionStep, Admit, Release, Clean
  <1>4. CASE UNCHANGED vars
    BY <1>4, AsideClean, IdleWorkers, LateSame, Zenon DEF vars, Clean
  <1> QED
    BY <1>1, <1>2, <1>3, <1>4, ControllerClean, CallsClean, FaultClean DEF Next

\* Exact cleanup (rollbackPreparedPlan, retirePlan, retryDraining): whatever
\* fails, a worker holds only epochs that the coordinator tracks and what a load
\* that outlived its timeout brought there, and no attempt is left open.
THEOREM CleanupCorrect == Spec => []NothingLeftBehind
  <1>1. Init => Clean
    BY Zenon DEF Init, Clean, Placed, Resident, StagesOfPlan, Emptied, UnloadPcs
  <1>2. IInv /\ Clean /\ [Next]_vars => Clean'
    BY NextClean, Zenon
  <1>3. IInv /\ Clean => NothingLeftBehind
    BY Zenon
       DEF IInv, Control, EpochAtHand, Clean, Placed, Resident, NothingLeftBehind, NoAttemptLeftOpen
  <1> QED
    BY <1>1, <1>2, <1>3, Invariance, PTL DEF Spec
===============================================================================
