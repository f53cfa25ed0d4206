------------------------------ MODULE Deployment ------------------------------
(***************************************************************************)
(* The coordinator's deployment control plane (internal/coordinator)       *)
(* composed with the runtime workers it drives and the chat sessions it    *)
(* admits.                                                                 *)
(*                                                                         *)
(* One goroutine at a time runs a switch or a reconciliation (reconcileMu  *)
(* is held from start to end), so the controller is one program counter.   *)
(* Admissions, releases, membership changes, engine builds, worker         *)
(* restarts and late calls interleave with each of its steps.              *)
(*                                                                         *)
(* A plan is its epoch and the set of nodes that hold its stages; the      *)
(* order in which a loop visits the stages is left open.  Requests for a   *)
(* model other than the active one are refused without a state change and  *)
(* are not steps.  Error texts are left out.                               *)
(***************************************************************************)
EXTENDS ResidentLifecycle, FiniteSets

CONSTANTS
    Nodes,       \* node agents, each with one runtime worker
    NoNode,
    Sessions,    \* chat requests
    StageCount,  \* requested width of a plan; 0: every eligible node
    MaxEpoch,    \* bound on the epochs a behaviour uses
    LateKinds,   \* bound on the kinds of calls that are delayed past their timeout
    MaxLate,     \* bound on their number
    KeyRank      \* std::map order of the epochs' deployment keys

Epochs == 1..MaxEpoch

ASSUME ConstantsAssumption ==
    /\ NoNode \notin Nodes
    /\ IsFiniteSet(Nodes)
    /\ IsFiniteSet(Sessions)
    /\ StageCount \in Nat
    /\ MaxEpoch \in Nat
    /\ LateKinds \subseteq {"load", "activate", "drain", "unload"} /\ MaxLate \in Nat
    /\ KeyRank \in [Epochs -> Int]

VARIABLES
    \* deploymentState
    phase, active, preparing, draining, inFlight, lastEpoch, planOf,
    \* the goroutine that holds reconcileMu
    pc, op, cur, todo, at, outcome, queue,
    \* the ModelManager of every worker: state per epoch, preferred epoch
    st, pref,
    \* calls that outlived their timeout and are still under way
    late,
    \* the epoch each session was admitted to
    sess,
    \* history: partitions lost to a worker restart, epochs being unloaded
    wiped, closed

stateVars   == <<phase, active, preparing, draining, lastEpoch, planOf>>
ctlVars     == <<pc, op, cur, todo, at, outcome, queue>>
runtimeVars == <<st, pref, wiped>>
vars == <<stateVars, inFlight, ctlVars, runtimeVars, late, sess, closed>>

NotAdmitted == -1
Unmanaged   == 0    \* the epoch of an admission without an active plan
NoEpoch     == 0    \* a nil plan, an unset preferred key

Phases == {"unmanaged", "preparing", "active", "draining", "degraded", "failed"}

DrainPcs  == {"retryDrain", "retireDrain", "undoDrain"}
WaitPcs   == {"retryWait", "retireWait"}
UnloadPcs == {"retryUnload", "retireUnload", "undoUnload"}
RepairPcs == {"repair", "repairLoad", "repairLoading", "repairActivate"}
PreparePcs == {"load", "loading", "activate"}
Pcs == {"idle", "retry", "build", "judgeMembers", "judge"}
           \cup DrainPcs \cup WaitPcs \cup UnloadPcs \cup RepairPcs \cup PreparePcs

Calls == {"load", "activate", "drain", "unload"}

\* Calls that outlived their timeout; done once they took effect.
LateCalls == [call : Calls, node : Nodes, epoch : Epochs, done : BOOLEAN]

StateType ==
    /\ phase \in Phases
    /\ active \in 0..MaxEpoch
    /\ preparing \in 0..MaxEpoch
    /\ draining \subseteq Epochs
    /\ inFlight \in [0..MaxEpoch -> Nat]
    /\ lastEpoch \in 0..MaxEpoch
    /\ planOf \in [Epochs -> SUBSET Nodes]
    /\ late \subseteq LateCalls
    /\ sess \in [Sessions -> (0..MaxEpoch) \cup {NotAdmitted}]
    /\ closed \subseteq Epochs

LoopType ==
    /\ pc \in Pcs
    /\ op \in {"none", "switch", "reconcile"}
    /\ cur \in 0..MaxEpoch
    /\ todo \subseteq Nodes
    /\ at \in Nodes \cup {NoNode}
    /\ outcome \in {"ok", "error"}
    /\ queue \subseteq Epochs

RuntimeType ==
    /\ st \in [Nodes -> [Epochs -> States \cup {"none"}]]
    /\ pref \in [Nodes -> 0..MaxEpoch]
    /\ wiped \subseteq Nodes \X Epochs

TypeOK == StateType /\ LoopType /\ RuntimeType

Init ==
    /\ phase = "unmanaged"
    /\ active = NoEpoch
    /\ preparing = NoEpoch
    /\ draining = {}
    /\ inFlight = [e \in 0..MaxEpoch |-> 0]
    /\ lastEpoch = 0
    /\ planOf = [e \in Epochs |-> {}]
    /\ pc = "idle"
    /\ op = "none"
    /\ cur = NoEpoch
    /\ todo = {}
    /\ at = NoNode
    /\ outcome = "ok"
    /\ queue = {}
    /\ st = [n \in Nodes |-> [e \in Epochs |-> "none"]]
    /\ pref = [n \in Nodes |-> NoEpoch]
    /\ late = {}
    /\ sess = [s \in Sessions |-> NotAdmitted]
    /\ wiped = {}
    /\ closed = {}

------------------------------------------------------------------------------
(* Admission (deploymentState.admit and release).                          *)

Admit(s) ==
    /\ sess[s] = NotAdmitted
    /\ phase \notin {"degraded", "failed"}
    /\ inFlight' = [inFlight EXCEPT ![active] = @ + 1]
    /\ sess' = [sess EXCEPT ![s] = active]
    /\ UNCHANGED <<stateVars, ctlVars, runtimeVars, late, closed>>

\* The session ended, for whatever reason; sync.Once makes it release once.
Release(s) ==
    /\ sess[s] # NotAdmitted
    /\ inFlight' = [inFlight EXCEPT ![sess[s]] = @ - 1]
    /\ sess' = [sess EXCEPT ![s] = NotAdmitted]
    /\ UNCHANGED <<stateVars, ctlVars, runtimeVars, late, closed>>

------------------------------------------------------------------------------
(* What a call does to the worker on node n that executes it.              *)

Becomes(n, e, state) == st' = [st EXCEPT ![n] = [@ EXCEPT ![e] = state]]

RuntimeLoad(n, e) ==
    /\ IF st[n][e] = "none"
       THEN /\ Becomes(n, e, "loading")
            /\ pref' = IF pref[n] = NoEpoch THEN [pref EXCEPT ![n] = e] ELSE pref
       ELSE UNCHANGED <<st, pref>>
    /\ UNCHANGED wiped

RuntimeActivate(n, e) ==
    IF ActivateAccepts(st[n][e])
    THEN /\ Becomes(n, e, "active")
         /\ pref' = [pref EXCEPT ![n] = e]
         /\ wiped' = wiped \ {<<n, e>>}
    ELSE UNCHANGED runtimeVars

RuntimeDrain(n, e) ==
    /\ Becomes(n, e, AfterDrain(st[n][e]))
    /\ UNCHANGED <<pref, wiped>>

RuntimeUnload(n, e) ==
    IF UnloadAccepts(st[n][e])
    THEN /\ Becomes(n, e, "none")
         /\ \E p \in 0..MaxEpoch :
               /\ SelectsAfterErase(Epochs, st'[n], KeyRank, NoEpoch, p)
               /\ pref' = [pref EXCEPT ![n] = p]
         /\ UNCHANGED wiped
    ELSE UNCHANGED runtimeVars

Perform(call, n, e) ==
    \/ call = "load"     /\ RuntimeLoad(n, e)
    \/ call = "activate" /\ RuntimeActivate(n, e)
    \/ call = "drain"    /\ RuntimeDrain(n, e)
    \/ call = "unload"   /\ RuntimeUnload(n, e)

\* GET deployment status answers for the preferred epoch only.
StatusShows(n, e, state) == pref[n] = e /\ st[n][e] = state

------------------------------------------------------------------------------
(* deploymentState transitions.                                            *)

ServingPhase(act, healthy, drn) ==
    CASE act = NoEpoch -> "failed"
      [] act # NoEpoch /\ ~healthy -> "degraded"
      [] act # NoEpoch /\ healthy /\ drn # {} -> "draining"
      [] OTHER -> "active"

RecordReconcileError(healthy) ==
    /\ phase' = IF preparing = NoEpoch /\ draining = {}
                THEN ServingPhase(active, healthy, draining)
                ELSE phase
    /\ UNCHANGED <<active, preparing, draining, lastEpoch, planOf>>

FinishDraining ==
    /\ draining' = draining \ {cur}
    /\ phase' = IF draining' = {} /\ preparing = NoEpoch /\ active # NoEpoch
                THEN "active" ELSE phase
    /\ UNCHANGED <<active, preparing, lastEpoch, planOf>>

\* BuildDeploymentPlan over the fresh, compatible, memory-eligible members.
Plans(fresh) ==
    {P \in SUBSET fresh :
        /\ P # {}
        /\ IF StageCount = 0 THEN P = fresh ELSE Cardinality(P) = StageCount}

\* activePlanHealthy: every stage's node is still a fresh member.
MembersHealthy(e, fresh) == planOf[e] \subseteq fresh

------------------------------------------------------------------------------
(* Controller bookkeeping shared by the steps below.                       *)

Goto(where, nodes) ==
    /\ pc' = where
    /\ todo' = nodes
    /\ at' = NoNode
    /\ outcome' = "ok"

\* reconcile goes on without a plan at hand.
Leave(where) ==
    /\ Goto(where, {})
    /\ cur' = NoEpoch
    /\ UNCHANGED <<op, queue>>

\* reconcileMu is released.
Return ==
    /\ Goto("idle", {})
    /\ cur' = NoEpoch
    /\ op' = "none"
    /\ queue' = {}

\* A failed prepare rolls back; a failed repair goes on to judge the route.
OnError ==
    IF pc \in RepairPcs
    THEN Leave("judgeMembers")
    ELSE /\ Goto("undoDrain", planOf[cur])
         /\ UNCHANGED <<op, cur, queue>>

\* The node the current step calls.
Target(n) == IF pc \in {"repairLoad", "repairActivate"} THEN n = at ELSE n \in todo

CallOf ==
    CASE pc \in {"load", "repairLoad"}         -> "load"
      [] pc \in {"activate", "repairActivate"} -> "activate"
      [] pc \in DrainPcs                       -> "drain"
      [] OTHER                                 -> "unload"

CallPcs == {"load", "repairLoad", "activate", "repairActivate"} \cup DrainPcs \cup UnloadPcs

NoteUnload == closed' = IF pc \in UnloadPcs THEN closed \cup {cur} ELSE closed

\* Mutant of CallFailed: a failed activation is skipped like a failed drain.
CallFailedGoesOn(n) ==
    IF pc \in DrainPcs \cup UnloadPcs \cup {"activate"}
    THEN /\ todo' = todo \ {n}
         /\ outcome' = "error"
         /\ UNCHANGED <<pc, op, cur, at, queue>>
    ELSE OnError

\* drainPlan and unloadPlan go on to the next stage and remember the failure;
\* loads and activations stop at the first one.
CallFailed(n) ==
    IF pc \in DrainPcs \cup UnloadPcs
    THEN /\ todo' = todo \ {n}
         /\ outcome' = "error"
         /\ UNCHANGED <<pc, op, cur, at, queue>>
    ELSE OnError

------------------------------------------------------------------------------
(* Starting a switch or a reconciliation.                                  *)

\* beginTransition, which consumes the epoch.
BeginTransition(P) ==
    /\ preparing = NoEpoch
    /\ lastEpoch < MaxEpoch
    /\ lastEpoch' = lastEpoch + 1
    /\ preparing' = lastEpoch + 1
    /\ planOf' = [planOf EXCEPT ![lastEpoch + 1] = P]
    /\ phase' = "preparing"
    /\ cur' = lastEpoch + 1
    /\ Goto("load", P)
    /\ UNCHANGED <<active, draining>>

\* handleDeploymentSwitch: a forced transition.  A plan that cannot be built
\* is answered with an error and changes nothing.
SwitchBegin(fresh) ==
    /\ pc = "idle"
    /\ \E P \in Plans(fresh) : BeginTransition(P)
    /\ op' = "switch"
    /\ UNCHANGED <<queue, inFlight, runtimeVars, late, sess, closed>>

\* Mutant of ReconcileBegin: the pending cleanups are not retried.
ReconcileSkipsRetry ==
    /\ pc = "idle"
    /\ Goto("retry", {})
    /\ op' = "reconcile"
    /\ queue' = {}
    /\ UNCHANGED <<stateVars, cur, inFlight, runtimeVars, late, sess, closed>>

\* reconcile: membership notification or timer tick, on the leader.  The
\* draining plans are snapshotted for retryDraining.
ReconcileBegin ==
    /\ pc = "idle"
    /\ Goto("retry", {})
    /\ op' = "reconcile"
    /\ queue' = draining
    /\ UNCHANGED <<stateVars, cur, inFlight, runtimeVars, late, sess, closed>>

\* The loop of retryDraining, in epoch order.
RetryNext ==
    /\ pc = "retry"
    /\ \/ /\ queue = {}
          /\ Leave("build")
       \/ \E e \in queue :
             /\ \A f \in queue : e <= f
             /\ Goto("retryDrain", planOf[e])
             /\ cur' = e
             /\ queue' = queue \ {e}
             /\ UNCHANGED op
    /\ UNCHANGED <<stateVars, inFlight, runtimeVars, late, sess, closed>>

\* activeIntent, buildDeployment and the choice in switchDeploymentLocked.
Build(fresh) ==
    /\ pc = "build"
    /\ \/ /\ active = NoEpoch
          /\ Return
          /\ UNCHANGED stateVars
       \/ /\ active # NoEpoch
          /\ Plans(fresh) = {}
          /\ Leave("judgeMembers")
          /\ UNCHANGED stateVars
       \/ /\ active # NoEpoch
          /\ planOf[active] \in Plans(fresh)
          /\ Goto("repair", planOf[active])
          /\ cur' = active
          /\ UNCHANGED <<stateVars, op, queue>>
       \/ /\ active # NoEpoch
          /\ \E P \in Plans(fresh) \ {planOf[active]} : BeginTransition(P)
          /\ UNCHANGED <<op, queue>>
    /\ UNCHANGED <<inFlight, runtimeVars, late, sess, closed>>

------------------------------------------------------------------------------
(* Calls that are answered.                                                *)

\* Load: the worker starts building, or answers 409 because the key exists.
LoadAnswered(n) ==
    /\ pc \in {"load", "repairLoad"} /\ Target(n)
    /\ RuntimeLoad(n, cur)
    /\ IF st[n][cur] = "none"
       THEN /\ pc' = IF pc = "load" THEN "loading" ELSE "repairLoading"
            /\ at' = n
            /\ UNCHANGED <<op, cur, todo, outcome, queue>>
       ELSE OnError
    /\ UNCHANGED <<stateVars, inFlight, late, sess, closed>>

\* The end of a load as the coordinator sees it: validateRuntimeStatus wants
\* the exact epoch in state ready.
LoadReturns ==
    /\ pc \in {"loading", "repairLoading"}
    /\ st[at][cur] # "loading"
    /\ IF st[at][cur] = "ready"
       THEN /\ pc' = IF pc = "loading" THEN "load" ELSE "repairActivate"
            /\ todo' = IF pc = "loading" THEN todo \ {at} ELSE todo
            /\ at' = IF pc = "loading" THEN NoNode ELSE at
            /\ UNCHANGED <<op, cur, outcome, queue>>
       ELSE OnError
    /\ UNCHANGED <<stateVars, inFlight, runtimeVars, late, sess, closed>>

ActivateAnswered(n) ==
    /\ pc \in {"activate", "repairActivate"} /\ Target(n)
    /\ RuntimeActivate(n, cur)
    /\ IF ActivateAccepts(st[n][cur])
       THEN /\ pc' = IF pc = "activate" THEN "activate" ELSE "repair"
            /\ todo' = todo \ {n}
            /\ at' = NoNode
            /\ UNCHANGED <<op, cur, outcome, queue>>
       ELSE OnError
    /\ UNCHANGED <<stateVars, inFlight, late, sess, closed>>

DrainAnswered(n) ==
    /\ pc \in DrainPcs /\ Target(n)
    /\ RuntimeDrain(n, cur)
    /\ todo' = todo \ {n}
    /\ UNCHANGED <<pc, op, cur, at, outcome, queue>>
    /\ UNCHANGED <<stateVars, inFlight, late, sess, closed>>

UnloadAnswered(n) ==
    /\ pc \in UnloadPcs /\ Target(n)
    /\ RuntimeUnload(n, cur)
    /\ todo' = todo \ {n}
    /\ outcome' = IF st[n][cur] = "active" THEN "error" ELSE outcome
    /\ NoteUnload
    /\ UNCHANGED <<pc, op, cur, at, queue>>
    /\ UNCHANGED <<stateVars, inFlight, late, sess>>

------------------------------------------------------------------------------
(* The end of each loop over a plan's stages.                              *)

\* Every stage is ready and probeDirectRuntimeEndpoints found every worker, or
\* had nothing to probe.
LoadsDone ==
    /\ pc = "load" /\ todo = {}
    /\ Goto("activate", planOf[cur])
    /\ UNCHANGED <<stateVars, op, cur, queue, inFlight, runtimeVars, late, sess, closed>>

\* publish, then on to the previous plan's retirement if there is one.
Publish ==
    /\ pc = "activate" /\ todo = {}
    /\ active' = cur
    /\ preparing' = NoEpoch
    /\ IF active = NoEpoch
       THEN /\ phase' = "active"
            /\ Return
            /\ UNCHANGED draining
       ELSE /\ phase' = "draining"
            /\ draining' = draining \cup {active}
            /\ Goto("retireDrain", planOf[active])
            /\ cur' = active
            /\ UNCHANGED <<op, queue>>
    /\ UNCHANGED <<lastEpoch, planOf>>
    /\ UNCHANGED <<inFlight, runtimeVars, late, sess, closed>>

DrainsDone ==
    /\ pc \in DrainPcs /\ todo = {}
    /\ pc' = CASE pc = "retryDrain"  -> "retryWait"
               [] pc = "retireDrain" -> "retireWait"
               [] pc = "undoDrain"   -> "undoUnload"
    /\ todo' = IF pc = "undoDrain" THEN planOf[cur] ELSE {}
    /\ UNCHANGED <<op, cur, at, outcome, queue>>
    /\ UNCHANGED <<stateVars, inFlight, runtimeVars, late, sess, closed>>

\* Mutant of WaitDone: the in-flight sessions are not waited for.
WaitSkipped ==
    /\ pc \in WaitPcs
    /\ pc' = IF pc = "retryWait" THEN "retryUnload" ELSE "retireUnload"
    /\ todo' = planOf[cur]
    /\ UNCHANGED <<op, cur, at, outcome, queue>>
    /\ UNCHANGED <<stateVars, inFlight, runtimeVars, late, sess, closed>>

\* waitForEpoch returns.
WaitDone ==
    /\ pc \in WaitPcs
    /\ inFlight[cur] = 0
    /\ pc' = IF pc = "retryWait" THEN "retryUnload" ELSE "retireUnload"
    /\ todo' = planOf[cur]
    /\ UNCHANGED <<op, cur, at, outcome, queue>>
    /\ UNCHANGED <<stateVars, inFlight, runtimeVars, late, sess, closed>>

\* After retirePlan: the next draining plan of retryDraining, or the end of the
\* switch or reconciliation.
AfterRetire == IF pc \in {"retryWait", "retryUnload"} THEN Leave("retry") ELSE Return

\* The failure of retirePlan is recorded after a publication; retryDraining
\* only collects it.
RetireFailed ==
    /\ IF pc \in {"retryWait", "retryUnload"}
       THEN UNCHANGED stateVars
       ELSE RecordReconcileError(TRUE)
    /\ AfterRetire

\* The end of unloadPlan, and of retirePlan.
UnloadsDone ==
    /\ pc \in {"retryUnload", "retireUnload"} /\ todo = {}
    /\ IF outcome = "ok"
       THEN /\ FinishDraining
            /\ AfterRetire
       ELSE RetireFailed
    /\ UNCHANGED <<inFlight, runtimeVars, late, sess, closed>>

\* Mutant of Rollback: a failed cleanup is not kept for a retry.
RollbackForgets(fresh) ==
    /\ pc = "undoUnload" /\ todo = {}
    /\ preparing' = NoEpoch
    /\ phase' = ServingPhase(active, active = NoEpoch \/ MembersHealthy(active, fresh), draining)
    /\ IF op = "switch" THEN Return ELSE Leave("judgeMembers")
    /\ UNCHANGED <<active, draining, lastEpoch, planOf>>
    /\ UNCHANGED <<inFlight, runtimeVars, late, sess, closed>>

\* Mutant of Rollback: the epoch of the failed attempt is used again.
RollbackReusesEpoch(fresh) ==
    /\ pc = "undoUnload" /\ todo = {}
    /\ preparing' = NoEpoch
    /\ draining' = IF outcome = "error" THEN draining \cup {cur} ELSE draining
    /\ lastEpoch' = lastEpoch - 1
    /\ phase' = ServingPhase(active, active = NoEpoch \/ MembersHealthy(active, fresh), draining')
    /\ IF op = "switch" THEN Return ELSE Leave("judgeMembers")
    /\ UNCHANGED <<active, planOf>>
    /\ UNCHANGED <<inFlight, runtimeVars, late, sess, closed>>

\* The end of rollbackPreparedPlan.
Rollback(fresh) ==
    /\ pc = "undoUnload" /\ todo = {}
    /\ preparing' = NoEpoch
    /\ draining' = IF outcome = "error" THEN draining \cup {cur} ELSE draining
    /\ phase' = ServingPhase(active, active = NoEpoch \/ MembersHealthy(active, fresh), draining')
    /\ IF op = "switch" THEN Return ELSE Leave("judgeMembers")
    /\ UNCHANGED <<active, lastEpoch, planOf>>
    /\ UNCHANGED <<inFlight, runtimeVars, late, sess, closed>>

------------------------------------------------------------------------------
(* repairActivePlan and the judgement of the active route.                 *)

\* One stage of the repair: nothing to do, activate what is ready, load what
\* is gone; any other resident is refused.
RepairInspects(n) ==
    /\ pc = "repair" /\ n \in todo
    /\ \/ /\ StatusShows(n, cur, "active")
          /\ todo' = todo \ {n}
          /\ UNCHANGED <<pc, op, cur, at, outcome, queue>>
       \/ /\ StatusShows(n, cur, "ready")
          /\ pc' = "repairActivate"
          /\ at' = n
          /\ UNCHANGED <<op, cur, todo, outcome, queue>>
       \/ /\ pref[n] = NoEpoch
          /\ pc' = "repairLoad"
          /\ at' = n
          /\ UNCHANGED <<op, cur, todo, outcome, queue>>
       \/ /\ pref[n] # NoEpoch
          /\ ~StatusShows(n, cur, "active")
          /\ ~StatusShows(n, cur, "ready")
          /\ OnError
    /\ UNCHANGED <<stateVars, inFlight, runtimeVars, late, sess, closed>>

\* reconcile after an equivalent plan was repaired.
RepairDone ==
    /\ pc = "repair" /\ todo = {}
    /\ RecordReconcileError(TRUE)
    /\ Return
    /\ UNCHANGED <<inFlight, runtimeVars, late, sess, closed>>

\* activePlanHealthy, then activeRuntimePlanHealthy stage by stage.
JudgeMembers(fresh) ==
    /\ pc = "judgeMembers"
    /\ IF MembersHealthy(active, fresh)
       THEN Goto("judge", planOf[active])
       ELSE /\ pc' = "judge"
            /\ todo' = {}
            /\ at' = NoNode
            /\ outcome' = "error"
    /\ UNCHANGED <<stateVars, op, cur, queue, inFlight, runtimeVars, late, sess, closed>>

JudgeStatus(n) ==
    /\ pc = "judge" /\ n \in todo
    /\ IF StatusShows(n, active, "active")
       THEN /\ todo' = todo \ {n}
            /\ UNCHANGED outcome
       ELSE /\ todo' = {}
            /\ outcome' = "error"
    /\ UNCHANGED <<pc, op, cur, at, queue>>
    /\ UNCHANGED <<stateVars, inFlight, runtimeVars, late, sess, closed>>

JudgeDone ==
    /\ pc = "judge" /\ todo = {}
    /\ RecordReconcileError(outcome = "ok")
    /\ Return
    /\ UNCHANGED <<inFlight, runtimeVars, late, sess, closed>>

------------------------------------------------------------------------------
(* Workers, membership and faults.                                         *)

\* The engine build of a load ends.
WorkerLoaded(n, e) ==
    /\ st[n][e] = "loading"
    /\ Becomes(n, e, "ready")
    /\ UNCHANGED <<stateVars, ctlVars, inFlight, pref, wiped, late, sess, closed>>

WorkerLoadFails(n, e) ==
    /\ st[n][e] = "loading"
    /\ Becomes(n, e, "failed")
    /\ UNCHANGED <<stateVars, ctlVars, inFlight, pref, wiped, late, sess, closed>>

\* The worker process dies and comes back idle.
WorkerRestarts(n) ==
    /\ pref[n] # NoEpoch
    /\ st' = [st EXCEPT ![n] = [e \in Epochs |-> "none"]]
    /\ pref' = [pref EXCEPT ![n] = NoEpoch]
    /\ wiped' = wiped \cup {<<n, e>> : e \in {f \in Epochs : st[n][f] # "none"}}
    /\ UNCHANGED <<stateVars, ctlVars, inFlight, late, sess, closed>>

\* A call that never reached its worker.
CallUnsent(n) ==
    /\ pc \in CallPcs /\ Target(n)
    /\ CallFailed(n)
    /\ NoteUnload
    /\ UNCHANGED <<stateVars, inFlight, runtimeVars, late, sess>>

\* A call that was executed, but whose reply was lost.
ReplyLost(n) ==
    /\ pc \in CallPcs /\ Target(n)
    /\ Perform(CallOf, n, cur)
    /\ CallFailed(n)
    /\ NoteUnload
    /\ UNCHANGED <<stateVars, inFlight, late, sess>>

\* A call that is still under way when the coordinator gives up on it.
CallDelayed(n) ==
    /\ pc \in CallPcs /\ Target(n)
    /\ CallOf \in LateKinds /\ Cardinality(late) < MaxLate
    /\ late' = late \cup {[call |-> CallOf, node |-> n, epoch |-> cur, done |-> FALSE]}
    /\ CallFailed(n)
    /\ NoteUnload
    /\ UNCHANGED <<stateVars, inFlight, runtimeVars, sess>>

\* A load outlasts its timeout, its reply is lost, or the plan rejects the
\* memory its status reports.
LoadTimesOut ==
    /\ pc \in {"loading", "repairLoading"}
    /\ OnError
    /\ UNCHANGED <<stateVars, inFlight, runtimeVars, late, sess, closed>>

ProbeFails ==
    /\ pc = "load" /\ todo = {}
    /\ OnError
    /\ UNCHANGED <<stateVars, inFlight, runtimeVars, late, sess, closed>>

\* The context of the switch or reconciliation expires during waitForEpoch.
WaitTimesOut ==
    /\ pc \in WaitPcs
    /\ inFlight[cur] > 0
    /\ RetireFailed
    /\ UNCHANGED <<inFlight, runtimeVars, late, sess, closed>>

StatusLost(n) ==
    /\ pc \in {"repair", "judge"} /\ n \in todo
    /\ IF pc = "repair"
       THEN OnError
       ELSE /\ todo' = {}
            /\ outcome' = "error"
            /\ UNCHANGED <<pc, op, cur, at, queue>>
    /\ UNCHANGED <<stateVars, inFlight, runtimeVars, late, sess, closed>>

\* A delayed call reaches its worker.
LateCall(m) ==
    /\ m \in late /\ ~m.done
    /\ Perform(m.call, m.node, m.epoch)
    /\ late' = (late \ {m}) \cup {[m EXCEPT !.done = TRUE]}
    /\ UNCHANGED <<stateVars, ctlVars, inFlight, sess, closed>>

------------------------------------------------------------------------------
\* The steps of the goroutine that holds reconcileMu, given the membership view
\* it reads and apart from its calls.
ControllerStep(fresh) ==
    \/ RetryNext \/ Build(fresh) \/ LoadReturns \/ LoadsDone \/ Publish
    \/ DrainsDone \/ WaitDone \/ UnloadsDone \/ Rollback(fresh)
    \/ RepairDone \/ JudgeMembers(fresh) \/ JudgeDone

\* Its calls, when the worker on n answers them.
CallAnswered(n) ==
    \/ LoadAnswered(n) \/ ActivateAnswered(n) \/ DrainAnswered(n)
    \/ UnloadAnswered(n) \/ RepairInspects(n) \/ JudgeStatus(n)

\* Its calls, when the worker on n cannot be reached.
CallUnanswered(n) == CallUnsent(n) \/ StatusLost(n)

WorkerStep ==
    \/ \E n \in Nodes, e \in Epochs : WorkerLoaded(n, e)
    \/ \E m \in late : LateCall(m)

SessionStep == \E s \in Sessions : Admit(s) \/ Release(s)

\* What else may go wrong.
Fault ==
    \/ LoadTimesOut \/ ProbeFails \/ WaitTimesOut
    \/ \E n \in Nodes :
          \/ WorkerRestarts(n) \/ ReplyLost(n) \/ CallDelayed(n)
          \/ \E e \in Epochs : WorkerLoadFails(n, e)

\* Every read of the membership may see another set of eligible members.
Next ==
    \/ \E fresh \in SUBSET Nodes : SwitchBegin(fresh) \/ ControllerStep(fresh)
    \/ ReconcileBegin
    \/ \E n \in Nodes : CallAnswered(n) \/ CallUnanswered(n)
    \/ WorkerStep
    \/ SessionStep
    \/ Fault

Spec == Init /\ [][Next]_vars

------------------------------------------------------------------------------
\* The epochs the coordinator knows to have, or to have had, partitions.
Tracked == ({active, preparing} \cup draining) \ {NoEpoch}

\* The in-flight count of every epoch is exactly the number of sessions that
\* hold an admission to it, across publications and retirements.
CountsSessions ==
    \A e \in 0..MaxEpoch : inFlight[e] = Cardinality({s \in Sessions : sess[s] = e})

\* A pinned session keeps its route: while a session is in flight, every
\* partition of the plan it was admitted with is executable, unless its worker
\* restarted and was not repaired.  No drain, unload, rollback, retry or late
\* call takes it away.
SessionKeepsRoute ==
    \A s \in Sessions : sess[s] \in Epochs =>
        \A n \in planOf[sess[s]] :
            Executable(st[n][sess[s]]) \/ <<n, sess[s]>> \in wiped

\* The published plan is active on every one of its workers, unless a worker
\* restarted and was not repaired.
PublishedIsActive ==
    active # NoEpoch =>
        \A n \in planOf[active] : st[n][active] = "active" \/ <<n, active>> \in wiped

\* beginTransition never answers errDeploymentTransitioning: outside a prepare
\* and its rollback no attempt is open.
NoAttemptLeftOpen ==
    pc \notin PreparePcs \cup {"undoDrain", "undoUnload"} => preparing = NoEpoch

\* A load that took effect after the coordinator had given it up.
LoadedLate(n, e) ==
    \E m \in late : m.call = "load" /\ m.node = n /\ m.epoch = e /\ m.done

\* Exact cleanup: a worker holds no epoch that the coordinator does not track,
\* unless a load of it outlived its timeout, and a switch or a reconciliation
\* never begins with the previous attempt open: it was published or rolled back.
NothingLeftBehind ==
    /\ \A n \in Nodes, e \in Epochs : st[n][e] # "none" => e \in Tracked \/ LoadedLate(n, e)
    /\ NoAttemptLeftOpen

\* The control plane implements the epoch handoff it promises: publications,
\* admissions, releases and unloads happen only where EpochHandoff allows them.
Handoff == INSTANCE EpochHandoff WITH serving <- active, pins <- inFlight

ImplementsHandoff == Handoff!Spec
==============================================================================
