-------------------------- MODULE DeploymentRecovery --------------------------
(***************************************************************************)
(* What the reconciler achieves once the disturbances stop.  At some point *)
(* the cluster calms down: the membership view settles, some workers       *)
(* outside it stay unreachable, no more calls are lost, no worker restarts *)
(* and the operator asks for no more switches.  Until then every step of   *)
(* Deployment may happen.                                                  *)
(***************************************************************************)
EXTENDS Deployment

CONSTANTS
    EpochsBeforeCalm,  \* bound on the epochs consumed before the calm
    MaxFaults          \* bound on what goes wrong before it

ASSUME RecoveryAssumption == EpochsBeforeCalm \in 0..MaxEpoch /\ MaxFaults \in Nat

VARIABLES
    calm,     \* the disturbances are over
    faults,   \* what went wrong before, counted
    settled,  \* from then on, the eligible members
    down      \* from then on, the unreachable workers

recoveryVars == <<vars, calm, faults, settled, down>>

RInit ==
    /\ Init
    /\ calm = FALSE
    /\ faults = 0
    /\ settled = Nodes
    /\ down = {}

Disturbed ==
    /\ ~calm
    /\ Next
    /\ lastEpoch' <= EpochsBeforeCalm
    /\ faults' = IF Fault \/ \E n \in Nodes : CallUnanswered(n) THEN faults + 1 ELSE faults
    /\ faults' <= MaxFaults
    /\ UNCHANGED <<calm, settled, down>>

\* An unreachable worker is not an eligible member.  Calls that are still under
\* way never arrive, and the history, which no step reads, starts anew.
CalmsDown ==
    /\ ~calm
    /\ calm' = TRUE
    /\ settled' \in (SUBSET Nodes) \ {{}}
    /\ down' \in SUBSET (Nodes \ settled')
    /\ faults' = 0
    /\ late' = {} /\ wiped' = {} /\ closed' = {}
    /\ UNCHANGED <<stateVars, inFlight, ctlVars, st, pref, sess>>

\* reconcile on its ticker, and every step it takes.
Reconciler ==
    /\ calm
    /\ \/ ReconcileBegin
       \/ ControllerStep(settled)
       \/ \E n \in Nodes \ down : CallAnswered(n)
       \/ \E n \in down : CallUnanswered(n)
    /\ UNCHANGED <<calm, faults, settled, down>>

Builds(n, e) ==
    /\ calm
    /\ WorkerLoaded(n, e)
    /\ UNCHANGED <<calm, faults, settled, down>>

Admits(s) ==
    /\ calm
    /\ Admit(s)
    /\ UNCHANGED <<calm, faults, settled, down>>

Releases(s) ==
    /\ calm
    /\ Release(s)
    /\ UNCHANGED <<calm, faults, settled, down>>

RNext ==
    \/ Disturbed
    \/ CalmsDown
    \/ Reconciler
    \/ \E n \in Nodes, e \in Epochs : Builds(n, e)
    \/ \E s \in Sessions : Admits(s) \/ Releases(s)

\* The reconciler's ticker fires every few seconds and its goroutine runs, an
\* engine build ends, and a generation ends: it is bounded by max_tokens and by
\* the stage transport's timeouts.
RSpec ==
    /\ RInit
    /\ [][RNext]_recoveryVars
    /\ WF_recoveryVars(Reconciler)
    /\ \A n \in Nodes, e \in Epochs : WF_recoveryVars(Builds(n, e))
    /\ \A s \in Sessions : WF_recoveryVars(Releases(s))

------------------------------------------------------------------------------
\* The active plan is the one for the settled members and runs on all of their
\* workers.  Cleanups are pending only for plans with an unreachable worker, and
\* then the reachable ones are clean already; without any, admission is open.
Recovered ==
    /\ active # NoEpoch /\ planOf[active] = settled
    /\ \A n \in settled : st[n][active] = "active"
    /\ \A e \in draining :
          planOf[e] \cap down # {} /\ \A n \in Nodes \ down : st[n][e] = "none"
    /\ down = {} => phase = "active"

\* A worker of the plan for the settled members shows a resident that every
\* repair refuses and nothing unloads: a failed load of the active epoch, or an
\* epoch that the coordinator has forgotten (NothingLeftBehind: a load of it
\* arrived after it was rolled back).
Blocked ==
    /\ active # NoEpoch /\ planOf[active] = settled
    /\ \E n \in settled : st[n][active] = "failed" \/ pref[n] \notin Tracked \cup {NoEpoch}

\* Reconciliation converges: once the cluster is calm, a managed deployment ends
\* up recovered and stays so, or it is blocked for good by one of two residents.
\* Nothing else that a switch, a rollback, a retirement or a repair leaves half
\* done, beside the active epoch or in it, keeps the reconciler from getting
\* there (runReconciler, retryDraining, repairActivePlan, recordReconcileError).
Converges == (calm /\ active # NoEpoch) ~> [](Recovered \/ Blocked)

==============================================================================
