----------------------------- MODULE EpochHandoff -----------------------------
(***************************************************************************)
(* What the deployment control plane promises about epochs, without        *)
(* workers, calls or failures: one epoch serves new admissions at a time,  *)
(* epochs are published in increasing order, every admission pins the      *)
(* epoch that serves it, and an epoch is closed (its partitions may be     *)
(* unloaded) only when it neither serves nor is pinned, for ever.          *)
(***************************************************************************)
EXTENDS Naturals

CONSTANT MaxEpoch

VARIABLES
    serving,  \* the epoch new admissions get; 0 before the first publication
    pins,     \* admissions not released yet, per epoch
    closed    \* epochs whose partitions may be gone

handoffVars == <<serving, pins, closed>>

Init ==
    /\ serving = 0
    /\ pins = [e \in 0..MaxEpoch |-> 0]
    /\ closed = {}

Publish ==
    /\ \E e \in 1..MaxEpoch :
          /\ e > serving
          /\ e \notin closed
          /\ serving' = e
    /\ UNCHANGED <<pins, closed>>

Pin ==
    /\ pins' = [pins EXCEPT ![serving] = @ + 1]
    /\ UNCHANGED <<serving, closed>>

Unpin ==
    /\ \E e \in 0..MaxEpoch :
          /\ pins[e] > 0
          /\ pins' = [pins EXCEPT ![e] = @ - 1]
    /\ UNCHANGED <<serving, closed>>

Close ==
    /\ \E e \in 1..MaxEpoch :
          /\ e # serving
          /\ pins[e] = 0
          /\ closed' = closed \cup {e}
    /\ UNCHANGED <<serving, pins>>

Next == Publish \/ Pin \/ Unpin \/ Close

Spec == Init /\ [][Next]_handoffVars
==============================================================================
