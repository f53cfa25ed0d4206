----------------------------- MODULE MCDeployment -----------------------------
EXTENDS Deployment, TLC

\* The map order of the deployment keys is that of their deployment_id strings,
\* which at a change of digits is not that of the epochs: epochs 1, 2, 3 stand
\* for 9, 10, 11, and "deployment-9-..." is the last of the three strings.
StringOrder == [e \in Epochs |-> IF e = 1 THEN MaxEpoch + 1 ELSE e]

Symmetry == Permutations(Nodes)
==============================================================================
