----------------------------- MODULE MCMembership -----------------------------
EXTENDS Membership, TLC

Two == {1, 2}

OneSeed == [n \in Nodes |-> IF n = 2 THEN {1} ELSE {}]
\* The second node may be started with a preference and again without.
MCPreferences == [n \in Nodes |-> IF n = 2 THEN {0, 1} ELSE {0}]
MCRoleRank == [n \in Nodes |-> 80]
=============================================================================
