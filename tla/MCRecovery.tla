------------------------------ MODULE MCRecovery ------------------------------
EXTENDS DeploymentRecovery

NumericOrder == [e \in Epochs |-> e]
==============================================================================
