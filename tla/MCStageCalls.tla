---------------------------- MODULE MCStageCalls ----------------------------
EXTENDS StageCalls, TLC
CONSTANTS a, b
OneEach == a :> 1 @@ b :> 1
=============================================================================
