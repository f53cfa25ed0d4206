---------------------------- MODULE MCModelManager ----------------------------
(***************************************************************************)
(* ModelManager for TLC: a boot key and two managed epochs whose map order *)
(* is not their numeric order ("deployment-10..." sorts before             *)
(* "deployment-9..."), two loads in flight and one stage call.             *)
(***************************************************************************)
EXTENDS ModelManager, TLC

MCKeys == {0, 9, 10}

MCRank == (0 :> 0) @@ (10 :> 1) @@ (9 :> 2)
==============================================================================
