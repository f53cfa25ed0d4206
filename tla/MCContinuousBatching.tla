------------------------- MODULE MCContinuousBatching -------------------------
(***************************************************************************)
(* ContinuousBatching for TLC.  Three callers and batches of two: a full   *)
(* batch can run while a request waits in the queue or a direct call waits *)
(* for the engine.                                                         *)
(***************************************************************************)
EXTENDS ContinuousBatching
==============================================================================
