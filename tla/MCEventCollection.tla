-------------------------- MODULE MCEventCollection --------------------------
(***************************************************************************)
(* Two files, of which the second is mostly there to fail beside the first.  *)
(***************************************************************************)
EXTENDS EventCollection, TLC

CONSTANTS f1, f2

MCRecords == f1 :> 2 @@ f2 :> 0
=============================================================================
