---------------------------- MODULE MCWorkerLive ----------------------------
(***************************************************************************)
(* Liveness: two launchers, a DISPATCH, one of another build, and a CLOSE,   *)
(* any of which may never be sent or may be lost with its socket.           *)
(***************************************************************************)
EXTENDS Worker, TLC

CONSTANTS c1, c2, d, o, x

MCConns   == {c1, c2}
MCLetters == {d, o, x}
MCKind    == (d :> "dispatch") @@ (o :> "dispatch-other") @@ (x :> "close")
=============================================================================
