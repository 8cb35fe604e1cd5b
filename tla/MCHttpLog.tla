----------------------------- MODULE MCHttpLog -----------------------------
(* Four entries; both finish functions of a build may call cleanUp.         *)
EXTENDS HttpLog
=============================================================================
