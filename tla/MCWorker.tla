------------------------------ MODULE MCWorker ------------------------------
(***************************************************************************)
(* A launcher and the one that replaces it: two DISPATCHes of the build, a   *)
(* STATE_QUERY and a user's cancellation.                                   *)
(***************************************************************************)
EXTENDS Worker, TLC

CONSTANTS c1, c2, d1, d2, q, a1

MCConns   == {c1, c2}
MCLetters == {d1, d2, q, a1}
MCKind    == (d1 :> "dispatch") @@ (d2 :> "dispatch") @@ (q :> "query")
               @@ (a1 :> "abort-cancel")

\* Sockets are interchangeable, and so are the two DISPATCHes.
Sym == Permutations(MCConns) \cup Permutations({d1, d2})
=============================================================================
