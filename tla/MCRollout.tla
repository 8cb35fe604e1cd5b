------------------------------ MODULE MCRollout ------------------------------
(***************************************************************************)
(* Two operators on a channel with two branches and two runtimes; 200 is a   *)
(* percentage the commands refuse.                                          *)
(***************************************************************************)
EXTENDS Rollout, TLC

CONSTANTS o1, o2, b1, b2, r1, r2

MCOperators == {o1, o2}
MCBranches  == {b1, b2}
MCRuntimes  == {r1, r2}
MCPercents  == {10, 60, 200}

Sym == Permutations(MCOperators) \cup Permutations(MCBranches)
         \cup Permutations(MCRuntimes)
=============================================================================
