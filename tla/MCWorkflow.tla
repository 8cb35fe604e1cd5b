----------------------------- MODULE MCWorkflow -----------------------------
(***************************************************************************)
(* An anchored step with two before-entries and two after-entries, of which *)
(* the first is a call H with a call K nested in it  and declared outputs,  *)
(* then a call S of one step and its outputs node in the main list.         *)
(***************************************************************************)
EXTENDS Workflow

CONSTANTS a, b1, b2, x, h1, h2, ho, c, co, eb1, eb2, ex, eh, H, K, S

MCSteps   == {a, b1, b2, x, h1, h2, ho, c, co}
MCAnchor  == <<a, c, co>>
MCEntries == {eb1, eb2, ex, eh}
MCEntrySteps ==
  [e \in MCEntries |-> CASE e = eb1 -> <<b1>> [] e = eb2 -> <<b2>>
                         [] e = ex -> <<x>> [] OTHER -> <<h1, h2, ho>>]
NoHooks == [before |-> <<>>, after |-> <<>>]
MCHooks == <<[before |-> <<eb1, eb2>>, after |-> <<eh, ex>>], NoHooks, NoHooks>>
MCScopes     == {H, K, S}
MCScopeChain ==
  [s \in MCSteps |-> CASE s \in {h1, ho} -> <<H>> [] s = h2 -> <<H, K>>
                       [] s \in {c, co} -> <<S>> [] OTHER -> <<>>]
MCOutputNodes == {ho, co}
MCChildren    == [o \in MCOutputNodes |-> IF o = ho THEN {h1, h2} ELSE {c}]
MCStepIfs ==
  [s \in MCSteps |-> CASE s = a -> {"none", "expr"}
                       [] s = c -> {"none", "always"}
                       [] s = b2 -> {"none", "failure"}
                       [] s = h2 -> {"none", "failure"}
                       [] s \in {ho, co} -> {"always"}
                       [] OTHER -> {"none"}]
MCEntryIfs ==
  [e \in MCEntries |-> CASE e = eb2 -> {"none", "always"}
                         [] e = eh -> {"none", "expr"}
                         [] OTHER -> {"none"}]
MCScopeIfs ==
  [s \in MCScopes |-> CASE s = S -> {"none", "expr"}
                        [] s = H -> {"none", "success"}
                        [] OTHER -> {"none"}]
=============================================================================
