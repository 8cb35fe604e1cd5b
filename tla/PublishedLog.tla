---------------------------- MODULE PublishedLog ----------------------------
(***************************************************************************)
(* What a remote log promises: the lines taken are stored in order, none     *)
(* lost in between and none twice, and a published copy is a prefix of what  *)
(* is stored that gets shorter only while publications are unordered.        *)
(***************************************************************************)
EXTENDS Naturals, Sequences

CONSTANT Lines

VARIABLES
  accepted,   \* lines taken so far, in order
  stored,     \* lines on disk
  published,  \* length of the copy readers see
  unordered   \* an older copy may be published after a newer one

vars == <<accepted, stored, published, unordered>>

Init == accepted = <<>> /\ stored = <<>> /\ published = 0 /\ unordered = FALSE

Accept == /\ \E l \in Lines : accepted' = Append(accepted, l)
          /\ UNCHANGED <<stored, published, unordered>>

Store == /\ \E n \in Len(stored) + 1 .. Len(accepted) :
              stored' = SubSeq(accepted, 1, n)
         /\ UNCHANGED <<accepted, published, unordered>>

Publish == /\ published' \in (IF unordered THEN 0 ELSE published) .. Len(stored)
           /\ UNCHANGED <<accepted, stored, unordered>>

Reorder == unordered' = ~unordered /\ UNCHANGED <<accepted, stored, published>>

Next == Accept \/ Store \/ Publish \/ Reorder

Spec == Init /\ [][Next]_vars
=============================================================================
