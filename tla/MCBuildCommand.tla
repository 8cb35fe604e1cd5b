--------------------------- MODULE MCBuildCommand ---------------------------
(***************************************************************************)
(* A command that builds for one platform or both, with or without           *)
(* submissions, and waits; and another beside it that only starts a build.    *)
(***************************************************************************)
EXTENDS BuildCommand, TLC

CONSTANTS ci, terminal

MCInvocations == {ci, terminal}

Asked(platforms, increment, submit, wait) ==
  [platforms |-> platforms, autoIncrement |-> increment, autoSubmit |-> submit,
   wait |-> wait]

Both == <<"android", "ios">>

\* A command that waits, alone or beside one that only starts a build.
MCOptions ==
  {ci :> Asked(Both, TRUE, submit, TRUE) : submit \in BOOLEAN}
  \cup {ci :> asked @@ terminal :> Asked(<<"android">>, TRUE, FALSE, FALSE) :
          asked \in {Asked(<<"android">>, TRUE, TRUE, TRUE), Asked(Both, TRUE, FALSE, TRUE)}}
  \cup {ci :> Asked(Both, TRUE, TRUE, FALSE)
        @@ terminal :> Asked(<<"ios">>, increment, TRUE, FALSE) : increment \in BOOLEAN}

Said(v, first) == [version |-> v, initial |-> first]

\* A project with no version, a new one, and one whose versions were set before.
MCProjects ==
  {[local  |-> [p \in Platforms |-> said[1]],
    latest |-> [p \in Platforms |-> said[2]]] :
    said \in {<<Said(0, FALSE), 0>>, <<Said(1, TRUE), 0>>, <<Said(2, FALSE), 0>>,
             <<Said(1, TRUE), 1>>}}
=============================================================================
