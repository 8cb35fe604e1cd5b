---------------------------- MODULE MCBuildPhases ----------------------------
(***************************************************************************)
(* A builder with three phases, which may store a variable twice in all, and *)
(* the on-cancel hook beside it, which may begin at any point.               *)
(***************************************************************************)
EXTENDS BuildPhases

MCRunners  == {"build", "cancel"}
MCPhases   == {"SPIN_UP_BUILDER", "INSTALL_DEPENDENCIES", "PREBUILD", "ON_BUILD_CANCEL_HOOK"}
MCUnmarked == {"SPIN_UP_BUILDER"}
MCPlan == [r \in Runners |->
             IF r = "build" THEN <<"SPIN_UP_BUILDER", "INSTALL_DEPENDENCIES", "PREBUILD">>
             ELSE <<"ON_BUILD_CANCEL_HOOK">>]
MCMarking == {"INSTALL_DEPENDENCIES"}
=============================================================================
