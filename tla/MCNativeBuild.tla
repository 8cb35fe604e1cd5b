---------------------------- MODULE MCNativeBuild ----------------------------
(***************************************************************************)
(* An instance of NativeBuild: each stage with one or two of its phases,    *)
(* two hook entries before the install phase and two after it.              *)
(***************************************************************************)
EXTENDS NativeBuild

MCPhasesOf == [g \in Stages |->
  CASE g = "setup"   -> <<"PREPARE_PROJECT">>
    [] g = "rest"    -> <<"READ_APP_CONFIG">>
    [] g = "guarded" -> <<"PREPARE_CREDENTIALS", "RUN_NATIVE_BUILD">>
    [] g = "tail"    -> <<"UPLOAD_APPLICATION_ARCHIVE">>]
MCEntries == [s \in Sides |->
  IF s = "before" THEN <<"patchPackage", "warmCache">> ELSE <<"audit", "notify">>]
=============================================================================
