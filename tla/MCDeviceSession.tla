--------------------------- MODULE MCDeviceSession ---------------------------
(***************************************************************************)
(* All four functions on both platforms, with two artifacts, so that one can *)
(* be uploaded while the other is still to be listed.                       *)
(***************************************************************************)
EXTENDS DeviceSession

MCKinds == AllKinds
=============================================================================
