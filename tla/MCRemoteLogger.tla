--------------------------- MODULE MCRemoteLogger ---------------------------
(***************************************************************************)
(* Three ticks: an upload may outlast several upload intervals, and two that *)
(* waited for it go on together.  Three lines: one on file, one being        *)
(* written and one in the buffer.                                           *)
(***************************************************************************)
EXTENDS RemoteLogger
=============================================================================
