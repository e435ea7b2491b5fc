--------------------------- MODULE MCTraceDevices ---------------------------
(***************************************************************************)
(* TraceDevices for TLC.                                                   *)
(***************************************************************************)
EXTENDS TraceDevices
============================================================================
