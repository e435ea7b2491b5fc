--------------------------- MODULE MCTraceSession ---------------------------
(***************************************************************************)
(* TraceSession for TLC.                                                   *)
(***************************************************************************)
EXTENDS TraceSessionInv
============================================================================
