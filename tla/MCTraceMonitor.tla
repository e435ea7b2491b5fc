--------------------------- MODULE MCTraceMonitor ---------------------------
(***************************************************************************)
(* TraceMonitor for TLC.                                                   *)
(***************************************************************************)
EXTENDS TraceMonitor
============================================================================
