---------------------------- MODULE MCTraceSetup ----------------------------
(***************************************************************************)
(* TraceSetup for TLC.                                                     *)
(***************************************************************************)
EXTENDS TraceSetup
============================================================================
