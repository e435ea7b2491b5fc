--------------------------- MODULE MCKsightBuffer ---------------------------
(***************************************************************************)
(* KsightBuffer for TLC, with events of 72 bytes.                          *)
(***************************************************************************)
EXTENDS KsightBuffer
============================================================================
