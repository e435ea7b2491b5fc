--------------------------- MODULE DeviceOutcomes ---------------------------
(***************************************************************************)
(* What enable_cs_trace and disable_cs_trace of src/common.c promise to    *)
(* their callers: the outcomes of a call on the sources (ETMs and STM) and *)
(* the sinks (ETR and ETFs), as one step each. TraceSession is built from  *)
(* these steps; TraceDevices models the two functions device by device and *)
(* implements DeviceSpec.                                                  *)
(***************************************************************************)
EXTENDS TraceDefs

CONSTANT Faults    \* the calls that may fail in this instance

VARIABLES
  etm,             \* the version of the board's ETMs: "ETMv4" or "PTM"
  registration_verbose, \* --verbose; above 2 it acts as 2
  lib,             \* "none": no board; "up"; "closed": after cs_shutdown;
                   \* "aborted": a call has ended the process
  is_first_trace,
  sources,         \* ETMs and STM
  sinks,           \* "on": ETR and ETFs; "partial": only some of them
  failed,          \* the calls that have failed so far
  misuse           \* CSAL was used after cs_shutdown

boardVars   == <<etm, registration_verbose>>
outcomeVars == <<boardVars, lib, is_first_trace, sources, sinks, failed, misuse>>

(* CSAL's devices are used after cs_shutdown: the call is undefined. When  *)
(* it does not end the process it returns an error.                        *)
NoteMisuse == misuse' = (misuse \/ lib = "closed")

(* The call ends the process with the devices registered.                  *)
Aborts ==
  /\ lib = "up" /\ lib' = "aborted"
  /\ UNCHANGED <<is_first_trace, sources, sinks, failed, misuse>>

(* configure_trace does not return, unless it fails before: init_etm       *)
(* asserts that the source is an ETMv4, and show_etm_config, called to     *)
(* show what was configured, writes through a NULL pointer.                *)
EnableFatal == is_first_trace /\ (etm # "ETMv4" \/ registration_verbose > 0)

EnableAborts == EnableFatal /\ Aborts

(* enable_cs_trace when it returns 0: configure_trace and enable_trace the *)
(* first time, enable_trace_sinks_only afterwards.                         *)
EnableSucceeds ==
  /\ lib = "up" /\ ~EnableFatal
  /\ sinks' = "on"
  /\ sources' = IF is_first_trace THEN "on" ELSE sources
  /\ is_first_trace' = FALSE
  /\ UNCHANGED <<lib, failed, misuse>>

(* enable_cs_trace when it returns -1: the devices before the failing one  *)
(* are left on (ETR, TPIU, ETFs, then the sources), and cs_shutdown is     *)
(* called. Without a board configure_trace fails before touching a device. *)
EnableFails ==
  /\ lib # "up" \/ "enable" \in Faults
  /\ failed' = failed \cup {"enable"}
  /\ lib' = IF lib = "none" THEN "none" ELSE "closed"
  /\ IF lib = "up"
     THEN /\ sinks' \in {"off", "partial", "on"}
          /\ sources' \in IF is_first_trace /\ sinks' = "on"
                          THEN {"off", "on"} ELSE {sources}
     ELSE UNCHANGED <<sinks, sources>>
  /\ NoteMisuse
  /\ UNCHANGED is_first_trace

(* disable_trace shows the configuration of the ETMs too.                  *)
DisableFatal(all) == all /\ registration_verbose > 1

(* It takes the ETMs from the descriptors that configure_trace has filled  *)
(* in; unset ones are undefined to CSAL.                                   *)
DisableAborts(all) ==
  /\ DisableFatal(all) \/ (all /\ is_first_trace)
  /\ Aborts

(* Mutant: disable_cs_trace shuts CSAL down as a failed enable does.       *)
DisableShutsDown(all) ==
  /\ lib = "up" /\ lib' = "closed"
  /\ sinks' = "off"
  /\ sources' = IF all THEN "off" ELSE sources
  /\ UNCHANGED <<is_first_trace, failed, misuse>>

(* disable_cs_trace when one of its trials succeeds: disable_trace if all, *)
(* disable_trace_sinks_only otherwise.                                     *)
DisableSucceeds(all) ==
  /\ lib = "up" /\ ~DisableFatal(all)
  /\ sinks' = "off"
  /\ sources' = IF all THEN "off" ELSE sources
  /\ UNCHANGED <<lib, is_first_trace, failed, misuse>>

(* disable_cs_trace when all TRACE_DISABLE_TRIAL trials fail: at the first *)
(* check (no board), at the TPIU, or on an error counted before or after.  *)
DisableFails(all) ==
  /\ lib # "up" \/ "disable" \in Faults
  /\ IF lib = "up"
     THEN /\ sinks' \in {"off", "partial", sinks}
          /\ sources' \in IF all THEN {"off", sources} ELSE {sources}
     ELSE UNCHANGED <<sinks, sources>>
  /\ failed' = failed \cup {"disable"}
  /\ NoteMisuse
  /\ UNCHANGED <<lib, is_first_trace>>

(* A use of CSAL after cs_shutdown that ends the process.                  *)
DiesAfterShutdown ==
  /\ lib = "closed"
  /\ misuse' = TRUE
  /\ UNCHANGED <<lib, is_first_trace, sources, sinks, failed>>

DeviceInit ==
  /\ etm \in {"ETMv4", "PTM"} /\ registration_verbose \in 0..2
  /\ lib \in {"none", "up"} /\ is_first_trace = TRUE
  /\ sources = "off" /\ sinks = "off"
  /\ failed = {} /\ misuse = FALSE

DeviceNext ==
  /\ \/ EnableSucceeds \/ EnableFails \/ EnableAborts
     \/ \E all \in BOOLEAN :
          DisableSucceeds(all) \/ DisableFails(all) \/ DisableAborts(all)
     \/ DiesAfterShutdown
  /\ UNCHANGED boardVars

DeviceSpec == DeviceInit /\ [][DeviceNext]_outcomeVars
============================================================================
