----------------------------- MODULE TraceDefs -----------------------------
(***************************************************************************)
(* The values and pure functions of src/common.c that the session's        *)
(* threads share: the trace states and trace events, the event that a      *)
(* state change signals, the alignment of the fetched trace, and the       *)
(* offset that the fetcher compares with its threshold.                    *)
(***************************************************************************)
EXTENDS Integers

(* trace_state_t and trace_event_t. ready_event exists in the enumeration  *)
(* and is never signalled.                                                 *)
TraceStates == {"init", "fini", "ready", "running", "suspended"}
TraceEvents == {"init_event", "fini_event", "ready_event", "start_event",
                "stop_event", "suspend_event", "resume_event"}

(* Mutants: a suspension signals the number of the state; fini is not      *)
(* signalled.                                                              *)
EventForMixed(old, new, current) ==
  IF old = "init"                               THEN "init_event"
  ELSE IF new = "fini"                          THEN "fini_event"
  ELSE IF new = "ready"                         THEN "stop_event"
  ELSE IF old = "ready" /\ new = "running"      THEN "start_event"
  ELSE new
EventForNoFini(old, new, current) ==
  IF old = "init"                               THEN "init_event"
  ELSE IF new = "ready"                         THEN "stop_event"
  ELSE IF old = "ready" /\ new = "running"      THEN "start_event"
  ELSE IF old = "running" /\ new = "suspended"  THEN "suspend_event"
  ELSE current

(* The if/else chain of set_trace_state: the event that the change from    *)
(* old to new leaves in trace_event, where current is the event it holds   *)
(* before. The last arm is the "Unexpected trace state transition" branch, *)
(* which signals nothing.                                                  *)
EventFor(old, new, current) ==
  IF old = "init"                               THEN "init_event"
  ELSE IF new = "fini"                          THEN "fini_event"
  ELSE IF new = "ready"                         THEN "stop_event"
  ELSE IF old = "ready" /\ new = "running"      THEN "start_event"
  ELSE IF old = "running" /\ new = "suspended"  THEN "suspend_event"
  ELSE IF old = "suspended" /\ new = "running"  THEN "resume_event"
  ELSE current

(* Mutant: aligned to more than trace_buf_size is a multiple of.           *)
AlignUp16(val) == ((val + 15) \div 16) * 16

(* ALIGN_UP(val, 0x8). trace_buf itself is page aligned, so that aligning  *)
(* the pointer aligns its offset in the buffer.                            *)
AlignUp8(val) == ((val + 7) \div 8) * 8

(* The unsigned subtraction a - b of two unsigned longs below mod: it      *)
(* wraps when b is larger.                                                 *)
ULongMinus(a, b, mod) == IF a >= b THEN a - b ELSE a - b + mod

(* fetch_threshold, as fetcher_worker computes it from the size of the     *)
(* main buffer and of the first ETF, when the board has one.               *)
FetchThreshold(hasSink, etfSize, etrSize) ==
  IF hasSink /\ etfSize < etrSize THEN 2 * etfSize ELSE etrSize

Lesser(a, b) == IF a <= b THEN a ELSE b
AtLeast0(n)  == IF n >= 0 THEN n ELSE 0
============================================================================
