------------------------------ MODULE TraceFSM ------------------------------
(***************************************************************************)
(* The trace state machine that the comment of set_trace_state in          *)
(* src/common.c documents: which changes of the trace state exist and      *)
(* which event each of them signals. One disjunct of Next is one row of    *)
(* that table; "any" is every state but the final one, which is left by no *)
(* operation of the program (fini_trace: "Called after all trace sessions  *)
(* finished").                                                             *)
(***************************************************************************)
EXTENDS TraceDefs

VARIABLES trace_state, trace_event

vars == <<trace_state, trace_event>>

Init == /\ trace_state = "init"
        /\ trace_event = "init_event"

(* A row of the table: from one of the states in From to state to,         *)
(* signalling event.                                                       *)
Row(From, to, event) == /\ trace_state \in From
                        /\ trace_state' = to
                        /\ trace_event' = event

Any == TraceStates \ {"init", "fini"}

Next == \/ \E s \in TraceStates : Row({"init"}, s, "init_event")
        \/ Row(Any, "fini", "fini_event")
        \/ Row(Any, "ready", "stop_event")
        \/ Row({"ready"}, "running", "start_event")
        \/ Row({"running"}, "suspended", "suspend_event")
        \/ Row({"suspended"}, "running", "resume_event")

Spec == Init /\ [][Next]_vars
============================================================================
