----------------------------- MODULE TraceEvents ----------------------------
(***************************************************************************)
(* What the trace states and trace events of src/common.c promise their    *)
(* users: a change of the trace state and the event it signals are one     *)
(* step, and a wait ends in one step that finds one of the events it waits *)
(* for. TraceSession takes both for granted; TraceMonitor implements them  *)
(* with mutexes and a condition variable.                                  *)
(***************************************************************************)
EXTENDS TraceFSM

VARIABLES
  awaited,   \* the events that the fetcher waits for, {} when it does not
  event      \* the event that has ended its last wait

eventVars == <<trace_state, trace_event, awaited, event>>

EInit == Init /\ awaited = {} /\ event = "none"

Signal == Next /\ UNCHANGED <<awaited, event>>

(* The only change besides those of the table, which signals nothing: a    *)
(* stop of the child is reported although start_trace has failed.          *)
Unexpected == /\ trace_state = "ready" /\ trace_state' = "suspended"
              /\ UNCHANGED <<trace_event, awaited, event>>

Await == /\ awaited = {}
         /\ awaited' \in (SUBSET TraceEvents) \ {{}}
         /\ UNCHANGED <<trace_state, trace_event, event>>

Receive == /\ trace_event \in awaited
           /\ event' = trace_event
           /\ awaited' = {}
           /\ UNCHANGED <<trace_state, trace_event>>

ESpec == EInit /\ [][Signal \/ Unexpected \/ Await \/ Receive]_eventVars
============================================================================
