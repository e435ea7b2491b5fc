---------------------------- MODULE TraceMonitor ----------------------------
(***************************************************************************)
(* The synchronisation of src/common.c, one call of pthread at a time:     *)
(* set_trace_state and signal_trace_event by the main thread, with         *)
(* trace_state_mutex and trace_event_mutex; the waits of the fetcher with  *)
(* trace_event_mutex and trace_event_cond, which may wake without a        *)
(* signal; and the destruction of all of them by fini_trace.               *)
(*                                                                         *)
(* What the threads do between these calls is left out. Which stop the     *)
(* parent's waitpid reports is arbitrary: TraceSession has the child and   *)
(* the signals.                                                            *)
(***************************************************************************)
EXTENDS TraceDefs

CONSTANT MaxReports    \* bound: stops of the child that waitpid reports

ASSUME ReportsAssumption == MaxReports \in Nat

VARIABLES
  trace_state, trace_event,
  trace_state_mutex, trace_event_mutex,  \* "free", "main", "fetcher", "destroyed"
  asleep,              \* the fetcher is blocked on trace_event_cond
  main, mstep,         \* what the main thread does, and where in it
  old_state, new_state,
  fetcher, fstep,      \* what the fetcher does, and where in its wait
  event,               \* the event it has found
  reports

stateVars == <<trace_state, trace_event, old_state, new_state>>
mutexVars == <<trace_state_mutex, trace_event_mutex, asleep>>
mainVars  == <<main, mstep, reports>>
fetchVars == <<fetcher, fstep, event>>
vars == <<stateVars, mutexVars, mainVars, fetchVars>>

Init ==
  /\ trace_state = "init" /\ trace_event = "init_event"
  /\ trace_state_mutex = "free" /\ trace_event_mutex = "free" /\ asleep = FALSE
  /\ main = "create" /\ mstep = "out" /\ old_state = "init" /\ new_state = "init"
  /\ fetcher = "none" /\ fstep = "out" /\ event = "none" /\ reports = 0

----------------------------------------------------------------------------
(* The main thread.                                                        *)

(* init_trace creates the fetcher.                                         *)
CreateFetcher ==
  /\ main = "create" /\ main' = "init"
  /\ fetcher' = "worker"
  /\ UNCHANGED <<stateVars, mutexVars, mstep, reports, fstep, event>>

(* set_trace_state is called: with ready_state at the end of init_trace,   *)
(* with running_state at the end of start_trace, by the callbacks of a     *)
(* stopped child, with ready_state by stop_trace and with fini_state by    *)
(* fini_trace.                                                             *)
Calls(from, state, to) ==
  /\ main = from /\ mstep = "out"
  /\ main' = to /\ mstep' = "lock_state" /\ new_state' = state
  /\ UNCHANGED <<trace_state, trace_event, old_state, mutexVars, fetchVars>>

CallSetTraceState ==
  \/ Calls("init", "ready", "start") /\ UNCHANGED reports
  \/ Calls("start", "running", "wait") /\ UNCHANGED reports
  \/ /\ reports < MaxReports /\ reports' = reports + 1
     /\ Calls("wait", "suspended", "wait") \/ Calls("wait", "running", "wait")
  \/ Calls("stop", "ready", "fini") /\ UNCHANGED reports
  \/ Calls("fini", "fini", "join") /\ UNCHANGED reports

(* The child exits; start_trace or stop_trace fail before they get to      *)
(* set_trace_state, which the parent does not look at.                     *)
MainMoves ==
  /\ mstep = "out"
  /\ \/ main = "start" /\ main' = "wait"
     \/ main = "wait" /\ main' = "stop"
     \/ main = "stop" /\ main' = "fini"
  /\ UNCHANGED <<stateVars, mutexVars, mstep, reports, fetchVars>>

(* set_trace_state takes trace_state_mutex and changes the state.          *)
LockState ==
  /\ mstep = "lock_state" /\ trace_state_mutex = "free"
  /\ trace_state_mutex' = "main"
  /\ old_state' = trace_state /\ trace_state' = new_state
  /\ mstep' = "choose"
  /\ UNCHANGED <<trace_event, new_state, trace_event_mutex, asleep, main, reports, fetchVars>>

(* The transitions that have an event.                                     *)
Expected(old, new) ==
  \/ old = "init" \/ new \in {"fini", "ready"}
  \/ <<old, new>> \in {<<"ready", "running">>, <<"running", "suspended">>,
                       <<"suspended", "running">>}

(* signal_trace_event takes trace_event_mutex; an unexpected transition    *)
(* does not call it.                                                       *)
LockEvent ==
  /\ mstep = "choose" /\ Expected(old_state, new_state)
  /\ trace_event_mutex = "free" /\ trace_event_mutex' = "main"
  /\ mstep' = "signal"
  /\ UNCHANGED <<stateVars, trace_state_mutex, asleep, main, reports, fetchVars>>

Unexpected ==
  /\ mstep = "choose" /\ ~Expected(old_state, new_state)
  /\ mstep' = "unlock_state"
  /\ UNCHANGED <<stateVars, mutexVars, main, reports, fetchVars>>

SetEvent ==
  /\ mstep = "signal"
  /\ trace_event' = EventFor(old_state, new_state, trace_event)
  /\ mstep' = "broadcast"
  /\ UNCHANGED <<trace_state, old_state, new_state, mutexVars, main, reports, fetchVars>>

(* Mutant: nobody is woken.                                                *)
BroadcastNobody ==
  /\ mstep = "broadcast" /\ mstep' = "unlock_event"
  /\ UNCHANGED <<stateVars, mutexVars, main, reports, fetchVars>>

(* pthread_cond_broadcast.                                                 *)
Broadcast ==
  /\ mstep = "broadcast" /\ mstep' = "unlock_event"
  /\ asleep' = FALSE
  /\ UNCHANGED <<stateVars, trace_state_mutex, trace_event_mutex, main, reports, fetchVars>>

UnlockEvent ==
  /\ mstep = "unlock_event" /\ mstep' = "unlock_state"
  /\ trace_event_mutex' = "free"
  /\ UNCHANGED <<stateVars, trace_state_mutex, asleep, main, reports, fetchVars>>

UnlockState ==
  /\ mstep = "unlock_state" /\ mstep' = "out"
  /\ trace_state_mutex' = "free"
  /\ UNCHANGED <<stateVars, trace_event_mutex, asleep, main, reports, fetchVars>>

(* pthread_join.                                                           *)
Join ==
  /\ main = "join" /\ mstep = "out" /\ fetcher = "done" /\ main' = "destroy"
  /\ UNCHANGED <<stateVars, mutexVars, mstep, reports, fetchVars>>

(* The end of fini_trace.                                                  *)
Destroy ==
  /\ main = "destroy" /\ main' = "done"
  /\ trace_state_mutex' = "destroyed" /\ trace_event_mutex' = "destroyed"
  /\ UNCHANGED <<stateVars, asleep, mstep, reports, fetchVars>>

----------------------------------------------------------------------------
(* The fetcher.                                                            *)

(* What it waits for in fetcher_worker, in the two calls of                *)
(* wait_trace_event and at killed.                                         *)
Awaits == [worker  |-> {"start_event", "fini_event"},
           suspend |-> {"suspend_event"},
           resume  |-> {"resume_event"},
           killed  |-> {"stop_event", "fini_event"}]

Waits == DOMAIN Awaits

(* Where it goes on: trace_sink_polling after start_event, its end after   *)
(* fini_event; the sinks are fetched after a suspension, and a failure     *)
(* there goes back to fetcher_worker; after resume_event it polls again;   *)
(* from killed it goes back to fetcher_worker.                             *)
GoesOn ==
  [worker  |-> IF event = "start_event" THEN {"poll"} ELSE {"done"},
   suspend |-> {"resume", "worker", "killed"},
   resume  |-> {"poll"},
   killed  |-> {"worker"}]

(* A poll: the threshold is reached and the child stopped, or it is gone.  *)
Poll ==
  /\ fetcher = "poll"
  /\ fetcher' \in {"suspend", "killed"}
  /\ UNCHANGED <<stateVars, mutexVars, mainVars, fstep, event>>

BeginWait ==
  /\ fetcher \in Waits /\ fstep = "out" /\ fstep' = "lock"
  /\ UNCHANGED <<stateVars, mutexVars, mainVars, fetcher, event>>

WaitLock ==
  /\ fstep = "lock" /\ trace_event_mutex = "free"
  /\ trace_event_mutex' = "fetcher" /\ fstep' = "test"
  /\ UNCHANGED <<stateVars, trace_state_mutex, asleep, mainVars, fetcher, event>>

(* The test of the loop finds an event that is waited for.                 *)
TestSucceeds ==
  /\ fstep = "test" /\ trace_event \in Awaits[fetcher]
  /\ event' = trace_event /\ fstep' = "unlock"
  /\ UNCHANGED <<stateVars, mutexVars, mainVars, fetcher>>

(* It does not: pthread_cond_wait releases the mutex and blocks, in one    *)
(* step.                                                                   *)
CondWait ==
  /\ fstep = "test" /\ trace_event \notin Awaits[fetcher]
  /\ trace_event_mutex' = "free" /\ asleep' = TRUE /\ fstep' = "wake"
  /\ UNCHANGED <<stateVars, trace_state_mutex, mainVars, fetcher, event>>

(* Wakes without a signal.                                                 *)
SpuriousWakeup ==
  /\ asleep /\ asleep' = FALSE
  /\ UNCHANGED <<stateVars, trace_state_mutex, trace_event_mutex, mainVars, fetchVars>>

(* Mutant: `if' in place of `while': the event is not tested again.        *)
WakeNoTest ==
  /\ fstep = "wake" /\ ~asleep /\ trace_event_mutex = "free"
  /\ trace_event_mutex' = "fetcher" /\ event' = trace_event /\ fstep' = "unlock"
  /\ UNCHANGED <<stateVars, trace_state_mutex, asleep, mainVars, fetcher>>

(* Awake, pthread_cond_wait takes the mutex again.                         *)
Wake ==
  /\ fstep = "wake" /\ ~asleep /\ trace_event_mutex = "free"
  /\ trace_event_mutex' = "fetcher" /\ fstep' = "test"
  /\ UNCHANGED <<stateVars, trace_state_mutex, asleep, mainVars, fetcher, event>>

WaitUnlock ==
  /\ fstep = "unlock" /\ fstep' = "out"
  /\ trace_event_mutex' = "free"
  /\ fetcher' \in GoesOn[fetcher]
  /\ UNCHANGED <<stateVars, trace_state_mutex, asleep, mainVars, event>>

----------------------------------------------------------------------------
Main == \/ LockState \/ LockEvent \/ Unexpected \/ SetEvent \/ Broadcast
        \/ UnlockEvent \/ UnlockState
Wait == WaitLock \/ TestSucceeds \/ CondWait \/ Wake \/ WaitUnlock

(* Both have ended, or the fetcher waits for an event that does not come   *)
(* (see the runs of TraceSession about the lost start and the resume).     *)
Terminated ==
  /\ main \in {"join", "done"} /\ mstep = "out"
  /\ fetcher = "done" => main = "done"
  /\ fetcher # "done" => asleep
  /\ UNCHANGED vars

Next == \/ CreateFetcher \/ CallSetTraceState \/ MainMoves \/ Main \/ Join \/ Destroy
        \/ Poll \/ BeginWait \/ Wait \/ SpuriousWakeup \/ Terminated

Spec == Init /\ [][Next]_vars

(* Both threads are scheduled. The main thread takes trace_event_mutex     *)
(* finitely often, so that the fetcher gets it.                            *)
FairSpec == Spec /\ WF_vars(Main) /\ WF_vars(Wait)

----------------------------------------------------------------------------
(* Properties.                                                             *)

(* The state is changed before the event: the change takes effect with the *)
(* event, if there is one.                                                 *)
PendingState == mstep = "signal" \/ (mstep = "choose" /\ Expected(old_state, new_state))

(* The detailed calls implement changes and waits of one step: no wait     *)
(* ends on an event other than the ones it is for, for all the wakeups in  *)
(* between, and no user of the events sees a state without its event.      *)
Events == INSTANCE TraceEvents WITH
            trace_state <- IF PendingState THEN old_state ELSE trace_state,
            awaited <- IF fstep \in {"lock", "test", "wake"} THEN Awaits[fetcher] ELSE {}
ImplementsEvents == Events!ESpec

(* No wakeup is lost: the fetcher does not go on waiting while trace_event *)
(* is one of the events it waits for, however its test and its sleep       *)
(* interleave with signal_trace_event.                                     *)
WakeupNotLost ==
  fstep \in {"lock", "test", "wake"} /\ trace_event \in Awaits[fetcher]
    ~> fstep \in {"unlock", "out"} \/ trace_event \notin Awaits[fetcher]
============================================================================
