------------------------ MODULE TraceMonitorProofs --------------------------
(***************************************************************************)
(* Proofs, for any number of reports, that TraceMonitor implements the     *)
(* one-step changes and waits of TraceEvents, on which TraceSession is     *)
(* built, from the invariant of its mutexes and its condition variable.    *)
(***************************************************************************)
EXTENDS TraceMonitor, TLAPS

USE ReportsAssumption
USE DEF vars, stateVars, mutexVars, mainVars, fetchVars

Signals == {"signal", "broadcast", "unlock_event"}
Inside  == Signals \cup {"choose", "unlock_state"}

MonTypes ==
  /\ trace_state \in TraceStates /\ old_state \in TraceStates
  /\ new_state \in TraceStates /\ trace_event \in TraceEvents
  /\ main \in {"create", "init", "start", "wait", "stop", "fini", "join", "destroy", "done"}
  /\ mstep \in {"out", "lock_state"} \cup Inside
  /\ fetcher \in {"none", "poll", "done", "worker", "suspend", "resume", "killed"}
  /\ fstep \in {"out", "lock", "test", "wake", "unlock"}
  /\ reports \in Nat

(* Who holds which mutex, and who sleeps.                                  *)
MutexInv ==
  /\ trace_event_mutex = "main" <=> mstep \in Signals
  /\ trace_event_mutex = "fetcher" <=> fstep \in {"test", "unlock"}
  /\ trace_state_mutex = "main" <=> mstep \in Inside
  /\ trace_state_mutex = "destroyed" <=> main = "done"
  /\ trace_event_mutex = "destroyed" <=> main = "done"
  /\ asleep \in BOOLEAN
  /\ asleep => fstep = "wake"
  /\ main = "create" => fetcher = "none"
  /\ fstep # "out" => fetcher \in {"worker", "suspend", "resume", "killed"}
  /\ main \in {"destroy", "done"} => fetcher = "done" /\ mstep = "out"

(* The sequence of the calls of set_trace_state: an unexpected transition  *)
(* leaves the state as it was, or suspends a trace that was not started,   *)
(* and none leaves fini_state.                                             *)
SequenceInv ==
  /\ main \in {"create", "init"} => trace_state = "init" /\ mstep = "out"
  /\ mstep # "out" => main \in {"start", "wait", "fini", "join"}
  /\ mstep # "out" =>
       /\ main = "start" => new_state = "ready"
       /\ main = "wait" => new_state \in {"running", "suspended"}
       /\ main = "fini" => new_state = "ready"
       /\ main = "join" => new_state = "fini"
  /\ mstep = "out" =>
       /\ main = "start" => trace_state = "ready"
       /\ main = "wait" => trace_state \in {"ready", "running", "suspended"}
  /\ mstep = "lock_state" =>
       /\ new_state = "suspended" => trace_state \in {"ready", "running", "suspended"}
       /\ new_state = "running" => trace_state \in {"ready", "running", "suspended"}
  /\ mstep \in Inside => trace_state = new_state
  /\ trace_state = "fini" => main \in {"join", "destroy", "done"} /\ mstep # "lock_state"
  /\ mstep \in {"choose", "signal"} => old_state # "fini"
  /\ mstep = "signal" => Expected(old_state, new_state)
  /\ mstep = "choose" => \/ Expected(old_state, new_state)
                         \/ old_state = new_state
                         \/ old_state = "ready" /\ new_state = "suspended"

MInv == MonTypes /\ MutexInv /\ SequenceInv

----------------------------------------------------------------------------
(* Every variable keeps its type.                                           *)
LEMMA MonTypesStep ==
  ASSUME MonTypes, MutexInv, [Next]_vars
  PROVE  MonTypes'
<1> USE DEF MonTypes, MutexInv, Inside, Signals, TraceStates, TraceEvents
<1>1. CASE CreateFetcher
  BY <1>1 DEF CreateFetcher
<1>2. CASE CallSetTraceState
  BY <1>2 DEF CallSetTraceState, Calls
<1>3. CASE MainMoves
  BY <1>3 DEF MainMoves
<1>4. CASE LockState
  BY <1>4 DEF LockState
<1>5. CASE LockEvent
  BY <1>5 DEF LockEvent
<1>6. CASE Unexpected
  BY <1>6 DEF Unexpected
<1>7. CASE SetEvent
  BY <1>7 DEF SetEvent, EventFor
<1>8. CASE Broadcast
  BY <1>8 DEF Broadcast
<1>9. CASE UnlockEvent
  BY <1>9 DEF UnlockEvent
<1>10. CASE UnlockState
  BY <1>10 DEF UnlockState
<1>11. CASE Join
  BY <1>11 DEF Join
<1>12. CASE Destroy
  BY <1>12 DEF Destroy
<1>13. CASE Poll
  BY <1>13 DEF Poll
<1>14. CASE BeginWait
  BY <1>14 DEF BeginWait, Waits, Awaits
<1>15. CASE WaitLock
  BY <1>15 DEF WaitLock
<1>16. CASE TestSucceeds
  BY <1>16 DEF TestSucceeds
<1>17. CASE CondWait
  BY <1>17 DEF CondWait
<1>18. CASE Wake
  BY <1>18 DEF Wake
<1>19. CASE WaitUnlock
  <2>1. fetcher \in {"worker", "suspend", "resume", "killed"}
    BY <1>19 DEF WaitUnlock
  <2>2. GoesOn[fetcher] \subseteq {"poll", "done", "worker", "resume", "killed"}
    BY <2>1 DEF GoesOn
  <2> QED
    BY <1>19, <2>2 DEF WaitUnlock
<1>20. CASE SpuriousWakeup
  BY <1>20 DEF SpuriousWakeup
<1>21. CASE Terminated
  BY <1>21 DEF Terminated
<1>22. CASE UNCHANGED vars
  BY <1>22
<1> QED
  BY <1>1, <1>2, <1>3, <1>4, <1>5, <1>6, <1>7, <1>8, <1>9, <1>10, <1>11,
     <1>12, <1>13, <1>14, <1>15, <1>16, <1>17, <1>18, <1>19, <1>20, <1>21, <1>22
  DEF Next, Main, Wait

(* A mutex has one owner, and the fetcher sleeps only in its wait.         *)
LEMMA MutexInvStep ==
  ASSUME MonTypes, MutexInv, SequenceInv, [Next]_vars
  PROVE  MutexInv'
<1> USE DEF MonTypes, MutexInv, SequenceInv, Inside, Signals
<1>1. CASE CreateFetcher
  BY <1>1 DEF CreateFetcher
<1>2. CASE CallSetTraceState
  BY <1>2 DEF CallSetTraceState, Calls
<1>3. CASE MainMoves
  BY <1>3 DEF MainMoves
<1>4. CASE LockState
  BY <1>4 DEF LockState
<1>5. CASE LockEvent
  BY <1>5 DEF LockEvent
<1>6. CASE Unexpected
  BY <1>6 DEF Unexpected
<1>7. CASE SetEvent
  BY <1>7 DEF SetEvent, EventFor
<1>8. CASE Broadcast
  BY <1>8 DEF Broadcast
<1>9. CASE UnlockEvent
  BY <1>9 DEF UnlockEvent
<1>10. CASE UnlockState
  BY <1>10 DEF UnlockState
<1>11. CASE Join
  BY <1>11 DEF Join
<1>12. CASE Destroy
  BY <1>12 DEF Destroy
<1>13. CASE Poll
  BY <1>13 DEF Poll
<1>14. CASE BeginWait
  <2>1. fetcher \in {"worker", "suspend", "resume", "killed"}
    BY <1>14 DEF BeginWait, Waits, Awaits
  <2> QED
    BY <1>14, <2>1 DEF BeginWait
<1>15. CASE WaitLock
  BY <1>15 DEF WaitLock
<1>16. CASE TestSucceeds
  BY <1>16 DEF TestSucceeds
<1>17. CASE CondWait
  BY <1>17 DEF CondWait
<1>18. CASE Wake
  BY <1>18 DEF Wake
<1>19. CASE WaitUnlock
  <2>1. main \notin {"destroy", "done"}
    BY <1>19 DEF WaitUnlock
  <2> QED
    BY <1>19, <2>1 DEF WaitUnlock
<1>20. CASE SpuriousWakeup
  BY <1>20 DEF SpuriousWakeup
<1>21. CASE Terminated
  BY <1>21 DEF Terminated
<1>22. CASE UNCHANGED vars
  BY <1>22
<1> QED
  BY <1>1, <1>2, <1>3, <1>4, <1>5, <1>6, <1>7, <1>8, <1>9, <1>10, <1>11,
     <1>12, <1>13, <1>14, <1>15, <1>16, <1>17, <1>18, <1>19, <1>20, <1>21, <1>22
  DEF Next, Main, Wait

(* The calls of set_trace_state come in the order of a session.            *)
LEMMA SequenceInvStep ==
  ASSUME MonTypes, MutexInv, SequenceInv, [Next]_vars
  PROVE  SequenceInv'
<1> USE DEF MonTypes, MutexInv, SequenceInv, Inside, Signals
<1>1. CASE CreateFetcher
  BY <1>1 DEF CreateFetcher, Expected
<1>2. CASE CallSetTraceState
  BY <1>2 DEF CallSetTraceState, Calls, Expected
<1>3. CASE MainMoves
  BY <1>3 DEF MainMoves, Expected
<1>4. CASE LockState
  BY <1>4 DEF LockState, Expected
<1>5. CASE LockEvent
  BY <1>5 DEF LockEvent, Expected
<1>6. CASE Unexpected
  BY <1>6 DEF Unexpected
<1>7. CASE SetEvent
  BY <1>7 DEF SetEvent, EventFor
<1>8. CASE Broadcast
  BY <1>8 DEF Broadcast
<1>9. CASE UnlockEvent
  BY <1>9 DEF UnlockEvent
<1>10. CASE UnlockState
  BY <1>10 DEF UnlockState
<1>11. CASE Join
  BY <1>11 DEF Join
<1>12. CASE Destroy
  BY <1>12 DEF Destroy
<1>13. CASE Poll
  BY <1>13 DEF Poll
<1>14. CASE BeginWait
  BY <1>14 DEF BeginWait, Waits, Awaits
<1>15. CASE WaitLock
  BY <1>15 DEF WaitLock
<1>16. CASE TestSucceeds
  BY <1>16 DEF TestSucceeds
<1>17. CASE CondWait
  BY <1>17 DEF CondWait
<1>18. CASE Wake
  BY <1>18 DEF Wake
<1>19. CASE WaitUnlock
  BY <1>19 DEF WaitUnlock, GoesOn
<1>20. CASE SpuriousWakeup
  BY <1>20 DEF SpuriousWakeup
<1>21. CASE Terminated
  BY <1>21 DEF Terminated
<1>22. CASE UNCHANGED vars
  BY <1>22
<1> QED
  BY <1>1, <1>2, <1>3, <1>4, <1>5, <1>6, <1>7, <1>8, <1>9, <1>10, <1>11,
     <1>12, <1>13, <1>14, <1>15, <1>16, <1>17, <1>18, <1>19, <1>20, <1>21, <1>22
  DEF Next, Main, Wait

(* The invariant holds initially and is preserved by every step.           *)
LEMMA MInvInit == Init => MInv
<1> SUFFICES ASSUME Init PROVE MInv
  OBVIOUS
<1> USE DEF Init, Inside, Signals
<1>1. MonTypes
  BY DEF MonTypes, TraceStates, TraceEvents
<1>2. MutexInv
  BY DEF MutexInv
<1>3. SequenceInv
  BY DEF SequenceInv
<1> QED
  BY <1>1, <1>2, <1>3 DEF MInv

LEMMA MInvStep == MInv /\ [Next]_vars => MInv'
  BY MonTypesStep, MutexInvStep, SequenceInvStep DEF MInv

----------------------------------------------------------------------------
(* The inductive invariant of the monitor.                                 *)
THEOREM MonitorInvariant == Spec => []MInv
  BY MInvInit, MInvStep, PTL DEF Spec

----------------------------------------------------------------------------
(* Changes and waits of one step.                                          *)

(* The assignment of trace_event changes the state that TraceEvents sees,  *)
(* by a row of the state machine; so does an unexpected transition, without*)
(* an event. The start of a wait and a test that succeeds change what is   *)
(* waited for. Nothing else is visible.                                    *)
LEMMA EventsStep ==
  ASSUME MInv, [Next]_vars
  PROVE  [Events!Signal \/ Events!Unexpected \/ Events!Await \/ Events!Receive]_(Events!eventVars)
<1> DEFINE shown == IF PendingState THEN old_state ELSE trace_state
           waits == IF fstep \in {"lock", "test", "wake"} THEN Awaits[fetcher] ELSE {}
           Same  == /\ shown' = shown /\ trace_event' = trace_event
                    /\ waits' = waits /\ event' = event
<1> USE DEF PendingState
<1>0. MonTypes /\ MutexInv /\ SequenceInv
  BY DEF MInv
<1>1. CASE SetEvent
  <2>1. /\ shown = old_state /\ shown' = new_state /\ waits' = waits /\ event' = event
        /\ trace_event' = EventFor(old_state, new_state, trace_event)
    BY <1>0, <1>1 DEF SetEvent, SequenceInv, Inside, Signals
  <2>2. old_state # "fini" /\ Expected(old_state, new_state)
    BY <1>0, <1>1 DEF SetEvent, SequenceInv
  <2>3. old_state \in TraceStates /\ new_state \in TraceStates
    BY <1>0 DEF MonTypes
  <2>4. Events!Next
    BY <2>1, <2>2, <2>3
    DEF Events!Next, Events!Row, Events!Any, Events!TraceStates, TraceStates,
        EventFor, Expected
  <2> QED
    BY <2>1, <2>4 DEF Events!Signal
<1>2. CASE BeginWait
  <2>1. /\ waits = {} /\ waits' = Awaits[fetcher]
        /\ shown' = shown /\ trace_event' = trace_event /\ event' = event
    BY <1>2 DEF BeginWait
  <2>2. Awaits[fetcher] \in (SUBSET Events!TraceEvents) \ {{}}
    BY <1>2 DEF BeginWait, Waits, Awaits, Events!TraceEvents
  <2> QED
    BY <2>1, <2>2 DEF Events!Await
<1>3. CASE TestSucceeds
  <2>1. /\ waits = Awaits[fetcher] /\ waits' = {}
        /\ shown' = shown /\ trace_event' = trace_event /\ event' = trace_event
        /\ trace_event \in Awaits[fetcher]
    BY <1>3 DEF TestSucceeds
  <2> QED
    BY <2>1 DEF Events!Receive
<1>4. CASE LockState
  <2>1. shown = trace_state
    BY <1>4 DEF LockState
  <2>2. mstep' = "choose" /\ old_state' = trace_state /\ trace_state' = new_state /\ new_state' = new_state
    BY <1>4 DEF LockState
  <2>3. UNCHANGED <<trace_event, event, fetcher, fstep>>
    BY <1>4 DEF LockState
  <2>4. CASE Expected(trace_state, new_state) \/ trace_state = new_state
    <3>1. shown' = trace_state
      BY <2>2, <2>4 DEF Expected
    <3>2. Same
      BY <2>1, <2>3, <3>1
    <3> QED
      BY <3>2 DEF Events!eventVars
  <2>5. CASE /\ ~Expected(trace_state, new_state) /\ trace_state = "ready"
             /\ new_state = "suspended"
    <3>1. shown' = "suspended" /\ shown = "ready"
      BY <2>1, <2>2, <2>5 DEF Expected
    <3> QED
      BY <2>3, <3>1 DEF Events!Unexpected
  <2>6. \/ Expected(trace_state, new_state) \/ trace_state = new_state
        \/ trace_state = "ready" /\ new_state = "suspended"
    BY <1>0, <1>4 DEF LockState, SequenceInv, MonTypes, TraceStates, Expected
  <2> QED
    BY <2>4, <2>5, <2>6
<1>5. CASE LockEvent \/ Unexpected
  <2>1. Same
    BY <1>5 DEF LockEvent, Unexpected
  <2> QED
    BY <2>1 DEF Events!eventVars
<1>6. CASE \/ CreateFetcher \/ CallSetTraceState \/ MainMoves \/ Broadcast
           \/ UnlockEvent \/ UnlockState \/ Join \/ Destroy
  <2>1. Same
    BY <1>0, <1>6
    DEF CreateFetcher, CallSetTraceState, Calls, MainMoves, Broadcast,
        UnlockEvent, UnlockState, Join, Destroy, MutexInv
  <2> QED
    BY <2>1 DEF Events!eventVars
<1>7. CASE \/ Poll \/ WaitLock \/ CondWait \/ Wake \/ WaitUnlock
           \/ SpuriousWakeup \/ Terminated \/ UNCHANGED vars
  <2>1. Same
    BY <1>0, <1>7
    DEF Poll, WaitLock, CondWait, Wake, WaitUnlock, SpuriousWakeup,
        Terminated, MutexInv
  <2> QED
    BY <2>1 DEF Events!eventVars
<1> QED
  BY <1>1, <1>2, <1>3, <1>4, <1>5, <1>6, <1>7 DEF Next, Main, Wait

(* set_trace_state and the fetcher's waits, with their mutexes and their   *)
(* condition variable, implement the one-step changes and waits that       *)
(* TraceSession assumes.                                                   *)
THEOREM MonitorRefinement == Spec => ImplementsEvents
<1>1. Init => Events!EInit
  BY DEF Init, Events!EInit, Events!Init, PendingState
<1>2. MInv /\ [Next]_vars
        => [Events!Signal \/ Events!Unexpected \/ Events!Await \/ Events!Receive]_(Events!eventVars)
  BY EventsStep
<1> QED
  BY <1>1, <1>2, MonitorInvariant, PTL DEF Spec, ImplementsEvents, Events!ESpec
============================================================================
