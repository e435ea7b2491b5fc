---------------------------- MODULE TraceSession ----------------------------
(***************************************************************************)
(* One run of cs-trace: the parent's main thread (parent() in              *)
(* src/cs-trace.c and the operations of src/common.c it calls), the        *)
(* fetcher thread (fetcher_worker and trace_sink_polling), the traced      *)
(* child process with its signals and wait reports, and the CoreSight      *)
(* hardware as far as the threads can tell its states apart.               *)
(*                                                                         *)
(* A step of a thread is one call that other actors can observe: a wait, a *)
(* signal, a sysfs write, a change of the trace state, or the body of a    *)
(* trace_mutex critical section.  fetch_trace is the one critical section  *)
(* of several steps, because the child may emit trace while it runs.  The  *)
(* amount of trace is counted in bytes; its contents are abstracted.       *)
(***************************************************************************)
EXTENDS DeviceOutcomes

CONSTANTS
  FetcherOn,         \* --fetcher was given
  KsightOn,          \* --ksight was given
  HasSink,           \* the board has an ETF (devices.trace_sinks[0])
  EtfRamSize,        \* size of that ETF
  EtrRamSize,        \* size of the u-dma-buf behind the ETR
  DefaultTraceSize,  \* DEFAULT_TRACE_SIZE
  ULongMod,          \* 2^w for the width w of an unsigned long
  Word,              \* granularity in which trace reaches the ETR
  MaxEmit,           \* bound: trace the child emits
  MaxJobSignals      \* bound: stop and continue signals of third parties

FaultNames == {"setup", "pthread_create", "affinity", "mmap", "enable",
               "disable", "mremap", "read", "export", "ksight", "sysfs"}

ASSUME FlagsAssumption == /\ FetcherOn \in BOOLEAN
                          /\ KsightOn \in BOOLEAN
                          /\ HasSink \in BOOLEAN
                          /\ Faults \subseteq FaultNames

ASSUME SizesAssumption == /\ EtfRamSize \in Nat
                          /\ EtrRamSize \in Nat \ {0}
                          /\ DefaultTraceSize \in Nat \ {0}
                          /\ DefaultTraceSize % 8 = 0
                          /\ Word \in Nat \ {0}
                          /\ Word <= EtrRamSize
                          /\ ULongMod \in Nat
                          /\ ULongMod > 2 * EtrRamSize

ASSUME BoundsAssumption == /\ MaxEmit \in Nat
                           /\ MaxJobSignals \in Nat

VARIABLES
  (* Control *)
  main,            \* where the main thread is
  fetcher,         \* where the fetcher thread is; "none": no such thread
  trace_mutex,     \* its holder between two steps, or "free"
  trace_state, trace_event,
  (* The child process, as the kernel and the parent see it *)
  child, exit_status,
  pending,         \* the stop signal sent and not yet delivered
  report,          \* stop or continue that waitpid has not yet returned
  wstatus,         \* the parent's wstatus
  job_signals,     \* stop/continue signals third parties have sent
  (* CoreSight: the devices are variables of DeviceOutcomes *)
  rwp, unread,     \* ETR write position, bytes not read
  init_pos,        \* the fetcher's reference position
  (* trace_buf *)
  buf, trace_buf_size, trace_buf_ptr, len,
  (* ksight's sysfs attributes *)
  ks_pid, ks_enable,
  (* History of the trace data and of failures *)
  emitted, fetched, dropped, overwritten, discarded,
  exported,        \* length of cstrace.bin, -1 while there is none
  last_fetch       \* the fetcher made the fetch that follows the stop

ctlVars   == <<trace_state, trace_event>>
childVars == <<child, exit_status, pending, report, job_signals>>
\* boardVars, from DeviceOutcomes, never change
devVars   == <<lib, is_first_trace, sources, sinks>>
etrVars   == <<rwp, unread, init_pos>>
bufVars   == <<buf, trace_buf_size, trace_buf_ptr, len>>
ksVars    == <<ks_pid, ks_enable>>
dataVars  == <<emitted, fetched, dropped, overwritten, discarded>>
noteVars  == <<exported, last_fetch, failed, misuse>>
vars == <<main, fetcher, trace_mutex, ctlVars, childVars, wstatus, devVars,
          etrVars, bufVars, ksVars, dataVars, noteVars, boardVars>>

Init ==
  /\ etm \in {"ETMv4", "PTM"} /\ registration_verbose \in 0..2
  /\ main = "wait_exec" /\ fetcher = "none" /\ trace_mutex = "free"
  /\ trace_state = "init" /\ trace_event = "init_event"
  /\ child = "forked" /\ exit_status = "none" /\ pending = "none"
  /\ report = "none" /\ wstatus = "none" /\ job_signals = 0
  /\ lib = "none" /\ is_first_trace = TRUE
  /\ sources = "off" /\ sinks = "off"
  /\ rwp = 0 /\ unread = 0 /\ init_pos = 0
  /\ buf = "none" /\ trace_buf_size = 0 /\ trace_buf_ptr = 0 /\ len = 0
  /\ ks_pid = "all" /\ ks_enable = 0
  /\ emitted = 0 /\ fetched = 0 /\ dropped = 0 /\ overwritten = 0
  /\ discarded = 0 /\ exported = -1 /\ last_fetch = FALSE
  /\ failed = {} /\ misuse = FALSE

----------------------------------------------------------------------------
(* Building blocks of both threads.                                        *)

(* set_trace_state: the state changes and the event it signals replaces    *)
(* the one trace_event holds, whether or not anybody has seen that one.    *)
SetTraceState(new) ==
  /\ trace_state' = new
  /\ trace_event' = EventFor(trace_state, new, trace_event)

(* The call f fails.                                                       *)
Fails(f) == f \in Faults /\ failed' = failed \cup {f}

(* The process ends abnormally, with both its threads.                     *)
ProcessCrash == main' = "crashed" /\ fetcher' = "none"

(* CSAL's devices are used after cs_shutdown, which ends the process.      *)
UseAfterShutdown ==
  /\ lib = "closed" /\ ProcessCrash
  /\ misuse' = TRUE /\ UNCHANGED failed

(* fetch_trace by thread t, up to the growth loop: take trace_mutex, ask   *)
(* how much trace is unread, align the write pointer.                      *)
FetchBegin(t) ==
  /\ buf = "failed" => unread = 0
  /\ trace_mutex = "free"
  /\ trace_mutex' = t
  /\ len' = unread
  /\ trace_buf_ptr' = AlignUp8(trace_buf_ptr)
  /\ UNCHANGED <<buf, trace_buf_size>>

(* fetch_trace when the unchecked mmap of trace_buf had failed: the        *)
(* pointer is still NULL and the remaining space wraps to a huge value, so *)
(* that any byte there is to copy goes to an invalid address.              *)
FetchFaults ==
  /\ buf = "failed" /\ unread > 0
  /\ trace_mutex = "free"
  /\ ProcessCrash

(* buf_remain: the space behind the write pointer.                         *)
BufRemain == trace_buf_size - trace_buf_ptr

(* Mutant: the growth loop is an if.                                       *)
NeedsGrowthOnce == len > BufRemain /\ trace_buf_size = DefaultTraceSize

(* The condition of the growth loop.                                       *)
NeedsGrowth == len > BufRemain

(* One turn of the growth loop: the buffer is doubled.                     *)
FetchGrow(t) ==
  /\ trace_mutex = t
  /\ NeedsGrowth
  /\ trace_buf_size # 0
  /\ trace_buf_size' = trace_buf_size * 2
  /\ UNCHANGED <<trace_mutex, buf, trace_buf_ptr, len, failed>>

(* mremap fails (it always does on the buffer that was never allocated):   *)
(* fetch_trace returns -1 and leaves the ETR as it is.                     *)
FetchGrowFails(t) ==
  /\ trace_mutex = t
  /\ NeedsGrowth
  /\ "mremap" \in Faults \/ trace_buf_size = 0
  /\ failed' = failed \cup {"mremap"}
  /\ trace_mutex' = "free"
  /\ UNCHANGED bufVars

(* What cs_get_trace_data may return when avail bytes can be copied: all   *)
(* of them, and if reading may fail a part of them or -1.                  *)
ReadResults(avail) ==
  {avail} \cup IF "read" \in Faults
               THEN {-1} \cup {n \in 0..avail : n % Word = 0} ELSE {}

(* The rest of fetch_trace: copy, reset the ETR's pointers, advance the    *)
(* write pointer by what cs_get_trace_data returned, release trace_mutex.  *)
FetchRead(t) ==
  /\ trace_mutex = t
  /\ ~NeedsGrowth
  /\ \E n \in ReadResults(Lesser(unread, BufRemain)) :
       /\ failed' = IF n < Lesser(unread, BufRemain) THEN failed \cup {"read"}
                                                     ELSE failed
       /\ trace_buf_ptr' = trace_buf_ptr + n
       /\ fetched' = fetched + AtLeast0(n)
       /\ discarded' = discarded + (unread - AtLeast0(n))
  /\ unread' = 0 /\ rwp' = 0
  /\ trace_mutex' = "free"
  /\ UNCHANGED <<buf, trace_buf_size, len, init_pos, emitted, dropped,
                 overwritten>>

----------------------------------------------------------------------------
(* The main thread: parent().                                              *)

(* The first waitpid: the child reached execvpe and stopped with SIGTRAP,  *)
(* or it is already gone.                                                  *)
MainWaitExec ==
  /\ main = "wait_exec"
  /\ \/ /\ child = "exec_stop"
        /\ wstatus' = "SIGTRAP" /\ main' = "init"
        /\ UNCHANGED child
     \/ /\ child = "zombie"
        /\ wstatus' = exit_status /\ main' = "wait"
        /\ child' = "reaped"
  /\ UNCHANGED <<fetcher, trace_mutex, ctlVars, exit_status, pending,
                 report, job_signals, devVars, etrVars, bufVars, ksVars,
                 dataVars, noteVars>>

(* init_trace: the board and its devices are registered, the fetcher is    *)
(* created and the trace is ready; or one of these fails and cs_shutdown   *)
(* is called. The parent ignores the result and goes on to start_trace.    *)
MainInitTrace ==
  /\ main = "init"
  /\ main' = "start"
  /\ \/ /\ lib' = "up"
        /\ fetcher' = IF FetcherOn THEN "worker" ELSE "none"
        /\ SetTraceState("ready")
        /\ UNCHANGED failed
     \/ /\ Fails("setup")                     \* up to setup_named_board
        /\ UNCHANGED <<lib, fetcher, ctlVars>>
     \/ /\ FetcherOn /\ Fails("pthread_create")
        /\ lib' = "closed"
        /\ UNCHANGED <<fetcher, ctlVars>>
  /\ UNCHANGED <<trace_mutex, childVars, wstatus, is_first_trace, sources,
                 sinks, etrVars, bufVars, ksVars, dataVars, exported,
                 last_fetch, misuse>>

(* Mutant: ksight is enabled without setting the traced pid.               *)
AfterStartNoPid == IF KsightOn THEN "ks_enable" ELSE "detach"

(* Where parent() goes on when start_trace has returned, with or without   *)
(* an error.                                                               *)
AfterStart == IF KsightOn THEN "ks_pid" ELSE "detach"

(* start_trace up to enable_cs_trace: bind the child to the traced CPU and *)
(* map trace_buf; the result of mmap is not checked.                       *)
MainStartTrace ==
  /\ main = "start"
  /\ \/ /\ buf' = "mapped" /\ trace_buf_size' = DefaultTraceSize
        /\ main' = "enable"
        /\ UNCHANGED failed
     \/ /\ Fails("mmap")
        /\ buf' = "failed" /\ main' = "enable"
        /\ UNCHANGED trace_buf_size
     \/ /\ Fails("affinity")
        /\ main' = AfterStart
        /\ UNCHANGED <<buf, trace_buf_size>>
  /\ UNCHANGED <<fetcher, trace_mutex, ctlVars, childVars, wstatus, devVars,
                 etrVars, trace_buf_ptr, len, ksVars, dataVars, exported,
                 last_fetch, misuse>>

(* start_trace: enable_cs_trace. A failure is reported and the parent goes *)
(* on, without changing the trace state. The process may also end here,    *)
(* for the version of the ETMs or for --verbose.                           *)
MainEnable ==
  /\ main = "enable"
  /\ trace_mutex = "free"
  /\ \/ /\ EnableSucceeds
        /\ main' = "set_running"
        /\ UNCHANGED fetcher
     \/ /\ EnableFails
        /\ main' = AfterStart
        /\ UNCHANGED fetcher
     \/ EnableAborts /\ ProcessCrash
     \/ /\ UseAfterShutdown
        /\ UNCHANGED devVars
  /\ UNCHANGED <<trace_mutex, ctlVars, childVars, wstatus, etrVars, bufVars,
                 ksVars, dataVars, exported, last_fetch>>

(* start_trace: set_trace_state(running_state).                            *)
MainSetRunning ==
  /\ main = "set_running"
  /\ SetTraceState("running")
  /\ main' = AfterStart
  /\ UNCHANGED <<fetcher, trace_mutex, childVars, wstatus, devVars, etrVars,
                 bufVars, ksVars, dataVars, noteVars>>

(* A write to one of ksight's sysfs attributes; a failed one is reported   *)
(* by the callee and ignored by the parent.                                *)
SetTracedPid(pid) ==
  /\ \/ ks_pid' = pid /\ UNCHANGED failed
     \/ Fails("sysfs") /\ UNCHANGED ks_pid
  /\ UNCHANGED ks_enable

SetEnable(on) ==
  /\ \/ ks_enable' = on /\ UNCHANGED failed
     \/ Fails("sysfs") /\ UNCHANGED ks_enable
  /\ UNCHANGED ks_pid

(* Before the child runs: ksight_set_traced_pid(pid), then                 *)
(* ksight_set_enable(1). After it has exited: ksight_set_enable(0), then   *)
(* ksight_set_traced_pid(0), which means every pid.                        *)
MainKsight ==
  /\ \/ main = "ks_pid" /\ SetTracedPid("child") /\ main' = "ks_enable"
     \/ main = "ks_enable" /\ SetEnable(1) /\ main' = "detach"
     \/ main = "ks_disable" /\ SetEnable(0) /\ main' = "ks_clear"
     \/ main = "ks_clear" /\ SetTracedPid("all") /\ main' = "stop"
  /\ UNCHANGED <<fetcher, trace_mutex, ctlVars, childVars, wstatus, devVars,
                 etrVars, bufVars, dataVars, exported, last_fetch, misuse>>

(* PTRACE_DETACH lets the child run, no longer traced by the parent.       *)
MainDetach ==
  /\ main = "detach"
  /\ main' = "wait"
  /\ child' = IF child = "exec_stop" THEN "running" ELSE child
  /\ UNCHANGED <<fetcher, trace_mutex, ctlVars, exit_status, pending,
                 report, job_signals, wstatus, devVars, etrVars, bufVars,
                 ksVars, dataVars, noteVars>>

(* waitpid(pid, &wstatus, WUNTRACED | WCONTINUED) in the parent's loop. Of *)
(* a child that is gone and reaped it returns -1 and leaves wstatus alone. *)
MainWait ==
  /\ main = "wait"
  /\ main' = "dispatch"
  /\ \/ /\ child = "zombie"
        /\ wstatus' = exit_status /\ child' = "reaped"
        /\ UNCHANGED report
     \/ /\ report # "none"
        /\ wstatus' = report /\ report' = "none"
        /\ UNCHANGED child
     \/ /\ child = "reaped"
        /\ UNCHANGED <<child, report, wstatus>>
  /\ UNCHANGED <<fetcher, trace_mutex, ctlVars, exit_status, pending,
                 job_signals, devVars, etrVars, bufVars, ksVars, dataVars,
                 noteVars>>

(* Mutant: the callbacks are swapped.                                      *)
CallbackSwapped(sig) == IF sig = "SIGSTOP" THEN "running" ELSE "suspended"

(* trace_suspend_callback and trace_resume_callback, chosen by the signal  *)
(* that stopped the child. SIGCONT is never that signal once the child is  *)
(* detached: the kernel then reports the child as continued.               *)
CallbackState(sig) == IF sig = "SIGSTOP" THEN "suspended" ELSE "running"

(* Mutant: the loop finalizes only a trace that was initialized.           *)
ExitSeenIfInit == wstatus = "exit0" /\ trace_state # "init"

(* WIFEXITED(wstatus) and wstatus == 0.                                    *)
ExitSeen == wstatus = "exit0"

(* The branches on wstatus in the parent's loop. Only an exit with status  *)
(* 0 leaves the loop.                                                      *)
MainDispatch ==
  /\ main = "dispatch"
  /\ \/ /\ ExitSeen
        /\ main' = IF KsightOn THEN "ks_disable" ELSE "stop"
        /\ UNCHANGED ctlVars
     \/ /\ FetcherOn /\ wstatus \in {"SIGSTOP", "SIGCONT"}
        /\ SetTraceState(CallbackState(wstatus))
        /\ main' = "wait"
     \/ /\ ~ExitSeen
        /\ FetcherOn => wstatus \notin {"SIGSTOP", "SIGCONT"}
        /\ main' = "wait"
        /\ UNCHANGED ctlVars
  /\ UNCHANGED <<fetcher, trace_mutex, childVars, wstatus, devVars, etrVars,
                 bufVars, ksVars, dataVars, noteVars>>

(* stop_trace(true): disable_cs_trace. The parent ignores its result. It   *)
(* is also called when start_trace returned before it enabled the trace.   *)
MainStopTrace ==
  /\ main = "stop"
  /\ trace_mutex = "free"
  /\ \/ /\ DisableSucceeds(TRUE)
        /\ main' = "set_ready"
        /\ UNCHANGED fetcher
     \/ /\ DisableFails(TRUE)
        /\ main' = "fini"
        /\ UNCHANGED fetcher
     \/ DisableAborts(TRUE) /\ ProcessCrash
     \/ /\ UseAfterShutdown
        /\ UNCHANGED devVars
  /\ UNCHANGED <<trace_mutex, ctlVars, childVars, wstatus, etrVars, bufVars,
                 ksVars, dataVars, exported, last_fetch>>

(* stop_trace: set_trace_state(ready_state).                               *)
MainSetReady ==
  /\ main = "set_ready"
  /\ SetTraceState("ready")
  /\ main' = "fini"
  /\ UNCHANGED <<fetcher, trace_mutex, childVars, wstatus, devVars, etrVars,
                 bufVars, ksVars, dataVars, noteVars>>

(* fini_trace: with the fetcher, set_trace_state(fini_state) asks it to    *)
(* end; without it the main thread fetches the trace itself.               *)
MainFini ==
  /\ main = "fini"
  /\ IF FetcherOn THEN SetTraceState("fini") /\ main' = "join"
                  ELSE main' = "fetch" /\ UNCHANGED ctlVars
  /\ UNCHANGED <<fetcher, trace_mutex, childVars, wstatus, devVars, etrVars,
                 bufVars, ksVars, dataVars, noteVars>>

(* Mutant: fini_trace does not wait for the fetcher.                       *)
MainJoinDetached ==
  /\ main = "join" /\ main' = "export"
  /\ UNCHANGED <<fetcher, trace_mutex, ctlVars, childVars, wstatus, devVars,
                 etrVars, bufVars, ksVars, dataVars, noteVars>>

(* pthread_join. Of a thread that was never created it is undefined: it    *)
(* ends the process or returns an error that fini_trace ignores.           *)
MainJoin ==
  /\ main = "join"
  /\ \/ fetcher \in {"done", "none"} /\ main' = "export"
     \/ fetcher = "none" /\ main' = "crashed"
  /\ UNCHANGED <<fetcher, trace_mutex, ctlVars, childVars, wstatus, devVars,
                 etrVars, bufVars, ksVars, dataVars, noteVars>>

(* fetch_trace called by fini_trace. By now the devices may be shut down,  *)
(* or missing (devices.etb is NULL).                                       *)
MainFetchBegin ==
  /\ main = "fetch"
  /\ \/ /\ lib = "up" /\ FetchBegin("main")
        /\ main' = "fetch_copy"
        /\ UNCHANGED <<fetcher, failed, misuse>>
     \/ /\ lib = "closed" /\ trace_mutex = "free"
        /\ main' = "export" /\ misuse' = TRUE
        /\ UNCHANGED <<fetcher, trace_mutex, bufVars, failed>>
     \/ /\ UseAfterShutdown
        /\ UNCHANGED <<trace_mutex, bufVars>>
     \/ /\ lib = "none" /\ ProcessCrash
        /\ UNCHANGED <<trace_mutex, bufVars, failed, misuse>>
     \/ /\ lib = "up" /\ FetchFaults
        /\ UNCHANGED <<trace_mutex, bufVars, failed, misuse>>
  /\ UNCHANGED <<ctlVars, childVars, wstatus, devVars, etrVars, ksVars,
                 dataVars, exported, last_fetch>>

MainFetchCopy ==
  /\ main = "fetch_copy"
  /\ \/ /\ FetchGrow("main")
        /\ UNCHANGED <<main, etrVars, dataVars>>
     \/ /\ FetchGrowFails("main")
        /\ main' = "export"
        /\ UNCHANGED <<etrVars, dataVars>>
     \/ /\ FetchRead("main")
        /\ main' = "export"
  /\ UNCHANGED <<fetcher, ctlVars, childVars, wstatus, devVars, ksVars,
                 exported, last_fetch, misuse>>

(* trace_buf_ptr - trace_buf in export_trace. MAP_FAILED is (void * ) -1,  *)
(* and trace_buf_ptr counts from NULL when there is no buffer.             *)
ExportLen == IF buf = "failed" THEN trace_buf_ptr + 1 ELSE trace_buf_ptr

(* fwrite reads outside a buffer: the length wrapped below zero, or there  *)
(* is something to read at MAP_FAILED.                                     *)
ExportFaults == ExportLen < 0 \/ (buf = "failed" /\ ExportLen > 0)

(* export_trace writes trace_buf up to trace_buf_ptr to cstrace.bin. The   *)
(* ksight events are fetched and exported next (see KsightBuffer): that    *)
(* touches nothing of this state, but it ends the process when the buffer  *)
(* of the events could not be mapped.                                      *)
MainExport ==
  /\ main = "export"
  /\ \/ /\ ~ExportFaults
        /\ exported' = ExportLen /\ main' = "free"
        /\ UNCHANGED failed
     \/ /\ ExportFaults
        /\ main' = "crashed"
        /\ UNCHANGED <<exported, failed>>
     \/ /\ Fails("export")
        /\ main' = "free" /\ UNCHANGED exported
     \/ /\ KsightOn /\ ~ExportFaults /\ Fails("ksight")
        /\ main' = "crashed" /\ exported' \in {exported, ExportLen}
  /\ UNCHANGED <<fetcher, trace_mutex, ctlVars, childVars, wstatus, devVars,
                 etrVars, bufVars, ksVars, dataVars, last_fetch, misuse>>

(* free_trace_buf: empty the ETR if there is one, unmap trace_buf and set  *)
(* trace_buf_ptr to NULL.                                                  *)
MainFree ==
  /\ main = "free"
  /\ \/ /\ main' = "shutdown"
        /\ IF buf = "none" THEN UNCHANGED <<buf, trace_buf_ptr>>
                           ELSE buf' = "freed" /\ trace_buf_ptr' = 0
        /\ IF lib = "up" THEN /\ rwp' = 0 /\ unread' = 0
                              /\ discarded' = discarded + unread
                         ELSE UNCHANGED <<rwp, unread, discarded>>
        /\ NoteMisuse
        /\ UNCHANGED <<fetcher, failed>>
     \/ /\ UseAfterShutdown
        /\ UNCHANGED <<buf, trace_buf_ptr, rwp, unread, discarded>>
  /\ UNCHANGED <<trace_mutex, ctlVars, childVars, wstatus, devVars, init_pos,
                 trace_buf_size, len, ksVars, emitted, fetched, dropped,
                 overwritten, exported, last_fetch>>

(* The end of fini_trace: cs_shutdown, and the mutexes and condition       *)
(* variables are destroyed.                                                *)
MainShutdown ==
  /\ main = "shutdown"
  /\ main' = "done"
  /\ lib' = IF lib = "none" THEN "none" ELSE "closed"
  /\ UNCHANGED <<fetcher, trace_mutex, ctlVars, childVars, wstatus,
                 is_first_trace, sources, sinks, etrVars, bufVars, ksVars,
                 dataVars, noteVars>>

MainNext ==
  /\ \/ MainWaitExec \/ MainInitTrace \/ MainStartTrace \/ MainEnable
     \/ MainSetRunning \/ MainKsight \/ MainDetach \/ MainWait \/ MainDispatch
     \/ MainStopTrace \/ MainSetReady \/ MainFini \/ MainJoin \/ MainFetchBegin
     \/ MainFetchCopy \/ MainExport \/ MainFree \/ MainShutdown
  /\ UNCHANGED boardVars

----------------------------------------------------------------------------
(* The fetcher thread: fetcher_worker and trace_sink_polling.              *)

(* What no step of the fetcher changes.                                    *)
fetcherFrame == <<ctlVars, exit_status, job_signals, wstatus, ksVars, exported,
                  boardVars>>

(* fetcher_worker waits for start_event or fini_event and acts on the one  *)
(* it finds in trace_event when it gets to look.                           *)
FetcherWorker ==
  /\ fetcher = "worker"
  /\ \/ trace_event = "start_event" /\ fetcher' = "init_pos"
     \/ trace_event = "fini_event" /\ fetcher' = "done"
  /\ UNCHANGED <<main, trace_mutex, child, pending, report, devVars,
                 etrVars, bufVars, dataVars, last_fetch, failed,
                 misuse, fetcherFrame>>

(* trace_sink_polling takes the ETR's write position as its reference, at  *)
(* the start and after every resume.                                       *)
FetcherInitPos ==
  /\ fetcher = "init_pos"
  /\ init_pos' = rwp
  /\ fetcher' = "poll"
  /\ UNCHANGED <<main, trace_mutex, child, pending, report, devVars, rwp,
                 unread, bufVars, dataVars, last_fetch, failed,
                 misuse, fetcherFrame>>

(* kill(child_pid, 0) succeeds as long as the child is not reaped.         *)
FetcherPoll ==
  /\ fetcher = "poll"
  /\ fetcher' = IF child = "reaped" THEN "killed" ELSE "compare"
  /\ UNCHANGED <<main, trace_mutex, child, pending, report, devVars,
                 etrVars, bufVars, dataVars, last_fetch, failed,
                 misuse, fetcherFrame>>

CurrOffset == ULongMinus(rwp, init_pos, ULongMod)

(* The ETR's write position is compared with the threshold, without        *)
(* trace_mutex; below it the fetcher naps and polls again.                 *)
FetcherCompare ==
  /\ fetcher = "compare"
  /\ fetcher' = IF CurrOffset > FetchThreshold(HasSink, EtfRamSize, EtrRamSize)
                THEN "sigstop" ELSE "poll"
  /\ UNCHANGED <<main, trace_mutex, child, pending, report, devVars,
                 etrVars, bufVars, dataVars, last_fetch, failed,
                 misuse, fetcherFrame>>

(* kill(child_pid, SIGSTOP). To a zombie it succeeds and does nothing.     *)
FetcherSigstop ==
  /\ fetcher = "sigstop"
  /\ IF child = "reaped"
     THEN fetcher' = "killed" /\ UNCHANGED pending
     ELSE /\ fetcher' = "wait_suspend"
          /\ pending' = IF child \in {"exec_stop", "running"} THEN "SIGSTOP"
                                                           ELSE pending
  /\ UNCHANGED <<main, trace_mutex, child, report, devVars, etrVars, bufVars,
                 dataVars, last_fetch, failed, misuse, fetcherFrame>>

(* Mutants: the first wait is satisfied by the event that started the      *)
(* polling; the second waits for a suspension once more; the trace is not  *)
(* disabled before the fetch.                                              *)
AwaitedStale == [wait_suspend |-> "start_event", wait_resume |-> "resume_event"]
AwaitedTwice == [wait_suspend |-> "suspend_event", wait_resume |-> "suspend_event"]
AfterWaitNoDisable == [wait_suspend |-> "fetch", wait_resume |-> "init_pos"]

(* wait_trace_event(suspend_event) and wait_trace_event(resume_event):     *)
(* the event each of the two waits for, and where the fetcher goes on.     *)
Awaited == [wait_suspend |-> "suspend_event", wait_resume |-> "resume_event"]
AfterWait == [wait_suspend |-> "disable", wait_resume |-> "init_pos"]

FetcherAwait ==
  /\ fetcher \in DOMAIN Awaited
  /\ trace_event = Awaited[fetcher]
  /\ fetcher' = AfterWait[fetcher]
  /\ UNCHANGED <<main, trace_mutex, child, pending, report, devVars,
                 etrVars, bufVars, dataVars, last_fetch, failed,
                 misuse, fetcherFrame>>

(* disable_cs_trace(false). A failure ends the polling, the child stopped. *)
FetcherDisable ==
  /\ fetcher = "disable"
  /\ trace_mutex = "free"
  /\ \/ DisableSucceeds(FALSE) /\ fetcher' = "fetch"
     \/ DisableFails(FALSE) /\ fetcher' = "worker"
  /\ UNCHANGED <<main, trace_mutex, child, pending, report, etrVars,
                 bufVars, dataVars, last_fetch, fetcherFrame>>

(* fetch_trace, between two polls or as the last fetch.                    *)
FetcherFetchBegin ==
  /\ \/ /\ fetcher = "fetch" /\ FetchBegin("fetcher")
        /\ fetcher' = "copy" /\ UNCHANGED main
     \/ /\ fetcher = "last_fetch" /\ FetchBegin("fetcher")
        /\ fetcher' = "last_copy" /\ UNCHANGED main
     \/ /\ fetcher \in {"fetch", "last_fetch"} /\ FetchFaults
        /\ UNCHANGED <<trace_mutex, bufVars>>
  /\ UNCHANGED <<child, pending, report, devVars, etrVars, dataVars,
                 last_fetch, failed, misuse, fetcherFrame>>

(* A failure ends the polling, the child stopped.                          *)
FetcherFetchCopy ==
  /\ fetcher \in {"copy", "last_copy"}
  /\ \/ /\ FetchGrow("fetcher")
        /\ UNCHANGED <<fetcher, etrVars, dataVars, last_fetch>>
     \/ /\ FetchGrowFails("fetcher")
        /\ fetcher' = "worker"
        /\ UNCHANGED <<etrVars, dataVars, last_fetch>>
     \/ /\ FetchRead("fetcher")
        /\ fetcher' = IF fetcher = "copy" THEN "enable" ELSE "worker"
        /\ last_fetch' = (fetcher = "last_copy")
  /\ UNCHANGED <<main, child, pending, report, devVars, misuse,
                 fetcherFrame>>

(* enable_cs_trace(child_pid). A failure ends the polling, the child       *)
(* stopped.                                                                *)
FetcherEnable ==
  /\ fetcher = "enable"
  /\ trace_mutex = "free"
  /\ \/ EnableSucceeds /\ fetcher' = "cont"
     \/ EnableFails /\ fetcher' = "worker"
  /\ UNCHANGED <<main, trace_mutex, child, pending, report, etrVars,
                 bufVars, dataVars, last_fetch, fetcherFrame>>

(* SIGCONT: it discards a pending SIGSTOP and resumes a stopped child, for *)
(* which the kernel reports "continued" in place of an unread stop.        *)
Continue ==
  /\ pending' = "none"
  /\ IF child = "stopped" THEN child' = "running" /\ report' = "continued"
                          ELSE UNCHANGED <<child, report>>

(* kill(child_pid, SIGCONT).                                               *)
FetcherCont ==
  /\ fetcher = "cont"
  /\ IF child = "reaped"
     THEN fetcher' = "killed" /\ UNCHANGED <<child, pending, report>>
     ELSE fetcher' = "wait_resume" /\ Continue
  /\ UNCHANGED <<main, trace_mutex, devVars, etrVars, bufVars, dataVars,
                 last_fetch, failed, misuse, fetcherFrame>>

(* At killed: wait for stop_event or fini_event, then the last fetch.      *)
FetcherKilled ==
  /\ fetcher = "killed"
  /\ trace_event \in {"stop_event", "fini_event"}
  /\ fetcher' = "last_fetch"
  /\ UNCHANGED <<main, trace_mutex, child, pending, report, devVars,
                 etrVars, bufVars, dataVars, last_fetch, failed,
                 misuse, fetcherFrame>>

FetcherNext ==
  \/ FetcherWorker \/ FetcherInitPos \/ FetcherPoll \/ FetcherCompare
  \/ FetcherSigstop \/ FetcherAwait \/ FetcherDisable \/ FetcherFetchBegin
  \/ FetcherFetchCopy \/ FetcherEnable \/ FetcherCont \/ FetcherKilled

----------------------------------------------------------------------------
(* The child process, the kernel and third parties.                        *)

(* What no step of the child changes.                                      *)
childFrame == <<fetcher, main, trace_mutex, ctlVars, wstatus, devVars,
                init_pos, bufVars, ksVars, fetched, discarded, noteVars,
                boardVars>>

(* child() up to execvpe, which stops the traced child with SIGTRAP; or it *)
(* exits, with 1 after a failed check, with 0 when execvpe itself fails;   *)
(* or a signal kills it before.                                            *)
ChildExec ==
  /\ child = "forked"
  /\ \/ child' = "exec_stop" /\ UNCHANGED exit_status
     \/ child' = "zombie" /\ exit_status' \in {"exit0", "exitN", "signal"}
  /\ UNCHANGED <<pending, report, job_signals, rwp, unread, emitted,
                 dropped, overwritten, childFrame>>

(* The running child emits trace. With the sources on it enters the ETR,   *)
(* over the oldest unread trace when the ETR is full, or is lost when the  *)
(* sinks are not on.                                                       *)
ChildEmit ==
  /\ child = "running" /\ sources = "on"
  /\ emitted + Word <= MaxEmit
  /\ emitted' = emitted + Word
  /\ IF sinks = "on"
     THEN /\ rwp' = (rwp + Word) % EtrRamSize
          /\ unread' = Lesser(unread + Word, EtrRamSize)
          /\ overwritten' = overwritten + (unread + Word - unread')
          /\ UNCHANGED dropped
     ELSE /\ dropped' = dropped + Word
          /\ UNCHANGED <<rwp, unread, overwritten>>
  /\ UNCHANGED <<child, exit_status, pending, report, job_signals,
                 childFrame>>

(* The kernel delivers the fetcher's SIGSTOP.                              *)
ChildStop ==
  /\ child = "running" /\ pending = "SIGSTOP"
  /\ child' = "stopped" /\ pending' = "none" /\ report' = "SIGSTOP"
  /\ UNCHANGED <<exit_status, job_signals, rwp, unread, emitted, dropped,
                 overwritten, childFrame>>

(* The child exits or is killed by a signal; a stopped child can only be   *)
(* killed. Its stop or continue that was not waited for is not reported.   *)
ChildEnd ==
  /\ \/ child = "running" /\ exit_status' \in {"exit0", "exitN", "signal"}
     \/ child \in {"exec_stop", "stopped"} /\ exit_status' = "signal"
  /\ child' = "zombie" /\ pending' = "none" /\ report' = "none"
  /\ UNCHANGED <<job_signals, rwp, unread, emitted, dropped, overwritten,
                 childFrame>>

(* A third party, or the child itself, sends a stop or a continue signal.  *)
JobSignal ==
  /\ job_signals < MaxJobSignals
  /\ job_signals' = job_signals + 1
  /\ \/ /\ child = "running"
        /\ child' = "stopped" /\ report' \in {"SIGSTOP", "SIGTSTP"}
        /\ UNCHANGED pending
     \/ (child = "stopped" \/ pending = "SIGSTOP") /\ Continue
  /\ UNCHANGED <<exit_status, rwp, unread, emitted, dropped, overwritten,
                 childFrame>>

ChildNext == ChildExec \/ ChildEmit \/ ChildStop \/ ChildEnd \/ JobSignal

----------------------------------------------------------------------------
(* The parent has returned from main(), or the process crashed.            *)
Terminated ==
  /\ main \in {"done", "crashed"}
  /\ UNCHANGED vars

Next == MainNext \/ FetcherNext \/ ChildNext \/ Terminated

Spec == Init /\ [][Next]_vars

(* Both threads are scheduled, and the kernel delivers the stop signals it *)
(* accepted. Nothing makes the child emit, exit or receive other signals.  *)
Fairness == WF_vars(MainNext) /\ WF_vars(FetcherNext) /\ WF_vars(ChildStop)

FairSpec == Spec /\ Fairness

----------------------------------------------------------------------------
(* Properties.                                                             *)

MainPcs == {"wait_exec", "init", "start", "enable", "set_running", "ks_pid",
            "ks_enable", "detach", "wait", "dispatch", "ks_disable",
            "ks_clear", "stop", "set_ready", "fini", "fetch", "fetch_copy",
            "join", "export", "free", "shutdown", "done", "crashed"}

Polling  == {"init_pos", "poll", "compare", "sigstop"}
Cycle    == {"disable", "fetch", "copy", "enable", "cont"}
Final    == {"killed", "last_fetch", "last_copy"}
Active   == Polling \cup Cycle \cup Final \cup {"wait_suspend", "wait_resume"}

FetcherPcs == Active \cup {"none", "worker", "done"}

Exits == {"exit0", "exitN", "signal"}

ControlTypes ==
  /\ main \in MainPcs /\ fetcher \in FetcherPcs
  /\ trace_mutex \in {"free", "main", "fetcher"}
  /\ trace_state \in TraceStates /\ trace_event \in TraceEvents
  /\ etm \in {"ETMv4", "PTM"} /\ registration_verbose \in 0..2
  /\ lib \in {"none", "up", "closed", "aborted"}
  /\ sources \in {"off", "on"} /\ sinks \in {"off", "partial", "on"}
  /\ buf \in {"none", "mapped", "failed", "freed"}
  /\ ks_pid \in {"all", "child"} /\ ks_enable \in {0, 1}

ChildTypes ==
  /\ child \in {"forked", "exec_stop", "running", "stopped", "zombie", "reaped"}
  /\ exit_status \in Exits \cup {"none"} /\ pending \in {"none", "SIGSTOP"}
  /\ report \in {"none", "SIGSTOP", "SIGTSTP", "continued"}
  /\ wstatus \in Exits \cup {"none", "SIGTRAP", "SIGSTOP", "SIGTSTP", "continued"}
  /\ job_signals \in 0..MaxJobSignals

DataTypes ==
  /\ rwp \in 0..(EtrRamSize - 1) /\ init_pos \in 0..(EtrRamSize - 1)
  /\ unread \in 0..EtrRamSize /\ len \in 0..EtrRamSize
  /\ trace_buf_size \in Nat /\ trace_buf_ptr \in Int
  /\ emitted \in 0..MaxEmit
  /\ fetched \in Nat /\ dropped \in Nat /\ overwritten \in Nat
  /\ discarded \in Nat /\ exported \in Int

FlagTypes ==
  /\ is_first_trace \in BOOLEAN /\ last_fetch \in BOOLEAN /\ misuse \in BOOLEAN
  /\ failed \subseteq FaultNames

(* Every variable has a value of its type; the ETR's pointers and the      *)
(* amount of unread trace stay within the ETR.                             *)
TypeOK == ControlTypes /\ ChildTypes /\ DataTypes /\ FlagTypes

(* Only the fetcher has stopped or continued the child so far.             *)
Undisturbed == job_signals = 0

(* Stopping the child around disable_cs_trace(false) and                   *)
(* enable_cs_trace works: while the sources are on the child never emits   *)
(* trace that the disabled sinks lose, whatever calls fail.                *)
NoByteDropped == Undisturbed => dropped = 0

(* fetch_trace reads the ETR only while it is disabled (trace_sink_polling:*)
(* "Disable the trace before fetching"), unless disabling it failed.       *)
QuiescentFetch ==
  Undisturbed /\ "disable" \notin failed /\ trace_mutex # "free"
    => sinks = "off"

AfterStop == {"set_ready", "fini", "fetch", "fetch_copy", "join", "export",
              "free", "shutdown", "done"}

(* Once stop_trace(true) has succeeded the trace stays disabled: no late   *)
(* enable_cs_trace of the fetcher turns it on again.                       *)
StopIsFinal ==
  Undisturbed /\ "disable" \notin failed /\ main \in AfterStop
    => sinks = "off" /\ sources = "off"

(* Each SIGSTOP that the parent sees finds the trace running, so that      *)
(* set_trace_state signals suspend_event and does not take its branch for  *)
(* unexpected transitions.                                                 *)
SuspendFromRunning ==
  Undisturbed /\ FetcherOn /\ main = "dispatch" /\ wstatus = "SIGSTOP"
    => trace_state = "running"

(* The fetcher is between start_event and its last fetch only while CSAL   *)
(* and the board are up, so that none of its calls uses a dead device.     *)
FetcherDevicesUp == fetcher \in Active => lib = "up"

(* trace_buf_ptr stays within trace_buf when one fetch_trace follows       *)
(* another, the earlier one having left the pointer unaligned or, as a     *)
(* failed cs_get_trace_data does, at -1: aligning it does not move it past *)
(* the end, and the growth makes room for what is copied behind it.        *)
TraceBufInBounds == trace_buf_ptr \in -1..trace_buf_size

(* A session in which nothing failed and the last fetch took place exports *)
(* all trace the child emitted, but for what the ETR itself overwrote.     *)
CompleteTrace ==
  /\ main \in {"free", "shutdown", "done"}
  /\ failed = {} /\ (FetcherOn => last_fetch /\ Undisturbed)
  => fetched + overwritten = emitted /\ exported >= fetched

(* ksight records only the traced process, and only between the enable and *)
(* the disable of the parent, unless a sysfs write failed.                 *)
KsightScoped == ks_enable = 1 /\ "sysfs" \notin failed => ks_pid = "child"

(* cs-trace itself does not crash unless a call failed, the board was      *)
(* never set up (the traced program could not be executed), or the first   *)
(* enable_cs_trace ended it (EnableFatal): no other fault of the code, as  *)
(* a use of a dead device, of a buffer that is not mapped or of a thread   *)
(* that does not exist, comes about by itself.                             *)
CrashNeedsCause ==
  main = "crashed" => failed # {} \/ lib = "none" \/ (lib = "aborted" /\ EnableFatal)

(* The trace state and the trace event change as the comment of            *)
(* set_trace_state says. With stop signals of third parties they do not.   *)
FSM == INSTANCE TraceFSM
FollowsFSM == FSM!Spec

(* When the traced program exits with status 0, cs-trace ends; with the    *)
(* fetcher, if no threshold made it stop the child and nothing failed.     *)
ExitFinalizes ==
  (FetcherOn => [](fetcher # "sigstop" /\ failed = {})) =>
    (child \in {"zombie", "reaped"} /\ exit_status = "exit0"
       ~> main \in {"done", "crashed"})

(* A child that the fetcher stopped does not stay stopped, if nothing      *)
(* fails.                                                                  *)
ChildResumes ==
  [](failed = {} /\ Undisturbed) => (child = "stopped" ~> child # "stopped")

----------------------------------------------------------------------------
(* What the comments of the code say and the code does not do.             *)

(* "When the child stops, cleans up the trace" (parent): whatever way the  *)
(* traced child ends, the parent stops and finalizes the trace.            *)
EveryExitFinalizes ==
  trace_state = "running" /\ child = "reaped" ~> main \in {"done", "crashed"}

(* "Wait for a suspending trace" after SIGCONT: the resumption of a child  *)
(* that is not killed and does not fail is reported to the fetcher.        *)
ResumeReported ==
  [](exit_status \notin {"signal", "exitN"}) =>
    (fetcher = "wait_resume" ~> trace_event = "resume_event")

(* "Fetch the trace in the buffer" (fini_trace): after the join no trace   *)
(* is left in the ETR, if nothing failed.                                  *)
JoinMeansFetched ==
  FetcherOn /\ failed = {} /\ main = "export" => unread = 0

(* "Shutdown properly if configuration or enable failed": the devices are  *)
(* not used after that.                                                    *)
NoUseAfterShutdown == ~misuse
============================================================================
