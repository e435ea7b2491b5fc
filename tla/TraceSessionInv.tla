-------------------------- MODULE TraceSessionInv --------------------------
(***************************************************************************)
(* The inductive invariant of TraceSession, for every value of its         *)
(* constants: it implies the safety properties stated there.               *)
(***************************************************************************)
EXTENDS TraceSession

Early == {"wait_exec", "init", "start", "enable", "set_running"}
Past  == AfterStop \cup {"ks_disable", "ks_clear", "stop"}

(* The threads and the single trace event between them. start_event is     *)
(* signalled once, with the devices up and the fetcher waiting for it.     *)
ThreadInv ==
  /\ ~FetcherOn => fetcher = "none"
  /\ main \in {"fetch", "fetch_copy"} => ~FetcherOn
  /\ FetcherOn /\ trace_event = "start_event" /\ main # "crashed"
       => lib = "up" /\ main \notin Early \cup {"join", "export", "free",
                                                "shutdown", "done"}
  /\ main \in Early => /\ fetcher \in {"none", "worker"}
                       /\ trace_event = "init_event"
                       /\ trace_state \in {"init", "ready"}
  /\ main \in {"wait_exec", "init"} => trace_state = "init" /\ lib = "none"
  /\ main = "set_running" => lib = "up"
  /\ lib = "up" => trace_state # "init"
  /\ fetcher \in Cycle \cup {"wait_resume"} => trace_event # "start_event"
  /\ main = "crashed" => fetcher \in {"none", "done"}
  /\ trace_event \notin {"resume_event", "ready_event"}
  /\ fetcher \in Active => trace_event # "init_event"
  /\ trace_event \in {"stop_event", "fini_event"}
       => main \in (AfterStop \cup {"crashed"}) \ {"set_ready"}
  /\ trace_event = "start_event" => trace_state = "running"
  /\ trace_state = "fini" => main \in (AfterStop \cup {"crashed"})
                                        \ {"set_ready", "fini"}
  /\ FetcherDevicesUp
  /\ main \in {"export", "free", "shutdown", "done"} => fetcher \in {"done", "none"}

(* trace_mutex is held over two steps by fetch_trace only.                 *)
MutexInv ==
  /\ trace_mutex = "main" <=> main = "fetch_copy"
  /\ trace_mutex = "fetcher" <=> fetcher \in {"copy", "last_copy"}
  /\ fetcher \in {"last_fetch", "last_copy"} => main \in {"fini", "join"}

(* The parent finalizes only for a child that it reaped with status 0.     *)
ReapInv ==
  /\ wstatus = "exit0" => child = "reaped" /\ exit_status = "exit0"
  /\ child = "reaped" => wstatus = exit_status
  /\ child = "forked" => main = "wait_exec"
  /\ child \in {"forked", "zombie", "reaped"}
       => pending = "none" /\ report = "none"
  /\ child \in {"zombie", "reaped"} <=> exit_status # "none"
  /\ main \in Past => wstatus = "exit0"

(* The child is stopped, or it was killed while it was.                    *)
HeldOrKilled == \/ child = "stopped"
                \/ child \in {"zombie", "reaped"} /\ exit_status = "signal"

StopDispatched == main = "dispatch" /\ wstatus = "SIGSTOP"

(* No stop of the child is under way.                                      *)
Quiet == /\ child # "stopped" /\ pending = "none"
         /\ report # "SIGSTOP" /\ ~StopDispatched

(* The way of the fetcher's SIGSTOP: pending, reported, dispatched,        *)
(* signalled; and what the fetcher may rely on at each of its steps.       *)
SuspendInv ==
  Undisturbed =>
    /\ fetcher \in Polling => Quiet
    /\ fetcher = "none" /\ main # "crashed" => Quiet
    /\ fetcher = "worker" /\ trace_event # "suspend_event" => Quiet
    /\ main \in Early => Quiet
    /\ fetcher \in Polling => trace_event # "suspend_event"
    /\ fetcher \in Cycle => trace_event = "suspend_event" /\ HeldOrKilled
    /\ fetcher \in Final => child = "reaped"
    /\ /\ trace_event = "suspend_event"
       /\ fetcher \in Final \cup {"worker", "wait_suspend"}
       => HeldOrKilled
    /\ pending = "SIGSTOP" => /\ fetcher = "wait_suspend"
                              /\ trace_event = "start_event"
                              /\ child # "stopped" /\ report # "SIGSTOP"
                              /\ ~StopDispatched
    /\ report = "SIGSTOP" => /\ fetcher = "wait_suspend"
                             /\ trace_event = "start_event"
                             /\ child = "stopped" /\ ~StopDispatched
    /\ StopDispatched => /\ fetcher = "wait_suspend"
                         /\ trace_event = "start_event"
                         /\ HeldOrKilled

(* The sources never run into disabled sinks while the child can run.      *)
DeviceInv ==
  /\ main \in {"wait_exec", "init", "start", "enable"} => sources = "off"
  /\ Undisturbed =>
       /\ sources = "on" /\ sinks # "on"
            => child \in {"stopped", "zombie", "reaped"}
       /\ fetcher \in {"fetch", "copy", "enable"} => sinks = "off"
       /\ fetcher = "cont" => sinks = "on"

(* The write pointer after an alignment and before the copy.               *)
BufferInv ==
  /\ trace_buf_size % 8 = 0
  /\ trace_mutex # "free" => trace_buf_ptr >= 0
  /\ main \in Early => trace_buf_ptr = 0
  /\ TraceBufInBounds

(* The invariant of every session.                                         *)
IInv == /\ TypeOK /\ ThreadInv /\ MutexInv /\ ReapInv /\ SuspendInv
        /\ DeviceInv /\ BufferInv
        /\ NoByteDropped /\ QuiescentFetch /\ StopIsFinal

----------------------------------------------------------------------------
(* Three more parts. IInv does not rest on them.                           *)

(* ksight is off until its pid is set and from its disable on.             *)
KsightInv ==
  "sysfs" \notin failed =>
    /\ main \in Early \cup {"ks_pid", "ks_clear"} => ks_enable = 0
    /\ main = "ks_enable" => ks_pid = "child"
    /\ KsightScoped

(* What a crash needs does not come about without a failed call: devices   *)
(* shut down early, a trace_buf that is not mapped, a write pointer below  *)
(* it, a fetcher to join that was never created, devices to disable that   *)
(* were never configured. With --verbose no configuration is completed.    *)
CrashInv ==
  /\ lib = "closed" => failed # {} \/ main = "done"
  /\ buf = "failed" => failed # {}
  /\ trace_buf_ptr < 0 => failed # {}
  /\ main = "join" => FetcherOn
  /\ FetcherOn /\ fetcher = "none" /\ main \notin {"wait_exec", "init", "crashed"}
       => failed # {} \/ lib = "none"
  /\ is_first_trace /\ main \notin {"wait_exec", "init", "start", "enable", "crashed"}
       => failed # {} \/ lib = "none"
  /\ registration_verbose > 0 => is_first_trace
  /\ CrashNeedsCause

(* No call has failed and, with the fetcher, nobody else stopped the       *)
(* child.                                                                  *)
Whole == failed = {} /\ (FetcherOn => Undisturbed)

(* What has become of the trace emitted: every byte is in one of five      *)
(* places.                                                                 *)
Conserved == emitted = fetched + discarded + dropped + overwritten + unread

(* Without the fetcher the sinks are on as long as the sources are.        *)
PlainSinksOn ==
  ~FetcherOn /\ failed = {} => (sources = "on" => sinks = "on") /\ dropped = 0

(* No trace arrives between the length that fetch_trace asks for and its   *)
(* copy.                                                                   *)
LengthFresh == Whole /\ trace_mutex # "free" => len = unread

(* After the fetch that the main thread made, or the fetcher's last one,   *)
(* the ETR is empty and stays so.                                          *)
FetchedAll ==
  /\ ~FetcherOn /\ failed = {} /\ main \in {"export", "free", "shutdown", "done"}
       => unread = 0
  /\ last_fetch => child = "reaped" /\ unread = 0

(* Neither a copy nor free_trace_buf discards trace.                       *)
NoneDiscarded ==
  Whole /\ (FetcherOn /\ main \in {"shutdown", "done"} => last_fetch)
    => discarded = 0

(* The write pointer, and then the file, hold what was fetched.            *)
ExportHolds ==
  /\ failed = {} /\ main \notin {"shutdown", "done"} => trace_buf_ptr >= fetched
  /\ failed = {} /\ main \in {"free", "shutdown", "done"} => exported >= fetched

AccountInv == /\ Conserved /\ PlainSinksOn /\ LengthFresh /\ FetchedAll
              /\ NoneDiscarded /\ ExportHolds

(* The whole inductive invariant: what the two threads, the child and the  *)
(* devices keep true of each other in every session.                       *)
SessionInv == IInv /\ KsightInv /\ CrashInv /\ AccountInv
============================================================================
