----------------------- MODULE TraceSessionDataProofs -----------------------
(***************************************************************************)
(* Proofs, for every value of the constants, of the properties of          *)
(* TraceSession that are about ksight's scope, about what a crash needs    *)
(* and about where the trace goes: KsightInv, CrashInv and AccountInv of   *)
(* TraceSessionInv are inductive relative to IInv.                         *)
(***************************************************************************)
EXTENDS TraceSessionProofs

USE FlagsAssumption, SizesAssumption, BoundsAssumption
USE DEF vars, ctlVars, childVars, devVars, etrVars, bufVars, ksVars, dataVars,
        noteVars, boardVars, fetcherFrame, childFrame

USE DEF SetTraceState, EventFor, Fails, AfterStart, CallbackState, ExitSeen,
        ExportLen, ExportFaults, EnableSucceeds, EnableFails, DisableSucceeds,
        DisableFails, EnableAborts, EnableFatal, DisableAborts, DisableFatal,
        Aborts, NoteMisuse, UseAfterShutdown, ProcessCrash, SetTracedPid,
        SetEnable, Continue, Awaited, AfterWait

----------------------------------------------------------------------------
(* A call that has failed stays recorded: failed only grows.               *)
LEMMA FailuresStay ==
  ASSUME Next
  PROVE  failed \subseteq failed'
<1>1. CASE MainWaitExec \/ MainInitTrace \/ MainStartTrace \/ MainEnable \/
          MainSetRunning \/ MainKsight \/ MainDetach \/ MainWait \/
          MainDispatch \/ MainStopTrace \/ MainSetReady \/ MainFini \/
          MainJoin \/ MainFetchBegin \/ MainFetchCopy \/ MainExport \/
          MainFree \/ MainShutdown
  BY <1>1 DEF MainWaitExec, MainInitTrace, MainStartTrace, MainEnable,
    MainSetRunning, MainKsight, MainDetach, MainWait, MainDispatch,
    MainStopTrace, MainSetReady, MainFini, MainJoin, MainFetchBegin,
    MainFetchCopy, MainExport, MainFree, MainShutdown, FetchBegin,
    FetchFaults, FetchGrow, FetchGrowFails, FetchRead
<1>2. CASE FetcherWorker \/ FetcherInitPos \/ FetcherPoll \/ FetcherCompare
          \/ FetcherSigstop \/ FetcherAwait \/ FetcherDisable \/
          FetcherFetchBegin \/ FetcherFetchCopy \/ FetcherEnable \/
          FetcherCont \/ FetcherKilled
  BY <1>2 DEF FetcherWorker, FetcherInitPos, FetcherPoll, FetcherCompare,
    FetcherSigstop, FetcherAwait, FetcherDisable, FetcherFetchBegin,
    FetcherFetchCopy, FetcherEnable, FetcherCont, FetcherKilled, FetchBegin,
    FetchFaults, FetchGrow, FetchGrowFails, FetchRead
<1>3. CASE ChildExec \/ ChildEmit \/ ChildStop \/ ChildEnd \/ JobSignal \/
          Terminated
  BY <1>3 DEF ChildExec, ChildEmit, ChildStop, ChildEnd, JobSignal,
    Terminated
<1> QED  BY <1>1, <1>2, <1>3 DEF Next, MainNext, FetcherNext, ChildNext

----------------------------------------------------------------------------
(* ksight.                                                                 *)

(* Every step preserves KsightInv: only the parent writes ksight's         *)
(* attributes, the pid before the first enable and after the last disable. *)
LEMMA KsightInvStep ==
  ASSUME KsightInv, Next
  PROVE  KsightInv'
<1> USE DEF KsightInv, KsightScoped, Early
<1>1. failed \subseteq failed'
  BY FailuresStay
<1>2. CASE MainKsight           BY <1>1, <1>2 DEF MainKsight
<1>3. CASE MainWaitExec \/ MainInitTrace \/ MainStartTrace \/ MainEnable \/
          MainSetRunning \/ MainDetach \/ MainWait \/
          MainDispatch \/ MainStopTrace \/ MainSetReady \/ MainFini \/
          MainJoin \/ MainFetchBegin \/ MainFetchCopy \/ MainExport \/
          MainFree \/ MainShutdown
  BY <1>1, <1>3 DEF MainWaitExec, MainInitTrace, MainStartTrace, MainEnable,
    MainSetRunning, MainDetach, MainWait, MainDispatch,
    MainStopTrace, MainSetReady, MainFini, MainJoin, MainFetchBegin,
    MainFetchCopy, MainExport, MainFree, MainShutdown, FetchFaults
<1>4. CASE FetcherWorker \/ FetcherInitPos \/ FetcherPoll \/ FetcherCompare
          \/ FetcherSigstop \/ FetcherAwait \/ FetcherDisable \/
          FetcherFetchBegin \/ FetcherFetchCopy \/ FetcherEnable \/
          FetcherCont \/ FetcherKilled
  BY <1>1, <1>4 DEF FetcherWorker, FetcherInitPos, FetcherPoll,
    FetcherCompare, FetcherSigstop, FetcherAwait, FetcherDisable,
    FetcherFetchBegin, FetcherFetchCopy, FetcherEnable, FetcherCont,
    FetcherKilled, FetchFaults
<1>5. CASE ChildExec \/ ChildEmit \/ ChildStop \/ ChildEnd \/ JobSignal \/
          Terminated
  BY <1>5 DEF ChildExec, ChildEmit, ChildStop, ChildEnd, JobSignal,
    Terminated
<1> QED  BY <1>2, <1>3, <1>4, <1>5 DEF Next, MainNext, FetcherNext, ChildNext

----------------------------------------------------------------------------
(* Crashes.                                                                *)

(* Aligning the write pointer never moves it back.                         *)
LEMMA AlignUpward ==
  ASSUME NEW x \in Int
  PROVE  AlignUp8(x) >= x
  BY DEF AlignUp8

(* The start of fetch_trace leaves the write pointer at an offset of the   *)
(* buffer, not before where it was.                                        *)
LEMMA BeginPointer ==
  ASSUME DataTypes, BufferInv,
         NEW t \in {"main", "fetcher"}, FetchBegin(t)
  PROVE  trace_buf_ptr' \in Nat /\ trace_buf_ptr' >= trace_buf_ptr
<1>1. trace_buf_ptr' = AlignUp8(trace_buf_ptr)
  BY DEF FetchBegin
<1>2. /\ trace_buf_size \in Int /\ trace_buf_size % 8 = 0
      /\ trace_buf_ptr \in Int
      /\ trace_buf_ptr >= -1 /\ trace_buf_ptr <= trace_buf_size
  BY DEF DataTypes, BufferInv, TraceBufInBounds
<1>3. AlignUp8(trace_buf_ptr) \in Nat
  BY <1>2, AlignInBuffer
<1>4. AlignUp8(trace_buf_ptr) >= trace_buf_ptr
  BY <1>2, AlignUpward
<1> QED  BY <1>1, <1>3, <1>4

(* The copy of fetch_trace leaves a pointer below the buffer only when     *)
(* reading the ETR failed.                                                 *)
LEMMA CopyPointer ==
  ASSUME DataTypes, BufferInv,
         NEW t \in {"main", "fetcher"}, FetchRead(t)
  PROVE  trace_buf_ptr' < 0 => failed' # {}
<1>1. trace_mutex # "free"
  BY DEF FetchRead
<1>2. PICK n \in ReadResults(Lesser(unread, BufRemain)) :
         /\ failed' = IF n < Lesser(unread, BufRemain)
                      THEN failed \cup {"read"} ELSE failed
         /\ trace_buf_ptr' = trace_buf_ptr + n
  BY DEF FetchRead
<1>3. n \in Int /\ n >= -1 /\ n <= Lesser(unread, BufRemain)
  BY <1>1, <1>2, CopyBound, ReadBound
<1>4. CASE n >= 0
  BY <1>1, <1>2, <1>3, <1>4 DEF BufferInv, DataTypes
<1>5. CASE n = -1
  BY <1>1, <1>2, <1>5, CopyBound
<1> QED  BY <1>3, <1>4, <1>5

(* Every step preserves CrashInv: each of the ways to crash needs          *)
(* something that only a failed call brings about, but for the abort of    *)
(* the first enable_cs_trace. The same --verbose ends stop_trace(true) as  *)
(* well, which is reached only after a start_trace that had failed before. *)
LEMMA CrashInvStep ==
  ASSUME CrashInv, IInv, Next
  PROVE  CrashInv'
<1> USE DEF CrashInv, CrashNeedsCause
<1>1. failed \subseteq failed' /\ UNCHANGED <<etm, registration_verbose>>
  BY FailuresStay, BoardStays
<1>2. trace_buf_ptr \in Int /\ DataTypes /\ BufferInv
  BY DEF IInv, TypeOK, DataTypes
<1>3. /\ ~FetcherOn => fetcher = "none"
      /\ main \in {"fetch", "fetch_copy"} => ~FetcherOn
      /\ main \in {"wait_exec", "init"} => lib = "none"
      /\ main = "crashed" => fetcher \in {"none", "done"}
      /\ main \in {"export", "free", "shutdown", "done"}
           => fetcher \in {"done", "none"}
  BY DEF IInv, ThreadInv
<1>4. CASE MainWaitExec         BY <1>1, <1>3, <1>4 DEF MainWaitExec
<1>5. CASE MainInitTrace        BY <1>1, <1>3, <1>5 DEF MainInitTrace
<1>6. CASE MainStartTrace       BY <1>1, <1>3, <1>6 DEF MainStartTrace
<1>7. CASE MainEnable           BY <1>1, <1>3, <1>7 DEF MainEnable
<1>8. CASE MainStopTrace
  <2>1. CASE lib = "up" /\ lib' = "aborted"
    <3>1. /\ registration_verbose > 1 \/ is_first_trace
          /\ main = "stop"
          /\ UNCHANGED <<failed, buf, trace_buf_ptr, is_first_trace>>
          /\ main' = "crashed"
      BY <1>8, <2>1 DEF MainStopTrace
    <3>2. registration_verbose > 1 => registration_verbose > 0
      BY DEF IInv, TypeOK, ControlTypes
    <3>3. failed # {}
      BY <2>1, <3>1, <3>2
    <3> QED  BY <1>1, <2>1, <3>1, <3>3
  <2>2. CASE ~(lib = "up" /\ lib' = "aborted")
    BY <1>1, <1>3, <1>8, <2>2 DEF MainStopTrace
  <2> QED  BY <2>1, <2>2
<1>9. CASE MainJoin             BY <1>1, <1>3, <1>9 DEF MainJoin
<1>10. CASE MainFetchBegin
  <2>1. CASE lib = "up" /\ FetchBegin("main") /\ main' = "fetch_copy"
               /\ UNCHANGED <<fetcher, failed, misuse>>
    <3>1. trace_buf_ptr' \in Nat
      BY <1>2, <2>1, BeginPointer
    <3> QED  BY <1>1, <1>2, <1>3, <1>10, <2>1, <3>1 DEF MainFetchBegin, FetchBegin
  <2>2. CASE UNCHANGED bufVars
    BY <1>1, <1>3, <1>10, <2>2 DEF MainFetchBegin, FetchFaults
  <2> QED  BY <1>10, <2>1, <2>2 DEF MainFetchBegin
<1>11. CASE MainFetchCopy
  <2>1. CASE FetchGrow("main") /\ UNCHANGED main
    BY <1>1, <1>3, <1>11, <2>1 DEF MainFetchCopy, FetchGrow
  <2>2. CASE FetchGrowFails("main") /\ main' = "export"
    BY <1>1, <1>3, <1>11, <2>2 DEF MainFetchCopy, FetchGrowFails
  <2>3. CASE FetchRead("main") /\ main' = "export"
    <3>1. trace_buf_ptr' < 0 => failed' # {}
      BY <1>2, <2>3, CopyPointer
    <3>2. UNCHANGED <<buf, lib, is_first_trace, fetcher>> /\ main = "fetch_copy"
      BY <1>11, <2>3 DEF MainFetchCopy, FetchRead
    <3> QED  BY <1>1, <1>3, <2>3, <3>1, <3>2
  <2> QED  BY <1>11, <2>1, <2>2, <2>3 DEF MainFetchCopy
<1>12. CASE MainExport          BY <1>1, <1>2, <1>3, <1>12 DEF MainExport
<1>13. CASE MainFree            BY <1>1, <1>3, <1>13 DEF MainFree
<1>14. CASE MainShutdown        BY <1>1, <1>3, <1>14 DEF MainShutdown
<1>15. CASE MainSetRunning \/ MainKsight \/ MainDetach \/ MainWait \/
          MainDispatch \/ MainSetReady \/ MainFini
  BY <1>1, <1>3, <1>15 DEF MainSetRunning, MainKsight, MainDetach, MainWait,
    MainDispatch, MainSetReady, MainFini
<1>16. CASE FetcherDisable      BY <1>1, <1>3, <1>16 DEF FetcherDisable
<1>17. CASE FetcherFetchBegin
  <2>1. CASE FetchBegin("fetcher") /\ UNCHANGED main
    <3>1. trace_buf_ptr' \in Nat
      BY <1>2, <2>1, BeginPointer
    <3>2. fetcher # "none" /\ UNCHANGED <<main, lib, is_first_trace, buf, failed>>
      BY <1>17, <2>1 DEF FetcherFetchBegin, FetchBegin
    <3>3. fetcher' # "none"
      BY <1>17, <2>1 DEF FetcherFetchBegin, FetchBegin, FetchFaults
    <3> QED  BY <1>1, <1>2, <3>1, <3>2, <3>3
  <2>2. CASE FetchFaults /\ UNCHANGED <<trace_mutex, bufVars>>
    BY <1>1, <1>3, <1>17, <2>2 DEF FetcherFetchBegin, FetchFaults
  <2> QED  BY <1>17, <2>1, <2>2 DEF FetcherFetchBegin
<1>18. CASE FetcherFetchCopy
  <2>1. CASE FetchGrow("fetcher") /\ UNCHANGED fetcher
    BY <1>1, <1>3, <1>18, <2>1 DEF FetcherFetchCopy, FetchGrow
  <2>2. CASE FetchGrowFails("fetcher") /\ fetcher' = "worker"
    BY <1>1, <1>3, <1>18, <2>2 DEF FetcherFetchCopy, FetchGrowFails
  <2>3. CASE FetchRead("fetcher") /\ fetcher' \in {"enable", "worker"}
    <3>1. trace_buf_ptr' < 0 => failed' # {}
      BY <1>2, <2>3, CopyPointer
    <3>2. UNCHANGED <<main, buf, lib, is_first_trace>>
      BY <1>18, <2>3 DEF FetcherFetchCopy, FetchRead
    <3> QED  BY <1>1, <1>3, <2>3, <3>1, <3>2
  <2> QED  BY <1>18, <2>1, <2>2, <2>3 DEF FetcherFetchCopy
<1>19. CASE FetcherEnable       BY <1>1, <1>3, <1>19 DEF FetcherEnable
<1>20. CASE FetcherWorker \/ FetcherInitPos \/ FetcherPoll \/ FetcherCompare
          \/ FetcherSigstop \/ FetcherAwait \/ FetcherCont \/ FetcherKilled
  BY <1>1, <1>3, <1>20 DEF FetcherWorker, FetcherInitPos, FetcherPoll,
    FetcherCompare, FetcherSigstop, FetcherAwait, FetcherCont, FetcherKilled
<1>21. CASE ChildExec \/ ChildEmit \/ ChildStop \/ ChildEnd \/ JobSignal \/
          Terminated
  BY <1>1, <1>21 DEF ChildExec, ChildEmit, ChildStop, ChildEnd, JobSignal,
    Terminated
<1> QED  BY <1>4, <1>5, <1>6, <1>7, <1>8, <1>9, <1>10, <1>11, <1>12, <1>13,
         <1>14, <1>15, <1>16, <1>17, <1>18, <1>19, <1>20, <1>21 DEF Next,
         MainNext, FetcherNext, ChildNext

----------------------------------------------------------------------------
(* Where the trace goes.                                                   *)

(* The copy of fetch_trace takes every byte out of the ETR. If reading did *)
(* not fail the write pointer moves by what was fetched, and none is       *)
(* discarded when the length asked for is what is unread.                  *)
LEMMA CopyAccount ==
  ASSUME DataTypes, BufferInv,
         NEW t \in {"main", "fetcher"}, FetchRead(t)
  PROVE  /\ fetched' + discarded' = fetched + discarded + unread
         /\ unread' = 0
         /\ failed' = {} => /\ trace_buf_ptr' - trace_buf_ptr = fetched' - fetched
                            /\ len = unread => discarded' = discarded
<1>1. trace_mutex # "free" /\ unread' = 0 /\ ~NeedsGrowth
  BY DEF FetchRead
<1>2. PICK n \in ReadResults(Lesser(unread, BufRemain)) :
         /\ failed' = IF n < Lesser(unread, BufRemain)
                      THEN failed \cup {"read"} ELSE failed
         /\ trace_buf_ptr' = trace_buf_ptr + n
         /\ fetched' = fetched + AtLeast0(n)
         /\ discarded' = discarded + (unread - AtLeast0(n))
  BY DEF FetchRead
<1>3. n \in Int /\ n >= -1 /\ n <= Lesser(unread, BufRemain)
  BY <1>1, <1>2, CopyBound, ReadBound
<1>4. AtLeast0(n) \in Nat
  BY <1>3 DEF AtLeast0
<1>5. fetched' + discarded' = fetched + discarded + unread
  BY <1>2, <1>4 DEF DataTypes
<1>6. ASSUME failed' = {}
      PROVE  /\ trace_buf_ptr' - trace_buf_ptr = fetched' - fetched
             /\ len = unread => discarded' = discarded
  <2>1. n = Lesser(unread, BufRemain)
    BY <1>1, <1>2, <1>3, <1>6, CopyBound
  <2>2. AtLeast0(n) = n
    BY <1>1, <2>1, CopyBound DEF AtLeast0
  <2>3. len = unread => n = unread
    BY <1>1, <2>1 DEF NeedsGrowth, Lesser, BufRemain, DataTypes
  <2> QED  BY <1>2, <1>3, <2>2, <2>3 DEF DataTypes
<1> QED  BY <1>1, <1>5, <1>6

(* Every step accounts for every byte: emitted trace enters the ETR, over  *)
(* older trace or not, or is dropped; a fetch or free_trace_buf takes all  *)
(* of it out.                                                              *)
LEMMA ConservedStep ==
  ASSUME Conserved, DataTypes, BufferInv, Next
  PROVE  Conserved'
<1> USE DEF Conserved
<1>1. CASE MainFetchCopy
  <2>1. CASE UNCHANGED <<etrVars, dataVars>>
    BY <2>1
  <2>2. CASE FetchRead("main")
    <3>1. UNCHANGED <<emitted, dropped, overwritten>>
      BY <2>2 DEF FetchRead
    <3> QED  BY <2>2, <3>1, CopyAccount, CopyEffect DEF DataTypes
  <2> QED  BY <1>1, <2>1, <2>2 DEF MainFetchCopy
<1>2. CASE FetcherFetchCopy
  <2>1. CASE UNCHANGED <<etrVars, dataVars>>
    BY <2>1
  <2>2. CASE FetchRead("fetcher")
    <3>1. UNCHANGED <<emitted, dropped, overwritten>>
      BY <2>2 DEF FetchRead
    <3> QED  BY <2>2, <3>1, CopyAccount, CopyEffect DEF DataTypes
  <2> QED  BY <1>2, <2>1, <2>2 DEF FetcherFetchCopy
<1>3. CASE MainFree             BY <1>3 DEF MainFree, DataTypes
<1>4. CASE ChildEmit
  <2>1. Lesser(unread + Word, EtrRamSize) \in Int
    BY DEF DataTypes, Lesser
  <2> QED  BY <1>4, <2>1 DEF ChildEmit, DataTypes
<1>5. CASE MainWaitExec \/ MainInitTrace \/ MainStartTrace \/ MainEnable \/
          MainSetRunning \/ MainKsight \/ MainDetach \/ MainWait \/
          MainDispatch \/ MainStopTrace \/ MainSetReady \/ MainFini \/
          MainJoin \/ MainFetchBegin \/ MainExport \/ MainShutdown
  BY <1>5 DEF MainWaitExec, MainInitTrace, MainStartTrace, MainEnable,
    MainSetRunning, MainKsight, MainDetach, MainWait, MainDispatch,
    MainStopTrace, MainSetReady, MainFini, MainJoin, MainFetchBegin,
    MainExport, MainShutdown, FetchBegin, FetchFaults
<1>6. CASE FetcherWorker \/ FetcherInitPos \/ FetcherPoll \/ FetcherCompare
          \/ FetcherSigstop \/ FetcherAwait \/ FetcherDisable \/
          FetcherFetchBegin \/ FetcherEnable \/ FetcherCont \/
          FetcherKilled
  BY <1>6 DEF FetcherWorker, FetcherInitPos, FetcherPoll, FetcherCompare,
    FetcherSigstop, FetcherAwait, FetcherDisable, FetcherFetchBegin,
    FetcherEnable, FetcherCont, FetcherKilled, FetchBegin, FetchFaults
<1>7. CASE ChildExec \/ ChildStop \/ ChildEnd \/ JobSignal \/ Terminated
  BY <1>7 DEF ChildExec, ChildStop, ChildEnd, JobSignal, Terminated
<1> QED  BY <1>1, <1>2, <1>3, <1>4, <1>5, <1>6, <1>7 DEF Next, MainNext,
         FetcherNext, ChildNext

(* Without the fetcher, and as long as no call fails, the sinks are on     *)
(* whenever the sources are, so that nothing is dropped.                   *)
LEMMA PlainSinksOnStep ==
  ASSUME PlainSinksOn, ~FetcherOn => fetcher = "none", Next
  PROVE  PlainSinksOn'
<1> USE DEF PlainSinksOn
<1>1. failed \subseteq failed'
  BY FailuresStay
<1>2. CASE MainWaitExec \/ MainInitTrace \/ MainStartTrace \/ MainEnable \/
          MainSetRunning \/ MainKsight \/ MainDetach \/ MainWait \/
          MainDispatch \/ MainStopTrace \/ MainSetReady \/ MainFini \/
          MainJoin \/ MainFetchBegin \/ MainFetchCopy \/ MainExport \/
          MainFree \/ MainShutdown
  BY <1>1, <1>2 DEF MainWaitExec, MainInitTrace, MainStartTrace,
    MainEnable, MainSetRunning, MainKsight, MainDetach, MainWait,
    MainDispatch, MainStopTrace, MainSetReady, MainFini, MainJoin,
    MainFetchBegin, MainFetchCopy, MainExport, MainFree, MainShutdown,
    FetchBegin, FetchFaults, FetchGrow, FetchGrowFails, FetchRead
<1>3. CASE FetcherWorker \/ FetcherInitPos \/ FetcherPoll \/ FetcherCompare
          \/ FetcherSigstop \/ FetcherAwait \/ FetcherDisable \/
          FetcherFetchBegin \/ FetcherFetchCopy \/ FetcherEnable \/
          FetcherCont \/ FetcherKilled
  BY <1>1, <1>3 DEF FetcherWorker, FetcherInitPos, FetcherPoll,
    FetcherCompare, FetcherSigstop, FetcherAwait, FetcherDisable,
    FetcherFetchBegin, FetcherFetchCopy, FetcherEnable, FetcherCont,
    FetcherKilled, FetchBegin, FetchFaults, FetchGrow, FetchGrowFails,
    FetchRead
<1>4. CASE ChildExec \/ ChildEmit \/ ChildStop \/ ChildEnd \/ JobSignal \/
          Terminated
  BY <1>1, <1>4 DEF ChildExec, ChildEmit, ChildStop, ChildEnd, JobSignal,
    Terminated
<1> QED  BY <1>2, <1>3, <1>4 DEF Next, MainNext, FetcherNext, ChildNext

(* The child does not run while fetch_trace holds trace_mutex, if only the *)
(* fetcher stops and continues it.                                         *)
LEMMA ChildRestsInFetch ==
  ASSUME IInv, FetcherOn => Undisturbed, trace_mutex # "free"
  PROVE  child # "running"
<1>1. CASE trace_mutex = "main"
  BY <1>1 DEF IInv, MutexInv, ReapInv, Past, AfterStop
<1>2. CASE trace_mutex = "fetcher"
  <2>1. fetcher \in {"copy", "last_copy"} /\ FetcherOn
    BY <1>2 DEF IInv, MutexInv, ThreadInv
  <2>2. CASE fetcher = "copy"
    BY <2>1, <2>2 DEF IInv, SuspendInv, Cycle, HeldOrKilled
  <2>3. CASE fetcher = "last_copy"
    BY <2>3 DEF IInv, MutexInv, ReapInv, Past, AfterStop
  <2> QED  BY <2>1, <2>2, <2>3
<1> QED  BY <1>1, <1>2 DEF IInv, TypeOK, ControlTypes

(* A step that leaves a session whole started from a whole one.            *)
LEMMA WholeBefore ==
  ASSUME ChildTypes, Next, Whole'
  PROVE  Whole
<1>1. failed = {}
  BY FailuresStay DEF Whole
<1>2. job_signals \in Nat
  BY DEF ChildTypes
<1>3. job_signals' = job_signals \/ job_signals' = job_signals + 1
  BY DEF Next, MainNext, FetcherNext, ChildNext, MainWaitExec,
    MainInitTrace, MainStartTrace, MainEnable, MainSetRunning, MainKsight,
    MainDetach, MainWait, MainDispatch, MainStopTrace, MainSetReady,
    MainFini, MainJoin, MainFetchBegin, MainFetchCopy, MainExport,
    MainFree, MainShutdown, FetcherWorker, FetcherInitPos, FetcherPoll,
    FetcherCompare, FetcherSigstop, FetcherAwait, FetcherDisable,
    FetcherFetchBegin, FetcherFetchCopy, FetcherEnable, FetcherCont,
    FetcherKilled, ChildExec, ChildEmit, ChildStop, ChildEnd, JobSignal,
    Terminated
<1> QED  BY <1>1, <1>2, <1>3 DEF Whole, Undisturbed

(* Every step preserves LengthFresh: while the mutex is held only the      *)
(* child could change what is unread.                                      *)
LEMMA LengthFreshStep ==
  ASSUME LengthFresh, IInv, Next
  PROVE  LengthFresh'
<1> SUFFICES ASSUME Whole', trace_mutex' # "free"
             PROVE  len' = unread'
  BY DEF LengthFresh
<1>1. Whole
  BY WholeBefore DEF IInv, TypeOK
<1>2. trace_mutex # "free" => len = unread /\ child # "running"
  BY <1>1, ChildRestsInFetch DEF LengthFresh, Whole
<1>3. main = "free" => trace_mutex = "free"
  BY DEF IInv, MutexInv, ThreadInv, TypeOK, ControlTypes
<1>4. CASE MainWaitExec \/ MainInitTrace \/ MainStartTrace \/ MainEnable \/
          MainSetRunning \/ MainKsight \/ MainDetach \/ MainWait \/
          MainDispatch \/ MainStopTrace \/ MainSetReady \/ MainFini \/
          MainJoin \/ MainFetchBegin \/ MainFetchCopy \/ MainExport \/
          MainFree \/ MainShutdown
  BY <1>2, <1>3, <1>4 DEF MainWaitExec, MainInitTrace, MainStartTrace,
    MainEnable, MainSetRunning, MainKsight, MainDetach, MainWait,
    MainDispatch, MainStopTrace, MainSetReady, MainFini, MainJoin,
    MainFetchBegin, MainFetchCopy, MainExport, MainFree, MainShutdown,
    FetchBegin, FetchFaults, FetchGrow, FetchGrowFails, FetchRead
<1>5. CASE FetcherWorker \/ FetcherInitPos \/ FetcherPoll \/ FetcherCompare
          \/ FetcherSigstop \/ FetcherAwait \/ FetcherDisable \/
          FetcherFetchBegin \/ FetcherFetchCopy \/ FetcherEnable \/
          FetcherCont \/ FetcherKilled
  BY <1>2, <1>3, <1>5 DEF FetcherWorker, FetcherInitPos, FetcherPoll,
    FetcherCompare, FetcherSigstop, FetcherAwait, FetcherDisable,
    FetcherFetchBegin, FetcherFetchCopy, FetcherEnable, FetcherCont,
    FetcherKilled, FetchBegin, FetchFaults, FetchGrow, FetchGrowFails,
    FetchRead
<1>6. CASE ChildExec \/ ChildEmit \/ ChildStop \/ ChildEnd \/ JobSignal \/
          Terminated
  BY <1>2, <1>3, <1>6 DEF ChildExec, ChildEmit, ChildStop, ChildEnd,
    JobSignal, Terminated
<1> QED  BY <1>4, <1>5, <1>6 DEF Next, MainNext, FetcherNext, ChildNext

(* Every step preserves FetchedAll: the fetches that it is about are made  *)
(* after the child was reaped.                                             *)
LEMMA FetchedAllStep ==
  ASSUME FetchedAll, CrashInv, IInv, Next
  PROVE  FetchedAll'
<1> USE DEF FetchedAll
<1>1. failed \subseteq failed'
  BY FailuresStay
<1>2. main \in Past => child = "reaped"
  BY DEF IInv, ReapInv
<1>3. /\ ~FetcherOn => fetcher = "none"
      /\ fetcher = "last_copy" => child = "reaped"
  BY DEF IInv, ThreadInv, MutexInv, ReapInv, Past, AfterStop
<1>4. lib = "closed" => failed # {} \/ main = "done"
  BY DEF CrashInv
<1>5. main = "join" => FetcherOn
  BY DEF CrashInv
<1>6. CASE FetcherFetchCopy
  <2>1. CASE UNCHANGED <<etrVars, dataVars, last_fetch>>
    BY <1>1, <1>3, <1>6, <2>1 DEF FetcherFetchCopy
  <2>2. CASE FetchRead("fetcher") /\ last_fetch' = (fetcher = "last_copy")
    <3>1. unread' = 0 /\ UNCHANGED <<main, child>>
      BY <1>6, <2>2 DEF FetcherFetchCopy, FetchRead
    <3>2. last_fetch' => child' = "reaped"
      BY <1>3, <2>2, <3>1
    <3> QED  BY <3>1, <3>2
  <2> QED  BY <1>6, <2>1, <2>2 DEF FetcherFetchCopy
<1>7. CASE MainWaitExec \/ MainInitTrace \/ MainStartTrace \/ MainEnable \/
          MainSetRunning \/ MainKsight \/ MainDetach \/ MainWait \/
          MainDispatch \/ MainStopTrace \/ MainSetReady \/ MainFini \/
          MainJoin \/ MainFetchBegin \/ MainFetchCopy \/ MainExport \/
          MainFree \/ MainShutdown
  BY <1>1, <1>2, <1>3, <1>4, <1>5, <1>7 DEF MainWaitExec, MainInitTrace,
    MainStartTrace, MainEnable, MainSetRunning, MainKsight, MainDetach,
    MainWait, MainDispatch, MainStopTrace, MainSetReady, MainFini,
    MainJoin, MainFetchBegin, MainFetchCopy, MainExport, MainFree,
    MainShutdown, FetchBegin, FetchFaults, FetchGrow, FetchGrowFails,
    FetchRead, Past, AfterStop
<1>8. CASE FetcherWorker \/ FetcherInitPos \/ FetcherPoll \/ FetcherCompare
          \/ FetcherSigstop \/ FetcherAwait \/ FetcherDisable \/
          FetcherFetchBegin \/ FetcherEnable \/ FetcherCont \/
          FetcherKilled
  BY <1>1, <1>2, <1>3, <1>4, <1>5, <1>8 DEF FetcherWorker, FetcherInitPos,
    FetcherPoll, FetcherCompare, FetcherSigstop, FetcherAwait,
    FetcherDisable, FetcherFetchBegin, FetcherEnable, FetcherCont,
    FetcherKilled, FetchBegin, FetchFaults, Past, AfterStop
<1>9. CASE ChildExec \/ ChildEmit \/ ChildStop \/ ChildEnd \/ JobSignal \/
          Terminated
  BY <1>1, <1>2, <1>3, <1>4, <1>5, <1>9 DEF ChildExec, ChildEmit,
    ChildStop, ChildEnd, JobSignal, Terminated, Past, AfterStop
<1> QED  BY <1>6, <1>7, <1>8, <1>9 DEF Next, MainNext, FetcherNext,
         ChildNext

(* Every step preserves NoneDiscarded: a copy takes the length that was    *)
(* asked for, and free_trace_buf finds the ETR empty.                      *)
LEMMA NoneDiscardedStep ==
  ASSUME NoneDiscarded, FetchedAll, LengthFresh, IInv, Next
  PROVE  NoneDiscarded'
<1> SUFFICES ASSUME Whole',
                    FetcherOn /\ main' \in {"shutdown", "done"} => last_fetch'
             PROVE  discarded' = 0
  BY DEF NoneDiscarded
<1>1. Whole /\ failed = {} /\ failed' = {}
  BY WholeBefore DEF IInv, TypeOK, Whole
<1>2. main \in {"shutdown", "done"} => fetcher \in {"done", "none"}
  BY DEF IInv, ThreadInv
<1>3. main \in {"shutdown", "done"}
        => main' \in {"shutdown", "done"} /\ UNCHANGED last_fetch
  BY <1>2 DEF Next, MainNext, FetcherNext, ChildNext, MainWaitExec,
    MainInitTrace, MainStartTrace, MainEnable, MainSetRunning, MainKsight,
    MainDetach, MainWait, MainDispatch, MainStopTrace, MainSetReady,
    MainFini, MainJoin, MainFetchBegin, MainFetchCopy, MainExport,
    MainFree, MainShutdown, FetcherWorker, FetcherInitPos, FetcherPoll,
    FetcherCompare, FetcherSigstop, FetcherAwait, FetcherDisable,
    FetcherFetchBegin, FetcherFetchCopy, FetcherEnable, FetcherCont,
    FetcherKilled, ChildExec, ChildEmit, ChildStop, ChildEnd, JobSignal,
    Terminated
<1>4. discarded = 0
  BY <1>1, <1>3 DEF NoneDiscarded
<1>5. DataTypes /\ BufferInv
  BY DEF IInv, TypeOK
<1>6. CASE MainFetchCopy
  <2>1. CASE UNCHANGED dataVars
    BY <1>4, <2>1
  <2>2. CASE FetchRead("main")
    <3>1. len = unread
      BY <1>1, <2>2 DEF LengthFresh, FetchRead
    <3> QED  BY <1>1, <1>4, <1>5, <2>2, <3>1, CopyAccount
  <2> QED  BY <1>6, <2>1, <2>2 DEF MainFetchCopy
<1>7. CASE FetcherFetchCopy
  <2>1. CASE UNCHANGED dataVars
    BY <1>4, <2>1
  <2>2. CASE FetchRead("fetcher")
    <3>1. len = unread
      BY <1>1, <2>2 DEF LengthFresh, FetchRead
    <3> QED  BY <1>1, <1>4, <1>5, <2>2, <3>1, CopyAccount
  <2> QED  BY <1>7, <2>1, <2>2 DEF FetcherFetchCopy
<1>8. CASE MainFree
  <2>1. CASE main' = "shutdown" /\ discarded' \in {discarded, discarded + unread}
    <3>1. FetcherOn => last_fetch
      BY <1>8, <2>1 DEF MainFree
    <3>2. unread = 0
      BY <1>1, <1>8, <3>1 DEF FetchedAll, MainFree
    <3> QED  BY <1>4, <2>1, <3>2
  <2>2. CASE UNCHANGED discarded
    BY <1>4, <2>2
  <2> QED  BY <1>8, <2>1, <2>2 DEF MainFree
<1>9. CASE MainWaitExec \/ MainInitTrace \/ MainStartTrace \/ MainEnable \/
          MainSetRunning \/ MainKsight \/ MainDetach \/ MainWait \/
          MainDispatch \/ MainStopTrace \/ MainSetReady \/ MainFini \/
          MainJoin \/ MainFetchBegin \/ MainExport \/ MainShutdown
  BY <1>4, <1>9 DEF MainWaitExec, MainInitTrace, MainStartTrace,
    MainEnable, MainSetRunning, MainKsight, MainDetach, MainWait,
    MainDispatch, MainStopTrace, MainSetReady, MainFini, MainJoin,
    MainFetchBegin, MainExport, MainShutdown, FetchBegin, FetchFaults
<1>10. CASE FetcherWorker \/ FetcherInitPos \/ FetcherPoll \/
          FetcherCompare \/ FetcherSigstop \/ FetcherAwait \/
          FetcherDisable \/ FetcherFetchBegin \/ FetcherEnable \/
          FetcherCont \/ FetcherKilled
  BY <1>4, <1>10 DEF FetcherWorker, FetcherInitPos, FetcherPoll,
    FetcherCompare, FetcherSigstop, FetcherAwait, FetcherDisable,
    FetcherFetchBegin, FetcherEnable, FetcherCont, FetcherKilled,
    FetchBegin, FetchFaults
<1>11. CASE ChildExec \/ ChildEmit \/ ChildStop \/ ChildEnd \/ JobSignal \/
          Terminated
  BY <1>4, <1>11 DEF ChildExec, ChildEmit, ChildStop, ChildEnd, JobSignal,
    Terminated
<1> QED  BY <1>6, <1>7, <1>8, <1>9, <1>10, <1>11 DEF Next, MainNext,
         FetcherNext, ChildNext

(* Every step preserves ExportHolds: alignment only moves the write        *)
(* pointer up, a copy moves it by what it fetched, and export_trace writes *)
(* the file up to it.                                                      *)
LEMMA ExportHoldsStep ==
  ASSUME ExportHolds, CrashInv, IInv, Next
  PROVE  ExportHolds'
<1> USE DEF ExportHolds
<1> SUFFICES ASSUME failed' = {}
             PROVE  ExportHolds'
  OBVIOUS
<1>1. failed = {}
  BY FailuresStay
<1>2. DataTypes /\ BufferInv /\ trace_buf_ptr \in Int /\ fetched \in Int
  BY DEF IInv, TypeOK, DataTypes
<1>3. buf # "failed"
  BY <1>1 DEF CrashInv
<1>4. main \in {"free", "shutdown", "done"} => fetcher \in {"done", "none"}
  BY DEF IInv, ThreadInv
<1>5. CASE MainFetchBegin
  <2>1. CASE UNCHANGED bufVars
    BY <1>1, <1>5, <2>1 DEF MainFetchBegin, FetchFaults
  <2>2. CASE FetchBegin("main") /\ main' = "fetch_copy"
    <3>1. UNCHANGED fetched /\ main = "fetch"
      BY <1>5 DEF MainFetchBegin
    <3> QED  BY <1>1, <1>2, <2>2, <3>1, BeginPointer
  <2> QED  BY <1>5, <2>1, <2>2 DEF MainFetchBegin
<1>6. CASE MainFetchCopy
  <2>1. CASE UNCHANGED <<trace_buf_ptr, dataVars>>
    BY <1>1, <1>6, <2>1 DEF MainFetchCopy
  <2>2. CASE FetchRead("main")
    <3>1. main = "fetch_copy" /\ main' = "export"
      BY <1>6, <2>2 DEF MainFetchCopy, FetchRead, FetchGrow, FetchGrowFails
    <3>2. trace_buf_ptr' - trace_buf_ptr = fetched' - fetched
      BY <1>2, <2>2, CopyAccount
    <3>3. trace_buf_ptr' \in Int /\ fetched' \in Int
      BY <1>2, <2>2, CopyEffect
    <3> QED  BY <1>1, <1>2, <3>1, <3>2, <3>3
  <2> QED  BY <1>6, <2>1, <2>2 DEF MainFetchCopy, FetchGrow, FetchGrowFails
<1>7. CASE FetcherFetchBegin
  <2>1. CASE UNCHANGED bufVars
    BY <1>1, <1>4, <1>7, <2>1 DEF FetcherFetchBegin, FetchFaults
  <2>2. CASE FetchBegin("fetcher") /\ UNCHANGED main
    <3>1. /\ UNCHANGED <<main, fetched, exported>>
          /\ main \notin {"free", "shutdown", "done"}
      BY <1>4, <1>7, <2>2 DEF FetcherFetchBegin
    <3> QED  BY <1>1, <1>2, <2>2, <3>1, BeginPointer
  <2> QED  BY <1>7, <2>1, <2>2 DEF FetcherFetchBegin
<1>8. CASE FetcherFetchCopy
  <2>1. CASE UNCHANGED <<trace_buf_ptr, dataVars>>
    BY <1>1, <1>8, <2>1 DEF FetcherFetchCopy
  <2>2. CASE FetchRead("fetcher")
    <3>1. UNCHANGED main /\ main \notin {"free", "shutdown", "done"}
      BY <1>4, <1>8 DEF FetcherFetchCopy
    <3>2. trace_buf_ptr' - trace_buf_ptr = fetched' - fetched
      BY <1>2, <2>2, CopyAccount
    <3>3. trace_buf_ptr' \in Int /\ fetched' \in Int
      BY <1>2, <2>2, CopyEffect
    <3> QED  BY <1>1, <1>2, <3>1, <3>2, <3>3
  <2> QED  BY <1>8, <2>1, <2>2 DEF FetcherFetchCopy, FetchGrow, FetchGrowFails
<1>9. CASE MainExport
  BY <1>1, <1>2, <1>3, <1>9 DEF MainExport
<1>10. CASE MainFree
  BY <1>1, <1>2, <1>10 DEF MainFree
<1>11. CASE MainWaitExec \/ MainInitTrace \/ MainStartTrace \/ MainEnable
          \/ MainSetRunning \/ MainKsight \/ MainDetach \/ MainWait \/
          MainDispatch \/ MainStopTrace \/ MainSetReady \/ MainFini \/
          MainJoin \/ MainShutdown
  BY <1>1, <1>11 DEF MainWaitExec, MainInitTrace, MainStartTrace,
    MainEnable, MainSetRunning, MainKsight, MainDetach, MainWait,
    MainDispatch, MainStopTrace, MainSetReady, MainFini, MainJoin,
    MainShutdown
<1>12. CASE FetcherWorker \/ FetcherInitPos \/ FetcherPoll \/
          FetcherCompare \/ FetcherSigstop \/ FetcherAwait \/
          FetcherDisable \/ FetcherEnable \/ FetcherCont \/ FetcherKilled
  BY <1>1, <1>12 DEF FetcherWorker, FetcherInitPos, FetcherPoll,
    FetcherCompare, FetcherSigstop, FetcherAwait, FetcherDisable,
    FetcherEnable, FetcherCont, FetcherKilled
<1>13. CASE ChildExec \/ ChildEmit \/ ChildStop \/ ChildEnd \/ JobSignal \/
          Terminated
  BY <1>1, <1>13 DEF ChildExec, ChildEmit, ChildStop, ChildEnd, JobSignal,
    Terminated
<1> QED  BY <1>5, <1>6, <1>7, <1>8, <1>9, <1>10, <1>11, <1>12, <1>13 DEF
         Next, MainNext, FetcherNext, ChildNext

----------------------------------------------------------------------------
(* The theorems.                                                           *)

(* In every session the whole inductive invariant holds: IInv, and with it *)
(* ksight's scope, the causes of a crash and the account of the trace.     *)
THEOREM SessionInvariant == Spec => []SessionInv
<1>1. Init => KsightInv /\ CrashInv /\ AccountInv
  BY DEF Init, AccountInv, Conserved, PlainSinksOn, LengthFresh, FetchedAll,
    NoneDiscarded, ExportHolds, CrashInv, CrashNeedsCause, KsightInv,
    KsightScoped, Early
<1>2. ASSUME KsightInv, CrashInv, AccountInv, IInv, Next
      PROVE  KsightInv' /\ CrashInv' /\ AccountInv'
  <2>1. /\ Conserved /\ PlainSinksOn /\ LengthFresh /\ FetchedAll
        /\ NoneDiscarded /\ ExportHolds
    BY <1>2 DEF AccountInv
  <2>2. DataTypes /\ BufferInv /\ (~FetcherOn => fetcher = "none")
    BY <1>2 DEF IInv, TypeOK, ThreadInv
  <2>3. Conserved' /\ PlainSinksOn'
    BY <1>2, <2>1, <2>2, ConservedStep, PlainSinksOnStep
  <2>4. LengthFresh' /\ FetchedAll'
    BY <1>2, <2>1, LengthFreshStep, FetchedAllStep
  <2>5. NoneDiscarded' /\ ExportHolds'
    BY <1>2, <2>1, NoneDiscardedStep, ExportHoldsStep
  <2>6. KsightInv' /\ CrashInv'
    BY <1>2, KsightInvStep, CrashInvStep
  <2> QED  BY <2>3, <2>4, <2>5, <2>6 DEF AccountInv
<1>3. ASSUME KsightInv, CrashInv, AccountInv, UNCHANGED vars
      PROVE  KsightInv' /\ CrashInv' /\ AccountInv'
  BY <1>3 DEF AccountInv, Conserved, PlainSinksOn, LengthFresh, FetchedAll,
    NoneDiscarded, ExportHolds, CrashInv, CrashNeedsCause, Whole,
    Undisturbed, KsightInv, KsightScoped
<1> QED  BY <1>1, <1>2, <1>3, Invariant, PTL DEF Spec, SessionInv

(* ksight records only the traced process, and only between the parent's   *)
(* enable and disable, unless a sysfs write failed.                        *)
THEOREM KsightStaysScoped == Spec => []KsightScoped
<1>1. SessionInv => KsightScoped
  BY DEF SessionInv, KsightInv, KsightScoped
<1> QED  BY <1>1, SessionInvariant, PTL

(* cs-trace does not crash unless a call failed, the board was never set   *)
(* up, or the first enable_cs_trace ended it: on ETMs that are no ETMv4,   *)
(* or with --verbose.                                                      *)
THEOREM CrashesHaveCause == Spec => []CrashNeedsCause
<1>1. SessionInv => CrashNeedsCause
  BY DEF SessionInv, CrashInv
<1> QED  BY <1>1, SessionInvariant, PTL

(* A session in which nothing failed and the last fetch took place exports *)
(* all trace the child emitted, but for what the ETR itself overwrote.     *)
THEOREM TraceComplete == Spec => []CompleteTrace
<1>1. SessionInv => CompleteTrace
  <2> SUFFICES ASSUME AccountInv, IInv, main \in {"free", "shutdown", "done"},
                      failed = {}, FetcherOn => last_fetch /\ Undisturbed
               PROVE  fetched + overwritten = emitted /\ exported >= fetched
    BY DEF CompleteTrace, SessionInv
  <2>1. exported >= fetched
    BY DEF AccountInv, ExportHolds
  <2>2. discarded = 0
    BY DEF AccountInv, NoneDiscarded, Whole
  <2>3. unread = 0
    BY DEF AccountInv, FetchedAll
  <2>4. dropped = 0
    BY DEF AccountInv, PlainSinksOn, IInv, NoByteDropped
  <2>5. emitted = fetched + overwritten
    BY <2>2, <2>3, <2>4 DEF AccountInv, Conserved, IInv, TypeOK, DataTypes
  <2> QED  BY <2>1, <2>5
<1> QED  BY <1>1, SessionInvariant, PTL
============================================================================
