------------------------- MODULE TraceSessionProofs -------------------------
(***************************************************************************)
(* Proofs, for every value of the constants, that TraceSession has the     *)
(* inductive invariant IInv, the safety properties that follow from it,    *)
(* and that without stop signals of third parties its trace state and      *)
(* trace event follow the state machine TraceFSM.                          *)
(*                                                                         *)
(* There is one lemma for each part of IInv: assuming the parts it needs,  *)
(* a step of each action preserves it. The provers do not mix Boolean      *)
(* variables and arithmetic well, so that the flags, the amounts and the   *)
(* control state are treated in lemmas of their own.                       *)
(***************************************************************************)
EXTENDS TraceSessionInv, TLAPS

USE FlagsAssumption, SizesAssumption, BoundsAssumption
USE DEF vars, ctlVars, childVars, devVars, etrVars, bufVars, ksVars, dataVars,
        noteVars, boardVars, fetcherFrame, childFrame

(* The building blocks of the actions are expanded in every proof, but for *)
(* those of fetch_trace.                                                   *)
USE DEF SetTraceState, EventFor, Fails, AfterStart, CallbackState, ExitSeen,
        ExportLen, ExportFaults, EnableSucceeds, EnableFails, DisableSucceeds,
        DisableFails, EnableAborts, EnableFatal, DisableAborts, DisableFatal,
        Aborts, NoteMisuse, UseAfterShutdown, ProcessCrash, SetTracedPid,
        SetEnable, Continue, Awaited, AfterWait

----------------------------------------------------------------------------
(* The operators of fetch_trace.                                           *)

(* ALIGN_UP of an offset is an offset.                                     *)
LEMMA AlignInt ==
  ASSUME NEW x \in Int
  PROVE  AlignUp8(x) \in Int
  BY DEF AlignUp8

(* Aligning a write pointer inside a buffer, the size of which is a        *)
(* multiple of 8, leaves it inside; also the -1 of a failed read.          *)
LEMMA AlignInBuffer ==
  ASSUME NEW s \in Int, s % 8 = 0,
         NEW x \in Int, x >= -1, x <= s
  PROVE  AlignUp8(x) <= s /\ AlignUp8(x) \in Nat
  BY DEF AlignUp8

(* Doubling the buffer keeps its size a multiple of 8.                     *)
LEMMA DoubleAligned ==
  ASSUME NEW s \in Nat, s % 8 = 0
  PROVE  (s * 2) % 8 = 0
  OBVIOUS

(* cs_get_trace_data never returns more than it was asked to copy.         *)
LEMMA ReadBound ==
  ASSUME NEW a \in Nat, NEW n \in ReadResults(a)
  PROVE  n \in -1..a
  BY DEF ReadResults

(* The amount that the copy of fetch_trace asks for: no more than is       *)
(* unread, and no more than is left of the buffer.                         *)
LEMMA CopyBound ==
  ASSUME DataTypes, BufferInv, trace_mutex # "free"
  PROVE  /\ Lesser(unread, BufRemain) \in Nat
         /\ Lesser(unread, BufRemain) <= unread
         /\ Lesser(unread, BufRemain) <= trace_buf_size - trace_buf_ptr
  BY DEF DataTypes, BufferInv, TraceBufInBounds, Lesser, BufRemain

(* The copy of fetch_trace moves the write pointer by what it read, and    *)
(* accounts for every byte that was in the ETR.                            *)
LEMMA CopyEffect ==
  ASSUME DataTypes, BufferInv,
         NEW t \in {"main", "fetcher"}, FetchRead(t)
  PROVE  /\ trace_buf_ptr' \in Int
         /\ trace_buf_ptr' >= -1 /\ trace_buf_ptr' <= trace_buf_size
         /\ fetched' \in Nat /\ discarded' \in Nat
<1>1. trace_mutex # "free"
  BY DEF FetchRead
<1>2. PICK n \in ReadResults(Lesser(unread, BufRemain)) :
         /\ trace_buf_ptr' = trace_buf_ptr + n
         /\ fetched' = fetched + AtLeast0(n)
         /\ discarded' = discarded + (unread - AtLeast0(n))
  BY DEF FetchRead
<1>3. n \in Int /\ n >= -1 /\ n <= Lesser(unread, BufRemain)
  BY <1>1, <1>2, CopyBound, ReadBound
<1>4. AtLeast0(n) \in Nat /\ AtLeast0(n) <= unread
  BY <1>1, <1>3, CopyBound DEF AtLeast0, DataTypes
<1> QED
  BY <1>1, <1>2, <1>3, <1>4, CopyBound
  DEF DataTypes, BufferInv, TraceBufInBounds

----------------------------------------------------------------------------
(* Types.                                                                  *)

(* The board and --verbose stay as they were at the start.                 *)
LEMMA BoardStays ==
  ASSUME Next
  PROVE  UNCHANGED boardVars
<1>1. CASE MainNext             BY <1>1 DEF MainNext
<1>2. CASE FetcherNext
  BY <1>2
  DEF FetcherNext, FetcherWorker, FetcherInitPos, FetcherPoll, FetcherCompare,
      FetcherSigstop, FetcherAwait, FetcherDisable, FetcherFetchBegin,
      FetcherFetchCopy, FetcherEnable, FetcherCont, FetcherKilled
<1>3. CASE ChildNext \/ Terminated
  BY <1>3
  DEF ChildNext, ChildExec, ChildEmit, ChildStop, ChildEnd, JobSignal,
      Terminated
<1> QED  BY <1>1, <1>2, <1>3 DEF Next

(* Every step keeps the control state, the device states, trace_buf's and  *)
(* ksight's in their types.                                                *)
LEMMA ControlTypesStep ==
  ASSUME ControlTypes, Next
  PROVE  ControlTypes'
<1> USE DEF Polling, Cycle, Final, Active, ControlTypes, MainPcs,
            FetcherPcs, TraceStates, TraceEvents
<1>0. UNCHANGED <<etm, registration_verbose>>
  BY BoardStays
<1>1. CASE MainWaitExec \/ MainInitTrace \/ MainStartTrace \/ MainEnable \/
          MainSetRunning \/ MainKsight \/ MainDetach \/ MainWait \/
          MainDispatch \/ MainStopTrace \/ MainSetReady \/ MainFini \/
          MainJoin \/ MainFetchBegin \/ MainFetchCopy \/ MainExport \/
          MainFree \/ MainShutdown
  BY <1>0, <1>1 DEF MainWaitExec, MainInitTrace, MainStartTrace, MainEnable,
    MainSetRunning, MainKsight, MainDetach, MainWait, MainDispatch,
    MainStopTrace, MainSetReady, MainFini, MainJoin, MainFetchBegin,
    MainFetchCopy, MainExport, MainFree, MainShutdown, FetchBegin,
    FetchFaults, FetchGrow, FetchGrowFails, FetchRead
<1>2. CASE FetcherWorker \/ FetcherInitPos \/ FetcherPoll \/ FetcherCompare
          \/ FetcherSigstop \/ FetcherAwait \/ FetcherDisable \/
          FetcherFetchBegin \/ FetcherFetchCopy \/ FetcherEnable \/
          FetcherCont \/ FetcherKilled
  BY <1>2 DEF FetcherWorker, FetcherInitPos, FetcherPoll, FetcherCompare,
    FetcherSigstop, FetcherAwait, FetcherDisable, FetcherFetchBegin,
    FetcherFetchCopy, FetcherEnable, FetcherCont, FetcherKilled, FetchBegin,
    FetchFaults, FetchGrow, FetchGrowFails, FetchRead
<1>3. CASE ChildExec \/ ChildEmit \/ ChildStop \/ ChildEnd \/ JobSignal \/
          Terminated
  BY <1>3 DEF ChildExec, ChildEmit, ChildStop, ChildEnd, JobSignal,
    Terminated, Lesser
<1> QED  BY <1>1, <1>2, <1>3 DEF Next, MainNext, FetcherNext, ChildNext

(* Every step keeps what the kernel and the parent know of the child in    *)
(* its type.                                                               *)
LEMMA ChildTypesStep ==
  ASSUME ChildTypes, Next
  PROVE  ChildTypes'
<1> USE DEF ChildTypes, Exits
<1>1. CASE MainWaitExec         BY <1>1 DEF MainWaitExec
<1>2. CASE MainDetach           BY <1>2 DEF MainDetach
<1>3. CASE MainWait             BY <1>3 DEF MainWait
<1>4. CASE FetcherSigstop       BY <1>4 DEF FetcherSigstop
<1>5. CASE FetcherCont          BY <1>5 DEF FetcherCont
<1>6. CASE ChildExec            BY <1>6 DEF ChildExec
<1>7. CASE ChildStop            BY <1>7 DEF ChildStop
<1>8. CASE ChildEnd             BY <1>8 DEF ChildEnd
<1>9. CASE JobSignal            BY <1>9 DEF JobSignal
<1>10. CASE MainInitTrace \/ MainStartTrace \/ MainEnable \/ MainSetRunning
          \/ MainKsight \/ MainDispatch \/ MainStopTrace \/ MainSetReady \/
          MainFini \/ MainJoin \/ MainFetchBegin \/ MainFetchCopy \/
          MainExport \/ MainFree \/ MainShutdown
  BY <1>10 DEF MainInitTrace, MainStartTrace, MainEnable, MainSetRunning,
    MainKsight, MainDispatch, MainStopTrace, MainSetReady, MainFini,
    MainJoin, MainFetchBegin, MainFetchCopy, MainExport, MainFree,
    MainShutdown, FetchBegin, FetchFaults, FetchGrow, FetchGrowFails,
    FetchRead
<1>11. CASE FetcherWorker \/ FetcherInitPos \/ FetcherPoll \/ FetcherCompare
          \/ FetcherAwait \/ FetcherDisable \/ FetcherFetchBegin \/
          FetcherFetchCopy \/ FetcherEnable \/ FetcherKilled
  BY <1>11 DEF FetcherWorker, FetcherInitPos, FetcherPoll, FetcherCompare,
    FetcherAwait, FetcherDisable, FetcherFetchBegin, FetcherFetchCopy,
    FetcherEnable, FetcherKilled, FetchBegin, FetchFaults, FetchGrow,
    FetchGrowFails, FetchRead
<1>12. CASE ChildEmit \/ Terminated
  BY <1>12 DEF ChildEmit, Terminated, Lesser
<1> QED  BY <1>1, <1>2, <1>3, <1>4, <1>5, <1>6, <1>7, <1>8, <1>9, <1>10,
         <1>11, <1>12 DEF Next, MainNext, FetcherNext, ChildNext

(* Every step keeps the flags Boolean and records only failures that have  *)
(* a name.                                                                 *)
LEMMA FlagTypesStep ==
  ASSUME FlagTypes, Next
  PROVE  FlagTypes'
<1> USE DEF FlagTypes, FaultNames
<1>1. CASE MainInitTrace        BY <1>1 DEF MainInitTrace
<1>2. CASE MainStartTrace       BY <1>2 DEF MainStartTrace
<1>3. CASE MainEnable           BY <1>3 DEF MainEnable
<1>4. CASE MainKsight           BY <1>4 DEF MainKsight
<1>5. CASE MainStopTrace        BY <1>5 DEF MainStopTrace
<1>6. CASE MainFetchBegin
  BY <1>6 DEF MainFetchBegin, FetchBegin, FetchFaults
<1>7. CASE MainFetchCopy
  BY <1>7 DEF MainFetchCopy, FetchGrow, FetchGrowFails, FetchRead
<1>8. CASE MainExport           BY <1>8 DEF MainExport
<1>9. CASE MainFree
  <2>1. failed' \subseteq FaultNames
    BY <1>9 DEF MainFree
  <2>2. is_first_trace' \in BOOLEAN /\ last_fetch' \in BOOLEAN
    BY <1>9 DEF MainFree
  <2>3. misuse' \in BOOLEAN
    BY <1>9 DEF MainFree
  <2> QED  BY <2>1, <2>2, <2>3
<1>10. CASE FetcherDisable      BY <1>10 DEF FetcherDisable
<1>11. CASE FetcherFetchCopy
  BY <1>11 DEF FetcherFetchCopy, FetchGrow, FetchGrowFails, FetchRead
<1>12. CASE FetcherEnable       BY <1>12 DEF FetcherEnable
<1>13. CASE MainWaitExec \/ MainSetRunning \/ MainDetach \/ MainWait \/
          MainDispatch \/ MainSetReady \/ MainFini \/ MainJoin \/
          MainShutdown
  BY <1>13 DEF MainWaitExec, MainSetRunning, MainDetach, MainWait,
    MainDispatch, MainSetReady, MainFini, MainJoin, MainShutdown
<1>14. CASE FetcherWorker \/ FetcherInitPos \/ FetcherPoll \/ FetcherCompare
          \/ FetcherSigstop \/ FetcherAwait \/ FetcherFetchBegin \/
          FetcherCont \/ FetcherKilled
  BY <1>14 DEF FetcherWorker, FetcherInitPos, FetcherPoll, FetcherCompare,
    FetcherSigstop, FetcherAwait, FetcherFetchBegin, FetcherCont,
    FetcherKilled, FetchBegin, FetchFaults
<1>15. CASE ChildExec \/ ChildEmit \/ ChildStop \/ ChildEnd \/ JobSignal \/
          Terminated
  BY <1>15 DEF ChildExec, ChildEmit, ChildStop, ChildEnd, JobSignal,
    Terminated, Lesser
<1> QED  BY <1>1, <1>2, <1>3, <1>4, <1>5, <1>6, <1>7, <1>8, <1>9, <1>10,
         <1>11, <1>12, <1>13, <1>14, <1>15 DEF Next, MainNext, FetcherNext,
         ChildNext

(* Every step keeps the ETR's positions inside the ETR and the amounts of  *)
(* trace natural numbers.                                                  *)
LEMMA DataTypesStep ==
  ASSUME DataTypes, BufferInv, Next
  PROVE  DataTypes'
<1> USE DEF DataTypes
<1>1. CASE MainStartTrace       BY <1>1 DEF MainStartTrace
<1>2. CASE MainFetchBegin
  BY <1>2, AlignInt DEF MainFetchBegin, FetchBegin, FetchFaults
<1>3. CASE MainFetchCopy
  <2>1. CASE FetchGrow("main")
               /\ UNCHANGED <<etrVars, dataVars, exported>>
    BY <2>1 DEF FetchGrow
  <2>2. CASE FetchGrowFails("main")
               /\ UNCHANGED <<etrVars, dataVars, exported>>
    BY <2>2 DEF FetchGrowFails
  <2>3. CASE FetchRead("main")
    <3>1. /\ unread' = 0 /\ rwp' = 0
          /\ UNCHANGED <<init_pos, len, trace_buf_size, emitted, dropped,
                         overwritten, exported>>
      BY <1>3, <2>3 DEF MainFetchCopy, FetchRead
    <3> QED  BY <2>3, <3>1, CopyEffect
  <2> QED  BY <1>3, <2>1, <2>2, <2>3 DEF MainFetchCopy
<1>4. CASE MainExport           BY <1>4 DEF MainExport
<1>5. CASE MainFree             BY <1>5 DEF MainFree
<1>6. CASE FetcherInitPos       BY <1>6 DEF FetcherInitPos
<1>7. CASE FetcherFetchBegin
  BY <1>7, AlignInt DEF FetcherFetchBegin, FetchBegin, FetchFaults
<1>8. CASE FetcherFetchCopy
  <2>1. CASE FetchGrow("fetcher")
               /\ UNCHANGED <<etrVars, dataVars, exported>>
    BY <2>1 DEF FetchGrow
  <2>2. CASE FetchGrowFails("fetcher")
               /\ UNCHANGED <<etrVars, dataVars, exported>>
    BY <2>2 DEF FetchGrowFails
  <2>3. CASE FetchRead("fetcher")
    <3>1. /\ unread' = 0 /\ rwp' = 0
          /\ UNCHANGED <<init_pos, len, trace_buf_size, emitted, dropped,
                         overwritten, exported>>
      BY <1>8, <2>3 DEF FetcherFetchCopy, FetchRead
    <3> QED  BY <2>3, <3>1, CopyEffect
  <2> QED  BY <1>8, <2>1, <2>2, <2>3 DEF FetcherFetchCopy
<1>9. CASE ChildEmit
  <2>1. emitted' \in 0..MaxEmit
    BY <1>9 DEF ChildEmit
  <2>2. rwp' \in 0..(EtrRamSize - 1) /\ dropped' \in Nat
    BY <1>9 DEF ChildEmit
  <2>3. unread' \in 0..EtrRamSize /\ overwritten' \in Nat
    BY <1>9 DEF ChildEmit, Lesser
  <2>4. UNCHANGED <<init_pos, bufVars, fetched, discarded, exported>>
    BY <1>9 DEF ChildEmit
  <2> QED  BY <2>1, <2>2, <2>3, <2>4
<1>10. CASE MainWaitExec \/ MainInitTrace \/ MainEnable \/ MainSetRunning \/
          MainKsight \/ MainDetach \/ MainWait \/ MainDispatch \/
          MainStopTrace \/ MainSetReady \/ MainFini \/ MainJoin \/
          MainShutdown
  BY <1>10 DEF MainWaitExec, MainInitTrace, MainEnable, MainSetRunning,
    MainKsight, MainDetach, MainWait, MainDispatch, MainStopTrace,
    MainSetReady, MainFini, MainJoin, MainShutdown
<1>11. CASE FetcherWorker \/ FetcherPoll \/ FetcherCompare \/ FetcherSigstop
          \/ FetcherAwait \/ FetcherDisable \/ FetcherEnable \/ FetcherCont
          \/ FetcherKilled
  BY <1>11 DEF FetcherWorker, FetcherPoll, FetcherCompare, FetcherSigstop,
    FetcherAwait, FetcherDisable, FetcherEnable, FetcherCont, FetcherKilled
<1>12. CASE ChildExec \/ ChildStop \/ ChildEnd \/ JobSignal \/ Terminated
  BY <1>12 DEF ChildExec, ChildStop, ChildEnd, JobSignal, Terminated
<1> QED  BY <1>1, <1>2, <1>3, <1>4, <1>5, <1>6, <1>7, <1>8, <1>9, <1>10,
         <1>11, <1>12 DEF Next, MainNext, FetcherNext, ChildNext

----------------------------------------------------------------------------
(* The other parts of IInv.                                                *)

(* Every step preserves ThreadInv: what the threads' positions, the trace  *)
(* event and the life of CSAL say of each other.                           *)
LEMMA ThreadInvStep ==
  ASSUME ThreadInv, MutexInv, ReapInv, ChildTypes, Next
  PROVE  ThreadInv'
<1> USE DEF Polling, Cycle, Final, Active, Early, Past, AfterStop,
            ThreadInv, MutexInv, ReapInv, ChildTypes, Exits,
            FetcherDevicesUp
<1>1. CASE MainWaitExec         BY <1>1 DEF MainWaitExec
<1>2. CASE MainInitTrace        BY <1>2 DEF MainInitTrace
<1>3. CASE MainStartTrace       BY <1>3 DEF MainStartTrace
<1>4. CASE MainEnable           BY <1>4 DEF MainEnable
<1>5. CASE MainSetRunning       BY <1>5 DEF MainSetRunning
<1>6. CASE MainKsight           BY <1>6 DEF MainKsight
<1>7. CASE MainDetach           BY <1>7 DEF MainDetach
<1>8. CASE MainWait             BY <1>8 DEF MainWait
<1>9. CASE MainDispatch         BY <1>9 DEF MainDispatch
<1>10. CASE MainStopTrace       BY <1>10 DEF MainStopTrace
<1>11. CASE MainSetReady        BY <1>11 DEF MainSetReady
<1>12. CASE MainFini            BY <1>12 DEF MainFini
<1>13. CASE MainJoin            BY <1>13 DEF MainJoin
<1>14. CASE MainFetchBegin
  BY <1>14 DEF MainFetchBegin, FetchBegin, FetchFaults
<1>15. CASE MainFetchCopy
  BY <1>15 DEF MainFetchCopy, FetchGrow, FetchGrowFails, FetchRead
<1>16. CASE MainExport          BY <1>16 DEF MainExport
<1>17. CASE MainFree            BY <1>17 DEF MainFree
<1>18. CASE MainShutdown        BY <1>18 DEF MainShutdown
<1>19. CASE FetcherWorker       BY <1>19 DEF FetcherWorker
<1>20. CASE FetcherInitPos      BY <1>20 DEF FetcherInitPos
<1>21. CASE FetcherPoll         BY <1>21 DEF FetcherPoll
<1>22. CASE FetcherCompare      BY <1>22 DEF FetcherCompare
<1>23. CASE FetcherSigstop      BY <1>23 DEF FetcherSigstop
<1>24. CASE FetcherAwait        BY <1>24 DEF FetcherAwait
<1>25. CASE FetcherDisable      BY <1>25 DEF FetcherDisable
<1>26. CASE FetcherFetchBegin
  BY <1>26 DEF FetcherFetchBegin, FetchBegin, FetchFaults
<1>27. CASE FetcherFetchCopy
  BY <1>27 DEF FetcherFetchCopy, FetchGrow, FetchGrowFails, FetchRead
<1>28. CASE FetcherEnable       BY <1>28 DEF FetcherEnable
<1>29. CASE FetcherCont         BY <1>29 DEF FetcherCont
<1>30. CASE FetcherKilled       BY <1>30 DEF FetcherKilled
<1>31. CASE ChildExec \/ ChildEmit \/ ChildStop \/ ChildEnd \/ JobSignal \/
          Terminated
  BY <1>31 DEF ChildExec, ChildEmit, ChildStop, ChildEnd, JobSignal,
    Terminated, Lesser
<1> QED  BY <1>1, <1>2, <1>3, <1>4, <1>5, <1>6, <1>7, <1>8, <1>9, <1>10,
         <1>11, <1>12, <1>13, <1>14, <1>15, <1>16, <1>17, <1>18, <1>19,
         <1>20, <1>21, <1>22, <1>23, <1>24, <1>25, <1>26, <1>27, <1>28,
         <1>29, <1>30, <1>31 DEF Next, MainNext, FetcherNext, ChildNext

(* Every step preserves MutexInv: trace_mutex is held exactly where        *)
(* fetch_trace holds it.                                                   *)
LEMMA MutexInvStep ==
  ASSUME ThreadInv, MutexInv, ChildTypes, Next
  PROVE  MutexInv'
<1> USE DEF Polling, Cycle, Final, Active, Early, Past, AfterStop,
            ThreadInv, MutexInv, ChildTypes, FetcherDevicesUp
<1>1. CASE MainWaitExec         BY <1>1 DEF MainWaitExec
<1>2. CASE MainInitTrace        BY <1>2 DEF MainInitTrace
<1>3. CASE MainStartTrace       BY <1>3 DEF MainStartTrace
<1>4. CASE MainEnable           BY <1>4 DEF MainEnable
<1>5. CASE MainSetRunning       BY <1>5 DEF MainSetRunning
<1>6. CASE MainKsight           BY <1>6 DEF MainKsight
<1>7. CASE MainDetach           BY <1>7 DEF MainDetach
<1>8. CASE MainWait             BY <1>8 DEF MainWait
<1>9. CASE MainDispatch         BY <1>9 DEF MainDispatch
<1>10. CASE MainStopTrace       BY <1>10 DEF MainStopTrace
<1>11. CASE MainSetReady        BY <1>11 DEF MainSetReady
<1>12. CASE MainFini            BY <1>12 DEF MainFini
<1>13. CASE MainJoin            BY <1>13 DEF MainJoin
<1>14. CASE MainFetchBegin
  BY <1>14 DEF MainFetchBegin, FetchBegin, FetchFaults
<1>15. CASE MainFetchCopy
  BY <1>15 DEF MainFetchCopy, FetchGrow, FetchGrowFails, FetchRead
<1>16. CASE MainExport          BY <1>16 DEF MainExport
<1>17. CASE MainFree            BY <1>17 DEF MainFree
<1>18. CASE MainShutdown        BY <1>18 DEF MainShutdown
<1>19. CASE FetcherWorker       BY <1>19 DEF FetcherWorker
<1>20. CASE FetcherInitPos      BY <1>20 DEF FetcherInitPos
<1>21. CASE FetcherPoll         BY <1>21 DEF FetcherPoll
<1>22. CASE FetcherCompare      BY <1>22 DEF FetcherCompare
<1>23. CASE FetcherSigstop      BY <1>23 DEF FetcherSigstop
<1>24. CASE FetcherAwait        BY <1>24 DEF FetcherAwait
<1>25. CASE FetcherDisable      BY <1>25 DEF FetcherDisable
<1>26. CASE FetcherFetchBegin
  BY <1>26 DEF FetcherFetchBegin, FetchBegin, FetchFaults
<1>27. CASE FetcherFetchCopy
  BY <1>27 DEF FetcherFetchCopy, FetchGrow, FetchGrowFails, FetchRead
<1>28. CASE FetcherEnable       BY <1>28 DEF FetcherEnable
<1>29. CASE FetcherCont         BY <1>29 DEF FetcherCont
<1>30. CASE FetcherKilled       BY <1>30 DEF FetcherKilled
<1>31. CASE ChildExec \/ ChildEmit \/ ChildStop \/ ChildEnd \/ JobSignal \/
          Terminated
  BY <1>31 DEF ChildExec, ChildEmit, ChildStop, ChildEnd, JobSignal,
    Terminated, Lesser
<1> QED  BY <1>1, <1>2, <1>3, <1>4, <1>5, <1>6, <1>7, <1>8, <1>9, <1>10,
         <1>11, <1>12, <1>13, <1>14, <1>15, <1>16, <1>17, <1>18, <1>19,
         <1>20, <1>21, <1>22, <1>23, <1>24, <1>25, <1>26, <1>27, <1>28,
         <1>29, <1>30, <1>31 DEF Next, MainNext, FetcherNext, ChildNext

(* Every step preserves ReapInv: the parent finalizes only for a child     *)
(* that it reaped with status 0.                                           *)
LEMMA ReapInvStep ==
  ASSUME ReapInv, ChildTypes, ThreadInv, Next
  PROVE  ReapInv'
<1> USE DEF Polling, Cycle, Final, Active, Early, Past, AfterStop, ReapInv,
            ChildTypes, ThreadInv, Exits
<1>1. CASE MainWaitExec         BY <1>1 DEF MainWaitExec
<1>2. CASE MainInitTrace        BY <1>2 DEF MainInitTrace
<1>3. CASE MainStartTrace       BY <1>3 DEF MainStartTrace
<1>4. CASE MainEnable           BY <1>4 DEF MainEnable
<1>5. CASE MainSetRunning       BY <1>5 DEF MainSetRunning
<1>6. CASE MainKsight           BY <1>6 DEF MainKsight
<1>7. CASE MainDetach           BY <1>7 DEF MainDetach
<1>8. CASE MainWait             BY <1>8 DEF MainWait
<1>9. CASE MainDispatch         BY <1>9 DEF MainDispatch
<1>10. CASE MainStopTrace       BY <1>10 DEF MainStopTrace
<1>11. CASE MainSetReady        BY <1>11 DEF MainSetReady
<1>12. CASE MainFini            BY <1>12 DEF MainFini
<1>13. CASE MainJoin            BY <1>13 DEF MainJoin
<1>14. CASE MainFetchBegin
  BY <1>14 DEF MainFetchBegin, FetchBegin, FetchFaults
<1>15. CASE MainFetchCopy
  BY <1>15 DEF MainFetchCopy, FetchGrow, FetchGrowFails, FetchRead
<1>16. CASE MainExport          BY <1>16 DEF MainExport
<1>17. CASE MainFree            BY <1>17 DEF MainFree
<1>18. CASE MainShutdown        BY <1>18 DEF MainShutdown
<1>19. CASE FetcherSigstop      BY <1>19 DEF FetcherSigstop
<1>20. CASE FetcherFetchBegin
  BY <1>20 DEF FetcherFetchBegin, FetchBegin, FetchFaults
<1>21. CASE FetcherCont         BY <1>21 DEF FetcherCont
<1>22. CASE ChildExec           BY <1>22 DEF ChildExec
<1>23. CASE ChildStop           BY <1>23 DEF ChildStop
<1>24. CASE ChildEnd            BY <1>24 DEF ChildEnd
<1>25. CASE JobSignal           BY <1>25 DEF JobSignal
<1>26. CASE FetcherWorker \/ FetcherInitPos \/ FetcherPoll \/ FetcherCompare
          \/ FetcherAwait \/ FetcherDisable \/ FetcherFetchCopy \/
          FetcherEnable \/ FetcherKilled
  BY <1>26 DEF FetcherWorker, FetcherInitPos, FetcherPoll, FetcherCompare,
    FetcherAwait, FetcherDisable, FetcherFetchCopy, FetcherEnable,
    FetcherKilled, FetchGrow, FetchGrowFails, FetchRead
<1>27. CASE ChildEmit \/ Terminated
  BY <1>27 DEF ChildEmit, Terminated, Lesser
<1> QED  BY <1>1, <1>2, <1>3, <1>4, <1>5, <1>6, <1>7, <1>8, <1>9, <1>10,
         <1>11, <1>12, <1>13, <1>14, <1>15, <1>16, <1>17, <1>18, <1>19,
         <1>20, <1>21, <1>22, <1>23, <1>24, <1>25, <1>26, <1>27 DEF Next,
         MainNext, FetcherNext, ChildNext

(* Once the child is reaped no stop of it is under way.                    *)
LEMMA ReapedQuiet ==
  ASSUME ReapInv, ChildTypes, child = "reaped"
  PROVE  Quiet
  BY DEF ReapInv, ChildTypes, Quiet, StopDispatched, Exits

(* A fetcher that polls finds start_event, as long as the child is there.  *)
LEMMA PollingEvent ==
  ASSUME ControlTypes, ReapInv, ThreadInv, SuspendInv,
         Undisturbed, fetcher \in Polling, child # "reaped"
  PROVE  trace_event = "start_event" /\ Quiet
<1>1. Quiet /\ trace_event # "suspend_event"
  BY DEF SuspendInv
<1>2. trace_event \notin {"init_event", "ready_event", "resume_event"}
  BY DEF ThreadInv, Active
<1>3. trace_event \notin {"stop_event", "fini_event"}
  BY DEF ThreadInv, ReapInv, Past, AfterStop, Polling
<1> QED  BY <1>1, <1>2, <1>3 DEF ControlTypes, TraceEvents

(* Every step preserves SuspendInv: the fetcher's SIGSTOP is pending, then *)
(* reported, then dispatched, then signalled, and only a child that is     *)
(* stopped (or was killed while stopped) lets the fetcher go on.           *)
LEMMA SuspendInvStep ==
  ASSUME ControlTypes, ReapInv, ChildTypes, ThreadInv, SuspendInv, Next
  PROVE  SuspendInv'
<1> USE DEF Polling, Cycle, Final, Active, Early, Past, AfterStop, ReapInv,
            ChildTypes, ThreadInv, SuspendInv, Exits, Quiet, HeldOrKilled,
            StopDispatched, Undisturbed, FetcherDevicesUp
<1>1. CASE MainWaitExec         BY <1>1 DEF MainWaitExec
<1>2. CASE MainInitTrace        BY <1>2 DEF MainInitTrace
<1>3. CASE MainStartTrace       BY <1>3 DEF MainStartTrace
<1>4. CASE MainEnable           BY <1>4 DEF MainEnable
<1>5. CASE MainSetRunning       BY <1>5 DEF MainSetRunning
<1>6. CASE MainKsight           BY <1>6 DEF MainKsight
<1>7. CASE MainDetach           BY <1>7 DEF MainDetach
<1>8. CASE MainWait             BY <1>8 DEF MainWait
<1>9. CASE MainDispatch         BY <1>9 DEF MainDispatch
<1>10. CASE MainStopTrace       BY <1>10 DEF MainStopTrace
<1>11. CASE MainSetReady        BY <1>11 DEF MainSetReady
<1>12. CASE MainFini            BY <1>12 DEF MainFini
<1>13. CASE MainJoin            BY <1>13 DEF MainJoin
<1>14. CASE MainFetchBegin
  BY <1>14 DEF MainFetchBegin, FetchBegin, FetchFaults
<1>15. CASE MainFetchCopy
  BY <1>15 DEF MainFetchCopy, FetchGrow, FetchGrowFails, FetchRead
<1>16. CASE MainExport          BY <1>16 DEF MainExport
<1>17. CASE MainFree            BY <1>17 DEF MainFree
<1>18. CASE MainShutdown        BY <1>18 DEF MainShutdown
<1>19. CASE FetcherWorker       BY <1>19 DEF FetcherWorker
<1>20. CASE FetcherInitPos      BY <1>20 DEF FetcherInitPos
<1>21. CASE FetcherPoll         BY <1>21 DEF FetcherPoll
<1>22. CASE FetcherCompare      BY <1>22 DEF FetcherCompare
<1>23. CASE FetcherSigstop
  <2> SUFFICES ASSUME Undisturbed' PROVE SuspendInv'
    BY DEF SuspendInv, Undisturbed
  <2>1. /\ fetcher = "sigstop"
        /\ UNCHANGED <<main, child, report, wstatus, exit_status, trace_event,
                       job_signals>>
    BY <1>23 DEF FetcherSigstop
  <2>2. CASE child = "reaped"
    <3>1. fetcher' = "killed" /\ UNCHANGED pending
      BY <1>23, <2>2 DEF FetcherSigstop
    <3> QED  BY <2>1, <2>2, <3>1, ReapedQuiet
  <2>3. CASE child # "reaped"
    <3>1. trace_event = "start_event" /\ Quiet
      BY <2>1, <2>3, PollingEvent
    <3>2. main \notin Early
      BY <2>1 DEF ThreadInv, Early
    <3>3. fetcher' = "wait_suspend"
      BY <1>23, <2>3 DEF FetcherSigstop
    <3> QED  BY <2>1, <3>1, <3>2, <3>3
  <2> QED  BY <2>2, <2>3
<1>24. CASE FetcherAwait        BY <1>24 DEF FetcherAwait
<1>25. CASE FetcherDisable      BY <1>25 DEF FetcherDisable
<1>26. CASE FetcherFetchBegin
  BY <1>26 DEF FetcherFetchBegin, FetchBegin, FetchFaults
<1>27. CASE FetcherFetchCopy
  BY <1>27 DEF FetcherFetchCopy, FetchGrow, FetchGrowFails, FetchRead
<1>28. CASE FetcherEnable       BY <1>28 DEF FetcherEnable
<1>29. CASE FetcherCont         BY <1>29 DEF FetcherCont
<1>30. CASE FetcherKilled       BY <1>30 DEF FetcherKilled
<1>31. CASE ChildExec           BY <1>31 DEF ChildExec
<1>32. CASE ChildStop           BY <1>32 DEF ChildStop
<1>33. CASE ChildEnd            BY <1>33 DEF ChildEnd
<1>34. CASE JobSignal           BY <1>34 DEF JobSignal
<1>35. CASE ChildEmit \/ Terminated
  BY <1>35 DEF ChildEmit, Terminated, Lesser
<1> QED  BY <1>1, <1>2, <1>3, <1>4, <1>5, <1>6, <1>7, <1>8, <1>9, <1>10,
         <1>11, <1>12, <1>13, <1>14, <1>15, <1>16, <1>17, <1>18, <1>19,
         <1>20, <1>21, <1>22, <1>23, <1>24, <1>25, <1>26, <1>27, <1>28,
         <1>29, <1>30, <1>31, <1>32, <1>33, <1>34, <1>35 DEF Next, MainNext,
         FetcherNext, ChildNext

(* Every step preserves DeviceInv: the sources do not run into disabled    *)
(* sinks while the child can run.                                          *)
LEMMA DeviceInvStep ==
  ASSUME ReapInv, ChildTypes, ThreadInv, SuspendInv, DeviceInv, Next
  PROVE  DeviceInv'
<1> USE DEF Polling, Cycle, Final, Active, Early, Past, AfterStop, ReapInv,
            ChildTypes, ThreadInv, SuspendInv, DeviceInv, Exits, Quiet,
            HeldOrKilled, StopDispatched, Undisturbed, FetcherDevicesUp
<1>1. CASE MainWaitExec         BY <1>1 DEF MainWaitExec
<1>2. CASE MainInitTrace        BY <1>2 DEF MainInitTrace
<1>3. CASE MainStartTrace       BY <1>3 DEF MainStartTrace
<1>4. CASE MainEnable           BY <1>4 DEF MainEnable
<1>5. CASE MainSetRunning       BY <1>5 DEF MainSetRunning
<1>6. CASE MainKsight           BY <1>6 DEF MainKsight
<1>7. CASE MainDetach           BY <1>7 DEF MainDetach
<1>8. CASE MainWait             BY <1>8 DEF MainWait
<1>9. CASE MainDispatch         BY <1>9 DEF MainDispatch
<1>10. CASE MainStopTrace       BY <1>10 DEF MainStopTrace
<1>11. CASE MainSetReady        BY <1>11 DEF MainSetReady
<1>12. CASE MainFini            BY <1>12 DEF MainFini
<1>13. CASE MainJoin            BY <1>13 DEF MainJoin
<1>14. CASE MainFetchBegin
  BY <1>14 DEF MainFetchBegin, FetchBegin, FetchFaults
<1>15. CASE MainFetchCopy
  BY <1>15 DEF MainFetchCopy, FetchGrow, FetchGrowFails, FetchRead
<1>16. CASE MainExport          BY <1>16 DEF MainExport
<1>17. CASE MainFree            BY <1>17 DEF MainFree
<1>18. CASE MainShutdown        BY <1>18 DEF MainShutdown
<1>19. CASE FetcherWorker       BY <1>19 DEF FetcherWorker
<1>20. CASE FetcherInitPos      BY <1>20 DEF FetcherInitPos
<1>21. CASE FetcherPoll         BY <1>21 DEF FetcherPoll
<1>22. CASE FetcherCompare      BY <1>22 DEF FetcherCompare
<1>23. CASE FetcherSigstop      BY <1>23 DEF FetcherSigstop
<1>24. CASE FetcherAwait        BY <1>24 DEF FetcherAwait
<1>25. CASE FetcherDisable      BY <1>25 DEF FetcherDisable
<1>26. CASE FetcherFetchBegin
  BY <1>26 DEF FetcherFetchBegin, FetchBegin, FetchFaults
<1>27. CASE FetcherFetchCopy
  BY <1>27 DEF FetcherFetchCopy, FetchGrow, FetchGrowFails, FetchRead
<1>28. CASE FetcherEnable       BY <1>28 DEF FetcherEnable
<1>29. CASE FetcherCont         BY <1>29 DEF FetcherCont
<1>30. CASE FetcherKilled       BY <1>30 DEF FetcherKilled
<1>31. CASE ChildExec           BY <1>31 DEF ChildExec
<1>32. CASE ChildStop           BY <1>32 DEF ChildStop
<1>33. CASE ChildEnd            BY <1>33 DEF ChildEnd
<1>34. CASE JobSignal           BY <1>34 DEF JobSignal
<1>35. CASE ChildEmit \/ Terminated
  BY <1>35 DEF ChildEmit, Terminated, Lesser
<1> QED  BY <1>1, <1>2, <1>3, <1>4, <1>5, <1>6, <1>7, <1>8, <1>9, <1>10,
         <1>11, <1>12, <1>13, <1>14, <1>15, <1>16, <1>17, <1>18, <1>19,
         <1>20, <1>21, <1>22, <1>23, <1>24, <1>25, <1>26, <1>27, <1>28,
         <1>29, <1>30, <1>31, <1>32, <1>33, <1>34, <1>35 DEF Next, MainNext,
         FetcherNext, ChildNext

(* Every step preserves BufferInv: the write pointer stays inside          *)
(* trace_buf through alignment, growth, complete, partial and failed       *)
(* reads.                                                                  *)
LEMMA BufferInvStep ==
  ASSUME BufferInv, DataTypes, ControlTypes, ThreadInv, Next
  PROVE  BufferInv'
<1> USE DEF Early, BufferInv, DataTypes, ControlTypes, TraceBufInBounds,
            MainPcs
<1>1. CASE MainWaitExec         BY <1>1 DEF MainWaitExec
<1>2. CASE MainInitTrace        BY <1>2 DEF MainInitTrace
<1>3. CASE MainStartTrace       BY <1>3 DEF MainStartTrace
<1>4. CASE MainEnable           BY <1>4 DEF MainEnable
<1>5. CASE MainSetRunning       BY <1>5 DEF MainSetRunning
<1>6. CASE MainKsight           BY <1>6 DEF MainKsight
<1>7. CASE MainDetach           BY <1>7 DEF MainDetach
<1>8. CASE MainWait             BY <1>8 DEF MainWait
<1>9. CASE MainDispatch         BY <1>9 DEF MainDispatch
<1>10. CASE MainStopTrace       BY <1>10 DEF MainStopTrace
<1>11. CASE MainSetReady        BY <1>11 DEF MainSetReady
<1>12. CASE MainFini            BY <1>12 DEF MainFini
<1>13. CASE MainJoin            BY <1>13 DEF MainJoin
<1>14. CASE MainFetchBegin
  BY <1>14, AlignInBuffer DEF MainFetchBegin, FetchBegin, FetchFaults
<1>15. CASE MainFetchCopy
  <2>1. CASE FetchGrow("main")
    BY <1>15, <2>1, DoubleAligned DEF MainFetchCopy, FetchGrow
  <2>2. CASE FetchGrowFails("main")
    BY <1>15, <2>2 DEF MainFetchCopy, FetchGrowFails
  <2>3. CASE FetchRead("main")
    <3>1. /\ trace_mutex' = "free" /\ UNCHANGED trace_buf_size
          /\ main' \notin Early
      BY <1>15, <2>3 DEF MainFetchCopy, FetchRead
    <3> QED  BY <2>3, <3>1, CopyEffect
  <2> QED  BY <1>15, <2>1, <2>2, <2>3 DEF MainFetchCopy
<1>16. CASE MainExport          BY <1>16 DEF MainExport
<1>17. CASE MainFree            BY <1>17 DEF MainFree
<1>18. CASE MainShutdown        BY <1>18 DEF MainShutdown
<1>19. CASE FetcherFetchBegin
  BY <1>19, AlignInBuffer DEF FetcherFetchBegin, FetchBegin, FetchFaults
<1>20. CASE FetcherFetchCopy
  <2>1. CASE FetchGrow("fetcher")
    BY <1>20, <2>1, DoubleAligned DEF FetcherFetchCopy, FetchGrow
  <2>2. CASE FetchGrowFails("fetcher")
    BY <1>20, <2>2 DEF FetcherFetchCopy, FetchGrowFails
  <2>3. CASE FetchRead("fetcher")
    <3>1. /\ trace_mutex' = "free" /\ UNCHANGED trace_buf_size
          /\ main' \notin Early
      BY <1>20, <2>3 DEF FetcherFetchCopy, FetchRead, ThreadInv
    <3> QED  BY <2>3, <3>1, CopyEffect
  <2> QED  BY <1>20, <2>1, <2>2, <2>3 DEF FetcherFetchCopy
<1>21. CASE FetcherWorker \/ FetcherInitPos \/ FetcherPoll \/ FetcherCompare
          \/ FetcherSigstop \/ FetcherAwait \/ FetcherDisable \/
          FetcherEnable \/ FetcherCont \/ FetcherKilled
  BY <1>21 DEF FetcherWorker, FetcherInitPos, FetcherPoll, FetcherCompare,
    FetcherSigstop, FetcherAwait, FetcherDisable, FetcherEnable,
    FetcherCont, FetcherKilled
<1>22. CASE ChildExec \/ ChildEmit \/ ChildStop \/ ChildEnd \/ JobSignal \/
          Terminated
  BY <1>22 DEF ChildExec, ChildEmit, ChildStop, ChildEnd, JobSignal,
    Terminated, Lesser
<1> QED  BY <1>1, <1>2, <1>3, <1>4, <1>5, <1>6, <1>7, <1>8, <1>9, <1>10,
         <1>11, <1>12, <1>13, <1>14, <1>15, <1>16, <1>17, <1>18, <1>19,
         <1>20, <1>21, <1>22 DEF Next, MainNext, FetcherNext, ChildNext

(* Every step preserves NoByteDropped: a running child finds the sinks on. *)
LEMMA NoByteDroppedStep ==
  ASSUME NoByteDropped, DeviceInv, ChildTypes, Next
  PROVE  NoByteDropped'
<1> USE DEF NoByteDropped, DeviceInv, ChildTypes, Undisturbed
<1>1. CASE ChildEmit            BY <1>1 DEF ChildEmit, Lesser
<1>2. CASE JobSignal            BY <1>2 DEF JobSignal
<1>3. CASE MainWaitExec \/ MainInitTrace \/ MainStartTrace \/ MainEnable \/
          MainSetRunning \/ MainKsight \/ MainDetach \/ MainWait \/
          MainDispatch \/ MainStopTrace \/ MainSetReady \/ MainFini \/
          MainJoin \/ MainFetchBegin \/ MainFetchCopy \/ MainExport \/
          MainFree \/ MainShutdown
  BY <1>3 DEF MainWaitExec, MainInitTrace, MainStartTrace, MainEnable,
    MainSetRunning, MainKsight, MainDetach, MainWait, MainDispatch,
    MainStopTrace, MainSetReady, MainFini, MainJoin, MainFetchBegin,
    MainFetchCopy, MainExport, MainFree, MainShutdown, FetchBegin,
    FetchFaults, FetchGrow, FetchGrowFails, FetchRead
<1>4. CASE FetcherWorker \/ FetcherInitPos \/ FetcherPoll \/ FetcherCompare
          \/ FetcherSigstop \/ FetcherAwait \/ FetcherDisable \/
          FetcherFetchBegin \/ FetcherFetchCopy \/ FetcherEnable \/
          FetcherCont \/ FetcherKilled
  BY <1>4 DEF FetcherWorker, FetcherInitPos, FetcherPoll, FetcherCompare,
    FetcherSigstop, FetcherAwait, FetcherDisable, FetcherFetchBegin,
    FetcherFetchCopy, FetcherEnable, FetcherCont, FetcherKilled, FetchBegin,
    FetchFaults, FetchGrow, FetchGrowFails, FetchRead
<1>5. CASE ChildExec \/ ChildStop \/ ChildEnd \/ Terminated
  BY <1>5 DEF ChildExec, ChildStop, ChildEnd, Terminated
<1> QED  BY <1>1, <1>2, <1>3, <1>4, <1>5 DEF Next, MainNext, FetcherNext,
         ChildNext

(* Every step preserves StopIsFinal: after the parent stopped the trace    *)
(* the fetcher is past enable_cs_trace.                                    *)
LEMMA StopIsFinalStep ==
  ASSUME StopIsFinal, ReapInv, ThreadInv, SuspendInv, ChildTypes, Next
  PROVE  StopIsFinal'
<1> USE DEF Polling, Cycle, Final, Active, Early, Past, AfterStop,
            StopIsFinal, ReapInv, ThreadInv, SuspendInv, ChildTypes,
            HeldOrKilled, Undisturbed, Exits
<1>1. CASE MainWaitExec         BY <1>1 DEF MainWaitExec
<1>2. CASE MainInitTrace        BY <1>2 DEF MainInitTrace
<1>3. CASE MainStartTrace       BY <1>3 DEF MainStartTrace
<1>4. CASE MainEnable           BY <1>4 DEF MainEnable
<1>5. CASE MainSetRunning       BY <1>5 DEF MainSetRunning
<1>6. CASE MainKsight           BY <1>6 DEF MainKsight
<1>7. CASE MainDetach           BY <1>7 DEF MainDetach
<1>8. CASE MainWait             BY <1>8 DEF MainWait
<1>9. CASE MainDispatch         BY <1>9 DEF MainDispatch
<1>10. CASE MainStopTrace       BY <1>10 DEF MainStopTrace
<1>11. CASE MainSetReady        BY <1>11 DEF MainSetReady
<1>12. CASE MainFini            BY <1>12 DEF MainFini
<1>13. CASE MainJoin            BY <1>13 DEF MainJoin
<1>14. CASE MainFetchBegin
  BY <1>14 DEF MainFetchBegin, FetchBegin, FetchFaults
<1>15. CASE MainFetchCopy
  BY <1>15 DEF MainFetchCopy, FetchGrow, FetchGrowFails, FetchRead
<1>16. CASE MainExport          BY <1>16 DEF MainExport
<1>17. CASE MainFree            BY <1>17 DEF MainFree
<1>18. CASE MainShutdown        BY <1>18 DEF MainShutdown
<1>19. CASE FetcherDisable      BY <1>19 DEF FetcherDisable
<1>20. CASE FetcherFetchBegin
  BY <1>20 DEF FetcherFetchBegin, FetchBegin, FetchFaults
<1>21. CASE FetcherFetchCopy
  BY <1>21 DEF FetcherFetchCopy, FetchGrow, FetchGrowFails, FetchRead
<1>22. CASE FetcherEnable       BY <1>22 DEF FetcherEnable
<1>23. CASE JobSignal           BY <1>23 DEF JobSignal
<1>24. CASE FetcherWorker \/ FetcherInitPos \/ FetcherPoll \/ FetcherCompare
          \/ FetcherSigstop \/ FetcherAwait \/ FetcherCont \/ FetcherKilled
  BY <1>24 DEF FetcherWorker, FetcherInitPos, FetcherPoll, FetcherCompare,
    FetcherSigstop, FetcherAwait, FetcherCont, FetcherKilled
<1>25. CASE ChildExec \/ ChildEmit \/ ChildStop \/ ChildEnd \/ Terminated
  BY <1>25 DEF ChildExec, ChildEmit, ChildStop, ChildEnd, Terminated, Lesser
<1> QED  BY <1>1, <1>2, <1>3, <1>4, <1>5, <1>6, <1>7, <1>8, <1>9, <1>10,
         <1>11, <1>12, <1>13, <1>14, <1>15, <1>16, <1>17, <1>18, <1>19,
         <1>20, <1>21, <1>22, <1>23, <1>24, <1>25 DEF Next, MainNext,
         FetcherNext, ChildNext

(* Every step preserves QuiescentFetch: whoever holds trace_mutex to fetch *)
(* has the ETR disabled.                                                   *)
LEMMA QuiescentFetchStep ==
  ASSUME QuiescentFetch, ThreadInv, MutexInv, ReapInv, SuspendInv,
         DeviceInv, StopIsFinal, ChildTypes, Next
  PROVE  QuiescentFetch'
<1> USE DEF Polling, Cycle, Final, Active, Early, Past, AfterStop,
            QuiescentFetch, ThreadInv, MutexInv, ReapInv, SuspendInv,
            DeviceInv, StopIsFinal, ChildTypes, HeldOrKilled, Undisturbed,
            Exits
<1>1. CASE MainInitTrace        BY <1>1 DEF MainInitTrace
<1>2. CASE MainStartTrace       BY <1>2 DEF MainStartTrace
<1>3. CASE MainEnable           BY <1>3 DEF MainEnable
<1>4. CASE MainKsight           BY <1>4 DEF MainKsight
<1>5. CASE MainStopTrace        BY <1>5 DEF MainStopTrace
<1>6. CASE MainFetchBegin
  BY <1>6 DEF MainFetchBegin, FetchBegin, FetchFaults
<1>7. CASE MainFetchCopy
  BY <1>7 DEF MainFetchCopy, FetchGrow, FetchGrowFails, FetchRead
<1>8. CASE MainExport           BY <1>8 DEF MainExport
<1>9. CASE FetcherDisable       BY <1>9 DEF FetcherDisable
<1>10. CASE FetcherFetchBegin
  BY <1>10 DEF FetcherFetchBegin, FetchBegin, FetchFaults
<1>11. CASE FetcherFetchCopy
  BY <1>11 DEF FetcherFetchCopy, FetchGrow, FetchGrowFails, FetchRead
<1>12. CASE FetcherEnable       BY <1>12 DEF FetcherEnable
<1>13. CASE JobSignal           BY <1>13 DEF JobSignal
<1>14. CASE MainWaitExec \/ MainSetRunning \/ MainDetach \/ MainWait \/
          MainDispatch \/ MainSetReady \/ MainFini \/ MainJoin \/ MainFree
          \/ MainShutdown
  BY <1>14 DEF MainWaitExec, MainSetRunning, MainDetach, MainWait,
    MainDispatch, MainSetReady, MainFini, MainJoin, MainFree, MainShutdown
<1>15. CASE FetcherWorker \/ FetcherInitPos \/ FetcherPoll \/ FetcherCompare
          \/ FetcherSigstop \/ FetcherAwait \/ FetcherCont \/ FetcherKilled
  BY <1>15 DEF FetcherWorker, FetcherInitPos, FetcherPoll, FetcherCompare,
    FetcherSigstop, FetcherAwait, FetcherCont, FetcherKilled
<1>16. CASE ChildExec \/ ChildEmit \/ ChildStop \/ ChildEnd \/ Terminated
  BY <1>16 DEF ChildExec, ChildEmit, ChildStop, ChildEnd, Terminated, Lesser
<1> QED  BY <1>1, <1>2, <1>3, <1>4, <1>5, <1>6, <1>7, <1>8, <1>9, <1>10,
         <1>11, <1>12, <1>13, <1>14, <1>15, <1>16 DEF Next, MainNext,
         FetcherNext, ChildNext

----------------------------------------------------------------------------
(* The invariant.                                                          *)

(* The session starts in a state that satisfies IInv.                      *)
LEMMA IInvInit == Init => IInv
<1> SUFFICES ASSUME Init PROVE IInv
  OBVIOUS
<1> USE DEF Init
<1>1. ControlTypes
  BY DEF ControlTypes, MainPcs, FetcherPcs, TraceStates, TraceEvents
<1>2. ChildTypes
  BY DEF ChildTypes, Exits
<1>3. DataTypes
  BY DEF DataTypes
<1>4. FlagTypes
  BY DEF FlagTypes
<1>5. ThreadInv
  BY DEF ThreadInv, Early, AfterStop, Active, Polling, Cycle, Final,
         FetcherDevicesUp
<1>6. MutexInv /\ ReapInv
  BY DEF MutexInv, ReapInv, Past, AfterStop
<1>7. SuspendInv
  BY DEF SuspendInv, Quiet, StopDispatched, Polling, Cycle, Final
<1>8. DeviceInv
  BY DEF DeviceInv
<1>9. BufferInv
  BY DEF BufferInv, TraceBufInBounds
<1>10. NoByteDropped /\ QuiescentFetch /\ StopIsFinal
  BY DEF NoByteDropped, QuiescentFetch, StopIsFinal, AfterStop
<1> QED
  BY <1>1, <1>2, <1>3, <1>4, <1>5, <1>6, <1>7, <1>8, <1>9, <1>10
  DEF IInv, TypeOK

(* Every step of the session, and every stuttering step, preserves IInv.   *)
LEMMA IInvStep == IInv /\ [Next]_vars => IInv'
<1> SUFFICES ASSUME IInv, [Next]_vars PROVE IInv'
  OBVIOUS
<1>1. CASE Next
  BY <1>1, ControlTypesStep, ChildTypesStep, FlagTypesStep, DataTypesStep,
     ThreadInvStep, MutexInvStep, ReapInvStep, SuspendInvStep, DeviceInvStep,
     BufferInvStep, NoByteDroppedStep, StopIsFinalStep, QuiescentFetchStep
  DEF IInv, TypeOK
<1>2. CASE UNCHANGED vars
  <2>1. TypeOK'
    BY <1>2 DEF IInv, TypeOK, ControlTypes, ChildTypes, DataTypes, FlagTypes
  <2>2. ThreadInv' /\ MutexInv' /\ ReapInv'
    BY <1>2 DEF IInv, ThreadInv, MutexInv, ReapInv, FetcherDevicesUp
  <2>3. SuspendInv' /\ DeviceInv'
    BY <1>2 DEF IInv, SuspendInv, DeviceInv, Undisturbed, Quiet, HeldOrKilled,
                StopDispatched
  <2>4. BufferInv'
    BY <1>2 DEF IInv, BufferInv, TraceBufInBounds
  <2>5. NoByteDropped' /\ QuiescentFetch' /\ StopIsFinal'
    BY <1>2 DEF IInv, NoByteDropped, QuiescentFetch, StopIsFinal, Undisturbed
  <2> QED  BY <2>1, <2>2, <2>3, <2>4, <2>5 DEF IInv
<1> QED  BY <1>1, <1>2

(* IInv is an invariant of every session of cs-trace, for all sizes of the *)
(* buffers, all sets of failing calls, and any number of stop signals of   *)
(* third parties.                                                          *)
THEOREM Invariant == Spec => []IInv
  BY IInvInit, IInvStep, PTL DEF Spec

(* In particular it is well typed: the ETR's pointers and the unread trace *)
(* stay within the ETR.                                                    *)
THEOREM TypeCorrect == Spec => []TypeOK
<1>1. IInv => TypeOK  BY DEF IInv
<1> QED  BY Invariant, <1>1, PTL

(* The SIGSTOP protocol of trace_sink_polling: no trace is lost in         *)
(* disabled sinks while only the fetcher stops the child, whatever calls   *)
(* fail.                                                                   *)
THEOREM NothingDropped == Spec => []NoByteDropped
<1>1. IInv => NoByteDropped  BY DEF IInv
<1> QED  BY Invariant, <1>1, PTL

(* fetch_trace, by either thread, reads an ETR that is disabled.           *)
THEOREM FetchesQuiescent == Spec => []QuiescentFetch
<1>1. IInv => QuiescentFetch  BY DEF IInv
<1> QED  BY Invariant, <1>1, PTL

(* After a stop_trace(true) that succeeded, the fetcher does not turn the  *)
(* trace on again.                                                         *)
THEOREM StopStaysFinal == Spec => []StopIsFinal
<1>1. IInv => StopIsFinal  BY DEF IInv
<1> QED  BY Invariant, <1>1, PTL

(* The fetcher's session with the devices ends before CSAL's does.         *)
THEOREM FetcherUsesLiveDevices == Spec => []FetcherDevicesUp
<1>1. IInv => FetcherDevicesUp  BY DEF IInv, ThreadInv
<1> QED  BY Invariant, <1>1, PTL

(* fetch_trace never writes outside trace_buf.                             *)
THEOREM BufferSafe == Spec => []TraceBufInBounds
<1>1. IInv => TraceBufInBounds  BY DEF IInv, BufferInv
<1> QED  BY Invariant, <1>1, PTL

(* trace_suspend_callback always finds the trace running.                  *)
THEOREM SuspendsRunning == Spec => []SuspendFromRunning
<1>1. IInv => SuspendFromRunning
  BY DEF IInv, SuspendInv, ThreadInv, SuspendFromRunning, StopDispatched
<1> QED  BY Invariant, <1>1, PTL

----------------------------------------------------------------------------
(* The documented state machine.                                           *)

(* A step of the session is a row of the table in set_trace_state's        *)
(* comment, or leaves the trace state and the trace event alone.           *)
LEMMA RowStep ==
  ASSUME MaxJobSignals = 0, IInv, Next
  PROVE  [FSM!Next]_(FSM!vars)
<1> USE DEF FSM!vars, FSM!Next, FSM!Row, FSM!Any, FSM!TraceStates,
            TraceStates
<1>1. trace_state \in TraceStates
  BY DEF IInv, TypeOK, ControlTypes
<1>2. CASE MainInitTrace
  <2>1. trace_state = "init"
    BY <1>2 DEF MainInitTrace, IInv, ThreadInv
  <2>2. SetTraceState("ready") \/ UNCHANGED ctlVars
    BY <1>2 DEF MainInitTrace
  <2>3. FSM!Row({"init"}, "ready", "init_event") \/ UNCHANGED ctlVars
    BY <2>1, <2>2
  <2> QED  BY <2>3
<1>3. CASE MainSetRunning
  BY <1>1, <1>3 DEF MainSetRunning, IInv, ThreadInv, Early
<1>4. CASE MainDispatch
  <2>1. CASE UNCHANGED ctlVars
    BY <2>1
  <2>2. CASE FetcherOn /\ wstatus \in {"SIGSTOP", "SIGCONT"}
    <3>1. wstatus = "SIGSTOP"
      BY <2>2 DEF IInv, TypeOK, ChildTypes, Exits
    <3>2. job_signals = 0
      BY DEF IInv, TypeOK, ChildTypes
    <3>3. trace_state = "running"
      BY <1>4, <3>1, <3>2
      DEF MainDispatch, IInv, SuspendInv, ThreadInv, StopDispatched,
          Undisturbed
    <3>4. SetTraceState("suspended")
      BY <1>4, <2>2, <3>1 DEF MainDispatch
    <3> QED  BY <3>3, <3>4
  <2> QED  BY <1>4, <2>1, <2>2 DEF MainDispatch
<1>5. CASE MainSetReady
  <2>1. trace_state # "fini" /\ SetTraceState("ready")
    BY <1>5 DEF MainSetReady, IInv, ThreadInv, AfterStop
  <2>2. \/ FSM!Row({"init"}, "ready", "init_event")
        \/ FSM!Row(FSM!Any, "ready", "stop_event")
    BY <1>1, <2>1
  <2> QED  BY <2>2
<1>6. CASE MainFini
  <2>1. trace_state # "fini"
    BY <1>6 DEF MainFini, IInv, ThreadInv, AfterStop
  <2>2. SetTraceState("fini") \/ UNCHANGED ctlVars
    BY <1>6 DEF MainFini
  <2>3. \/ FSM!Row({"init"}, "fini", "init_event")
        \/ FSM!Row(FSM!Any, "fini", "fini_event")
        \/ UNCHANGED ctlVars
    BY <1>1, <2>1, <2>2
  <2> QED  BY <2>3
<1>7. CASE \/ MainWaitExec \/ MainStartTrace \/ MainEnable \/ MainKsight
           \/ MainDetach \/ MainWait \/ MainStopTrace \/ MainJoin
           \/ MainFetchBegin \/ MainFetchCopy \/ MainExport \/ MainFree
           \/ MainShutdown
  BY <1>7
  DEF MainWaitExec, MainStartTrace, MainEnable, MainKsight, MainDetach,
      MainWait, MainStopTrace, MainJoin, MainFetchBegin, MainFetchCopy,
      MainExport, MainFree, MainShutdown
<1>8. CASE FetcherNext
  BY <1>8
  DEF FetcherNext, FetcherWorker, FetcherInitPos, FetcherPoll, FetcherCompare,
      FetcherSigstop, FetcherAwait, FetcherDisable, FetcherFetchBegin,
      FetcherFetchCopy, FetcherEnable, FetcherCont, FetcherKilled
<1>9. CASE ChildNext \/ Terminated
  BY <1>9
  DEF ChildNext, ChildExec, ChildEmit, ChildStop, ChildEnd, JobSignal,
      Terminated
<1> QED
  BY <1>2, <1>3, <1>4, <1>5, <1>6, <1>7, <1>8, <1>9 DEF Next, MainNext

(* Without stop signals of third parties, the trace state machine that the *)
(* comment of set_trace_state documents is what the session implements.    *)
THEOREM Refinement ==
  ASSUME MaxJobSignals = 0
  PROVE  Spec => FollowsFSM
<1>1. Init => FSM!Init
  BY DEF Init, FSM!Init
<1>2. IInv /\ [Next]_vars => [FSM!Next]_(FSM!vars)
  BY RowStep DEF FSM!vars
<1> QED  BY <1>1, <1>2, Invariant, PTL DEF Spec, FollowsFSM, FSM!Spec
============================================================================
