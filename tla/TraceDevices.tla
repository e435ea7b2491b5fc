---------------------------- MODULE TraceDevices ----------------------------
(***************************************************************************)
(* enable_cs_trace and disable_cs_trace of src/common.c with the functions *)
(* of src/config.c they call, one access to a device at a time: the order  *)
(* of the devices, which results are looked at, CSAL's global error count, *)
(* the trials of disable_cs_trace and the shutdown after a failed enable.  *)
(*                                                                         *)
(* Each function of config.c is a table of accesses, in order. The callers *)
(* are the main thread (start_trace, stop_trace) and the fetcher's cycle   *)
(* of disable, fetch and enable.                                           *)
(***************************************************************************)
EXTENDS Boards, Sequences

CONSTANTS
  TRACE_DISABLE_TRIAL,
  MaxFaults            \* bound: accesses to devices that fail

ASSUME TrialAssumption == TRACE_DISABLE_TRIAL \in Nat \ {0}
ASSUME FaultAssumption == MaxFaults \in Nat

VARIABLES
  board,           \* the name of the board, or "none" when it was not set up
  dev,             \* what each device does: "on" or "off"
  registration_verbose,
  error_count,     \* cs_error_count()
  lib,             \* "none", "up", "closed": after cs_shutdown, "aborted"
  is_first_trace,
  trace_mutex,     \* the thread that holds it, or "free"
  routine, step,   \* the function of config.c that runs, and its next access
  ret,             \* 1 while it runs, then what it returned
  disable_trial,
  main, fetcher,   \* the callers
  (* History *)
  entry,           \* sources and sinks when the call began
  call_faults,     \* accesses that failed in this call
  stray,           \* errors were counted outside of these calls
  faults, failed, misuse

callVars == <<routine, step, ret, disable_trial, entry, call_faults>>
vars == <<board, registration_verbose, dev, error_count, lib,
          is_first_trace, trace_mutex, callVars, main, fetcher, stray,
          faults, failed, misuse>>

----------------------------------------------------------------------------
(* The functions of config.c.                                              *)

(* One access: the device, what is done to it ("on" and "off" change its   *)
(* state), and what the function looks at afterwards: nothing, the result  *)
(* of the access, or the error count.                                      *)
Access(d, act, check) == [dev |-> d, act |-> act, check |-> check]

(* The same access for each device of a sequence.                          *)
ForEach(ds, act, check) == [i \in DOMAIN ds |-> Access(ds[i], act, check)]

CountErrors == <<Access("etr", "count", "errors")>>

(* For each CPU the source id and init_etm, which looks at the result of   *)
(* cleaning the source but not of programming it. (CSAL's results are 0 or *)
(* negative: configure_trace would take a positive one for a success.)     *)
InitEtms(ptm) ==
  [i \in 1..(2 * Len(ptm)) |->
     IF i % 2 = 1 THEN Access(ptm[(i + 1) \div 2], "init", "result")
                  ELSE Access(ptm[i \div 2], "program", "nothing")]

(* configure_trace: cs_disable_tpiu and cs_sink_disable, then the ETMs are *)
(* initialised, the id of the STM is set, for each CPU the address         *)
(* range (configure_etmv4_addr_range_cid shows it with --verbose, see      *)
(* Shows, and returns -1 on any error counted), stop on flush, and the     *)
(* error count.                                                            *)
ConfigureTrace(b) ==
  <<Access("tpiu", "off", "nothing"), Access("etr", "off", "nothing")>>
  \o InitEtms(b.ptm)
  \o <<Access("stm", "id", "result")>>
  \o ForEach(b.ptm, "config", "errors")
  \o <<Access("etr", "stop_on_flush", "nothing")>> \o CountErrors

(* enable_trace: ETR, TPIU, ETFs, ETMs, STM. Setting a sink up and         *)
(* enabling it are one access.                                             *)
EnableTrace(b) ==
  <<Access("etr", "on", "result"), Access("tpiu", "on", "result")>>
  \o ForEach(b.trace_sinks, "on", "result")
  \o ForEach(b.ptm, "on", "nothing")
  \o <<Access("stm", "ports", "result"), Access("stm", "on", "nothing")>>
  \o CountErrors

(* disable_trace: flush, ETMs, STM, ETFs, ETR, TPIU. With --verbose=2 the  *)
(* ETMs are shown before the errors are counted, see Shows.                *)
DisableTrace(b) ==
  <<Access("etr", "flush", "nothing")>>
  \o ForEach(b.ptm, "off", "nothing")
  \o <<Access("stm", "off", "nothing")>>
  \o ForEach(b.trace_sinks, "off", "nothing")
  \o <<Access("etr", "off", "nothing"), Access("tpiu", "off", "result")>>
  \o CountErrors

(* enable_trace_sinks_only: ETR, TPIU, ETFs.                               *)
EnableTraceSinksOnly(b) ==
  <<Access("etr", "on", "result"), Access("tpiu", "on", "result")>>
  \o ForEach(b.trace_sinks, "on", "result")
  \o CountErrors

(* Mutants: the errors are not counted; the TPIU is left on.               *)
DisableSinksUncounted(b) ==
  <<Access("etr", "flush", "nothing"), Access("tpiu", "off", "result")>>
  \o ForEach(b.trace_sinks, "off", "nothing")
  \o <<Access("etr", "off", "nothing")>>
DisableSinksNoTpiu(b) ==
  <<Access("etr", "flush", "nothing")>>
  \o ForEach(b.trace_sinks, "off", "nothing")
  \o <<Access("etr", "off", "nothing")>> \o CountErrors

(* disable_trace_sinks_only: flush, TPIU, ETFs, ETR. A TPIU that fails     *)
(* ends it before the ETFs and the ETR.                                    *)
DisableTraceSinksOnly(b) ==
  <<Access("etr", "flush", "nothing"), Access("tpiu", "off", "result")>>
  \o ForEach(b.trace_sinks, "off", "nothing")
  \o <<Access("etr", "off", "nothing")>> \o CountErrors

Enabling  == {"configure_trace", "enable_trace", "enable_trace_sinks_only"}
Disabling == {"disable_trace", "disable_trace_sinks_only"}

(* The accesses of each function on each board, and of the one that runs.  *)
Programs ==
  [n \in DOMAIN KnownBoards |->
    LET b == KnownBoards[n] IN
    [configure_trace          |-> ConfigureTrace(b),
     enable_trace             |-> EnableTrace(b),
     enable_trace_sinks_only  |-> EnableTraceSinksOnly(b),
     disable_trace            |-> DisableTrace(b),
     disable_trace_sinks_only |-> DisableTraceSinksOnly(b)]]

Program == Programs[board][routine]

----------------------------------------------------------------------------
(* What a caller tells apart.                                              *)

On(ds)  == \A d \in ds : dev[d] = "on"
Off(ds) == \A d \in ds : dev[d] = "off"

Sources   == {"ptm0", "ptm1", "ptm2", "ptm3", "stm"}
MainSinks == {"etr"} \cup
             IF board = "none" THEN {}
             ELSE {KnownBoards[board].trace_sinks[i] :
                     i \in DOMAIN KnownBoards[board].trace_sinks}

SourceState == IF Off(Sources) THEN "off" ELSE "on"
SinkState   == IF On(MainSinks) THEN "on"
               ELSE IF Off(MainSinks) THEN "off" ELSE "partial"

----------------------------------------------------------------------------
(* setup_named_board has registered a known board, perhaps counting errors *)
(* on the way, or it has failed.                                           *)
Init ==
  /\ board \in DOMAIN KnownBoards \cup {"none"}
  /\ registration_verbose \in 0..2
  /\ lib = IF board = "none" THEN "none" ELSE "up"
  /\ dev = [d \in Devices |-> "off"]
  /\ error_count \in IF board = "none" THEN {0} ELSE 0..1
  /\ stray = (error_count > 0)
  /\ is_first_trace = TRUE /\ trace_mutex = "free"
  /\ routine = "none" /\ step = 1 /\ ret = 0 /\ disable_trial = 0
  /\ main = "start" /\ fetcher = "none"
  /\ entry = <<"off", "off">> /\ call_faults = 0
  /\ faults = 0 /\ failed = {} /\ misuse = FALSE

(* The result of the call: the thread that made it goes on. parent()       *)
(* ignores the results of start_trace and stop_trace; the fetcher's cycle  *)
(* starts after the first successful enable and ends on a failure.         *)
NextOf == [cycle |-> "fetch", fetch |-> "enable", enable |-> "cycle"]

ThreadGoesOn(ok) ==
  IF trace_mutex = "main"
  THEN /\ main' = IF main = "start" THEN "run" ELSE "done"
       /\ fetcher' = IF main = "start" /\ ok THEN "cycle" ELSE fetcher
  ELSE /\ fetcher' = IF ok THEN NextOf[fetcher] ELSE "end"
       /\ UNCHANGED main

(* The process ends abnormally.                                            *)
ProcessEnds == main' = "crashed" /\ fetcher' = "crashed"

(* It ends inside a call, which does not return, with trace_mutex held.    *)
EndsInside == /\ ProcessEnds /\ lib' = "aborted"
              /\ routine' = "none" /\ ret' = 0

(* Thread t takes trace_mutex and enters function f of config.c.           *)
Enter(t, f) ==
  /\ trace_mutex = "free" /\ trace_mutex' = t
  /\ routine' = f /\ step' = 1 /\ disable_trial' = 1
  /\ ret' = IF board = "none" THEN -1 ELSE 1
  /\ entry' = <<SourceState, SinkState>> /\ call_faults' = 0
  /\ UNCHANGED <<board, registration_verbose, dev, error_count, lib,
                 is_first_trace, main, fetcher, stray, faults, failed,
                 misuse>>

(* enable_cs_trace.                                                        *)
EnableCsTrace(t) ==
  /\ \/ t = "main" /\ main = "start"
     \/ t = "fetcher" /\ fetcher = "enable"
  /\ lib # "closed"
  /\ Enter(t, IF is_first_trace THEN "configure_trace"
                                ELSE "enable_trace_sinks_only")

(* disable_cs_trace(disable_all): all by the main thread's stop_trace, the *)
(* sinks only by the fetcher.                                              *)
DisableCsTrace(t) ==
  /\ lib # "closed"
  /\ \/ t = "main" /\ main = "run" /\ Enter(t, "disable_trace")
     \/ t = "fetcher" /\ fetcher = "cycle" /\ Enter(t, "disable_trace_sinks_only")

(* Either function after cs_shutdown: it fails, or it ends the process.    *)
DeadCall ==
  /\ trace_mutex = "free" /\ lib = "closed"
  /\ \/ /\ main = "run" /\ main' = "done"
        /\ failed' = failed \cup {"disable"} /\ UNCHANGED fetcher
     \/ /\ fetcher = "cycle" /\ fetcher' = "end"
        /\ failed' = failed \cup {"disable"} /\ UNCHANGED main
     \/ /\ fetcher = "enable" /\ fetcher' = "end"
        /\ failed' = failed \cup {"enable"} /\ UNCHANGED main
     \/ /\ main = "run" \/ fetcher \in {"cycle", "enable"}
        /\ ProcessEnds /\ UNCHANGED failed
  /\ misuse' = TRUE
  /\ UNCHANGED <<board, registration_verbose, dev, error_count, lib,
                 is_first_trace, trace_mutex, callVars, stray, faults>>

(* What access a makes of the devices.                                     *)
Effect(a) == IF a.act \in {"on", "off"} THEN [dev EXCEPT ![a.dev] = a.act] ELSE dev

(* The flush is skipped when the ETR is not enabled.                       *)
Skipped(a) == a.act = "flush" /\ dev["etr"] = "off"

(* show_etm_config is called before the errors are counted. The call in    *)
(* disable_trace is not reached here: its callers enable the trace before, *)
(* which ends on the one in configure_trace.                               *)
Shows(a) == \/ a.act = "config" /\ registration_verbose > 0
            \/ /\ routine = "disable_trace" /\ a.act = "count"
               /\ registration_verbose > 1

(* One access. CSAL counts an access that fails, whether or not its result *)
(* is looked at; the device is then in either state.                       *)
AccessDevice ==
  /\ ret = 1
  /\ LET a == Program[step] IN
     /\ a.act = "init" => KnownBoards[board].etmv4
     /\ ~Shows(a)
     /\ \E bad \in BOOLEAN :
          /\ bad => faults < MaxFaults /\ a.act # "count" /\ ~Skipped(a)
          /\ dev' \in IF bad THEN {dev, Effect(a)} ELSE {Effect(a)}
          /\ faults' = faults + (IF bad THEN 1 ELSE 0)
          /\ call_faults' = call_faults + (IF bad THEN 1 ELSE 0)
          /\ error_count' = error_count + (IF bad THEN 1 ELSE 0)
          /\ ret' = IF \/ a.check = "result" /\ bad
                       \/ a.check = "errors" /\ error_count' > 0 THEN -1
                    ELSE IF step = Len(Program) THEN 0 ELSE 1
  /\ step' = step + 1
  /\ UNCHANGED <<board, registration_verbose, lib, is_first_trace,
                 trace_mutex, routine, entry, disable_trial, main, fetcher,
                 stray, failed, misuse>>

(* init_etm asserts that the source is an ETMv4: cs-trace aborts on a      *)
(* board with other sources, unless cleaning the source fails before.      *)
InitEtmAsserts ==
  /\ ret = 1
  /\ Program[step].act = "init" /\ ~KnownBoards[board].etmv4
  /\ \/ /\ EndsInside
        /\ UNCHANGED <<faults, call_faults, error_count>>
     \/ /\ faults < MaxFaults /\ ret' = -1
        /\ faults' = faults + 1 /\ call_faults' = call_faults + 1
        /\ error_count' = error_count + 1
        /\ UNCHANGED <<main, fetcher, lib, routine>>
  /\ UNCHANGED <<board, registration_verbose, dev, is_first_trace,
                 trace_mutex, step, disable_trial, entry, stray, failed,
                 misuse>>

(* show_etm_config writes through t4config, which is NULL, whether the     *)
(* access before it has failed or not.                                     *)
ShowEtmConfig ==
  /\ ret = 1 /\ Shows(Program[step])
  /\ EndsInside
  /\ UNCHANGED <<board, registration_verbose, dev, error_count,
                 is_first_trace, trace_mutex, step, disable_trial, entry,
                 call_faults, stray, faults, failed, misuse>>

(* configure_trace has succeeded; enable_trace follows.                    *)
ConfigureSucceeds ==
  /\ routine = "configure_trace" /\ ret = 0
  /\ routine' = "enable_trace" /\ step' = 1 /\ ret' = 1
  /\ UNCHANGED <<board, registration_verbose, dev, error_count, lib,
                 is_first_trace, trace_mutex, disable_trial, entry,
                 call_faults, main, fetcher, stray, faults, failed, misuse>>

(* The call is over and trace_mutex is released.                           *)
Leave(ok) ==
  /\ ThreadGoesOn(ok)
  /\ trace_mutex' = "free" /\ routine' = "none"
  /\ UNCHANGED <<board, registration_verbose, dev, step, ret, disable_trial,
                 entry, call_faults, faults, misuse>>

EnableLeaves ==
  /\ routine \in {"enable_trace", "enable_trace_sinks_only"} /\ ret = 0
  /\ is_first_trace' = FALSE
  /\ Leave(TRUE)
  /\ UNCHANGED <<lib, error_count, stray, failed>>

(* A failed enable calls cs_shutdown. The error count is left as it is.    *)
EnableShutsDown ==
  /\ routine \in Enabling /\ ret = -1
  /\ lib' = IF lib = "none" THEN "none" ELSE "closed"
  /\ failed' = failed \cup {"enable"}
  /\ Leave(FALSE)
  /\ UNCHANGED <<is_first_trace, error_count, stray>>

DisableLeaves ==
  /\ routine \in Disabling /\ ret = 0
  /\ Leave(TRUE)
  /\ UNCHANGED <<lib, is_first_trace, error_count, stray, failed>>

(* Mutant: cs_reset_error_count is not called after a failed trial.        *)
DisableRetriesUnreset ==
  /\ routine \in Disabling /\ ret = -1
  /\ disable_trial < TRACE_DISABLE_TRIAL
  /\ disable_trial' = disable_trial + 1
  /\ step' = 1 /\ ret' = IF board = "none" THEN -1 ELSE 1
  /\ UNCHANGED <<board, registration_verbose, dev, lib, is_first_trace,
                 trace_mutex, routine, entry, call_faults, main, fetcher,
                 faults, failed, misuse, error_count, stray>>

(* Mutant: the trials are not counted.                                     *)
DisableRetriesForever ==
  /\ routine \in Disabling /\ ret = -1
  /\ error_count' = 0 /\ stray' = FALSE
  /\ step' = 1 /\ ret' = IF board = "none" THEN -1 ELSE 1
  /\ UNCHANGED <<board, registration_verbose, dev, lib, is_first_trace,
                 trace_mutex, routine, entry, call_faults, main, fetcher,
                 faults, failed, misuse, disable_trial>>

(* A trial has failed: the error count is reset and the next one starts.   *)
DisableRetries ==
  /\ routine \in Disabling /\ ret = -1
  /\ disable_trial < TRACE_DISABLE_TRIAL
  /\ disable_trial' = disable_trial + 1
  /\ error_count' = 0 /\ stray' = FALSE
  /\ step' = 1 /\ ret' = IF board = "none" THEN -1 ELSE 1
  /\ UNCHANGED <<board, registration_verbose, dev, lib, is_first_trace,
                 trace_mutex, routine, entry, call_faults, main, fetcher,
                 faults, failed, misuse>>

(* The last trial has failed.                                              *)
DisableGivesUp ==
  /\ routine \in Disabling /\ ret = -1
  /\ disable_trial = TRACE_DISABLE_TRIAL
  /\ error_count' = 0 /\ stray' = FALSE
  /\ failed' = failed \cup {"disable"}
  /\ Leave(FALSE)
  /\ UNCHANGED <<lib, is_first_trace>>

(* fetch_trace reads and empties the ETR under trace_mutex. CSAL may count *)
(* an error, which fetch_trace does not look at.                           *)
FetchTrace ==
  /\ fetcher = "fetch" /\ trace_mutex = "free"
  /\ fetcher' = NextOf[fetcher]
  /\ \/ UNCHANGED <<error_count, stray, faults>>
     \/ /\ faults < MaxFaults /\ faults' = faults + 1
        /\ error_count' = error_count + 1 /\ stray' = TRUE
  /\ UNCHANGED <<board, registration_verbose, dev, lib, is_first_trace,
                 trace_mutex, callVars, main, failed, misuse>>

Inside == \/ AccessDevice \/ InitEtmAsserts \/ ShowEtmConfig \/ ConfigureSucceeds
          \/ EnableLeaves \/ EnableShutsDown
          \/ DisableLeaves \/ DisableRetries \/ DisableGivesUp

(* The program has ended, or no thread has to call any more.               *)
Ended == /\ main \in {"done", "crashed"} /\ (main = "done" => trace_mutex = "free")
         /\ UNCHANGED vars

Next == \/ \E t \in {"main", "fetcher"} : EnableCsTrace(t) \/ DisableCsTrace(t)
        \/ DeadCall \/ Inside \/ FetchTrace \/ Ended

Spec == Init /\ [][Next]_vars

(* The thread that holds trace_mutex is scheduled.                         *)
FairSpec == Spec /\ WF_vars(Inside)

----------------------------------------------------------------------------
(* Properties.                                                             *)

(* Between two calls the callers see the devices; during one, what they    *)
(* saw when it began. With this mapping every call is one of the outcomes  *)
(* from which TraceSession is built, whichever accesses fail.              *)
Outcomes == INSTANCE DeviceOutcomes WITH
              sources <- IF trace_mutex = "free" THEN SourceState ELSE entry[1],
              sinks   <- IF trace_mutex = "free" THEN SinkState ELSE entry[2],
              etm     <- IF board # "none" /\ KnownBoards[board].etmv4
                         THEN "ETMv4" ELSE "PTM",
              Faults  <- {"enable", "disable"}
ImplementsOutcomes == Outcomes!DeviceSpec

(* The TPIU, which does not count as a sink above, is on exactly while the *)
(* ETR is on, between the calls of a session in which no call has failed,  *)
(* however many trials its disables took: the order of TPIU and ETR        *)
(* differs between disable_trace and disable_trace_sinks_only.             *)
TpiuFollowsEtr ==
  trace_mutex = "free" /\ failed = {} => dev["tpiu"] = dev["etr"]

(* Trace of source d gets to the ETR.                                      *)
Path == [n \in DOMAIN KnownBoards |->
          [d \in Sources |-> {"etr"} \cup FifosBehind(KnownBoards[n], d)]]
Delivers(d) == On(Path[board][d])

(* On the way up and on the way down no source is on while an ETF between  *)
(* it and the ETR, or the ETR, is off (enable_trace and disable_trace go   *)
(* through the devices in opposite orders), unless an access failed or the *)
(* fetcher is between its disable and its enable.                          *)
SourcesDeliver ==
  /\ routine \in {"enable_trace", "disable_trace"} \/ (trace_mutex = "free" /\ main = "run")
  /\ call_faults = 0 /\ failed = {}
  /\ fetcher \notin {"fetch", "enable"}
  => \A d \in Sources : dev[d] = "on" => Delivers(d)

(* An enable that fails although each of its own accesses succeeded fails  *)
(* for errors that the registration or a fetch has counted: the errors of  *)
(* a disable, and of its trials, never fail the enable after it.           *)
EnableFailureHasCause ==
  routine \in Enabling /\ ret = -1 /\ board # "none" /\ call_faults = 0 => stray

(* disable_cs_trace forgives what is over: it gives up only if an access   *)
(* failed in each of its trials; errors that were counted before can cost  *)
(* it no more than the first one.                                          *)
TrialsForgive ==
  /\ routine \in Disabling /\ ret = -1 /\ board # "none"
  => call_faults >= disable_trial - 1

(* Each call returns and releases trace_mutex, unless cs-trace aborts.     *)
CallsReturn == trace_mutex # "free" ~> trace_mutex = "free" \/ main = "crashed"
============================================================================
