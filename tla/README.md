# A TLA+ model of ultrasight's cs-trace

`cs-trace` runs a program under Arm CoreSight tracing: it forks, the child stops at
`execvpe`, the parent configures the board, starts the trace, lets the child run and,
when it has ended, fetches the trace from the ETR's memory and writes `cstrace.bin`. With
`--fetcher` a second thread empties the ETR while the program runs, by stopping the
program with SIGSTOP. With `--ksight` a kernel module records tag events of the program.

This directory holds a TLA+ model of that session and of the parts it is built from, its TLC configurations and TLAPS
proofs. Paths below are relative to the repository; `PROJECT.json` gives the source lines
of every definition.

## Inventory

| Component | State | Operations | Where |
|---|---|---|---|
| Session control (parent) | position in `parent()`, `wstatus` | `init_trace`, `start_trace`, `stop_trace`, `fini_trace`, the wait loop | `src/cs-trace.c`, `src/common.c` |
| Trace state machine | `trace_state`, `trace_event` (one slot) | `set_trace_state`, `signal_trace_event`, `wait_trace_event` | `src/common.c` |
| Fetcher thread | position, `init_pos`, threshold | `fetcher_worker`, `trace_sink_polling` | `src/common.c` |
| Trace buffer | `trace_buf`, its size and write pointer | `alloc_trace_buf`, `fetch_trace`, `export_trace`, `free_trace_buf` | `src/common.c` |
| CoreSight devices | each device on or off, `is_first_trace`, CSAL's error count | `configure_trace`, `enable_trace`, `disable_trace`, the sinks-only variants | `src/config.c` |
| Traced child | running, stopped, zombie; pending signal; wait report | `child()`, signals, exit | `src/cs-trace.c`, kernel |
| ksight control | traced pid, enable | `ksight_set_traced_pid`, `ksight_set_enable` | `src/utils.c` |
| ksight events | `ksight_buf`, size, pointer | `fetch_ksight_events`, `export_ksight` | `src/common.c` |
| CPU selection | `trace_cpu` | `get_preferred_cpu`, `find_free_cpu`, `set_cpu_affinity` | `src/utils.c` |
| Memory map | `map_info`, `range_count` | `setup_map_info` | `src/utils.c` |
| Command line | the option variables | `main` | `src/cs-trace.c` |
| Board topology | registered devices | `known_boards` | `include/known_boards.h` |
| STM preload | one mapping | constructor, destructor | `src/stm_preload.c` |

How they interact. The parent thread and the fetcher share `trace_event` (under
`trace_event_mutex`, with a condition variable), the devices and the trace buffer (under
`trace_mutex`). The fetcher and the child interact through signals; what the signals did
comes back to the *parent*, through `waitpid`, and from there to the fetcher as a trace
event. The child and the devices interact through the trace itself: trace that the child
emits while the sources are on and the sinks off is lost.

What is hard. The stop protocol takes six steps of four actors (fetcher: `kill`; kernel:
delivery; parent: `waitpid`, callback; fetcher: wake up, disable). Events are not queued.
Signals of third parties look like the fetcher's. The child may end at any point. Most
results are ignored by the caller, so that the session goes on after a failure with parts
of its state missing. `PROJECT.json` lists these hazards at their lines.

What makes each part correct: the parent ends whenever the child ends, and tears down
only what nobody uses any more; the state machine is the documented one; the fetcher loses no trace, never
reads an ETR that captures, resumes what it stopped, and stays off the devices once they
are stopped; the buffer's pointer stays in the buffer and everything fetched is exported;
ksight records the traced program only.

## Modules

The session and its state machine:

- `TraceDefs`: the enumerations, the event of a state change, `ALIGN_UP`, unsigned
  subtraction and the fetcher's threshold.
- `TraceFSM`: abstract specification. The table in the comment of `set_trace_state`,
  one disjunct for each row.
- `TraceSession`: the session. One action for each call that another actor can observe.
  `TraceSessionInv` has its inductive invariant, `TraceSessionProofs` and
  `TraceSessionDataProofs` the proofs, `MCTraceSession` is what TLC runs.

What the session takes as one step, in detail:

- `DeviceOutcomes`: abstract specification of `enable_cs_trace` and `disable_cs_trace`, one
  step for each outcome. `TraceSession` EXTENDS it and uses these steps.
- `Boards`: the two registrations of `include/known_boards.h`.
- `TraceDevices`: the two functions and all of `src/config.c`, one access to a device at a
  time; implements `DeviceOutcomes`. Proofs in `TraceDevicesProofs`.
- `TraceEvents`: abstract specification of state changes and waits, one step each, on top
  of `TraceFSM`.
- `TraceMonitor`: `set_trace_state`, `signal_trace_event` and the fetcher's waits, one call
  of pthread at a time; implements `TraceEvents`. Proofs in `TraceMonitorProofs`.

Before and after the session:

- `CommandLine`: `main()` up to the fork. Proofs in `CommandLineProofs`.
- `TraceSetup`: EXTENDS it with `init_trace` and the functions of `src/utils.c` it calls.
  Proofs in `TraceSetupProofs`.
- `KsightBuffer`: the buffer of ksight events, from `start_trace` to `fini_trace`. Proofs in
  `KsightBufferProofs`.

Each has an `MC` module that only EXTENDS it.

### State and actions of TraceSession

`main` and `fetcher` are the positions of the two threads; every action `MainX` or
`FetcherX` is guarded by the position whose code it models, so that each action can be read
beside the lines that `PROJECT.json` gives for it. The actions `ChildX` and `JobSignal` are
the child, the kernel and third parties.

`enable_cs_trace`, `disable_cs_trace` and `set_trace_state` are one step each: they run
under a mutex from beginning to end (for `disable_cs_trace` all the trials are inside it).
`fetch_trace` holds `trace_mutex` over several steps, `FetchBegin`, `FetchGrow` (once per
doubling) and `FetchRead`, because the child can emit trace in between.
`pthread_cond_wait` loops become the guard of the waiting action. That both are sound is
what `TraceDevices` and `TraceMonitor` show.

Waiting is modelled as the kernel does it. `report` is the stop or continue that `waitpid`
has not returned yet; a later one replaces it. An exit discards it. SIGCONT discards a
pending SIGSTOP. `kill` succeeds on a zombie and fails only after the child was reaped.
Once the child is reaped, `waitpid` returns -1 and leaves `wstatus` alone. After
`PTRACE_DETACH` a continued child is reported as continued, never as stopped by SIGCONT.

The devices are two values: `sources` (ETMs and STM) and `sinks` (`on`, `off`, or `partial`
for an ETR without its ETFs). `lib` is the life of CSAL and the board: `none` before
`setup_named_board`, `up`, `closed` after `cs_shutdown`, `aborted` when a call on the devices
has ended the process. Using CSAL when it is closed is undefined: the model lets it crash
the process or return an error, and notes it in `misuse`. `etm` is the version of the
board's ETMs and `registration_verbose` the value of `--verbose`; both are chosen at the start
and stay. They decide whether the first `enable_cs_trace` can return at all (`EnableFatal`):
not with sources other than ETMv4 (the assert at `src/config.c:218`), and not with
`--verbose` (`show_etm_config`, `src/config.c:181-190`).

Trace is counted in bytes. The ETR is a ring of `EtrRamSize` bytes with its write position
`rwp` and the amount `unread`; overwriting the oldest trace is counted in `overwritten`,
trace lost in disabled sinks in `dropped`, trace emptied from the ETR without having been
copied in `discarded`.

A call fails only if its name is in the constant `Faults`; `failed` collects the calls that
did. The callers' reaction, mostly none, is in the actions.

Undefined behaviour that is a choice in the model: CSAL after `cs_shutdown`,
`pthread_join` of a thread that was never created. A write to trace_buf when `mmap` has
failed, and an export whose length wrapped, end the process; so does the export of the ksight
events when their buffer could not be mapped (the fault `ksight`, in detail in
`KsightBuffer`).

### State and actions of TraceDevices

A function of `config.c` is a sequence of accesses: the device, what is done to it, and
what the function looks at afterwards (nothing, the result, or `cs_error_count()`). The
action `AccessDevice` makes the next one; it may fail, which CSAL counts, and leaves the
device in either state. `Enter` and `Leave` are the beginning and the end of a call under
`trace_mutex`; in between come `ConfigureSucceeds`, `DisableRetries` and the shutdown. The
callers are the main thread's enable and final disable and the fetcher's cycle, which
interleave as they like. Two actions end the process inside a call. On the ZYNQ-7000 `init_etm`
asserts (`InitEtmAsserts`, `src/config.c:218`), so that only the ZCU-104 gets to an enabled
trace. With `--verbose` `show_etm_config` writes through a NULL pointer (`ShowEtmConfig`); the
second call of it, in `disable_trace`, is in the model but not reached, since the first one
comes before. Both set `lib` to `aborted`, which is an outcome of `DeviceOutcomes`
(`EnableAborts`). The refinement mapping shows the callers the devices as they were when the
call began until it returns or ends the process.

### State and actions of TraceMonitor

The main thread's calls of `set_trace_state` come in the order of a session; which stops
`waitpid` reports in between is arbitrary, as is what the fetcher does after a wait. The
fetcher may wake without a broadcast at any time. The mapping delays a state change to the
assignment of `trace_event`, which other threads can see; a transition that has no event
changes the state at once. The one such change that is not a stutter, `ready_state` to
`suspended_state`, is part of `TraceEvents`: it happens when `start_trace` failed and
the child is stopped.

### State and actions of KsightBuffer

Byte counts: the size of the buffer, how much of it is used, and `buf_remain`, which wraps
modulo `SizeMod`. The kernel hands out any number of whole events that fit, and may record
more at any time, faster than the code reads. Memory is smaller than `SizeMod`: a buffer that
would have to grow beyond it is an `mremap` that fails. `mmap` and `mremap` may fail; what follows is what the code then does with
`MAP_FAILED` and a NULL pointer, in two's complement.

### State and actions of CommandLine and TraceSetup

The user has a list of wishes in terms of `usage()` and spells each in a form that `usage()`
shows; argv is a sequence of options, words and `--`. `getopt_long`'s permutation of argv is
modelled by its effect: words that are skipped end up in front of what follows `--`. From the
fork on only the options that matter for `init_trace` are kept. What `/proc` and `/sys` hold
is chosen when it is read: which CPUs are online, which share a core, which the parent may
run on, to which others are pinned, and the lines of `/proc/<pid>/maps`.

## Runs

Constants common to the runs of `TraceSession`: `Word = 4`, `DefaultTraceSize = 8`, an ETF of 2 bytes (a
threshold of 4), `ULongMod = 256`. One word is below the threshold, two are above it, and
the ETR holds four or six words, so that the child can stay below the threshold, pass it,
fill the ETR, wrap it and overwrite unread trace, and `trace_buf` has to be doubled once or
twice for a full ETR. In the passing runs `MaxEmit` is one word more than the ETR holds (three words are
enough for the four counterexamples); `MaxJobSignals`
bounds the signals of third parties; nothing else is bounded.

| Run | Configuration | What it shows |
|---|---|---|
| `plain` | no fetcher, ksight, all faults, two third-party signals | a session without failure exports all that was emitted and not overwritten (`CompleteTrace`); ksight is on only for the child's pid (`KsightScoped`); cs-trace crashes only after a failure, when it never set up a board, or inside a first enable that cannot return (`CrashNeedsCause`); an exit with status 0 ends cs-trace (`ExitFinalizes`, fair) |
| `fetcher` | fetcher, all faults, no third-party signals | the stop protocol loses nothing (`NoByteDropped`), fetches from a disabled ETR (`QuiescentFetch`), does not undo the final stop (`StopIsFinal`), suspends only a running trace (`SuspendFromRunning`); `CompleteTrace` and `CrashNeedsCause` again; the state machine is the documented one (`FollowsFSM`); a stopped child is continued when nothing fails (`ChildResumes`, fair); `ExitFinalizes` when the fetcher never stopped the child |
| `job_control` | fetcher, all faults, three third-party signals | types (`TypeOK`); devices alive under the fetcher (`FetcherDevicesUp`); the write pointer stays in the buffer or one byte before it while fetches follow each other, after partial and failed reads too (`TraceBufInBounds`); and the whole inductive invariant (`SessionInv`) on every state |
| `devices` | both boards or none, `--verbose` 0 to 2, up to four failing accesses, three trials | every call is one of the outcomes that `TraceSession` uses (`ImplementsOutcomes`); the TPIU follows the ETR, however many trials it took (`TpiuFollowsEtr`); no source is on with a closed FIFO after it (`SourcesDeliver`); errors of a disable never fail the next enable (`EnableFailureHasCause`); a disable gives up only if each trial after the first had an error of its own (`TrialsForgive`); calls return (`CallsReturn`, fair) |
| `ksight` | buffer of two events, more recorded than memory holds | the write pointer stays in the buffer and each read has room (`InBounds`); the file has exactly the events taken (`EventsComplete`); only failed memory calls end the process (`CrashNeedsMemory`); the loop ends, however fast the kernel records (`FetchReturns`, fair) |
| `setup` | up to three options, three CPUs, three mappings | the options do what `usage()` says (`ParsedAsDocumented`); the chosen CPU is online when CPUs are numbered without gaps (`ChosenCpuOnline`) and shares no core with cs-trace when no core is written as a range (`PreferredOffCore`); the ETMs get the first executable regions of files (`FirstRegionsTraced`) |
| `monitor` | up to four reported stops | state changes and waits are one step (`ImplementsEvents`); no wakeup is lost (`WakeupNotLost`, fair) |
| `nonzero_exit` | no fault | violated: a child that ends otherwise than with status 0 leaves the parent in its loop |
| `resume` | fetcher, no fault | violated: the resumption is never reported to the fetcher |
| `lost_start` | fetcher, no fault | violated: a short-lived child's trace is not fetched |
| `failed_enable` | `enable` may fail | violated: devices are used after `cs_shutdown` |
| `short_options` | up to two options, short forms too | violated: `-e`, `-f`, `-k` and `-u` do not do what `usage()` says |

The other bounds. Three trials stand for the eight of `TRACE_DISABLE_TRIAL`; `MaxFaults` lets every trial of a disable fail and an access of another call
as well. `DEFAULT_TRACE_SIZE = 160` holds two events of 72 bytes and a rest; the buffer is doubled twice
before `SizeMod = 1024` leaves no memory for a third time, at 640 bytes or eight events. `MaxEvents`
is 15, more than 1024 bytes could hold, so that what bounds the fetch is memory and not
the number of events recorded. Three options are enough for one to swallow the next and to be given twice; three CPUs
for a core with two of them, adjacent or not, and another one; three mappings with
`RANGE_MAX = 1`, the code's, for lines that are skipped before and after the one kept. Four
reports suspend and resume twice.

Properties that say what the fetcher protects are stated for sessions in which only the
fetcher has signalled the child (`Undisturbed`): with a third party's SIGCONT in the middle
of a fetch the child runs into disabled sinks, and nothing in the code can prevent it.

`CHECK_DEADLOCK FALSE` is set where the system really stops: a fetcher session in which the
two threads wait for each other (the `resume` run), or in which the child stays stopped
after a failure. The `plain` run checks for deadlock.

Fairness: in `TraceDevices` the thread inside a call goes on; in `KsightBuffer` the main
thread does; in `TraceMonitor` both threads do, and since the main thread takes
`trace_event_mutex` finitely often weak fairness of the fetcher is enough to get it. In
`TraceSession`, weak fairness of each thread (the operating system schedules them) and of the
delivery of a signal that `kill` accepted. The child is not assumed to emit, to exit or to
be signalled. `trace_mutex` needs no strong fairness, since no thread waits for it in a
loop that the other one can take for ever.

Each property has a mutant in `PROJECT.json`: a plausible slip in the code (a swapped
callback, a wait satisfied by the wrong event, one doubling instead of a loop) under which
TLC finds the property violated.

## Proofs

Every invariant and every refinement that a passing run checks is also a theorem, for all
values of the constants that satisfy the assumptions in the modules.

| Module | Theorems and the properties they state |
|---|---|
| `TraceSessionProofs` | `Invariant` (`IInv`), `TypeCorrect` (`TypeOK`), `NothingDropped` (`NoByteDropped`), `FetchesQuiescent` (`QuiescentFetch`), `StopStaysFinal` (`StopIsFinal`), `SuspendsRunning` (`SuspendFromRunning`), `FetcherUsesLiveDevices` (`FetcherDevicesUp`), `BufferSafe` (`TraceBufInBounds`), `Refinement` (`FollowsFSM`, with no signals of third parties) |
| `TraceSessionDataProofs` | `SessionInvariant` (`SessionInv`), `TraceComplete` (`CompleteTrace`), `KsightStaysScoped` (`KsightScoped`), `CrashesHaveCause` (`CrashNeedsCause`) |
| `TraceDevicesProofs` | `DevicesInvariant` (`DevicesInv`), `OutcomesImplemented` (`ImplementsOutcomes`), `TpiuStaysWithEtr` (`TpiuFollowsEtr`), `SourcesAlwaysDeliver` (`SourcesDeliver`), `EnablesFailForCause` (`EnableFailureHasCause`), `DisablesForgive` (`TrialsForgive`) |
| `TraceMonitorProofs` | `MonitorInvariant` (`MInv`), `MonitorRefinement` (`ImplementsEvents`) |
| `KsightBufferProofs` | `KsightInvariant`, `KsightInBounds` (`InBounds`), `KsightComplete` (`EventsComplete`), `KsightCrash` (`CrashNeedsMemory`) |
| `TraceSetupProofs` | `ChosenCpuExists` (`ChosenCpuOnline`), `PreferredCpuOffCore` (`PreferredOffCore`), `RegionsInOrder` (`FirstRegionsTraced`) |
| `CommandLineProofs` | `ParsesAsDocumented` (`ParsedAsDocumented`) |

### The session

The assumptions, in `TraceSession`: sizes positive, `DefaultTraceSize` a multiple of 8, a word
fits into the ETR, an unsigned long holds twice the ETR. `MaxEmit`, `MaxJobSignals` and
`Faults` are arbitrary.

The stop protocol (`IInv`). `NoByteDropped` needs to know that the child cannot run while the sources are
on and the sinks are not (`DeviceInv`). The fetcher's disable and enable preserve this
because the child is stopped in between, or was killed while stopped (`SuspendInv`:
`HeldOrKilled` in the positions `Cycle`). That the child is stopped when the fetcher sees
`suspend_event` follows from the path of the signal: a pending SIGSTOP, an unread stop
report and a stop being dispatched exclude each other, and each of them implies that the
fetcher is in its first wait and that the event is still `start_event`. For the last part
one needs that `start_event` is signalled once and that the event is no other one while
the fetcher polls a child that is not reaped (`ThreadInv`, and `ReapInv` for the parent's
side: it finalizes only for a child it reaped with status 0). A child killed while stopped
has not exited with 0, so that the parent does not get to `stop_trace` during a fetch,
which is what `StopIsFinal` and `QuiescentFetch` rest on. `BufferInv` is separate: sizes
are multiples of 8, so that aligning a pointer inside the buffer keeps it inside.

What becomes of the trace (`SessionInv`, on top of `IInv`). Every byte emitted is in one of
five places: fetched, discarded, dropped, overwritten or unread (`Conserved`).
`CompleteTrace` excludes only the fourth. Nothing is dropped by `NoByteDropped`, or without the fetcher because the sinks are on as long as the sources
are (`PlainSinksOn`). Nothing is discarded because the length that `fetch_trace` asks for is
still the length of the unread trace when it copies: the child rests while `trace_mutex` is
held over the copy (`LengthFresh`, from `SuspendInv`, or from `ReapInv` after the child's
end). Nothing is left unread once the last fetch took place, since the child is reaped by
then (`FetchedAll`). The write pointer is never behind what was fetched, and the export
writes up to the pointer (`ExportHolds`). `KsightInv` follows `ks_enable` and `ks_pid` through
the parent's positions. `CrashInv` says for each way to crash (CSAL after its shutdown, an
unmapped `trace_buf`, a pointer before the buffer, a join without a thread) which failed
call must have come before it, and that past the first enable `is_first_trace` is gone unless
something failed, so that no later call can find ETMs that were never configured.

There is one lemma for each part of `IInv`, with one case for each action that changes a
variable of that part, and the rest of each actor's actions together.

### The devices

For any `TRACE_DISABLE_TRIAL` and `MaxFaults`. A function of `config.c` is a list of accesses,
so that the first lemmas say what the list of each function is on the ZCU-104, and that the
lists of the ZYNQ-7000 stop at `init_etm` before anything was switched on (`NoEtmv4Inv`), and
that with `--verbose` the configuration of the ZCU-104 is never completed (`ShownInv`). The
invariant then says of the accesses made so far that each device is as its last access wanted
it, or an error was counted in this call (`EffectInv`): a function that returns 0 with
`cs_error_count()` at 0 has switched everything. `ErrorInv` relates the count to the trials:
the trial that is reached costs one failed access in each trial but the first, whose
errors may have been counted by an earlier fetch. `EntryInv` compares the devices with what they were when the call
began, as the refinement mapping shows them until it returns: every step inside a call
stutters, and each way to return is one outcome of `DeviceOutcomes`. `SourcesDeliver` uses
the order in the lists: `enable_trace` reaches its first source at the sixth access, with all
sinks on, and `disable_trace` its first sink when the sources are off (`DeliverInv`).

### Setup and command line

`First`, the CPU at which the loops of `get_preferred_cpu` and `find_free_cpu` stop, exists by
the least number principle; the rest of the two CPU theorems is a count of the CPUs: without
a gap, every number below `nprocs` is online. The invariant of the region loop says that
`map_info` lists, in order, the regions kept of the lines read so far.

`ParsesAsDocumented` holds for any number of options and assumes that the one-letter forms in
use are among `-b`, `-c`, `-v` and `-h`; for the others the run `short_options` shows that it
is false. The invariant (`ParseInv`) says that some number `k` of wishes is settled, that is,
each variable has the value of the last of them for its option or else its default, and that
what is left of argv spells the other wishes, one after the other, and then the program. Each
call of `getopt_long` takes exactly the elements of one wish, so that no word is ever skipped
and "--" is reached with all wishes settled.

### The ksight buffer and the monitor

`KsightBufferProofs` proves, for every `DEFAULT_TRACE_SIZE` that holds an event, every event
size that is a multiple of 8 and every number of events, `KsightInvariant` and from it
`InBounds`, `EventsComplete` and `CrashNeedsMemory`. The invariant says that while the
buffer is mapped it is used up to `taken * EventSize`, a multiple of 8 so that aligning the
pointer does nothing, that `buf_remain` is what is left, and that `size_t` does not wrap; and
for each other value of `ksight_buf` which call must have failed. That one doubling is enough
is the step that uses that the buffer holds an event from the start.

`TraceMonitorProofs` proves, for any number of reports, `MonitorInvariant` (`MInv`: who holds
which mutex at each step, that the fetcher sleeps only in its wait, and which state each
call of `set_trace_state` can find) and `MonitorRefinement` (`Spec => ImplementsEvents`). In the refinement only the assignment of
`trace_event`, an unexpected transition, the start of a wait and a test that succeeds are
visible; every other step is a stutter. That the assignment is a row of the documented table
needs that nothing leaves `fini_state`, which is the sequence part of `MInv`.

### Only model-checked

The liveness properties `ExitFinalizes`, `ChildResumes`, `CallsReturn`, `FetchReturns` and
`WakeupNotLost`, because the prover does not handle fairness, and the counterexamples of the
violation runs. `TraceFSM`, `TraceEvents` and `DeviceOutcomes` have no fairness, so that the
refinement theorems cover all of them. No theorem needs induction
over data: the loops of the code are steps of the models, and their invariants speak of
positions in sequences.

## What the runs found

1. The parent's loop ends for `wstatus == 0` only. Any other exit status, or a signal,
   makes cs-trace spin on `waitpid` returning -1 (`src/cs-trace.c:137`).
2. After its first fetch the fetcher waits for `resume_event` for ever: the detached child
   is reported with `WIFCONTINUED`, whose branch is empty (`src/cs-trace.c:156`), and
   `fini_trace` then waits for the fetcher for ever.
3. If the child ends before the fetcher first runs, `fini_event` has replaced `start_event`
   and the trace is not fetched (`src/common.c:346`).
4. After a failed `enable_cs_trace` the session goes on with devices that were shut down
   (`src/cs-trace.c:103`).
5. The option string gives `-e`, `-f` and `-k` a required argument and lacks `u`
   (`src/cs-trace.c:245`), against `usage()`: `-e` swallows the next element of argv, and after
   `-u 1 -- ls` the program traced is `1`.

`ExitFinalizes` holds with the fetcher only as long as it has not sent its SIGSTOP: beyond
the second finding, a SIGSTOP sent to a child that has just become a zombie succeeds, stops
nothing, and leaves the fetcher in its first wait.

More things the models had to follow. With `--verbose` cs-trace never gets through its first
enable: `show_etm_config` writes through a pointer that it has set to NULL
(`src/config.c:182,190`), where `usage()` promises a "verbose output level". On the ZYNQ-7000, a
board the program knows, the assert at `src/config.c:218` ends it. These two are the causes
named in `CrashNeedsCause` (`EnableFatal`) beside failed calls and a missing board; the
theorem `CrashesHaveCause` says that there is no third one. The fallback of `init_trace` stores
the truth value of `find_free_cpu() < 0` (`src/common.c:878`): the CPU is 0 whenever one was
found free, and 1, where the message says 0, when none was; `ChosenCpuOnline` shows that it
exists all the same, not that it is the right one. `set_core_cpus` takes only the first CPU of a range (`src/utils.c:479`), and the CPUs are
taken to be numbered without gaps, which are the two conditions in the CPU properties. An
error that CSAL counts in the registration or in a fetch fails the next enable
(`src/config.c:511`), which then shuts CSAL down; `EnableFailureHasCause` shows that nothing
else does.

## Not modelled

The contents of the trace; the bits in the ETM registers; addresses, cross triggers and
affinities in the registrations; the snapshot export of CSAL (`do_dump_config`); dumps and
messages (`dump_buf`, `dump_maps`, `dump_map_info`, and `cs_cti_diag` under `--verbose`): output
only, or constants handed to CSAL. The results of CSAL are taken to be 0 or negative: a
positive one from `cs_etm_clean` would be returned by `init_etm` and pass the test `< 0` of
`configure_trace` (`src/config.c:209-211,273`). CSAL and the ksight kernel module are not in the repository; the
models say what their callers rely on.

The STM preload library maps one page in a constructor and unmaps it in a destructor; its
use is commented out in `child()` (`src/cs-trace.c:66`), `setup_stm_region` of `src/utils.c`
is compiled out of its only caller, and neither meets another part of the system.

A failing `kill` with an error other than `ESRCH`, a reused pid and ptrace stops other than
the one at `execvpe` are left out. A race on `etr_ram_size` between the fetcher's start and
`enable_trace` is possible only for a u-dma-buf of size 0 and is left out. That a region's file
cannot be opened or mapped is tested wrongly (`src/utils.c:661,668`) and left out, since
nothing reads the mapping. Whether the fetcher keeps up with the ETR depends on the speed
of the child against the 100 ms of a poll, which the code does not bound: overwritten trace is
counted, not excluded.

## Plan

All safety properties of the passing runs are proved. Left are converses of the findings:
each claim that a violation run refutes, proved under the condition that the finding names
(`NoUseAfterShutdown` when `enable_cs_trace` does not fail, `JoinMeansFetched` when the fetcher
saw `start_event`), and a bound for the trace lost when a third party continues the child
during a fetch.
