----------------------------- MODULE TraceSetup -----------------------------
(***************************************************************************)
(* init_trace of src/common.c with the functions of src/utils.c it calls:  *)
(* the choice of the CPU to trace on, the information about the u-dma-buf  *)
(* and ksight, the mappings of the child, and the board. It runs in the    *)
(* parent, with the options that CommandLine has parsed. What it finds in  *)
(* /proc and /sys is arbitrary, and is chosen when it is read.             *)
(***************************************************************************)
EXTENDS CommandLine, Boards

CONSTANTS
  NumCpus,        \* bound: CPUs of the machine, online or not
  RANGE_MAX,
  MaxLines        \* bound: lines in /proc/<pid>/maps

ASSUME SetupAssumption == /\ NumCpus \in Nat \ {0}
                          /\ RANGE_MAX \in Nat /\ MaxLines \in Nat

VARIABLES
  trace_cpu,
  how,            \* "preferred", "free", "given": where trace_cpu is from
  online,         \* the CPUs that are online
  affinity,       \* those the parent may run on
  core,           \* for each CPU, the CPUs of its core (core_cpus_list)
  etr_ram,        \* which of etr_ram_addr and etr_ram_size have been read
  maps,           \* the lines of /proc/<pid>/maps read so far
  map_info,       \* the ranges to trace
  ret             \* what init_trace has returned, or 1

cpuVars == <<trace_cpu, how, online, affinity, core>>
vars == <<cmdVars, main, cpuVars, etr_ram, maps, map_info, ret>>

DEFAULT_TRACE_CPU == 0
Cpus == 0..(NumCpus - 1)

Init ==
  /\ CmdInit
  /\ trace_cpu = -1 /\ how = "none"
  /\ online = {} /\ affinity = {} /\ core = <<>>
  /\ etr_ram = {} /\ maps = <<>> /\ map_info = <<>> /\ ret = 1

ParseArgs == Parse /\ UNCHANGED <<cpuVars, etr_ram, maps, map_info, ret>>

(* The child is forked and has stopped at its execve, on a machine of      *)
(* which some CPUs are online; or the fork fails. Of the options, the      *)
(* board, the CPU, the fetcher and ksight matter from here on.             *)
Fork ==
  /\ main = "parsed"
  /\ \/ main' = "cpu" /\ online' \in (SUBSET Cpus) \ {{}}
     \/ main' = "fork_failed" /\ UNCHANGED online
  /\ trace_cpu' = args["c"]
  /\ args' = [args EXCEPT !["c"] = -1, !["e"] = FALSE, !["u"] = 0, !["v"] = 0]
  /\ wishes' = <<>> /\ exe' = <<>> /\ rest' = <<>> /\ nonopts' = <<>> /\ last' = End /\ tracee' = <<>>
  /\ UNCHANGED <<how, affinity, core, etr_ram, maps, map_info, ret>>

----------------------------------------------------------------------------
(* The traced CPU.                                                         *)

nprocs == Cardinality(online)

First(S) == CHOOSE c \in S : \A d \in S : c <= d

(* Mutant: the CPU itself is taken, without those of its core.             *)
SetCoreCpusSelf(i) == {i}

(* set_core_cpus(i): of core_cpus_list, in which the kernel writes runs of *)
(* CPUs as ranges, strtol takes the first number of each range.            *)
SetCoreCpus(i) == {c \in core[i] : c - 1 \notin core[i]}

(* get_preferred_cpu: the first CPU that shares no core with those that    *)
(* the process may run on. CPUs are taken to have the numbers 0..nprocs-1. *)
PreferredCpu(aff) ==
  LET candidates == (0..(nprocs - 1)) \
                      UNION {SetCoreCpus(i) : i \in aff \cap (0..(nprocs - 1))}
  IN IF candidates = {} THEN -1 ELSE First(candidates)

(* Mutant: a machine with one CPU is not a special case.                   *)
FindFreeCpuAny(pinned) ==
  LET free == (0..(nprocs - 1)) \ pinned
  IN IF free = {} THEN -1 ELSE First(free)

(* find_free_cpu: the first CPU to which no task of a user process is      *)
(* pinned; on a machine with one CPU, that one.                            *)
FindFreeCpu(pinned) ==
  LET free == (0..(nprocs - 1)) \ pinned
  IN IF nprocs < 2 THEN 0 ELSE IF free = {} THEN -1 ELSE First(free)

(* The machine's cores.                                                    *)
Cores(S) ==
  {f \in [S -> SUBSET S] :
     \A c, d \in S : c \in f[c] /\ (d \in f[c] => f[d] = f[c])}

(* --cpu was given.                                                        *)
CpuGiven ==
  /\ main = "cpu" /\ trace_cpu >= 0
  /\ how' = "given" /\ main' = "udmabuf"
  /\ UNCHANGED <<cmdVars, trace_cpu, online, affinity, core, etr_ram, maps,
                 map_info, ret>>

(* The affinity and the cores are read.                                    *)
ReadTopology ==
  /\ main = "cpu" /\ trace_cpu < 0
  /\ affinity' \in (SUBSET online) \ {{}}
  /\ core' \in Cores(online)
  /\ main' = "preferred"
  /\ UNCHANGED <<cmdVars, trace_cpu, how, online, etr_ram, maps, map_info, ret>>

GetPreferredCpu ==
  /\ main = "preferred"
  /\ \/ /\ PreferredCpu(affinity) >= 0
        /\ trace_cpu' = PreferredCpu(affinity) /\ how' = "preferred" /\ main' = "udmabuf"
     \/ (* there is none, or a call has failed *)
        main' = "free" /\ UNCHANGED <<trace_cpu, how>>
  /\ UNCHANGED <<cmdVars, online, affinity, core, etr_ram, maps, map_info, ret>>

(* The fallback stores the result of the comparison find_free_cpu() < 0.   *)
(* opendir may fail when there are CPUs to look for.                       *)
FallBack ==
  /\ main = "free"
  /\ \E found \in {FindFreeCpu(pinned) : pinned \in SUBSET online}
                     \cup (IF nprocs < 2 THEN {} ELSE {-1}) :
       LET preferred_cpu == IF found < 0 THEN 1 ELSE 0
       IN trace_cpu' = IF preferred_cpu >= 0 THEN preferred_cpu ELSE DEFAULT_TRACE_CPU
  /\ how' = "free" /\ main' = "udmabuf"
  /\ UNCHANGED <<cmdVars, online, affinity, core, etr_ram, maps, map_info, ret>>

----------------------------------------------------------------------------
(* Devices, mappings, board.                                               *)

(* A step that fails ends init_trace: cs_shutdown, and -1 to the parent,   *)
(* which goes on.                                                          *)
InitFails ==
  /\ ret' = -1 /\ main' = "returned"
  /\ UNCHANGED <<maps, map_info>>

(* get_udmabuf_info: phys_addr, then size. sscanf may find no number in    *)
(* either, which is no failure.                                            *)
GetUdmabufInfo ==
  /\ main = "udmabuf"
  /\ \E done \in {{}, {"addr"}} :
       \/ etr_ram' = done /\ InitFails
       \/ /\ etr_ram' \in {done, done \cup {"size"}}
          /\ main' = IF args["k"] THEN "ksight" ELSE "maps"
          /\ UNCHANGED <<maps, map_info, ret>>
  /\ UNCHANGED <<cmdVars, cpuVars>>

(* get_ksight_info: its result, the address of the ring, is not used.      *)
GetKsightInfo ==
  /\ main = "ksight"
  /\ \/ InitFails
     \/ main' = "maps" /\ UNCHANGED <<maps, map_info, ret>>
  /\ UNCHANGED <<cmdVars, cpuVars, etr_ram>>

OpenMapsFails ==
  /\ main = "maps" /\ maps = <<>>
  /\ InitFails
  /\ UNCHANGED <<cmdVars, cpuVars, etr_ram>>

(* Mutant: regions that are not executable are taken.                      *)
KeepsAnyRegion(l) == Len(map_info) < RANGE_MAX /\ l.path

(* setup_map_info keeps a region that is executable, while there is room,  *)
(* and that has a path.                                                    *)
KeepsRegion(l) == l.x /\ Len(map_info) < RANGE_MAX /\ l.path

(* One line of /proc/<pid>/maps.                                           *)
ReadMapsLine ==
  /\ main = "maps" /\ Len(maps) < MaxLines
  /\ \E l \in [x : BOOLEAN, path : BOOLEAN, start : {Len(maps) + 1}] :
       /\ maps' = Append(maps, l)
       /\ map_info' = IF KeepsRegion(l) THEN Append(map_info, l) ELSE map_info
  /\ UNCHANGED <<cmdVars, main, cpuVars, etr_ram, ret>>

(* The end of the file. The files of the regions are mapped; neither the   *)
(* test of open nor that of mmap can see a failure.                        *)
EndOfMaps ==
  /\ main = "maps" /\ maps # <<>>
  /\ main' = "board"
  /\ UNCHANGED <<cmdVars, cpuVars, etr_ram, maps, map_info, ret>>

(* setup_named_board fails for an unknown name, and if the registration    *)
(* does.                                                                   *)
SetupNamedBoard ==
  /\ main = "board"
  /\ \/ InitFails
     \/ /\ args["b"] \in DOMAIN KnownBoards
        /\ main' = IF args["f"] THEN "create" ELSE "ready"
        /\ UNCHANGED <<maps, map_info, ret>>
  /\ UNCHANGED <<cmdVars, cpuVars, etr_ram>>

CreateFetcher ==
  /\ main = "create"
  /\ \/ InitFails
     \/ main' = "ready" /\ UNCHANGED <<maps, map_info, ret>>
  /\ UNCHANGED <<cmdVars, cpuVars, etr_ram>>

(* The trace ID is positive for every trace_cpu chosen; ready_state.       *)
SetReady ==
  /\ main = "ready"
  /\ main' = "returned" /\ ret' = 0
  /\ UNCHANGED <<cmdVars, cpuVars, etr_ram, maps, map_info>>

Terminated ==
  main \in {"usage", "failure", "fork_failed", "returned"} /\ UNCHANGED vars

Next ==
  \/ ParseArgs \/ Fork
  \/ CpuGiven \/ ReadTopology \/ GetPreferredCpu \/ FallBack
  \/ GetUdmabufInfo \/ GetKsightInfo
  \/ OpenMapsFails \/ ReadMapsLine \/ EndOfMaps
  \/ SetupNamedBoard \/ CreateFetcher \/ SetReady \/ Terminated

Spec == Init /\ [][Next]_vars

----------------------------------------------------------------------------
(* Properties.                                                             *)

Contiguous == online = 0..(nprocs - 1)

(* The CPU that init_trace chooses by itself is one to which start_trace   *)
(* can bind the child, if the CPUs online have the numbers 0..nprocs-1:    *)
(* also when the fallback stores a truth value in place of a CPU, as CPU 1 *)
(* results only where there are two.                                       *)
ChosenCpuOnline ==
  how \in {"preferred", "free"} /\ Contiguous => trace_cpu \in online

(* The preferred CPU shares no core with a CPU that cs-trace may run on,   *)
(* if no core has two CPUs with adjacent numbers (written as a range).     *)
PreferredOffCore ==
  /\ how = "preferred" /\ Contiguous
  /\ \A c \in online : c + 1 \notin core[c]
  => \A c \in affinity : trace_cpu \notin core[c]

(* The ranges given to the ETMs are the first RANGE_MAX executable regions *)
(* of a file, in their order, wherever the others are in /proc/<pid>/maps. *)
FirstRegionsTraced ==
  LET code == {k \in DOMAIN maps : maps[k].x /\ maps[k].path}
      took == DOMAIN map_info
  IN /\ Len(map_info) <= RANGE_MAX
     /\ \A i \in took : \E k \in code : map_info[i] = maps[k]
     /\ \A i, j \in took : i < j => map_info[i].start < map_info[j].start
     /\ \A k \in code :
          \/ \E i \in took : map_info[i] = maps[k]
          \/ Len(map_info) = RANGE_MAX /\ \A i \in took : map_info[i].start < k
============================================================================
