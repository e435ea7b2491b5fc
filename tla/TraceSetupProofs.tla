-------------------------- MODULE TraceSetupProofs --------------------------
(***************************************************************************)
(* Proofs, for any number of CPUs, any RANGE_MAX and any number of lines   *)
(* in /proc/<pid>/maps, of what TraceSetup says of the traced CPU and of   *)
(* the ranges to trace.                                                    *)
(***************************************************************************)
EXTENDS TraceSetup, FiniteSetTheorems, WellFoundedInduction, TLAPS

USE SetupAssumption
USE DEF vars, cmdVars, cpuVars

----------------------------------------------------------------------------
(* The first CPU of a set.                                                 *)

(* The loops over CPUs of get_preferred_cpu and find_free_cpu stop at the  *)
(* lowest candidate, which exists if there is any.                         *)
LEMMA FirstIsLeast ==
  ASSUME NEW S, S \subseteq Nat, S # {}
  PROVE  First(S) \in S
<1> DEFINE R == {ss \in Nat \X Nat : ss[1] < ss[2]}
<1>1. IsWellFoundedOn(R, Nat)
  BY NatLessThanWellFounded DEF OpToRel
<1> HIDE DEF R
<1>2. PICK x \in S : \A y \in S : <<y, x>> \notin R
  BY <1>1, WFMin
<1>3. ASSUME NEW y \in S, y < x
      PROVE  <<y, x>> \in R
  <2>1. y \in Nat /\ x \in Nat
    BY <1>2
  <2>2. <<y, x>> \in Nat \X Nat /\ <<y, x>>[1] = y /\ <<y, x>>[2] = x
    BY <2>1
  <2> QED  BY <1>3, <2>2 DEF R
<1>4. ASSUME NEW y \in S
      PROVE  x <= y
  <2>1. y \in Nat /\ x \in Nat
    BY <1>2
  <2>2. ~(y < x)
    BY <1>2, <1>3
  <2> QED  BY <2>1, <2>2
<1> QED  BY <1>4 DEF First

(* A machine with a CPU has a natural number of them, and at least one.    *)
LEMMA NprocsPositive ==
  ASSUME online \in (SUBSET Cpus) \ {{}}
  PROVE  nprocs \in Nat /\ nprocs >= 1
<1>1. IsFiniteSet(Cpus)
  BY FS_Interval DEF Cpus
<1>2. IsFiniteSet(online)
  BY <1>1, FS_Subset
<1> QED  BY <1>2, FS_CardinalityType, FS_EmptySet DEF nprocs

----------------------------------------------------------------------------
(* The traced CPU.                                                         *)

Parsing  == {"write", "parse", "parsed", "usage", "failure"}
Choosing == {"cpu", "preferred", "free"}

(* The CPUs of which get_preferred_cpu takes the first.                    *)
Candidates ==
  (0..(nprocs - 1)) \ UNION {SetCoreCpus(i) : i \in affinity \cap (0..(nprocs - 1))}

(* What is known of the machine at each point, and of the CPU chosen.      *)
CpuInv ==
  /\ main \in Parsing \cup Choosing \cup {"fork_failed"} => how = "none"
  /\ main \notin Parsing \cup {"fork_failed"} => online \in (SUBSET Cpus) \ {{}}
  /\ main \in {"preferred", "free"} \/ how \in {"preferred", "free"}
       => affinity \subseteq online /\ core \in Cores(online)
  /\ how = "preferred" => trace_cpu \in Candidates
  /\ how = "free" => trace_cpu = 0 \/ (trace_cpu = 1 /\ nprocs >= 2)

(* Every step preserves CpuInv: the CPU is chosen once, from what was read *)
(* of the machine, which does not change afterwards.                       *)
LEMMA CpuInvStep ==
  ASSUME CpuInv, Next
  PROVE  CpuInv'
<1> USE DEF CpuInv, Parsing, Choosing
<1>1. CASE ParseArgs
  <2>1. main \in Parsing /\ main' \in Parsing
    BY <1>1 DEF ParseArgs, Parse, Write, TakeOption, SkipWord, EndOptions
  <2>2. UNCHANGED cpuVars
    BY <1>1 DEF ParseArgs
  <2> QED  BY <2>1, <2>2
<1>2. CASE Fork                 BY <1>2 DEF Fork
<1>3. CASE CpuGiven             BY <1>3 DEF CpuGiven
<1>4. CASE ReadTopology         BY <1>4 DEF ReadTopology
<1>5. CASE GetPreferredCpu
  <2>1. CASE main' = "free" /\ UNCHANGED <<trace_cpu, how>>
    BY <1>5, <2>1 DEF GetPreferredCpu
  <2>2. CASE /\ PreferredCpu(affinity) >= 0
             /\ trace_cpu' = PreferredCpu(affinity)
             /\ how' = "preferred" /\ main' = "udmabuf"
    <3>1. UNCHANGED <<online, affinity, core>> /\ main = "preferred"
      BY <1>5 DEF GetPreferredCpu
    <3>2. Candidates # {}
      BY <2>2 DEF PreferredCpu, Candidates
    <3>3. Candidates \subseteq Nat
      BY <3>1, NprocsPositive DEF Candidates
    <3>4. trace_cpu' = First(Candidates)
      BY <2>2, <3>2 DEF PreferredCpu, Candidates
    <3>5. trace_cpu' \in Candidates
      BY <3>2, <3>3, <3>4, FirstIsLeast
    <3>6. Candidates' = Candidates
      BY <3>1 DEF Candidates, nprocs, SetCoreCpus
    <3> QED  BY <2>2, <3>1, <3>5, <3>6
  <2> QED  BY <1>5, <2>1, <2>2 DEF GetPreferredCpu
<1>6. CASE FallBack
  <2>1. /\ main = "free" /\ main' = "udmabuf" /\ how' = "free"
        /\ UNCHANGED <<online, affinity, core>>
    BY <1>6 DEF FallBack
  <2>2. nprocs \in Nat /\ nprocs >= 1
    BY <2>1, NprocsPositive
  <2>3. PICK free \in {FindFreeCpu(pinned) : pinned \in SUBSET online}
                        \cup (IF nprocs < 2 THEN {} ELSE {-1}) :
          trace_cpu' = IF free < 0 THEN 1 ELSE 0
    BY <1>6 DEF FallBack
  <2>4. free < 0 => nprocs >= 2
    <3>1. CASE free = -1 /\ nprocs >= 2
      BY <3>1
    <3>2. CASE \E pinned \in SUBSET online : free = FindFreeCpu(pinned)
      <4>1. PICK pinned \in SUBSET online : free = FindFreeCpu(pinned)
        BY <3>2
      <4>2. nprocs < 2 => free = 0
        BY <4>1 DEF FindFreeCpu
      <4> QED  BY <2>2, <4>2
    <3> QED  BY <2>2, <2>3, <3>1, <3>2
  <2>5. trace_cpu' = 0 \/ (trace_cpu' = 1 /\ nprocs >= 2)
    BY <2>3, <2>4
  <2>6. nprocs' = nprocs
    BY <2>1 DEF nprocs
  <2> QED  BY <2>1, <2>5, <2>6
<1>7. CASE \/ GetUdmabufInfo \/ GetKsightInfo \/ OpenMapsFails \/ ReadMapsLine
           \/ EndOfMaps \/ SetupNamedBoard \/ CreateFetcher \/ SetReady
           \/ Terminated
  <2>1. /\ UNCHANGED cpuVars
        /\ main' = main \/ (main \notin Parsing \cup Choosing \cup {"fork_failed"}
                            /\ main' \notin Parsing \cup Choosing \cup {"fork_failed"})
    BY <1>7 DEF GetUdmabufInfo, GetKsightInfo, OpenMapsFails, ReadMapsLine,
      EndOfMaps, SetupNamedBoard, CreateFetcher, SetReady, Terminated,
      InitFails
  <2>2. Candidates' = Candidates /\ nprocs' = nprocs
    BY <2>1 DEF Candidates, nprocs, SetCoreCpus
  <2> QED  BY <2>1, <2>2
<1> QED  BY <1>1, <1>2, <1>3, <1>4, <1>5, <1>6, <1>7 DEF Next

(* SetCoreCpus gives all CPUs of a core if no two of them are adjacent.    *)
LEMMA WholeCoreTaken ==
  ASSUME online \subseteq Nat, core \in Cores(online),
         \A c \in online : c + 1 \notin core[c],
         NEW i \in online
  PROVE  SetCoreCpus(i) = core[i]
<1>1. /\ core \in [online -> SUBSET online]
      /\ \A c, d \in online : d \in core[c] => core[d] = core[c]
  BY DEF Cores
<1>2. ASSUME NEW c \in core[i], c - 1 \in core[i]
      PROVE  FALSE
  <2>1. c \in online /\ c - 1 \in online
    BY <1>1, <1>2
  <2>2. core[c - 1] = core[i]
    BY <1>1, <1>2, <2>1
  <2>3. (c - 1) + 1 \notin core[c - 1]
    BY <2>1
  <2>4. (c - 1) + 1 = c
    BY <2>1
  <2> QED  BY <1>2, <2>2, <2>3, <2>4
<1> QED  BY <1>2 DEF SetCoreCpus

(* The invariant of the choice.                                            *)
LEMMA CpuInvariant == Spec => []CpuInv
<1>1. Init => CpuInv
  BY DEF Init, CmdInit, CpuInv, Parsing
<1>2. CpuInv /\ [Next]_vars => CpuInv'
  <2>1. CpuInv /\ UNCHANGED vars => CpuInv'
    BY DEF CpuInv, Candidates, nprocs, SetCoreCpus
  <2> QED  BY <2>1, CpuInvStep
<1> QED  BY <1>1, <1>2, PTL DEF Spec

(* init_trace chooses a CPU that is online, on a machine with any number   *)
(* of CPUs that are numbered without a gap, also where the fallback stores *)
(* a truth value in place of a CPU.                                        *)
THEOREM ChosenCpuExists == Spec => []ChosenCpuOnline
<1>1. CpuInv => ChosenCpuOnline
  <2> SUFFICES ASSUME CpuInv, how \in {"preferred", "free"}, Contiguous
               PROVE  trace_cpu \in online
    BY DEF ChosenCpuOnline
  <2>1. online = 0..(nprocs - 1)
    BY DEF Contiguous
  <2>2. online \in (SUBSET Cpus) \ {{}}
    BY DEF CpuInv, Parsing
  <2>3. nprocs \in Nat /\ nprocs >= 1
    BY <2>2, NprocsPositive
  <2>4. CASE how = "preferred"
    BY <2>1, <2>4 DEF CpuInv, Candidates
  <2>5. CASE how = "free"
    BY <2>1, <2>3, <2>5 DEF CpuInv
  <2> QED  BY <2>4, <2>5
<1> QED  BY <1>1, CpuInvariant, PTL

(* The CPU that get_preferred_cpu returns shares no core with a CPU that   *)
(* cs-trace may run on, if core_cpus_list has no ranges and the CPUs are   *)
(* numbered without a gap.                                                 *)
THEOREM PreferredCpuOffCore == Spec => []PreferredOffCore
<1>1. CpuInv => PreferredOffCore
  <2> SUFFICES ASSUME CpuInv, how = "preferred", Contiguous,
                      \A c \in online : c + 1 \notin core[c],
                      NEW c \in affinity
               PROVE  trace_cpu \notin core[c]
    BY DEF PreferredOffCore
  <2>1. online = 0..(nprocs - 1) /\ affinity \subseteq online /\ core \in Cores(online)
    BY DEF Contiguous, CpuInv
  <2>2. online \subseteq Nat
    BY DEF CpuInv, Parsing, Cpus
  <2>3. SetCoreCpus(c) = core[c]
    BY <2>1, <2>2, WholeCoreTaken
  <2>4. trace_cpu \notin SetCoreCpus(c)
    BY <2>1 DEF CpuInv, Candidates
  <2> QED  BY <2>3, <2>4
<1> QED  BY <1>1, CpuInvariant, PTL

----------------------------------------------------------------------------
(* The ranges to trace.                                                    *)

Line == [x : BOOLEAN, path : BOOLEAN, start : Nat]

(* The lines are numbered in the order in which they are read.             *)
RegionInv ==
  /\ maps \in Seq(Line) /\ map_info \in Seq(Line)
  /\ \A k \in DOMAIN maps : maps[k].start = k
  /\ FirstRegionsTraced

(* A line that is read is appended to the ranges, or it need not be.       *)
LEMMA RegionInvStep ==
  ASSUME RegionInv, Next
  PROVE  RegionInv'
<1>1. CASE ReadMapsLine
  <2>0. /\ Len(map_info) <= RANGE_MAX
        /\ \A i \in DOMAIN map_info : \E k \in DOMAIN maps :
             maps[k].x /\ maps[k].path /\ map_info[i] = maps[k]
        /\ \A i, j \in DOMAIN map_info :
             i < j => map_info[i].start < map_info[j].start
        /\ \A k \in DOMAIN maps : maps[k].x /\ maps[k].path =>
             \/ \E i \in DOMAIN map_info : map_info[i] = maps[k]
             \/ Len(map_info) = RANGE_MAX
                /\ \A i \in DOMAIN map_info : map_info[i].start < k
    BY DEF RegionInv, FirstRegionsTraced
  <2>1. PICK l \in [x : BOOLEAN, path : BOOLEAN, start : {Len(maps) + 1}] :
          /\ maps' = Append(maps, l)
          /\ map_info' = IF KeepsRegion(l) THEN Append(map_info, l) ELSE map_info
    BY <1>1 DEF ReadMapsLine
  <2>2. maps \in Seq(Line) /\ map_info \in Seq(Line) /\ Len(maps) \in Nat
    BY DEF RegionInv
  <2>3. l \in Line /\ l.start = Len(maps) + 1
    BY <2>1, <2>2 DEF Line
  <2>4. /\ maps' \in Seq(Line) /\ Len(maps') = Len(maps) + 1
        /\ maps'[Len(maps) + 1] = l
        /\ \A k \in DOMAIN maps : maps'[k] = maps[k]
        /\ DOMAIN maps = 1..Len(maps) /\ DOMAIN maps' = 1..(Len(maps) + 1)
    BY <2>1, <2>2, <2>3
  <2>5. \A k \in DOMAIN maps' : maps'[k].start = k
    BY <2>2, <2>3, <2>4 DEF RegionInv
  <2>6. \A i \in DOMAIN map_info : map_info[i].start \in 1..Len(maps)
    BY <2>0, <2>4 DEF RegionInv
  <2>7. CASE KeepsRegion(l)
    <3>1. /\ map_info' \in Seq(Line) /\ Len(map_info') = Len(map_info) + 1
          /\ map_info'[Len(map_info) + 1] = l
          /\ \A i \in DOMAIN map_info : map_info'[i] = map_info[i]
          /\ DOMAIN map_info = 1..Len(map_info)
          /\ DOMAIN map_info' = 1..(Len(map_info) + 1)
          /\ Len(map_info) \in Nat
      BY <2>1, <2>2, <2>3, <2>7
    <3>2. l.x /\ l.path /\ Len(map_info) < RANGE_MAX
      BY <2>7 DEF KeepsRegion
    <3>a. Len(map_info) # RANGE_MAX
      <4>1. Len(map_info) < RANGE_MAX
        BY <3>2
      <4>2. Len(map_info) \in Nat
        BY <3>1
      <4> QED  BY <4>1, <4>2
    <3>3. Len(map_info') <= RANGE_MAX
      BY <3>1, <3>2
    <3>4. \A i \in DOMAIN map_info' : \E k \in DOMAIN maps' :
            maps'[k].x /\ maps'[k].path /\ map_info'[i] = maps'[k]
      <4> SUFFICES ASSUME NEW i \in DOMAIN map_info'
                   PROVE  \E k \in DOMAIN maps' : /\ maps'[k].x /\ maps'[k].path
                                                  /\ map_info'[i] = maps'[k]
        OBVIOUS
      <4>1. CASE i \in DOMAIN map_info
        <5>1. PICK k \in DOMAIN maps :
                maps[k].x /\ maps[k].path /\ map_info[i] = maps[k]
          BY <2>0, <4>1
        <5>2. k \in DOMAIN maps' /\ maps'[k] = maps[k]
          BY <2>2, <2>4
        <5> QED  BY <3>1, <4>1, <5>1, <5>2
      <4>2. CASE i = Len(map_info) + 1
        <5>1. Len(maps) + 1 \in DOMAIN maps'
          BY <2>2, <2>4
        <5> QED  BY <2>4, <3>1, <3>2, <4>2, <5>1
      <4> QED  BY <3>1, <4>1, <4>2
    <3>5. \A i, j \in DOMAIN map_info' :
            i < j => map_info'[i].start < map_info'[j].start
      <4> SUFFICES ASSUME NEW i \in DOMAIN map_info',
                          NEW j \in DOMAIN map_info', i < j
                   PROVE  map_info'[i].start < map_info'[j].start
        OBVIOUS
      <4>1. i \in DOMAIN map_info
        BY <3>1
      <4>2. CASE j \in DOMAIN map_info
        BY <2>0, <3>1, <4>1, <4>2
      <4>3. CASE j = Len(map_info) + 1
        BY <2>2, <2>3, <2>6, <3>1, <4>1, <4>3
      <4> QED  BY <3>1, <4>2, <4>3
    <3>6. \A k \in DOMAIN maps' : maps'[k].x /\ maps'[k].path =>
            \E i \in DOMAIN map_info' : map_info'[i] = maps'[k]
      <4> SUFFICES ASSUME NEW k \in DOMAIN maps', maps'[k].x, maps'[k].path
                   PROVE  \E i \in DOMAIN map_info' : map_info'[i] = maps'[k]
        OBVIOUS
      <4>1. CASE k = Len(maps) + 1
        BY <2>4, <3>1, <4>1
      <4>2. CASE k \in DOMAIN maps
        <5>1. maps'[k] = maps[k]
          BY <2>4, <4>2
        <5>a. maps[k].x /\ maps[k].path
          BY <5>1
        <5>2. PICK i \in DOMAIN map_info : map_info[i] = maps[k]
          BY <2>0, <4>2, <5>a, <3>a
        <5>3. i \in DOMAIN map_info' /\ map_info'[i] = map_info[i]
          BY <3>1
        <5> QED  BY <5>1, <5>2, <5>3
      <4> QED  BY <2>2, <2>4, <4>1, <4>2
    <3>7. FirstRegionsTraced'
      BY <3>3, <3>4, <3>5, <3>6 DEF FirstRegionsTraced
    <3> QED  BY <2>4, <2>5, <3>1, <3>7 DEF RegionInv
  <2>8. CASE ~KeepsRegion(l)
    <3>1. map_info' = map_info
      BY <2>1, <2>8
    <3>2. \A k \in DOMAIN maps' : maps'[k].x /\ maps'[k].path =>
            \/ \E i \in DOMAIN map_info : map_info[i] = maps'[k]
            \/ Len(map_info) = RANGE_MAX
               /\ \A i \in DOMAIN map_info : map_info[i].start < k
      <4> SUFFICES ASSUME NEW k \in DOMAIN maps', maps'[k].x, maps'[k].path
                   PROVE  \/ \E i \in DOMAIN map_info : map_info[i] = maps'[k]
                          \/ Len(map_info) = RANGE_MAX
                             /\ \A i \in DOMAIN map_info : map_info[i].start < k
        OBVIOUS
      <4>1. CASE k = Len(maps) + 1
        <5>1. Len(map_info) = RANGE_MAX
          BY <2>0, <2>2, <2>4, <2>8, <4>1 DEF KeepsRegion
        <5> QED  BY <2>2, <2>6, <4>1, <5>1
      <4>2. CASE k \in DOMAIN maps
        BY <2>0, <2>4, <4>2
      <4> QED  BY <2>2, <2>4, <4>1, <4>2
    <3>3. \A i \in DOMAIN map_info : \E k \in DOMAIN maps' :
            maps'[k].x /\ maps'[k].path /\ map_info[i] = maps'[k]
      <4> SUFFICES ASSUME NEW i \in DOMAIN map_info
                   PROVE  \E k \in DOMAIN maps' : /\ maps'[k].x /\ maps'[k].path
                                                  /\ map_info[i] = maps'[k]
        OBVIOUS
      <4>1. PICK k \in DOMAIN maps :
              maps[k].x /\ maps[k].path /\ map_info[i] = maps[k]
        BY <2>0
      <4>2. k \in DOMAIN maps' /\ maps'[k] = maps[k]
        BY <2>2, <2>4
      <4> QED  BY <4>1, <4>2
    <3>4. FirstRegionsTraced'
      BY <2>0, <3>1, <3>2, <3>3 DEF FirstRegionsTraced
    <3> QED  BY <2>2, <2>4, <2>5, <3>1, <3>4 DEF RegionInv
  <2> QED  BY <2>7, <2>8
<1>2. CASE UNCHANGED <<maps, map_info>>
  BY <1>2 DEF RegionInv, FirstRegionsTraced
<1>3. ReadMapsLine \/ UNCHANGED <<maps, map_info>>
  BY DEF Next, ParseArgs, Fork, CpuGiven, ReadTopology, GetPreferredCpu,
    FallBack, GetUdmabufInfo, GetKsightInfo, OpenMapsFails, EndOfMaps,
    SetupNamedBoard, CreateFetcher, SetReady, Terminated, InitFails
<1> QED  BY <1>1, <1>2, <1>3

(* setup_map_info keeps the first RANGE_MAX executable regions of a file,  *)
(* for every RANGE_MAX and every list of mappings.                         *)
THEOREM RegionsInOrder == Spec => []FirstRegionsTraced
<1>1. Init => RegionInv
  BY DEF Init, RegionInv, FirstRegionsTraced
<1>2. RegionInv /\ [Next]_vars => RegionInv'
  <2>1. RegionInv /\ UNCHANGED vars => RegionInv'
    BY DEF RegionInv, FirstRegionsTraced
  <2> QED  BY <2>1, RegionInvStep
<1>3. RegionInv => FirstRegionsTraced
  BY DEF RegionInv
<1> QED  BY <1>1, <1>2, <1>3, PTL DEF Spec
============================================================================
