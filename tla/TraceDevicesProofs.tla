------------------------- MODULE TraceDevicesProofs -------------------------
(***************************************************************************)
(* Proofs, for any number of trials and any number of accesses that fail,  *)
(* of what TraceDevices says of enable_cs_trace and disable_cs_trace: its  *)
(* invariants, and that it implements DeviceOutcomes.                      *)
(***************************************************************************)
EXTENDS TraceDevices, TLAPS

Routines == Enabling \cup Disabling

(* An access that changes the state of its device.                         *)
Moves(a) == a.act \in {"on", "off"}

----------------------------------------------------------------------------
(* The inductive invariant, in parts.                                      *)

(* The types.                                                              *)
TypeOK ==
  /\ board \in {"ZCU104", "ZYNQ7000", "none"}
  /\ registration_verbose \in 0..2
  /\ dev \in [Devices -> {"on", "off"}]
  /\ error_count \in Nat /\ call_faults \in Nat
  /\ disable_trial \in Nat /\ faults \in Nat
  /\ lib \in {"none", "up", "closed", "aborted"}
  /\ trace_mutex \in {"free", "main", "fetcher"}
  /\ routine \in Routines \cup {"none"}
  /\ step \in Nat \ {0} /\ ret \in {-1, 0, 1}
  /\ main \in {"start", "run", "done", "crashed"}
  /\ fetcher \in {"none", "cycle", "fetch", "enable", "end", "crashed"}
  /\ entry \in {"on", "off"} \X {"on", "off", "partial"}
  /\ failed \subseteq {"enable", "disable"}

(* Who may be inside which function, and in which state of the library.    *)
CallInv ==
  /\ lib = "none" <=> board = "none"
  /\ lib # "aborted" => (routine = "none" <=> trace_mutex = "free")
  /\ lib = "aborted" => trace_mutex # "free" /\ main = "crashed"
  /\ routine # "none" => lib # "closed"
  /\ routine = "none" => ret # 1
  /\ board = "none" /\ routine # "none" => ret = -1
  /\ routine \in {"configure_trace", "enable_trace"} =>
       trace_mutex = "main" /\ main = "start" /\ is_first_trace
  /\ routine = "enable_trace_sinks_only" =>
       trace_mutex = "fetcher" /\ fetcher = "enable" /\ ~is_first_trace
  /\ routine = "disable_trace" => trace_mutex = "main" /\ main = "run"
  /\ routine = "disable_trace_sinks_only" =>
       trace_mutex = "fetcher" /\ fetcher = "cycle"
  /\ main = "start" => failed = {} /\ is_first_trace
  /\ main = "crashed" <=> fetcher = "crashed"
  /\ main = "crashed" => routine = "none"
  /\ is_first_trace => fetcher \in {"none", "crashed"}
  /\ is_first_trace /\ main \in {"run", "done"} => failed # {}
  /\ fetcher = "end" => failed # {}

(* On the ZYNQ-7000 init_etm asserts or fails: nothing is ever switched on.*)
NoEtmv4Inv ==
  /\ board # "ZCU104" => /\ \A d \in Devices : dev[d] = "off"
                         /\ entry = <<"off", "off">>
  /\ board = "ZYNQ7000" =>
       /\ is_first_trace
       /\ routine \in {"none", "configure_trace"}
       /\ main \in {"start", "crashed"} \/ lib = "closed"
       /\ routine # "none" => step \in 1..3 /\ ret # 0

(* On the ZCU-104 with --verbose configure_trace fails, or it ends at the  *)
(* configuration of the first ETM, which is shown.                         *)
ShownInv ==
  board = "ZCU104" /\ registration_verbose > 0 =>
    /\ is_first_trace
    /\ routine \in {"none", "configure_trace"}
    /\ main \in {"start", "crashed"} \/ lib = "closed"
    /\ routine # "none" => step <= 12 /\ ret # 0

(* On the ZCU-104: where the function that runs is, and what its accesses  *)
(* so far have done. One that is known to have failed ends the function    *)
(* when its result is looked at; the others are counted.                   *)
EffectInv ==
  board = "ZCU104" =>
    /\ routine # "none" =>
         /\ ret = 1 => step <= Len(Program)
         /\ ret # 1 => step <= Len(Program) + 1
         /\ ret = 0 => step = Len(Program) + 1 /\ error_count = 0
         /\ \A i \in 1..(step - 1) :
              Moves(Program[i]) =>
                /\ \/ dev[Program[i].dev] = Program[i].act
                   \/ error_count > 0 /\ call_faults > 0
                /\ Program[i].check = "result" /\ (ret # -1 \/ i < step - 1)
                     => dev[Program[i].dev] = Program[i].act

(* The errors of a call: the trial of a disable that is reached costs one  *)
(* failed access in each trial but the first, and the errors that a call   *)
(* finds were counted by the registration or by a fetch.                   *)
ErrorInv ==
  /\ board # "none" /\ routine \in Disabling =>
       /\ disable_trial >= 1
       /\ call_faults >= disable_trial - 2
       /\ disable_trial >= 2 /\ (ret = -1 \/ error_count > 0) =>
            call_faults >= disable_trial - 1
  /\ board # "none" /\ routine \in Enabling /\ call_faults = 0 =>
       (ret = -1 \/ error_count > 0 => stray)
  /\ lib = "up" /\ routine = "none" => error_count = 0 \/ stray

(* On the ZCU-104: what the devices have to do with their state when the   *)
(* call began. A function that does not switch the sources leaves them;    *)
(* enable_trace switches them when all the sinks are on; a disable         *)
(* switches nothing on.                                                    *)
EntryInv ==
  board = "ZCU104" =>
    /\ main = "start" /\ routine # "enable_trace" => Off(Sources)
    /\ routine \in {"configure_trace", "enable_trace_sinks_only",
                    "disable_trace_sinks_only"} => SourceState = entry[1]
    /\ routine = "enable_trace" =>
         /\ entry[1] = "off"
         /\ step <= 5 => Off(Sources)
         /\ step >= 6 => On(MainSinks)
    /\ routine \in Disabling =>
         /\ entry[1] = "off" => Off(Sources)
         /\ On(MainSinks) => entry[2] = "on"

(* On the ZCU-104, while no call has failed: the sinks are on between two  *)
(* cycles of the fetcher, and disable_trace leaves them on while it        *)
(* switches the sources off.                                               *)
DeliverInv ==
  board = "ZCU104" /\ failed = {} /\ fetcher \notin {"fetch", "enable"} =>
    /\ routine = "none" /\ main = "run" => On(MainSinks)
    /\ routine = "disable_trace" /\ call_faults = 0 =>
         Off(Sources) \/ On(MainSinks)

DevicesInv ==
  /\ TypeOK /\ CallInv /\ NoEtmv4Inv /\ ShownInv /\ EffectInv /\ ErrorInv
  /\ EntryInv /\ DeliverInv /\ TpiuFollowsEtr /\ misuse \in BOOLEAN

----------------------------------------------------------------------------
(* The functions of config.c as lists of accesses.                         *)

(* The boards, and the sinks of the ZCU-104.                               *)
LEMMA BoardNames == DOMAIN KnownBoards = {"ZCU104", "ZYNQ7000"}
  BY DEF KnownBoards

LEMMA Etmv4Boards ==
  KnownBoards["ZCU104"].etmv4 /\ ~KnownBoards["ZYNQ7000"].etmv4
  BY DEF KnownBoards, Zcu104, Zynq7000

LEMMA Zcu104Sinks ==
  ASSUME board = "ZCU104"
  PROVE  MainSinks = {"etr", "etf1", "etf2"}
<1>1. KnownBoards[board].trace_sinks = <<"etf1", "etf2">>
  BY DEF KnownBoards, Zcu104
<1>2. {KnownBoards[board].trace_sinks[i] : i \in DOMAIN KnownBoards[board].trace_sinks}
        = {"etf1", "etf2"}
  BY <1>1
<1> QED  BY <1>2 DEF MainSinks

LEMMA OtherSinks ==
  ASSUME board \in {"ZYNQ7000", "none"}
  PROVE  MainSinks = {"etr"}
<1>1. board = "ZYNQ7000" => KnownBoards[board].trace_sinks = << >>
  BY DEF KnownBoards, Zynq7000
<1> QED  BY <1>1 DEF MainSinks

(* The accesses of each function on the ZCU-104, in order.                 *)
LEMMA EnableTraceAccesses ==
  LET P == Programs["ZCU104"]["enable_trace"]
  IN  /\ Len(P) = 11
      /\ P[1] = Access("etr", "on", "result")
      /\ P[2] = Access("tpiu", "on", "result")
      /\ P[3] = Access("etf1", "on", "result")
      /\ P[4] = Access("etf2", "on", "result")
      /\ P[5] = Access("ptm0", "on", "nothing")
      /\ P[6] = Access("ptm1", "on", "nothing")
      /\ P[7] = Access("ptm2", "on", "nothing")
      /\ P[8] = Access("ptm3", "on", "nothing")
      /\ P[9] = Access("stm", "ports", "result")
      /\ P[10] = Access("stm", "on", "nothing")
      /\ P[11] = Access("etr", "count", "errors")
<1>1. Programs["ZCU104"]["enable_trace"] = EnableTrace(Zcu104)
  BY DEF Programs, KnownBoards
<1> QED  BY <1>1 DEF EnableTrace, Zcu104, ForEach, CountErrors

LEMMA EnableSinksAccesses ==
  LET P == Programs["ZCU104"]["enable_trace_sinks_only"]
  IN  /\ Len(P) = 5
      /\ P[1] = Access("etr", "on", "result")
      /\ P[2] = Access("tpiu", "on", "result")
      /\ P[3] = Access("etf1", "on", "result")
      /\ P[4] = Access("etf2", "on", "result")
      /\ P[5] = Access("etr", "count", "errors")
<1>1. Programs["ZCU104"]["enable_trace_sinks_only"] = EnableTraceSinksOnly(Zcu104)
  BY DEF Programs, KnownBoards
<1> QED  BY <1>1 DEF EnableTraceSinksOnly, Zcu104, ForEach, CountErrors

LEMMA DisableTraceAccesses ==
  LET P == Programs["ZCU104"]["disable_trace"]
  IN  /\ Len(P) = 11
      /\ P[1] = Access("etr", "flush", "nothing")
      /\ P[2] = Access("ptm0", "off", "nothing")
      /\ P[3] = Access("ptm1", "off", "nothing")
      /\ P[4] = Access("ptm2", "off", "nothing")
      /\ P[5] = Access("ptm3", "off", "nothing")
      /\ P[6] = Access("stm", "off", "nothing")
      /\ P[7] = Access("etf1", "off", "nothing")
      /\ P[8] = Access("etf2", "off", "nothing")
      /\ P[9] = Access("etr", "off", "nothing")
      /\ P[10] = Access("tpiu", "off", "result")
      /\ P[11] = Access("etr", "count", "errors")
<1>1. Programs["ZCU104"]["disable_trace"] = DisableTrace(Zcu104)
  BY DEF Programs, KnownBoards
<1> QED  BY <1>1 DEF DisableTrace, Zcu104, ForEach, CountErrors

LEMMA DisableSinksAccesses ==
  LET P == Programs["ZCU104"]["disable_trace_sinks_only"]
  IN  /\ Len(P) = 6
      /\ P[1] = Access("etr", "flush", "nothing")
      /\ P[2] = Access("tpiu", "off", "result")
      /\ P[3] = Access("etf1", "off", "nothing")
      /\ P[4] = Access("etf2", "off", "nothing")
      /\ P[5] = Access("etr", "off", "nothing")
      /\ P[6] = Access("etr", "count", "errors")
<1>1. Programs["ZCU104"]["disable_trace_sinks_only"] = DisableTraceSinksOnly(Zcu104)
  BY DEF Programs, KnownBoards
<1> QED  BY <1>1 DEF DisableTraceSinksOnly, Zcu104, ForEach, CountErrors

(* configure_trace switches the TPIU and the ETR off and no other device.  *)
LEMMA ConfigureAccesses ==
  LET P == Programs["ZCU104"]["configure_trace"]
  IN  /\ Len(P) = 17
      /\ P[1] = Access("tpiu", "off", "nothing")
      /\ P[2] = Access("etr", "off", "nothing")
      /\ \A i \in 3..17 : P[i].dev \in Devices /\ ~Moves(P[i])
      /\ P[12].act = "config"
      /\ P[17] = Access("etr", "count", "errors")
<1>1. Programs["ZCU104"]["configure_trace"] = ConfigureTrace(Zcu104)
  BY DEF Programs, KnownBoards
<1> DEFINE P == ConfigureTrace(Zcu104)
<1>2. /\ Len(P) = 17
      /\ P[1] = Access("tpiu", "off", "nothing")
      /\ P[2] = Access("etr", "off", "nothing")
      /\ P[17] = Access("etr", "count", "errors")
  BY DEF ConfigureTrace, Zcu104, ForEach, InitEtms, CountErrors
<1>3. /\ P[3] = Access("ptm0", "init", "result")
      /\ P[4] = Access("ptm0", "program", "nothing")
      /\ P[5] = Access("ptm1", "init", "result")
      /\ P[6] = Access("ptm1", "program", "nothing")
      /\ P[7] = Access("ptm2", "init", "result")
      /\ P[8] = Access("ptm2", "program", "nothing")
      /\ P[9] = Access("ptm3", "init", "result")
      /\ P[10] = Access("ptm3", "program", "nothing")
  BY DEF ConfigureTrace, Zcu104, ForEach, InitEtms, CountErrors
<1>4. /\ P[11] = Access("stm", "id", "result")
      /\ P[12] = Access("ptm0", "config", "errors")
      /\ P[13] = Access("ptm1", "config", "errors")
      /\ P[14] = Access("ptm2", "config", "errors")
      /\ P[15] = Access("ptm3", "config", "errors")
      /\ P[16] = Access("etr", "stop_on_flush", "nothing")
  BY DEF ConfigureTrace, Zcu104, ForEach, InitEtms, CountErrors
<1> HIDE DEF P
<1>5. \A i \in 3..17 : P[i].dev \in Devices /\ ~Moves(P[i])
  BY <1>2, <1>3, <1>4 DEF Access, Moves, Devices
<1>6. P[12].act = "config"
  BY <1>4 DEF Access
<1> QED  BY <1>1, <1>2, <1>5, <1>6 DEF P

(* On the ZYNQ-7000 it reaches the source id of the first PTM.             *)
LEMMA ConfigureZynqAccesses ==
  LET P == Programs["ZYNQ7000"]["configure_trace"]
  IN  /\ Len(P) = 11
      /\ P[1] = Access("tpiu", "off", "nothing")
      /\ P[2] = Access("etr", "off", "nothing")
      /\ P[3] = Access("ptm0", "init", "result")
<1>1. Programs["ZYNQ7000"]["configure_trace"] = ConfigureTrace(Zynq7000)
  BY DEF Programs, KnownBoards
<1> QED
  BY <1>1 DEF ConfigureTrace, Zynq7000, ForEach, InitEtms, CountErrors

(* What the functions have in common on the ZCU-104: they end with the     *)
(* error count, and switch a device at most once.                          *)
Shape(P) ==
  /\ Len(P) \in Nat \ {0}
  /\ P[Len(P)].check = "errors" /\ P[Len(P)].act = "count"
  /\ \A i \in 1..Len(P) : P[i].dev \in Devices
  /\ \A i, j \in 1..Len(P) :
       Moves(P[i]) /\ Moves(P[j]) /\ P[i].dev = P[j].dev => i = j

LEMMA ProgramShape ==
  ASSUME NEW r \in Routines
  PROVE  Shape(Programs["ZCU104"][r])
<1> DEFINE P == Programs["ZCU104"][r]
<1>1. CASE r = "configure_trace"
  <2>1. Len(P) = 17
    BY <1>1, ConfigureAccesses
  <2>2. /\ P[1].dev = "tpiu" /\ P[2].dev = "etr"
        /\ P[17].check = "errors" /\ P[17].act = "count"
    BY <1>1, ConfigureAccesses DEF Access
  <2>3. \A i \in 3..17 : P[i].dev \in Devices /\ ~Moves(P[i])
    BY <1>1, ConfigureAccesses
  <2>9. P = Programs["ZCU104"][r]
    OBVIOUS
  <2> HIDE DEF P
  <2>4. \A i \in 1..17 : i = 1 \/ i = 2 \/ i \in 3..17
    OBVIOUS
  <2>5. \A i \in 1..17 : P[i].dev \in Devices
    BY <2>2, <2>3, <2>4 DEF Devices
  <2>6. \A i, j \in 1..17 :
          Moves(P[i]) /\ Moves(P[j]) /\ P[i].dev = P[j].dev => i = j
    BY <2>2, <2>3, <2>4
  <2>7. Len(P) \in Nat \ {0} /\ P[Len(P)].check = "errors" /\ P[Len(P)].act = "count"
    BY <2>1, <2>2
  <2>8. \A i \in 1..Len(P) : P[i].dev \in Devices
    BY <2>1, <2>5
  <2>10. \A i, j \in 1..Len(P) :
           Moves(P[i]) /\ Moves(P[j]) /\ P[i].dev = P[j].dev => i = j
    BY <2>1, <2>6
  <2> QED  BY <2>7, <2>8, <2>9, <2>10 DEF Shape
<1>2. CASE r = "enable_trace"
  <2>1. Len(P) = 11 /\ P[11].check = "errors" /\ P[11].act = "count"
    BY <1>2, EnableTraceAccesses DEF Access
  <2>2. /\ P[1].dev = "etr" /\ P[2].dev = "tpiu"
        /\ P[3].dev = "etf1" /\ P[4].dev = "etf2"
        /\ P[5].dev = "ptm0" /\ P[6].dev = "ptm1"
        /\ P[7].dev = "ptm2" /\ P[8].dev = "ptm3"
        /\ P[9].dev = "stm" /\ P[9].act = "ports"
        /\ P[10].dev = "stm" /\ P[11].dev = "etr"
    BY <1>2, EnableTraceAccesses DEF Access
  <2>9. P = Programs["ZCU104"][r]
    OBVIOUS
  <2> HIDE DEF P
  <2>3. \A i \in 1..11 : P[i].dev \in Devices
    BY <2>2 DEF Devices, Fifos
  <2>4. \A i, j \in 1..11 :
          Moves(P[i]) /\ Moves(P[j]) /\ P[i].dev = P[j].dev => i = j
    BY <2>1, <2>2 DEF Moves
  <2>5. Len(P) \in Nat \ {0} /\ P[Len(P)].check = "errors" /\ P[Len(P)].act = "count"
    BY <2>1
  <2>6. \A i \in 1..Len(P) : P[i].dev \in Devices
    BY <2>1, <2>3
  <2>7. \A i, j \in 1..Len(P) :
          Moves(P[i]) /\ Moves(P[j]) /\ P[i].dev = P[j].dev => i = j
    BY <2>1, <2>4, SMTT(30)
  <2> QED  BY <2>5, <2>6, <2>7, <2>9 DEF Shape
<1>3. CASE r = "enable_trace_sinks_only"
  <2>1. Len(P) = 5 /\ P[5].check = "errors" /\ P[5].act = "count"
    BY <1>3, EnableSinksAccesses DEF Access
  <2>2. /\ P[1].dev = "etr" /\ P[2].dev = "tpiu"
        /\ P[3].dev = "etf1" /\ P[4].dev = "etf2" /\ P[5].dev = "etr"
    BY <1>3, EnableSinksAccesses DEF Access
  <2>9. P = Programs["ZCU104"][r]
    OBVIOUS
  <2> HIDE DEF P
  <2>3. \A i \in 1..5 : P[i].dev \in Devices
    BY <2>2 DEF Devices, Fifos
  <2>4. \A i, j \in 1..5 :
          Moves(P[i]) /\ Moves(P[j]) /\ P[i].dev = P[j].dev => i = j
    BY <2>1, <2>2, SMTT(30) DEF Moves
  <2>5. Len(P) \in Nat \ {0} /\ P[Len(P)].check = "errors" /\ P[Len(P)].act = "count"
    BY <2>1
  <2>6. \A i \in 1..Len(P) : P[i].dev \in Devices
    BY <2>1, <2>3
  <2>7. \A i, j \in 1..Len(P) :
          Moves(P[i]) /\ Moves(P[j]) /\ P[i].dev = P[j].dev => i = j
    BY <2>1, <2>4, SMTT(30)
  <2> QED  BY <2>5, <2>6, <2>7, <2>9 DEF Shape
<1>4. CASE r = "disable_trace"
  <2>1. Len(P) = 11 /\ P[11].check = "errors" /\ P[11].act = "count"
    BY <1>4, DisableTraceAccesses DEF Access
  <2>2. /\ P[1].dev = "etr" /\ P[1].act = "flush"
        /\ P[2].dev = "ptm0" /\ P[3].dev = "ptm1"
        /\ P[4].dev = "ptm2" /\ P[5].dev = "ptm3" /\ P[6].dev = "stm"
        /\ P[7].dev = "etf1" /\ P[8].dev = "etf2"
        /\ P[9].dev = "etr" /\ P[10].dev = "tpiu" /\ P[11].dev = "etr"
    BY <1>4, DisableTraceAccesses DEF Access
  <2>9. P = Programs["ZCU104"][r]
    OBVIOUS
  <2> HIDE DEF P
  <2>3. \A i \in 1..11 : P[i].dev \in Devices
    BY <2>2 DEF Devices, Fifos
  <2>4. \A i, j \in 1..11 :
          Moves(P[i]) /\ Moves(P[j]) /\ P[i].dev = P[j].dev => i = j
    BY <2>1, <2>2, SMTT(30) DEF Moves
  <2>5. Len(P) \in Nat \ {0} /\ P[Len(P)].check = "errors" /\ P[Len(P)].act = "count"
    BY <2>1
  <2>6. \A i \in 1..Len(P) : P[i].dev \in Devices
    BY <2>1, <2>3
  <2>7. \A i, j \in 1..Len(P) :
          Moves(P[i]) /\ Moves(P[j]) /\ P[i].dev = P[j].dev => i = j
    BY <2>1, <2>4, SMTT(30)
  <2> QED  BY <2>5, <2>6, <2>7, <2>9 DEF Shape
<1>5. CASE r = "disable_trace_sinks_only"
  <2>1. Len(P) = 6 /\ P[6].check = "errors" /\ P[6].act = "count"
    BY <1>5, DisableSinksAccesses DEF Access
  <2>2. /\ P[1].dev = "etr" /\ P[1].act = "flush" /\ P[2].dev = "tpiu"
        /\ P[3].dev = "etf1" /\ P[4].dev = "etf2"
        /\ P[5].dev = "etr" /\ P[6].dev = "etr"
    BY <1>5, DisableSinksAccesses DEF Access
  <2>9. P = Programs["ZCU104"][r]
    OBVIOUS
  <2> HIDE DEF P
  <2>3. \A i \in 1..6 : P[i].dev \in Devices
    BY <2>2 DEF Devices, Fifos
  <2>4. \A i, j \in 1..6 :
          Moves(P[i]) /\ Moves(P[j]) /\ P[i].dev = P[j].dev => i = j
    BY <2>1, <2>2, SMTT(30) DEF Moves
  <2>5. Len(P) \in Nat \ {0} /\ P[Len(P)].check = "errors" /\ P[Len(P)].act = "count"
    BY <2>1
  <2>6. \A i \in 1..Len(P) : P[i].dev \in Devices
    BY <2>1, <2>3
  <2>7. \A i, j \in 1..Len(P) :
          Moves(P[i]) /\ Moves(P[j]) /\ P[i].dev = P[j].dev => i = j
    BY <2>1, <2>4, SMTT(30)
  <2> QED  BY <2>5, <2>6, <2>7, <2>9 DEF Shape
<1> QED  BY <1>1, <1>2, <1>3, <1>4, <1>5 DEF Routines, Enabling, Disabling

----------------------------------------------------------------------------
(* Types and control.                                                      *)

LEMMA StateTypes == SourceState \in {"on", "off"} /\ SinkState \in {"on", "off", "partial"}
  BY DEF SourceState, SinkState

(* The initial states have the types and are outside of any call.          *)
LEMMA InitCall == Init => TypeOK /\ CallInv
<1> SUFFICES ASSUME Init  PROVE TypeOK /\ CallInv
  OBVIOUS
<1>1. board \in {"ZCU104", "ZYNQ7000", "none"}
  BY BoardNames DEF Init
<1>2. error_count \in Nat
  BY DEF Init
<1>3. TypeOK
  BY <1>1, <1>2 DEF Init, TypeOK, Routines
<1>4. lib = "none" <=> board = "none"
  BY <1>1 DEF Init
<1>5. CallInv
  BY <1>4 DEF Init, CallInv
<1> QED  BY <1>3, <1>5

(* What an access does. One that succeeds has its effect; one that fails   *)
(* is counted, and may have it too.                                        *)
LEMMA AccessOutcome ==
  ASSUME TypeOK, AccessDevice, NEW a, a = Program[step]
  PROVE  /\ dev' \in [Devices -> {"on", "off"}]
         /\ \A d \in Devices :
              dev'[d] # dev[d] => Moves(a) /\ d = a.dev /\ dev'[d] = a.act
         /\ \/ /\ error_count' = error_count /\ call_faults' = call_faults
               /\ Moves(a) /\ a.dev \in Devices => dev'[a.dev] = a.act
            \/ /\ error_count' = error_count + 1
               /\ call_faults' = call_faults + 1
               /\ a.check = "result" => ret' = -1
         /\ a.check = "errors" /\ error_count' > 0 => ret' = -1
         /\ ret' = -1 => error_count' > 0
         /\ ret' = 0 => step = Len(Program)
         /\ ret' = 1 => step # Len(Program)
         /\ ret' \in {-1, 0, 1}
         /\ error_count' \in Nat /\ call_faults' \in Nat /\ faults' \in Nat
<1>1. PICK bad \in BOOLEAN :
        /\ dev' \in IF bad THEN {dev, Effect(a)} ELSE {Effect(a)}
        /\ faults' = faults + (IF bad THEN 1 ELSE 0)
        /\ call_faults' = call_faults + (IF bad THEN 1 ELSE 0)
        /\ error_count' = error_count + (IF bad THEN 1 ELSE 0)
        /\ ret' = IF \/ a.check = "result" /\ bad
                     \/ a.check = "errors" /\ error_count' > 0 THEN -1
                  ELSE IF step = Len(Program) THEN 0 ELSE 1
  BY DEF AccessDevice
<1>2. dev \in [Devices -> {"on", "off"}]
  BY DEF TypeOK
<1>3. error_count \in Nat /\ call_faults \in Nat /\ faults \in Nat
  BY DEF TypeOK
<1>4. /\ Effect(a) \in [Devices -> {"on", "off"}]
      /\ \A d \in Devices :
           Effect(a)[d] # dev[d] => Moves(a) /\ d = a.dev /\ Effect(a)[d] = a.act
      /\ Moves(a) /\ a.dev \in Devices => Effect(a)[a.dev] = a.act
  BY <1>2 DEF Effect, Moves
<1>5. dev' = dev \/ dev' = Effect(a)
  BY <1>1
<1>6. CASE bad
  <2>1. /\ error_count' = error_count + 1 /\ call_faults' = call_faults + 1
        /\ faults' = faults + 1
    BY <1>1, <1>6
  <2>2. /\ a.check = "result" => ret' = -1
        /\ a.check = "errors" /\ error_count' > 0 => ret' = -1
        /\ ret' \in {-1, 0, 1}
        /\ ret' = 0 => step = Len(Program)
        /\ ret' = 1 => step # Len(Program)
    BY <1>1, <1>6
  <2>3. error_count' > 0
    BY <1>3, <2>1
  <2> QED  BY <1>2, <1>3, <1>4, <1>5, <2>1, <2>2, <2>3
<1>7. CASE ~bad
  <2>1. /\ error_count' = error_count /\ call_faults' = call_faults
        /\ faults' = faults /\ dev' = Effect(a)
    BY <1>1, <1>3, <1>7
  <2>2. /\ a.check = "errors" /\ error_count' > 0 => ret' = -1
        /\ ret' = -1 => error_count' > 0
        /\ ret' \in {-1, 0, 1}
        /\ ret' = 0 => step = Len(Program)
        /\ ret' = 1 => step # Len(Program)
    BY <1>1, <1>7
  <2> QED  BY <1>2, <1>3, <1>4, <2>1, <2>2
<1> QED  BY <1>6, <1>7

(* The types are preserved.                                                *)
LEMMA TypeStep ==
  ASSUME TypeOK, CallInv, Next
  PROVE  TypeOK'
<1> USE DEF Routines, Enabling, Disabling
<1>0. ASSUME NEW t \in {"main", "fetcher"}, NEW f \in Routines, Enter(t, f)
      PROVE  TypeOK'
  BY <1>0, StateTypes DEF Enter, TypeOK
<1>1. ASSUME NEW t \in {"main", "fetcher"}, EnableCsTrace(t)
      PROVE  TypeOK'
  BY <1>0, <1>1 DEF EnableCsTrace
<1>2. ASSUME NEW t \in {"main", "fetcher"}, DisableCsTrace(t)
      PROVE  TypeOK'
  BY <1>0, <1>2 DEF DisableCsTrace
<1>3. CASE DeadCall
  BY <1>3, ZenonT(40) DEF DeadCall, ProcessEnds, callVars, TypeOK
<1>4. CASE AccessDevice
  <2>1. /\ dev' \in [Devices -> {"on", "off"}] /\ ret' \in {-1, 0, 1}
        /\ error_count' \in Nat /\ call_faults' \in Nat /\ faults' \in Nat
    BY <1>4, AccessOutcome
  <2>2. step' \in Nat \ {0}
    BY <1>4 DEF AccessDevice, TypeOK
  <2> QED  BY <1>4, <2>1, <2>2 DEF AccessDevice, TypeOK
<1>5. CASE InitEtmAsserts
  BY <1>5 DEF InitEtmAsserts, EndsInside, ProcessEnds, TypeOK
<1>14. CASE ShowEtmConfig
  BY <1>14 DEF ShowEtmConfig, EndsInside, ProcessEnds, TypeOK
<1>6. CASE ConfigureSucceeds
  BY <1>6 DEF ConfigureSucceeds, TypeOK
<1>7. CASE EnableLeaves
  BY <1>7 DEF EnableLeaves, Leave, ThreadGoesOn, NextOf, TypeOK, CallInv
<1>8. CASE EnableShutsDown
  BY <1>8 DEF EnableShutsDown, Leave, ThreadGoesOn, NextOf, TypeOK, CallInv
<1>9. CASE DisableLeaves
  BY <1>9 DEF DisableLeaves, Leave, ThreadGoesOn, NextOf, TypeOK, CallInv
<1>10. CASE DisableRetries
  BY <1>10 DEF DisableRetries, TypeOK
<1>11. CASE DisableGivesUp
  BY <1>11 DEF DisableGivesUp, Leave, ThreadGoesOn, NextOf, TypeOK, CallInv
<1>12. CASE FetchTrace
  BY <1>12 DEF FetchTrace, NextOf, callVars, TypeOK
<1>13. CASE Ended
  BY <1>13 DEF Ended, vars, callVars, TypeOK
<1> QED
  BY <1>1, <1>2, <1>3, <1>4, <1>5, <1>6, <1>7, <1>8, <1>9, <1>10, <1>11,
     <1>12, <1>13, <1>14 DEF Next, Inside

(* An access of configure_trace on the ZYNQ-7000 is the disabling of the   *)
(* TPIU or of the ETR.                                                     *)
LEMMA ZynqAccess ==
  ASSUME TypeOK, NoEtmv4Inv, board = "ZYNQ7000", routine # "none", AccessDevice
  PROVE  /\ step \in {1, 2} /\ ret' = 1
         /\ Program[step].act = "off"
<1>1. /\ routine = "configure_trace" /\ step \in 1..3
  BY DEF NoEtmv4Inv
<1>2. step # 3
  BY <1>1, ConfigureZynqAccesses, Etmv4Boards DEF AccessDevice, Program, Access
<1>3. /\ Len(Program) = 11
      /\ Program[step].act = "off" /\ Program[step].check = "nothing"
  BY <1>1, <1>2, ConfigureZynqAccesses DEF Program, Access
<1>4. ret' = 1
  BY <1>1, <1>3 DEF AccessDevice
<1> QED  BY <1>1, <1>2, <1>3, <1>4

(* Only configure_trace on the ZYNQ-7000 gets to the assertion of init_etm.*)
LEMMA AssertsOnZynq ==
  ASSUME TypeOK, CallInv, NoEtmv4Inv, InitEtmAsserts
  PROVE  board = "ZYNQ7000" /\ routine = "configure_trace" /\ main = "start"
<1>1. ret = 1 /\ ~KnownBoards[board].etmv4
  BY DEF InitEtmAsserts
<1>2. routine # "none" /\ board # "none"
  BY <1>1 DEF CallInv, TypeOK
<1>3. board = "ZYNQ7000"
  BY <1>1, <1>2, Etmv4Boards DEF TypeOK
<1> QED  BY <1>1, <1>2, <1>3 DEF NoEtmv4Inv, CallInv

(* show_etm_config is reached with --verbose in the first enable only.     *)
LEMMA ShowsFirst ==
  ASSUME TypeOK, CallInv, NoEtmv4Inv, ShownInv, ShowEtmConfig
  PROVE  /\ registration_verbose > 0 /\ is_first_trace /\ lib = "up"
         /\ routine = "configure_trace" /\ trace_mutex = "main"
<1>1. ret = 1 /\ registration_verbose > 0
  BY DEF ShowEtmConfig, Shows, TypeOK
<1>2. routine # "none" /\ board # "none"
  BY <1>1 DEF CallInv, TypeOK
<1>3. is_first_trace /\ routine = "configure_trace"
  BY <1>1, <1>2 DEF NoEtmv4Inv, ShownInv, TypeOK
<1> QED  BY <1>1, <1>2, <1>3 DEF CallInv, TypeOK

(* Who is inside of which function.                                        *)
LEMMA CallStep ==
  ASSUME TypeOK, CallInv, NoEtmv4Inv, ShownInv, EffectInv, Next
  PROVE  CallInv'
<1> USE DEF Routines, Enabling, Disabling
<1>1. ASSUME NEW t \in {"main", "fetcher"}, EnableCsTrace(t)
      PROVE  CallInv'
  BY <1>1 DEF EnableCsTrace, Enter, TypeOK, CallInv
<1>2. ASSUME NEW t \in {"main", "fetcher"}, DisableCsTrace(t)
      PROVE  CallInv'
  BY <1>2 DEF DisableCsTrace, Enter, TypeOK, CallInv
<1>3. CASE DeadCall
  BY <1>3 DEF DeadCall, ProcessEnds, callVars, TypeOK, CallInv
<1>4. CASE AccessDevice
  BY <1>4 DEF AccessDevice, TypeOK, CallInv
<1>5. CASE InitEtmAsserts
  BY <1>5, AssertsOnZynq DEF InitEtmAsserts, EndsInside, ProcessEnds, TypeOK, CallInv
<1>14. CASE ShowEtmConfig
  BY <1>14, ShowsFirst DEF ShowEtmConfig, EndsInside, ProcessEnds, TypeOK, CallInv
<1>6. CASE ConfigureSucceeds
  BY <1>6 DEF ConfigureSucceeds, TypeOK, CallInv
<1>7. CASE EnableLeaves
  <2>1. /\ routine \in Enabling /\ routine # "configure_trace" /\ ret = 0
        /\ trace_mutex' = "free" /\ routine' = "none" /\ is_first_trace' = FALSE
        /\ UNCHANGED <<board, ret, lib, failed>>
        /\ ThreadGoesOn(TRUE)
    BY <1>7 DEF EnableLeaves, Leave
  <2>2. main # "crashed"
    BY <2>1 DEF CallInv
  <2>3. \/ main = "start" /\ main' = "run" /\ fetcher' = "cycle"
        \/ /\ fetcher = "enable" /\ fetcher' = "cycle" /\ main' = main
           /\ ~is_first_trace
    BY <2>1, <2>2 DEF ThreadGoesOn, NextOf, TypeOK, CallInv
  <2> QED  BY <2>1, <2>2, <2>3 DEF TypeOK, CallInv
<1>8. CASE EnableShutsDown
  <2>1. failed' # {} /\ (lib' = "none" <=> lib = "none") /\ lib' # "aborted"
    BY <1>8 DEF EnableShutsDown
  <2>2. /\ routine \in Enabling /\ ret = -1
        /\ trace_mutex' = "free" /\ routine' = "none"
        /\ UNCHANGED <<board, ret, is_first_trace>>
        /\ ThreadGoesOn(FALSE)
    BY <1>8 DEF EnableShutsDown, Leave
  <2>3. \/ main = "start" /\ main' = "run" /\ fetcher' = fetcher
        \/ fetcher = "enable" /\ fetcher' = "end" /\ main' = main /\ ~is_first_trace
    BY <2>2 DEF ThreadGoesOn, TypeOK, CallInv
  <2> QED  BY <2>1, <2>2, <2>3 DEF TypeOK, CallInv
<1>9. CASE DisableLeaves
  BY <1>9 DEF DisableLeaves, Leave, ThreadGoesOn, NextOf, TypeOK, CallInv
<1>10. CASE DisableRetries
  BY <1>10 DEF DisableRetries, TypeOK, CallInv
<1>11. CASE DisableGivesUp
  <2>1. failed' # {}
    BY <1>11 DEF DisableGivesUp
  <2>2. /\ routine \in Disabling /\ ret = -1
        /\ trace_mutex' = "free" /\ routine' = "none"
        /\ UNCHANGED <<board, ret, is_first_trace, lib>>
        /\ ThreadGoesOn(FALSE)
    BY <1>11 DEF DisableGivesUp, Leave
  <2>3. \/ main = "run" /\ main' = "done" /\ fetcher' = fetcher
        \/ fetcher = "cycle" /\ fetcher' = "end" /\ main' = main
    BY <2>2 DEF ThreadGoesOn, TypeOK, CallInv
  <2> QED  BY <2>1, <2>2, <2>3 DEF TypeOK, CallInv
<1>12. CASE FetchTrace
  BY <1>12 DEF FetchTrace, NextOf, callVars, TypeOK, CallInv
<1>13. CASE Ended
  BY <1>13 DEF Ended, vars, callVars, CallInv
<1> QED
  BY <1>1, <1>2, <1>3, <1>4, <1>5, <1>6, <1>7, <1>8, <1>9, <1>10, <1>11,
     <1>12, <1>13, <1>14 DEF Next, Inside

----------------------------------------------------------------------------
(* The board without an ETMv4.                                             *)

(* Devices that are all off are seen as such.                              *)
LEMMA AllOffSeen ==
  ASSUME board \in {"ZYNQ7000", "none"}, \A d \in Devices : dev[d] = "off"
  PROVE  SourceState = "off" /\ SinkState = "off"
<1>1. Off(Sources)
  BY DEF Off, Sources, Devices
<1>2. Off(MainSinks) /\ ~On(MainSinks)
  BY OtherSinks DEF Off, On, Devices
<1> QED  BY <1>1, <1>2 DEF SourceState, SinkState

(* On it, and without a board, nothing is ever switched on.                *)
LEMMA NoEtmv4Step ==
  ASSUME TypeOK, CallInv, NoEtmv4Inv, Next
  PROVE  NoEtmv4Inv'
<1> SUFFICES ASSUME board # "ZCU104"
             PROVE  NoEtmv4Inv'
  <2>1. UNCHANGED board
    BY DEF Next, EnableCsTrace, DisableCsTrace, Enter, DeadCall, Inside,
           AccessDevice, InitEtmAsserts, ShowEtmConfig, ConfigureSucceeds, EnableLeaves,
           EnableShutsDown, DisableLeaves, DisableRetries, DisableGivesUp,
           Leave, FetchTrace, Ended, vars
  <2> QED  BY <2>1 DEF NoEtmv4Inv
<1> USE DEF Routines, Enabling, Disabling
<1>0. /\ board \in {"ZYNQ7000", "none"} /\ (\A d \in Devices : dev[d] = "off")
      /\ SourceState = "off" /\ SinkState = "off"
  BY AllOffSeen DEF NoEtmv4Inv, TypeOK
<1>1. ASSUME NEW t \in {"main", "fetcher"}, EnableCsTrace(t)
      PROVE  NoEtmv4Inv'
  BY <1>0, <1>1 DEF EnableCsTrace, Enter, NoEtmv4Inv, CallInv
<1>2. ASSUME NEW t \in {"main", "fetcher"}, DisableCsTrace(t)
      PROVE  NoEtmv4Inv'
  BY <1>0, <1>2 DEF DisableCsTrace, Enter, NoEtmv4Inv, CallInv
<1>3. CASE DeadCall
  BY <1>3 DEF DeadCall, ProcessEnds, callVars, NoEtmv4Inv
<1>4. CASE AccessDevice
  <2>1. board = "ZYNQ7000" /\ routine # "none"
    BY <1>0, <1>4 DEF AccessDevice, CallInv
  <2>2. step \in {1, 2} /\ ret' = 1 /\ Program[step].act = "off"
    BY <1>4, <2>1, ZynqAccess
  <2>3. \A d \in Devices : dev'[d] = "off"
    BY <1>0, <1>4, <2>2, AccessOutcome
  <2> QED  BY <1>4, <2>1, <2>2, <2>3 DEF AccessDevice, NoEtmv4Inv
<1>5. CASE InitEtmAsserts
  BY <1>5, AssertsOnZynq DEF InitEtmAsserts, EndsInside, ProcessEnds, NoEtmv4Inv
<1>14. CASE ShowEtmConfig
  BY <1>14 DEF ShowEtmConfig, EndsInside, ProcessEnds, NoEtmv4Inv
<1>6. CASE ConfigureSucceeds
  BY <1>0, <1>6 DEF ConfigureSucceeds, NoEtmv4Inv, CallInv
<1>7. CASE EnableLeaves
  BY <1>0, <1>7 DEF EnableLeaves, NoEtmv4Inv, CallInv
<1>8. CASE EnableShutsDown
  BY <1>0, <1>8 DEF EnableShutsDown, Leave, NoEtmv4Inv, CallInv
<1>9. CASE DisableLeaves
  BY <1>0, <1>9 DEF DisableLeaves, Leave, NoEtmv4Inv, CallInv
<1>10. CASE DisableRetries
  BY <1>0, <1>10 DEF DisableRetries, NoEtmv4Inv, CallInv
<1>11. CASE DisableGivesUp
  BY <1>0, <1>11 DEF DisableGivesUp, Leave, NoEtmv4Inv, CallInv
<1>12. CASE FetchTrace
  BY <1>0, <1>12 DEF FetchTrace, callVars, NoEtmv4Inv
<1>13. CASE Ended
  BY <1>13 DEF Ended, vars, callVars, NoEtmv4Inv
<1> QED
  BY <1>1, <1>2, <1>3, <1>4, <1>5, <1>6, <1>7, <1>8, <1>9, <1>10, <1>11,
     <1>12, <1>13, <1>14 DEF Next, Inside

(* With --verbose configure_trace does not return 0.                       *)
LEMMA ShownStep ==
  ASSUME TypeOK, CallInv, ShownInv, Next
  PROVE  ShownInv'
<1>0. UNCHANGED <<board, registration_verbose>>
  BY DEF Next, EnableCsTrace, DisableCsTrace, Enter, DeadCall, Inside,
         AccessDevice, InitEtmAsserts, ShowEtmConfig, ConfigureSucceeds,
         EnableLeaves, EnableShutsDown, DisableLeaves, DisableRetries,
         DisableGivesUp, Leave, FetchTrace, Ended, vars
<1> SUFFICES ASSUME board = "ZCU104", registration_verbose > 0
             PROVE  ShownInv'
  BY <1>0 DEF ShownInv
<1>a. /\ is_first_trace /\ routine \in {"none", "configure_trace"}
      /\ main \in {"start", "crashed"} \/ lib = "closed"
      /\ routine # "none" => step <= 12 /\ ret # 0
  BY DEF ShownInv
<1> USE DEF Routines, Enabling, Disabling
<1>1. ASSUME NEW t \in {"main", "fetcher"}, EnableCsTrace(t)
      PROVE  ShownInv'
  BY <1>1, <1>a DEF EnableCsTrace, Enter, ShownInv
<1>2. ASSUME NEW t \in {"main", "fetcher"}, DisableCsTrace(t)
      PROVE  ShownInv'
  BY <1>2, <1>a DEF DisableCsTrace, Enter, CallInv
<1>3. CASE DeadCall
  BY <1>3, <1>a DEF DeadCall, ProcessEnds, callVars, ShownInv
<1>4. CASE AccessDevice
  <2>1. routine = "configure_trace" /\ step <= 12 /\ step \in Nat
    BY <1>4, <1>a DEF AccessDevice, CallInv, TypeOK
  <2>2. Len(Program) = 17 /\ Program[12].act = "config"
    BY <2>1, ConfigureAccesses DEF Program
  <2>3. step # 12
    BY <1>4, <2>2 DEF AccessDevice, Shows
  <2>4. ret' # 0
    BY <1>4, <2>1, <2>2, AccessOutcome
  <2>5. step' <= 12
    BY <1>4, <2>1, <2>3 DEF AccessDevice
  <2> QED  BY <1>4, <1>a, <2>1, <2>4, <2>5 DEF AccessDevice, ShownInv
<1>5. CASE InitEtmAsserts
  BY <1>5, Etmv4Boards DEF InitEtmAsserts
<1>6. CASE ShowEtmConfig
  BY <1>6, <1>a DEF ShowEtmConfig, EndsInside, ProcessEnds, ShownInv
<1>7. CASE EnableShutsDown
  BY <1>7, <1>a DEF EnableShutsDown, Leave, CallInv, ShownInv
<1>8. CASE ConfigureSucceeds \/ EnableLeaves \/ DisableLeaves \/ DisableRetries
           \/ DisableGivesUp
  BY <1>8, <1>a DEF ConfigureSucceeds, EnableLeaves, DisableLeaves,
                    DisableRetries, DisableGivesUp
<1>9. CASE FetchTrace
  BY <1>9, <1>a DEF FetchTrace, callVars, ShownInv
<1>10. CASE Ended
  BY <1>10 DEF Ended, vars, callVars, ShownInv
<1> QED
  BY <1>1, <1>2, <1>3, <1>4, <1>5, <1>6, <1>7, <1>8, <1>9, <1>10 DEF Next, Inside

----------------------------------------------------------------------------
(* The accesses of a call.                                                 *)

(* What the function that runs on the ZCU-104 has in common with the       *)
(* others.                                                                 *)
LEMMA RunningShape ==
  ASSUME TypeOK, board = "ZCU104", routine # "none"
  PROVE  /\ Len(Program) \in Nat \ {0}
         /\ Program[Len(Program)].check = "errors"
         /\ Program[Len(Program)].act = "count"
         /\ \A i \in 1..Len(Program) : Program[i].dev \in Devices
         /\ \A i, j \in 1..Len(Program) :
              Moves(Program[i]) /\ Moves(Program[j])
              /\ Program[i].dev = Program[j].dev => i = j
<1>1. routine \in Routines
  BY DEF TypeOK
<1>2. Shape(Programs["ZCU104"][routine])
  BY <1>1, ProgramShape
<1> QED  BY <1>2 DEF Shape, Program

(* Each access leaves the effects of those before it.                      *)
LEMMA EffectAccess ==
  ASSUME TypeOK, CallInv, EffectInv, board = "ZCU104", routine # "none",
         AccessDevice
  PROVE  EffectInv'
<1> DEFINE a == Program[step]
<1>1. ret = 1 /\ step \in Nat \ {0} /\ step <= Len(Program)
  BY DEF AccessDevice, EffectInv, TypeOK
<1>2. /\ Program' = Program /\ step' = step + 1
      /\ routine' = routine /\ board' = board
  BY DEF AccessDevice, Program
<1>3. /\ \A d \in Devices :
           dev'[d] # dev[d] => Moves(a) /\ d = a.dev /\ dev'[d] = a.act
      /\ \/ /\ error_count' = error_count /\ call_faults' = call_faults
            /\ Moves(a) /\ a.dev \in Devices => dev'[a.dev] = a.act
         \/ /\ error_count' = error_count + 1
            /\ call_faults' = call_faults + 1
            /\ a.check = "result" => ret' = -1
      /\ a.check = "errors" /\ error_count' > 0 => ret' = -1
      /\ ret' = 0 => step = Len(Program)
      /\ ret' = 1 => step # Len(Program)
      /\ ret' \in {-1, 0, 1}
      /\ error_count' \in Nat /\ call_faults' \in Nat
  BY AccessOutcome
<1>4. /\ Len(Program) \in Nat \ {0}
      /\ Program[Len(Program)].check = "errors"
      /\ \A i \in 1..Len(Program) : Program[i].dev \in Devices
      /\ \A i, j \in 1..Len(Program) :
           Moves(Program[i]) /\ Moves(Program[j])
           /\ Program[i].dev = Program[j].dev => i = j
  BY RunningShape
<1>5. error_count \in Nat /\ call_faults \in Nat
  BY DEF TypeOK
<1>6. /\ ret' = 1 => step' <= Len(Program)
      /\ ret' # 1 => step' <= Len(Program) + 1
      /\ ret' = 0 => step' = Len(Program) + 1 /\ error_count' = 0
  <2>1. ret' = 0 => error_count' = 0
    BY <1>3, <1>4
  <2> QED  BY <1>1, <1>2, <1>3, <1>4, <2>1
<1>7. ASSUME NEW i \in 1..(step' - 1), Moves(Program[i])
      PROVE  /\ \/ dev'[Program[i].dev] = Program[i].act
                \/ error_count' > 0 /\ call_faults' > 0
             /\ Program[i].check = "result" /\ (ret' # -1 \/ i < step' - 1)
                  => dev'[Program[i].dev] = Program[i].act
  <2>1. i \in 1..Len(Program) /\ step \in 1..Len(Program)
    BY <1>1, <1>2, <1>4
  <2>2. Program[i].dev \in Devices
    BY <1>4, <2>1
  <2>3. CASE i = step
    <3>1. Moves(a) /\ a.dev \in Devices
      BY <1>7, <2>2, <2>3
    <3>2. CASE dev'[a.dev] = a.act
      BY <2>3, <3>2
    <3>3. CASE dev'[a.dev] # a.act
      <4>1. /\ error_count' = error_count + 1 /\ call_faults' = call_faults + 1
            /\ a.check = "result" => ret' = -1
        BY <1>3, <3>1, <3>3
      <4>2. error_count' > 0 /\ call_faults' > 0
        BY <1>5, <4>1
      <4>3. ~(i < step' - 1)
        BY <1>1, <1>2, <2>3
      <4> QED  BY <2>3, <4>1, <4>2, <4>3
    <3> QED  BY <3>2, <3>3
  <2>4. CASE i # step
    <3>1. i \in 1..(step - 1)
      BY <1>1, <1>2, <2>4
    <3>2. /\ \/ dev[Program[i].dev] = Program[i].act
             \/ error_count > 0 /\ call_faults > 0
          /\ Program[i].check = "result" => dev[Program[i].dev] = Program[i].act
      BY <1>1, <1>7, <3>1 DEF EffectInv
    <3>3. dev'[Program[i].dev] = dev[Program[i].dev]
      BY <1>3, <1>4, <1>7, <2>1, <2>2, <2>4
    <3>4. error_count > 0 /\ call_faults > 0 => error_count' > 0 /\ call_faults' > 0
      BY <1>3, <1>5
    <3> QED  BY <3>2, <3>3, <3>4
  <2> QED  BY <2>3, <2>4
<1> QED  BY <1>1, <1>2, <1>6, <1>7 DEF EffectInv

(* A function begins with no access made.                                  *)
LEMMA EffectBegins ==
  ASSUME board' = "ZCU104", routine' \in Routines, step' = 1, ret' = 1, TypeOK'
  PROVE  EffectInv'
<1>1. Len(Program') \in Nat \ {0}
  BY ProgramShape DEF Shape, Program
<1>2. 1..(step' - 1) = {}
  OBVIOUS
<1> QED  BY <1>1, <1>2 DEF EffectInv

LEMMA EffectStep ==
  ASSUME TypeOK, TypeOK', CallInv, CallInv', NoEtmv4Inv, EffectInv, Next
  PROVE  EffectInv'
<1> USE DEF Routines, Enabling, Disabling
<1> SUFFICES ASSUME board' = "ZCU104", routine' # "none"
             PROVE  EffectInv'
  BY DEF EffectInv
<1>0. board = "ZCU104"
  BY DEF Next, EnableCsTrace, DisableCsTrace, Enter, DeadCall, Inside,
         AccessDevice, InitEtmAsserts, ShowEtmConfig, ConfigureSucceeds, EnableLeaves,
         EnableShutsDown, DisableLeaves, DisableRetries, DisableGivesUp,
         Leave, FetchTrace, Ended, vars
<1>1. ASSUME NEW t \in {"main", "fetcher"}, NEW f \in Routines, Enter(t, f)
      PROVE  EffectInv'
  BY <1>0, <1>1, EffectBegins DEF Enter
<1>2. ASSUME NEW t \in {"main", "fetcher"}, EnableCsTrace(t)
      PROVE  EffectInv'
  BY <1>1, <1>2 DEF EnableCsTrace, CallInv
<1>3. ASSUME NEW t \in {"main", "fetcher"}, DisableCsTrace(t)
      PROVE  EffectInv'
  BY <1>1, <1>3 DEF DisableCsTrace, CallInv
<1>4. CASE DeadCall
  BY <1>0, <1>4 DEF DeadCall, callVars, CallInv, TypeOK
<1>5. CASE AccessDevice
  BY <1>0, <1>5, EffectAccess DEF AccessDevice
<1>6. CASE InitEtmAsserts \/ ShowEtmConfig
  BY <1>0, <1>6, AssertsOnZynq DEF ShowEtmConfig, EndsInside
<1>7. CASE ConfigureSucceeds
  BY <1>0, <1>7, EffectBegins DEF ConfigureSucceeds
<1>8. CASE EnableLeaves \/ EnableShutsDown \/ DisableLeaves \/ DisableGivesUp
  BY <1>8 DEF EnableLeaves, EnableShutsDown, DisableLeaves, DisableGivesUp, Leave
<1>9. CASE DisableRetries
  BY <1>0, <1>9, EffectBegins DEF DisableRetries, EffectInv
<1>10. CASE FetchTrace
  BY <1>10 DEF FetchTrace, callVars, CallInv
<1>11. CASE Ended
  BY <1>11 DEF Ended, vars, callVars, EffectInv, Program
<1> QED
  BY <1>2, <1>3, <1>4, <1>5, <1>6, <1>7, <1>8, <1>9, <1>10, <1>11 DEF Next, Inside

----------------------------------------------------------------------------
(* The error count.                                                        *)

LEMMA ErrorStep ==
  ASSUME TypeOK, CallInv, NoEtmv4Inv, EffectInv, ErrorInv, Next
  PROVE  ErrorInv'
<1> USE DEF Routines, Enabling, Disabling
<1>0. error_count \in Nat /\ call_faults \in Nat /\ disable_trial \in Nat
  BY DEF TypeOK
<1>1. ASSUME NEW t \in {"main", "fetcher"}, NEW f \in Routines, Enter(t, f),
             lib # "closed"
      PROVE  ErrorInv'
  <2>1. /\ routine' = f /\ disable_trial' = 1 /\ call_faults' = 0
        /\ ret' = IF board = "none" THEN -1 ELSE 1
        /\ routine = "none" /\ UNCHANGED <<board, error_count, lib, stray>>
    BY <1>1 DEF Enter, CallInv
  <2>3. board # "none" => lib = "up"
    BY <1>1 DEF Enter, CallInv, TypeOK
  <2>2. board # "none" => error_count = 0 \/ stray
    BY <2>1, <2>3 DEF ErrorInv
  <2> QED  BY <1>0, <2>1, <2>2 DEF ErrorInv
<1>2. ASSUME NEW t \in {"main", "fetcher"}, EnableCsTrace(t)
      PROVE  ErrorInv'
  BY <1>1, <1>2 DEF EnableCsTrace
<1>3. ASSUME NEW t \in {"main", "fetcher"}, DisableCsTrace(t)
      PROVE  ErrorInv'
  BY <1>1, <1>3 DEF DisableCsTrace
<1>4. CASE DeadCall
  BY <1>4 DEF DeadCall, callVars, CallInv, ErrorInv
<1>5. CASE AccessDevice
  <2>1. /\ \/ error_count' = error_count /\ call_faults' = call_faults
           \/ error_count' = error_count + 1 /\ call_faults' = call_faults + 1
        /\ ret' = -1 => error_count' > 0
    BY <1>5, AccessOutcome
  <2>2. /\ ret = 1 /\ routine # "none"
        /\ UNCHANGED <<board, lib, routine, disable_trial, stray>>
    BY <1>5 DEF AccessDevice, CallInv
  <2>3. CASE error_count' = error_count /\ call_faults' = call_faults
    BY <2>1, <2>2, <2>3 DEF ErrorInv
  <2>4. CASE error_count' = error_count + 1 /\ call_faults' = call_faults + 1
    BY <1>0, <2>2, <2>4 DEF ErrorInv
  <2> QED  BY <2>1, <2>3, <2>4
<1>6. CASE InitEtmAsserts
  <2>1. routine = "configure_trace"
    BY <1>6, AssertsOnZynq
  <2>2. CASE routine' = "none" /\ lib' = "aborted"
    BY <2>2 DEF ErrorInv
  <2>3. CASE /\ error_count' = error_count + 1 /\ call_faults' = call_faults + 1
             /\ UNCHANGED <<board, lib, routine, disable_trial, stray>>
    BY <1>0, <2>1, <2>3 DEF ErrorInv
  <2> QED  BY <1>6, <2>2, <2>3 DEF InitEtmAsserts, EndsInside
<1>15. CASE ShowEtmConfig
  BY <1>15 DEF ShowEtmConfig, EndsInside, ErrorInv
<1>7. CASE ConfigureSucceeds
  BY <1>7 DEF ConfigureSucceeds, ErrorInv
<1>8. CASE EnableLeaves
  <2>1. board = "ZCU104" /\ error_count = 0
    BY <1>8 DEF EnableLeaves, TypeOK, CallInv, NoEtmv4Inv, EffectInv
  <2> QED  BY <1>8, <2>1 DEF EnableLeaves, Leave, ErrorInv
<1>9. CASE EnableShutsDown
  BY <1>9 DEF EnableShutsDown, Leave, ErrorInv
<1>10. CASE DisableLeaves
  <2>1. board = "ZCU104" /\ error_count = 0
    BY <1>10 DEF DisableLeaves, TypeOK, CallInv, NoEtmv4Inv, EffectInv
  <2> QED  BY <1>10, <2>1 DEF DisableLeaves, Leave, ErrorInv
<1>11. CASE DisableRetries
  <2>1. /\ routine \in Disabling /\ ret = -1 /\ routine' = routine
        /\ disable_trial' = disable_trial + 1 /\ error_count' = 0
        /\ ret' = IF board = "none" THEN -1 ELSE 1
        /\ UNCHANGED <<board, lib, call_faults>>
    BY <1>11 DEF DisableRetries
  <2> QED  BY <1>0, <2>1 DEF ErrorInv
<1>12. CASE DisableGivesUp
  BY <1>12 DEF DisableGivesUp, Leave, ErrorInv
<1>13. CASE FetchTrace
  BY <1>0, <1>13 DEF FetchTrace, callVars, CallInv, ErrorInv
<1>14. CASE Ended
  BY <1>14 DEF Ended, vars, callVars, ErrorInv
<1> QED
  BY <1>2, <1>3, <1>4, <1>5, <1>6, <1>7, <1>8, <1>9, <1>10, <1>11, <1>12,
     <1>13, <1>14, <1>15 DEF Next, Inside

----------------------------------------------------------------------------
(* The devices when a call ends, and while it runs.                        *)

(* An access of the running function that is behind it, when no error is   *)
(* counted or none of this call.                                           *)
LEMMA AccessDone ==
  ASSUME TypeOK, EffectInv, board = "ZCU104", routine # "none",
         NEW i \in 1..(step - 1), Moves(Program[i]),
         error_count = 0 \/ call_faults = 0
  PROVE  dev[Program[i].dev] = Program[i].act
  BY DEF EffectInv, TypeOK

(* enable_cs_trace has returned 0: all the sinks are on, and the sources   *)
(* after enable_trace.                                                     *)
LEMMA EnableDone ==
  ASSUME TypeOK, EffectInv, board = "ZCU104", ret = 0,
         routine \in {"enable_trace", "enable_trace_sinks_only"}
  PROVE  /\ On(MainSinks) /\ dev["etr"] = "on" /\ dev["tpiu"] = "on"
         /\ routine = "enable_trace" => dev["stm"] = "on"
<1>1. step = Len(Program) + 1 /\ error_count = 0
  BY DEF EffectInv
<1>2. CASE routine = "enable_trace"
  <2>1. /\ Len(Program) = 11
        /\ Program[1] = Access("etr", "on", "result")
        /\ Program[2] = Access("tpiu", "on", "result")
        /\ Program[3] = Access("etf1", "on", "result")
        /\ Program[4] = Access("etf2", "on", "result")
        /\ Program[10] = Access("stm", "on", "nothing")
    BY <1>2, EnableTraceAccesses DEF Program
  <2>2. \A i \in 1..11 : Moves(Program[i]) => dev[Program[i].dev] = Program[i].act
    BY <1>1, <1>2, <2>1, AccessDone
  <2>3. /\ dev["etr"] = "on" /\ dev["tpiu"] = "on" /\ dev["etf1"] = "on"
        /\ dev["etf2"] = "on" /\ dev["stm"] = "on"
    BY <2>1, <2>2 DEF Access, Moves
  <2> QED  BY <2>3, Zcu104Sinks DEF On
<1>3. CASE routine = "enable_trace_sinks_only"
  <2>1. /\ Len(Program) = 5
        /\ Program[1] = Access("etr", "on", "result")
        /\ Program[2] = Access("tpiu", "on", "result")
        /\ Program[3] = Access("etf1", "on", "result")
        /\ Program[4] = Access("etf2", "on", "result")
    BY <1>3, EnableSinksAccesses DEF Program
  <2>2. \A i \in 1..5 : Moves(Program[i]) => dev[Program[i].dev] = Program[i].act
    BY <1>1, <1>3, <2>1, AccessDone
  <2>3. /\ dev["etr"] = "on" /\ dev["tpiu"] = "on" /\ dev["etf1"] = "on"
        /\ dev["etf2"] = "on"
    BY <2>1, <2>2 DEF Access, Moves
  <2> QED  BY <1>3, <2>3, Zcu104Sinks DEF On
<1> QED  BY <1>2, <1>3

(* disable_cs_trace has returned 0: all the sinks are off, and the sources *)
(* after disable_trace.                                                    *)
LEMMA DisableDone ==
  ASSUME TypeOK, EffectInv, board = "ZCU104", ret = 0, routine \in Disabling
  PROVE  /\ Off(MainSinks) /\ dev["etr"] = "off" /\ dev["tpiu"] = "off"
         /\ routine = "disable_trace" => Off(Sources)
<1>1. step = Len(Program) + 1 /\ error_count = 0
  BY DEF EffectInv, Disabling
<1>2. CASE routine = "disable_trace"
  <2>1. /\ Len(Program) = 11
        /\ Program[2] = Access("ptm0", "off", "nothing")
        /\ Program[3] = Access("ptm1", "off", "nothing")
        /\ Program[4] = Access("ptm2", "off", "nothing")
        /\ Program[5] = Access("ptm3", "off", "nothing")
        /\ Program[6] = Access("stm", "off", "nothing")
        /\ Program[7] = Access("etf1", "off", "nothing")
        /\ Program[8] = Access("etf2", "off", "nothing")
        /\ Program[9] = Access("etr", "off", "nothing")
        /\ Program[10] = Access("tpiu", "off", "result")
    BY <1>2, DisableTraceAccesses DEF Program
  <2>2. \A i \in 1..11 : Moves(Program[i]) => dev[Program[i].dev] = Program[i].act
    BY <1>1, <1>2, <2>1, AccessDone
  <2>3. /\ dev["etr"] = "off" /\ dev["tpiu"] = "off" /\ dev["etf1"] = "off"
        /\ dev["etf2"] = "off"
    BY <2>1, <2>2 DEF Access, Moves
  <2>4. /\ dev["ptm0"] = "off" /\ dev["ptm1"] = "off" /\ dev["ptm2"] = "off"
        /\ dev["ptm3"] = "off" /\ dev["stm"] = "off"
    BY <2>1, <2>2 DEF Access, Moves
  <2> QED  BY <2>3, <2>4, Zcu104Sinks DEF Off, Sources
<1>3. CASE routine = "disable_trace_sinks_only"
  <2>1. /\ Len(Program) = 6
        /\ Program[2] = Access("tpiu", "off", "result")
        /\ Program[3] = Access("etf1", "off", "nothing")
        /\ Program[4] = Access("etf2", "off", "nothing")
        /\ Program[5] = Access("etr", "off", "nothing")
    BY <1>3, DisableSinksAccesses DEF Program
  <2>2. \A i \in 1..6 : Moves(Program[i]) => dev[Program[i].dev] = Program[i].act
    BY <1>1, <1>3, <2>1, AccessDone
  <2>3. /\ dev["etr"] = "off" /\ dev["tpiu"] = "off" /\ dev["etf1"] = "off"
        /\ dev["etf2"] = "off"
    BY <2>1, <2>2 DEF Access, Moves
  <2> QED  BY <1>3, <2>3, Zcu104Sinks DEF Off
<1> QED  BY <1>2, <1>3 DEF Disabling

(* Which devices the functions switch, and which way.                      *)
LEMMA SinksOnlyMoves ==
  ASSUME board = "ZCU104",
         routine \in {"configure_trace", "enable_trace_sinks_only",
                      "disable_trace_sinks_only"},
         NEW i \in 1..Len(Program), Moves(Program[i])
  PROVE  Program[i].dev \notin Sources
<1>1. CASE routine = "configure_trace"
  BY <1>1, ConfigureAccesses DEF Program, Access, Sources
<1>2. CASE routine = "enable_trace_sinks_only"
  BY <1>2, EnableSinksAccesses DEF Program, Access, Sources, Moves
<1>3. CASE routine = "disable_trace_sinks_only"
  BY <1>3, DisableSinksAccesses DEF Program, Access, Sources, Moves
<1> QED  BY <1>1, <1>2, <1>3

LEMMA DisablingMoves ==
  ASSUME board = "ZCU104", routine \in Disabling,
         NEW i \in 1..Len(Program), Moves(Program[i])
  PROVE  Program[i].act = "off"
<1>1. CASE routine = "disable_trace"
  BY <1>1, DisableTraceAccesses DEF Program, Access, Moves
<1>2. CASE routine = "disable_trace_sinks_only"
  BY <1>2, DisableSinksAccesses DEF Program, Access, Moves
<1> QED  BY <1>1, <1>2 DEF Disabling

LEMMA EnableMoves ==
  ASSUME board = "ZCU104", routine = "enable_trace",
         NEW i \in 1..Len(Program), Moves(Program[i])
  PROVE  /\ i <= 4 => Program[i].dev \notin Sources
         /\ i >= 5 => Program[i].dev \notin {"etr", "etf1", "etf2"}
<1>1. CASE i <= 4
  BY <1>1, EnableTraceAccesses DEF Program, Access, Sources, Moves
<1>2. CASE i >= 5
  BY <1>2, EnableTraceAccesses DEF Program, Access, Moves
<1> QED  BY <1>1, <1>2

(* What the steps outside of an access leave alone.                        *)
LEMMA OnlyAccessMoves ==
  ASSUME Next, ~AccessDevice
  PROVE  dev' = dev
  BY DEF Next, EnableCsTrace, DisableCsTrace, Enter, DeadCall, Inside,
         InitEtmAsserts, ShowEtmConfig, ConfigureSucceeds, EnableLeaves,
         EnableShutsDown, DisableLeaves, DisableRetries, DisableGivesUp, Leave,
         FetchTrace, Ended, vars

LEMMA BoardKept ==
  ASSUME Next
  PROVE  /\ board' = board /\ MainSinks' = MainSinks
         /\ registration_verbose' = registration_verbose
<1>1. board' = board /\ registration_verbose' = registration_verbose
  BY DEF Next, EnableCsTrace, DisableCsTrace, Enter, DeadCall, Inside,
         AccessDevice, InitEtmAsserts, ShowEtmConfig, ConfigureSucceeds, EnableLeaves,
         EnableShutsDown, DisableLeaves, DisableRetries, DisableGivesUp,
         Leave, FetchTrace, Ended, vars
<1> QED  BY <1>1 DEF MainSinks

(* The thread that leaves a call is not before its first one.              *)
LEMMA LeavesStart ==
  ASSUME TypeOK, CallInv, routine # "none", NEW ok, ThreadGoesOn(ok)
  PROVE  main' # "start"
  BY DEF TypeOK, CallInv, ThreadGoesOn, Routines, Enabling, Disabling

(* The devices of a call and their state when it began.                    *)
LEMMA EntryStep ==
  ASSUME TypeOK, CallInv, EffectInv, EntryInv, Next
  PROVE  EntryInv'
<1> USE DEF Routines, Enabling, Disabling
<1>0. board' = board /\ MainSinks' = MainSinks
  BY BoardKept
<1> SUFFICES ASSUME board = "ZCU104"
             PROVE  EntryInv'
  BY <1>0 DEF EntryInv
<1>a. MainSinks = {"etr", "etf1", "etf2"}
  BY Zcu104Sinks
<1>1. ASSUME NEW t \in {"main", "fetcher"}, NEW f \in Routines, Enter(t, f),
             f # "enable_trace"
      PROVE  EntryInv'
  <2>1. /\ routine = "none" /\ routine' = f /\ UNCHANGED <<dev, main>>
        /\ entry' = <<SourceState, SinkState>>
    BY <1>1 DEF Enter, CallInv
  <2>2. /\ SourceState' = SourceState /\ (Off(Sources))' = Off(Sources)
        /\ (On(MainSinks))' = On(MainSinks)
    BY <1>0, <2>1 DEF SourceState, Off, On
  <2>3. entry'[1] = SourceState /\ entry'[2] = SinkState
    BY <2>1
  <2>4. /\ SourceState = "off" => Off(Sources)
        /\ On(MainSinks) => SinkState = "on"
    BY DEF SourceState, SinkState
  <2> QED  BY <1>1, <2>1, <2>2, <2>3, <2>4 DEF EntryInv
<1>2. ASSUME NEW t \in {"main", "fetcher"}, EnableCsTrace(t)
      PROVE  EntryInv'
  BY <1>1, <1>2 DEF EnableCsTrace
<1>3. ASSUME NEW t \in {"main", "fetcher"}, DisableCsTrace(t)
      PROVE  EntryInv'
  BY <1>1, <1>3 DEF DisableCsTrace
<1>4. CASE DeadCall
  BY <1>4 DEF DeadCall, ProcessEnds, callVars, CallInv, EntryInv, Off
<1>5. CASE AccessDevice
  <2> DEFINE a == Program[step]
  <2>1. /\ ret = 1 /\ routine # "none" /\ step' = step + 1
        /\ UNCHANGED <<routine, entry, main>>
    BY <1>5 DEF AccessDevice, CallInv
  <2>2. step \in 1..Len(Program) /\ step \in Nat
    BY <2>1, RunningShape DEF EffectInv, TypeOK
  <2>3. \A d \in Devices :
          dev'[d] # dev[d] => Moves(a) /\ d = a.dev /\ dev'[d] = a.act
    BY <1>5, AccessOutcome
  <2>4. Sources \subseteq Devices /\ MainSinks \subseteq Devices
    BY <1>a DEF Sources, Devices, Fifos
  <2>5. CASE routine \in {"configure_trace", "enable_trace_sinks_only",
                          "disable_trace_sinks_only"}
    <3>1. Moves(a) => a.dev \notin Sources
      BY <2>2, <2>5, SinksOnlyMoves
    <3>2. \A d \in Sources : dev'[d] = dev[d]
      BY <2>3, <2>4, <3>1
    <3>3. (Off(Sources))' = Off(Sources) /\ SourceState' = SourceState
      BY <3>2 DEF Off, SourceState
    <3>4. CASE routine # "disable_trace_sinks_only"
      BY <2>1, <2>5, <3>3, <3>4 DEF EntryInv
    <3>5. CASE routine = "disable_trace_sinks_only"
      <4>1. Moves(a) => a.act = "off"
        BY <2>2, <3>5, DisablingMoves
      <4>2. (On(MainSinks))' => On(MainSinks)
        BY <1>0, <2>3, <2>4, <4>1 DEF On
      <4>3. main # "start"
        BY <3>5 DEF CallInv
      <4> QED  BY <2>1, <3>3, <3>5, <4>2, <4>3 DEF EntryInv
    <3> QED  BY <3>4, <3>5
  <2>6. CASE routine = "disable_trace"
    <3>1. Moves(a) => a.act = "off"
      BY <2>2, <2>6, DisablingMoves
    <3>2. (On(MainSinks))' => On(MainSinks)
      BY <1>0, <2>3, <2>4, <3>1 DEF On
    <3>3. Off(Sources) => (Off(Sources))'
      BY <2>3, <2>4, <3>1 DEF Off
    <3>4. main # "start"
      BY <2>6 DEF CallInv
    <3> QED  BY <2>1, <2>6, <3>2, <3>3, <3>4 DEF EntryInv
  <2>7. CASE routine = "enable_trace"
    <3>1. CASE step <= 4
      <4>1. Moves(a) => a.dev \notin Sources
        BY <2>2, <2>7, <3>1, EnableMoves
      <4>2. (Off(Sources))'
        BY <2>2, <2>3, <2>4, <2>7, <3>1, <4>1 DEF EntryInv, Off
      <4> QED  BY <2>1, <2>2, <2>7, <3>1, <4>2 DEF EntryInv
    <3>2. CASE step >= 5
      <4>1. Moves(a) => a.dev \notin MainSinks
        BY <1>a, <2>2, <2>7, <3>2, EnableMoves
      <4>2. On(MainSinks)
        <5>1. CASE step >= 6
          BY <2>7, <5>1 DEF EntryInv
        <5>2. CASE step = 5
          <6>1. /\ Program[1] = Access("etr", "on", "result")
                /\ Program[3] = Access("etf1", "on", "result")
                /\ Program[4] = Access("etf2", "on", "result")
            BY <2>7, EnableTraceAccesses DEF Program
          <6>2. \A i \in 1..4 : Moves(Program[i]) /\ Program[i].check = "result"
                                  => dev[Program[i].dev] = Program[i].act
            BY <2>1, <5>2 DEF EffectInv
          <6>3. dev["etr"] = "on" /\ dev["etf1"] = "on" /\ dev["etf2"] = "on"
            BY <6>1, <6>2 DEF Access, Moves
          <6> QED  BY <1>a, <6>3 DEF On
        <5> QED  BY <2>2, <3>2, <5>1, <5>2
      <4>3. (On(MainSinks))'
        BY <1>0, <2>3, <2>4, <4>1, <4>2 DEF On
      <4> QED  BY <2>1, <2>2, <2>7, <3>2, <4>3 DEF EntryInv
    <3> QED  BY <2>2, <3>1, <3>2
  <2> QED  BY <2>1, <2>5, <2>6, <2>7 DEF TypeOK
<1>6. CASE InitEtmAsserts \/ ShowEtmConfig
  BY <1>6, Etmv4Boards
  DEF InitEtmAsserts, ShowEtmConfig, EndsInside, ProcessEnds, EntryInv
<1>7. CASE ConfigureSucceeds
  <2>1. main = "start" /\ Off(Sources) /\ entry[1] = "off"
    BY <1>7 DEF ConfigureSucceeds, CallInv, EntryInv, SourceState
  <2> QED  BY <1>7, <2>1 DEF ConfigureSucceeds, EntryInv, Off
<1>8. CASE EnableLeaves \/ EnableShutsDown \/ DisableLeaves \/ DisableGivesUp
  <2>1. PICK ok \in BOOLEAN : Leave(ok) /\ routine # "none"
    BY <1>8 DEF EnableLeaves, EnableShutsDown, DisableLeaves, DisableGivesUp
  <2>2. main' # "start" /\ routine' = "none"
    BY <2>1, LeavesStart DEF Leave
  <2> QED  BY <2>2 DEF EntryInv
<1>9. CASE DisableRetries
  <2>1. /\ UNCHANGED <<dev, routine, entry, main>> /\ routine \in Disabling
    BY <1>9 DEF DisableRetries
  <2>2. /\ SourceState' = SourceState /\ (Off(Sources))' = Off(Sources)
        /\ (On(MainSinks))' = On(MainSinks)
    BY <1>0, <2>1 DEF SourceState, Off, On
  <2> QED  BY <2>1, <2>2 DEF EntryInv
<1>10. CASE FetchTrace
  BY <1>10 DEF FetchTrace, callVars, CallInv, EntryInv, Off
<1>11. CASE Ended
  <2>1. UNCHANGED <<dev, routine, entry, main, step>>
    BY <1>11 DEF Ended, vars, callVars
  <2>2. /\ SourceState' = SourceState /\ (Off(Sources))' = Off(Sources)
        /\ (On(MainSinks))' = On(MainSinks)
    BY <1>0, <2>1 DEF SourceState, Off, On
  <2> QED  BY <2>1, <2>2 DEF EntryInv
<1> QED
  BY <1>2, <1>3, <1>4, <1>5, <1>6, <1>7, <1>8, <1>9, <1>10, <1>11 DEF Next, Inside

----------------------------------------------------------------------------
(* The sinks of a session in which no call has failed.                     *)

LEMMA DeliverStep ==
  ASSUME TypeOK, CallInv, EffectInv, DeliverInv, Next
  PROVE  DeliverInv'
<1> USE DEF Routines, Enabling, Disabling
<1>0. board' = board /\ MainSinks' = MainSinks
  BY BoardKept
<1> SUFFICES ASSUME board = "ZCU104", failed' = {}, fetcher' \notin {"fetch", "enable"}
             PROVE  /\ routine' = "none" /\ main' = "run" => (On(MainSinks))'
                    /\ routine' = "disable_trace" /\ call_faults' = 0 =>
                         (Off(Sources))' \/ (On(MainSinks))'
  BY <1>0 DEF DeliverInv
<1>a. MainSinks = {"etr", "etf1", "etf2"}
  BY Zcu104Sinks
<1>b. dev' = dev => /\ (On(MainSinks))' = On(MainSinks)
                    /\ (Off(Sources))' = Off(Sources)
  BY <1>0 DEF On, Off
<1>1. ASSUME NEW t \in {"main", "fetcher"}, EnableCsTrace(t)
      PROVE  routine' \notin {"none", "disable_trace"}
  BY <1>1 DEF EnableCsTrace, Enter
<1>2. ASSUME NEW t \in {"main", "fetcher"}, DisableCsTrace(t)
      PROVE  /\ routine' # "none"
             /\ routine' = "disable_trace" => (On(MainSinks))'
  <2>1. /\ routine = "none" /\ routine' \in Disabling
        /\ UNCHANGED <<dev, main, fetcher, failed>>
        /\ routine' = "disable_trace" => main = "run"
    BY <1>2 DEF DisableCsTrace, Enter, CallInv
  <2> QED  BY <1>b, <2>1 DEF DeliverInv
<1>3. CASE DeadCall
  BY <1>3 DEF DeadCall, ProcessEnds, callVars, CallInv
<1>4. CASE AccessDevice
  <2> DEFINE a == Program[step]
  <2>1. /\ ret = 1 /\ routine # "none" /\ step' = step + 1
        /\ UNCHANGED <<routine, fetcher, failed>>
    BY <1>4 DEF AccessDevice, CallInv
  <2> SUFFICES ASSUME routine = "disable_trace", call_faults' = 0
               PROVE  (Off(Sources))' \/ (On(MainSinks))'
    BY <2>1
  <2>2. step \in 1..Len(Program) /\ step \in Nat
    BY <2>1, RunningShape DEF EffectInv, TypeOK
  <2>3. /\ \A d \in Devices :
             dev'[d] # dev[d] => Moves(a) /\ d = a.dev /\ dev'[d] = a.act
        /\ call_faults = 0
    BY <1>4, AccessOutcome DEF TypeOK
  <2>4. Sources \subseteq Devices /\ MainSinks \subseteq Devices
    BY <1>a DEF Sources, Devices, Fifos
  <2>5. Moves(a) => a.act = "off"
    BY <2>2, DisablingMoves
  <2>6. Off(Sources) => (Off(Sources))'
    BY <2>3, <2>4, <2>5 DEF Off
  <2>7. CASE step <= 6
    <3>1. Moves(a) => a.dev \notin MainSinks
      BY <1>a, <2>2, <2>7, DisableTraceAccesses DEF Program, Access, Moves
    <3>2. On(MainSinks) => (On(MainSinks))'
      BY <1>0, <2>3, <2>4, <3>1 DEF On
    <3> QED  BY <2>1, <2>3, <2>6, <3>2 DEF DeliverInv
  <2>8. CASE step >= 7
    <3>1. /\ Program[2] = Access("ptm0", "off", "nothing")
          /\ Program[3] = Access("ptm1", "off", "nothing")
          /\ Program[4] = Access("ptm2", "off", "nothing")
          /\ Program[5] = Access("ptm3", "off", "nothing")
          /\ Program[6] = Access("stm", "off", "nothing")
      BY DisableTraceAccesses DEF Program
    <3>2. \A i \in 1..6 : Moves(Program[i]) => dev[Program[i].dev] = Program[i].act
      BY <2>2, <2>3, <2>8, AccessDone
    <3>3. /\ dev["ptm0"] = "off" /\ dev["ptm1"] = "off" /\ dev["ptm2"] = "off"
          /\ dev["ptm3"] = "off" /\ dev["stm"] = "off"
      BY <3>1, <3>2 DEF Access, Moves
    <3>4. Off(Sources)
      BY <3>3 DEF Off, Sources
    <3> QED  BY <2>6, <3>4
  <2> QED  BY <2>2, <2>7, <2>8
<1>5. CASE InitEtmAsserts \/ ShowEtmConfig
  BY <1>5, Etmv4Boards DEF InitEtmAsserts, ShowEtmConfig, EndsInside, ProcessEnds
<1>6. CASE ConfigureSucceeds
  BY <1>6 DEF ConfigureSucceeds
<1>7. CASE EnableLeaves
  <2>1. On(MainSinks)
    BY <1>7, EnableDone DEF EnableLeaves
  <2> QED  BY <1>7, <1>b, <2>1 DEF EnableLeaves, Leave
<1>8. CASE EnableShutsDown \/ DisableGivesUp
  <2>1. failed' # {}
    BY <1>8 DEF EnableShutsDown, DisableGivesUp
  <2> QED  BY <2>1
<1>9. CASE DisableLeaves
  <2>1. /\ routine' = "none" /\ ThreadGoesOn(TRUE) /\ routine \in Disabling
    BY <1>9 DEF DisableLeaves, Leave
  <2>2. main' # "run"
    BY <2>1 DEF ThreadGoesOn, NextOf, CallInv, TypeOK
  <2> QED  BY <2>1, <2>2
<1>10. CASE DisableRetries
  BY <1>10, <1>b DEF DisableRetries, DeliverInv
<1>11. CASE FetchTrace
  BY <1>11 DEF FetchTrace, NextOf
<1>12. CASE Ended
  BY <1>12, <1>b DEF Ended, vars, callVars, DeliverInv
<1> QED
  BY <1>1, <1>2, <1>3, <1>4, <1>5, <1>6, <1>7, <1>8, <1>9, <1>10, <1>11, <1>12
  DEF Next, Inside

LEMMA TpiuStep ==
  ASSUME TypeOK, CallInv, NoEtmv4Inv, EffectInv, TpiuFollowsEtr, Next
  PROVE  TpiuFollowsEtr'
<1> SUFFICES ASSUME trace_mutex' = "free", failed' = {}
             PROVE  dev'["tpiu"] = dev'["etr"]
  BY DEF TpiuFollowsEtr
<1>1. CASE AccessDevice
  BY <1>1 DEF AccessDevice, CallInv
<1>2. CASE ~AccessDevice
  <2>1. dev' = dev
    BY <1>2, OnlyAccessMoves
  <2>2. CASE board # "ZCU104"
    BY <2>1, <2>2 DEF NoEtmv4Inv, Devices
  <2>3. CASE board = "ZCU104" /\ trace_mutex = "free"
    <3>1. failed \subseteq failed'
      BY DEF Next, EnableCsTrace, DisableCsTrace, Enter, DeadCall, Inside,
             AccessDevice, InitEtmAsserts, ShowEtmConfig, ConfigureSucceeds, EnableLeaves,
             EnableShutsDown, DisableLeaves, DisableRetries, DisableGivesUp,
             Leave, FetchTrace, Ended, vars
    <3> QED  BY <2>1, <2>3, <3>1 DEF TpiuFollowsEtr
  <2>4. CASE board = "ZCU104" /\ trace_mutex # "free"
    <3>1. EnableLeaves \/ DisableLeaves
      BY <1>2, <2>4 DEF Next, EnableCsTrace, DisableCsTrace, Enter, DeadCall,
         Inside, InitEtmAsserts, ShowEtmConfig, ConfigureSucceeds, EnableShutsDown,
         DisableRetries, DisableGivesUp, Leave, FetchTrace, Ended, vars
    <3>2. CASE EnableLeaves
      BY <2>1, <2>4, <3>2, EnableDone DEF EnableLeaves
    <3>3. CASE DisableLeaves
      BY <2>1, <2>4, <3>3, DisableDone DEF DisableLeaves
    <3> QED  BY <3>1, <3>2, <3>3
  <2> QED  BY <2>2, <2>3, <2>4
<1> QED  BY <1>1, <1>2

----------------------------------------------------------------------------
(* The theorems.                                                           *)

LEMMA InitDevices == Init => DevicesInv
<1> SUFFICES ASSUME Init  PROVE DevicesInv
  OBVIOUS
<1>1. TypeOK /\ CallInv
  BY InitCall
<1>2. /\ \A d \in Devices : dev[d] = "off"
      /\ routine = "none" /\ main = "start" /\ entry = <<"off", "off">>
      /\ is_first_trace
    BY DEF Init
<1>3. NoEtmv4Inv /\ ShownInv /\ EffectInv /\ DeliverInv
  BY <1>2 DEF NoEtmv4Inv, ShownInv, EffectInv, DeliverInv
<1>4. ErrorInv
  <2>1. error_count = 0 \/ error_count > 0
    BY DEF Init
  <2>2. error_count = 0 \/ stray
    BY <2>1, Zenon DEF Init
  <2> QED  BY <1>2, <2>2 DEF ErrorInv, Enabling, Disabling
<1>5. EntryInv
  BY <1>2 DEF EntryInv, Off, Sources, Devices, Disabling
<1>6. TpiuFollowsEtr
  BY <1>2 DEF TpiuFollowsEtr, Devices
<1>7. misuse \in BOOLEAN
  BY DEF Init
<1> QED  BY <1>1, <1>3, <1>4, <1>5, <1>6, <1>7 DEF DevicesInv

LEMMA MisuseStep ==
  ASSUME misuse \in BOOLEAN, Next
  PROVE  misuse' \in BOOLEAN
  BY DEF Next, EnableCsTrace, DisableCsTrace, Enter, DeadCall, Inside,
         AccessDevice, InitEtmAsserts, ShowEtmConfig, ConfigureSucceeds, EnableLeaves,
         EnableShutsDown, DisableLeaves, DisableRetries, DisableGivesUp,
         Leave, FetchTrace, Ended, vars

LEMMA DevicesStutter ==
  ASSUME DevicesInv, UNCHANGED vars
  PROVE  DevicesInv'
<1>1. /\ UNCHANGED <<board, registration_verbose, dev, error_count>>
      /\ UNCHANGED <<lib, is_first_trace, trace_mutex>>
      /\ UNCHANGED <<routine, step, ret, disable_trial, entry, call_faults>>
      /\ UNCHANGED <<main, fetcher, stray, faults, failed, misuse>>
  BY DEF vars, callVars
<1>3. TypeOK' /\ CallInv'
  BY <1>1 DEF DevicesInv, TypeOK, CallInv
<1>4. NoEtmv4Inv' /\ ShownInv' /\ EffectInv' /\ ErrorInv'
  BY <1>1 DEF DevicesInv, NoEtmv4Inv, ShownInv, EffectInv, ErrorInv, Program
<1>5. EntryInv' /\ DeliverInv' /\ TpiuFollowsEtr'
  BY <1>1 DEF DevicesInv, EntryInv, DeliverInv, TpiuFollowsEtr, SourceState,
              MainSinks, On, Off
<1> QED  BY <1>1, <1>3, <1>4, <1>5 DEF DevicesInv

(* DevicesInv is an invariant of TraceDevices: of the callers, of the      *)
(* devices and their state when the call began, of the effects of the      *)
(* accesses of config.c so far, and of the errors that CSAL has counted.   *)
THEOREM DevicesInvariant == Spec => []DevicesInv
<1>1. DevicesInv /\ [Next]_vars => DevicesInv'
  <2> SUFFICES ASSUME DevicesInv, Next
               PROVE  DevicesInv'
    BY DevicesStutter
  <2>1. TypeOK' /\ CallInv' /\ NoEtmv4Inv' /\ ShownInv'
    BY TypeStep, CallStep, NoEtmv4Step, ShownStep DEF DevicesInv
  <2>2. EffectInv'
    BY <2>1, EffectStep DEF DevicesInv
  <2>3. ErrorInv' /\ EntryInv' /\ DeliverInv' /\ TpiuFollowsEtr'
    BY ErrorStep, EntryStep, DeliverStep, TpiuStep DEF DevicesInv
  <2>4. misuse' \in BOOLEAN
    BY MisuseStep DEF DevicesInv
  <2> QED  BY <2>1, <2>2, <2>3, <2>4 DEF DevicesInv
<1> QED  BY <1>1, InitDevices, PTL DEF Spec

(* Between the calls of enable_cs_trace and disable_cs_trace, as long as   *)
(* none has failed, the TPIU is on exactly when the ETR is, for any number *)
(* of trials and of failed accesses that they forgave.                     *)
THEOREM TpiuStaysWithEtr == Spec => []TpiuFollowsEtr
<1>1. DevicesInv => TpiuFollowsEtr
  BY DEF DevicesInv
<1> QED  BY <1>1, DevicesInvariant, PTL

(* enable_cs_trace does not fail for the errors of an earlier disable or   *)
(* of its trials: without a failed access of its own, the registration or  *)
(* a fetch has counted an error.                                           *)
THEOREM EnablesFailForCause == Spec => []EnableFailureHasCause
<1>1. DevicesInv => EnableFailureHasCause
  BY DEF DevicesInv, ErrorInv, EnableFailureHasCause
<1> QED  BY <1>1, DevicesInvariant, PTL

(* disable_cs_trace gives up only after a failed access in each trial but  *)
(* perhaps the first, whatever TRACE_DISABLE_TRIAL is.                     *)
THEOREM DisablesForgive == Spec => []TrialsForgive
<1>1. DevicesInv => TrialsForgive
  <2> SUFFICES ASSUME DevicesInv, routine \in Disabling, ret = -1, board # "none"
               PROVE  call_faults >= disable_trial - 1
    BY DEF TrialsForgive
  <2>1. /\ disable_trial \in Nat /\ call_faults \in Nat /\ disable_trial >= 1
        /\ disable_trial >= 2 => call_faults >= disable_trial - 1
    BY DEF DevicesInv, TypeOK, ErrorInv
  <2> QED  BY <2>1
<1> QED  BY <1>1, DevicesInvariant, PTL

(* enable_trace and disable_trace go through the devices in an order in    *)
(* which no source is on while an ETF behind it, or the ETR, is off.       *)
THEOREM SourcesAlwaysDeliver == Spec => []SourcesDeliver
<1>1. DevicesInv => SourcesDeliver
  <2> SUFFICES ASSUME DevicesInv,
                      \/ routine \in {"enable_trace", "disable_trace"}
                      \/ trace_mutex = "free" /\ main = "run",
                      call_faults = 0, failed = {},
                      fetcher \notin {"fetch", "enable"},
                      NEW d \in Sources, dev[d] = "on"
               PROVE  Delivers(d)
    BY DEF SourcesDeliver
  <2>1. TypeOK /\ CallInv /\ NoEtmv4Inv /\ EntryInv /\ DeliverInv
    BY DEF DevicesInv
  <2>2. board = "ZCU104"
    BY <2>1 DEF NoEtmv4Inv, Sources, Devices
  <2>3. ~Off(Sources)
    BY DEF Off
  <2>4. On(MainSinks)
    <3>1. CASE routine = "enable_trace"
      BY <2>1, <2>2, <2>3, <3>1 DEF EntryInv, TypeOK
    <3>2. CASE routine = "disable_trace"
      BY <2>1, <2>2, <2>3, <3>2 DEF DeliverInv
    <3>3. CASE trace_mutex = "free" /\ main = "run"
      BY <2>1, <2>2, <3>3 DEF DeliverInv, CallInv
    <3> QED  BY <3>1, <3>2, <3>3
  <2>5. Path[board][d] \subseteq MainSinks
    <3>1. Path[board][d] = {"etr"} \cup FifosBehind(KnownBoards[board], d)
      BY <2>2, BoardNames DEF Path
    <3>2. FifosBehind(KnownBoards[board], d) \subseteq {"etf1", "etf2"}
      BY DEF FifosBehind, Fifos
    <3> QED  BY <2>2, <3>1, <3>2, Zcu104Sinks
  <2> QED  BY <2>4, <2>5 DEF Delivers, On
<1> QED  BY <1>1, DevicesInvariant, PTL

----------------------------------------------------------------------------
(* The outcomes of a call.                                                 *)

(* The sources and sinks of DeviceOutcomes.                                *)
sourcesBar == IF trace_mutex = "free" THEN SourceState ELSE entry[1]
sinksBar   == IF trace_mutex = "free" THEN SinkState ELSE entry[2]
etmBar     == IF board # "none" /\ KnownBoards[board].etmv4 THEN "ETMv4" ELSE "PTM"

LEMMA EtmNames ==
  /\ board = "ZCU104" => etmBar = "ETMv4"
  /\ board \in {"ZYNQ7000", "none"} => etmBar = "PTM"
  BY Etmv4Boards DEF etmBar

(* A step that neither enters nor leaves a call, or enters one, is none of *)
(* DeviceOutcomes.                                                         *)
LEMMA InsideStutters ==
  ASSUME UNCHANGED <<board, registration_verbose>>,
         UNCHANGED <<lib, is_first_trace, failed, misuse>>,
         sourcesBar' = sourcesBar, sinksBar' = sinksBar
  PROVE  UNCHANGED Outcomes!outcomeVars
  BY DEF Outcomes!outcomeVars, Outcomes!boardVars, sourcesBar, sinksBar

(* What a step that leaves a call shows.                                   *)
LEMMA LeaveShows ==
  ASSUME CallInv, routine # "none", NEW ok, Leave(ok), board' = board
  PROVE  /\ sourcesBar = entry[1] /\ sinksBar = entry[2]
         /\ sourcesBar' = SourceState /\ sinksBar' = SinkState
         /\ misuse' = misuse
<1>1. trace_mutex # "free" /\ trace_mutex' = "free" /\ UNCHANGED <<dev, board, misuse>>
  BY DEF Leave, CallInv
<1>2. SourceState' = SourceState /\ SinkState' = SinkState
  BY <1>1 DEF SourceState, SinkState, MainSinks, On, Off
<1> QED  BY <1>1, <1>2 DEF sourcesBar, sinksBar

LEMMA OutcomeStep ==
  ASSUME DevicesInv, Next
  PROVE  [Outcomes!DeviceNext]_(Outcomes!outcomeVars)
<1> USE DEF Routines, Enabling, Disabling
<1>0. TypeOK /\ CallInv /\ NoEtmv4Inv /\ ShownInv /\ EffectInv /\ EntryInv
  BY DEF DevicesInv
<1>a. /\ board' = board /\ MainSinks' = MainSinks
      /\ registration_verbose' = registration_verbose
  BY BoardKept
<1>c. UNCHANGED Outcomes!boardVars
  BY <1>a DEF Outcomes!boardVars
<1>b. dev' = dev => SourceState' = SourceState /\ SinkState' = SinkState
  BY <1>a DEF SourceState, SinkState, On, Off
<1>1. ASSUME NEW t \in {"main", "fetcher"}, NEW f \in Routines, Enter(t, f)
      PROVE  UNCHANGED Outcomes!outcomeVars
  <2>1. /\ trace_mutex = "free" /\ trace_mutex' # "free"
        /\ entry' = <<SourceState, SinkState>>
        /\ UNCHANGED <<lib, is_first_trace, failed, misuse>>
    BY <1>1 DEF Enter
  <2>2. sourcesBar' = sourcesBar /\ sinksBar' = sinksBar
    BY <2>1 DEF sourcesBar, sinksBar
  <2> QED  BY <1>a, <2>1, <2>2, InsideStutters
<1>2. ASSUME NEW t \in {"main", "fetcher"}, EnableCsTrace(t)
      PROVE  UNCHANGED Outcomes!outcomeVars
  BY <1>1, <1>2 DEF EnableCsTrace
<1>3. ASSUME NEW t \in {"main", "fetcher"}, DisableCsTrace(t)
      PROVE  UNCHANGED Outcomes!outcomeVars
  BY <1>1, <1>3 DEF DisableCsTrace
<1>4. CASE DeadCall
  <2>1. /\ lib = "closed" /\ misuse' = TRUE
        /\ UNCHANGED <<lib, is_first_trace, trace_mutex, entry, dev>>
        /\ \/ failed' = failed \cup {"disable"}
           \/ failed' = failed \cup {"enable"}
           \/ failed' = failed
    BY <1>4 DEF DeadCall, callVars
  <2>2. sourcesBar' = sourcesBar /\ sinksBar' = sinksBar
    BY <1>b, <2>1 DEF sourcesBar, sinksBar
  <2>3. CASE failed' = failed \cup {"disable"}
    <3>1. Outcomes!DisableFails(TRUE)
      BY <2>1, <2>2, <2>3 DEF Outcomes!DisableFails, Outcomes!NoteMisuse,
                              sourcesBar, sinksBar
    <3> QED  BY <1>c, <3>1 DEF Outcomes!DeviceNext
  <2>4. CASE failed' = failed \cup {"enable"}
    <3>1. Outcomes!EnableFails
      BY <2>1, <2>2, <2>4 DEF Outcomes!EnableFails, Outcomes!NoteMisuse,
                              sourcesBar, sinksBar
    <3> QED  BY <1>c, <3>1 DEF Outcomes!DeviceNext
  <2>5. CASE failed' = failed
    <3>1. Outcomes!DiesAfterShutdown
      BY <2>1, <2>2, <2>5 DEF Outcomes!DiesAfterShutdown, sourcesBar, sinksBar
    <3> QED  BY <1>c, <3>1 DEF Outcomes!DeviceNext
  <2> QED  BY <2>1, <2>3, <2>4, <2>5
<1>5. CASE AccessDevice \/ InitEtmAsserts \/ ShowEtmConfig \/ ConfigureSucceeds
           \/ DisableRetries
  <2>1. /\ trace_mutex # "free"
        /\ UNCHANGED <<is_first_trace, failed, misuse, trace_mutex, entry>>
    BY <1>0, <1>5 DEF AccessDevice, InitEtmAsserts, ShowEtmConfig,
                      ConfigureSucceeds, DisableRetries, CallInv
  <2>2. sourcesBar' = sourcesBar /\ sinksBar' = sinksBar
    BY <2>1 DEF sourcesBar, sinksBar
  <2>3. CASE lib' = lib
    BY <1>a, <2>1, <2>2, <2>3, InsideStutters
  <2>4. CASE lib' # lib
    <3>1. (InitEtmAsserts \/ ShowEtmConfig) /\ lib' = "aborted"
      BY <1>5, <2>4 DEF AccessDevice, InitEtmAsserts, ShowEtmConfig, EndsInside,
                        ConfigureSucceeds, DisableRetries
    <3>2. /\ is_first_trace /\ lib = "up"
          /\ etmBar # "ETMv4" \/ registration_verbose > 0
      <4>1. CASE InitEtmAsserts
        <5>1. board = "ZYNQ7000" /\ routine = "configure_trace"
          BY <1>0, <4>1, AssertsOnZynq
        <5> QED  BY <1>0, <5>1, EtmNames DEF CallInv, TypeOK
      <4>2. CASE ShowEtmConfig
        BY <1>0, <4>2, ShowsFirst
      <4> QED  BY <3>1, <4>1, <4>2
    <3>3. Outcomes!EnableAborts
      BY <2>1, <2>2, <3>1, <3>2 DEF Outcomes!EnableAborts, Outcomes!EnableFatal,
         Outcomes!Aborts, sourcesBar, sinksBar, etmBar
    <3> QED  BY <1>c, <3>3 DEF Outcomes!DeviceNext
  <2> QED  BY <2>3, <2>4
<1>6. CASE EnableLeaves
  <2>1. /\ routine \in {"enable_trace", "enable_trace_sinks_only"} /\ ret = 0
        /\ Leave(TRUE) /\ is_first_trace' = FALSE /\ UNCHANGED <<lib, failed>>
    BY <1>6 DEF EnableLeaves
  <2>2. board = "ZCU104" /\ lib = "up"
    BY <1>0, <2>1 DEF TypeOK, CallInv, NoEtmv4Inv
  <2>3. /\ sourcesBar = entry[1] /\ sinksBar = entry[2]
        /\ sourcesBar' = SourceState /\ sinksBar' = SinkState
        /\ misuse' = misuse
    BY <1>0, <1>a, <2>1, LeaveShows
  <2>4. SinkState = "on"
    BY <1>0, <2>1, <2>2, EnableDone DEF SinkState
  <2>5. SourceState = IF is_first_trace THEN "on" ELSE entry[1]
    <3>1. CASE routine = "enable_trace"
      <4>1. dev["stm"] = "on" /\ is_first_trace
        BY <1>0, <2>1, <2>2, <3>1, EnableDone DEF CallInv
      <4> QED  BY <4>1 DEF SourceState, Off, Sources
    <3>2. CASE routine = "enable_trace_sinks_only"
      BY <1>0, <2>2, <3>2 DEF EntryInv, CallInv
    <3> QED  BY <2>1, <3>1, <3>2
  <2>7. ~Outcomes!EnableFatal
    <3>1. etmBar = "ETMv4"
      BY <2>2, EtmNames
    <3>2. ~(registration_verbose > 0)
      BY <1>0, <2>1, <2>2 DEF ShownInv
    <3> QED  BY <3>1, <3>2 DEF Outcomes!EnableFatal, etmBar
  <2>6. Outcomes!EnableSucceeds
    BY <2>1, <2>2, <2>3, <2>4, <2>5, <2>7
    DEF Outcomes!EnableSucceeds, sourcesBar, sinksBar
  <2> QED  BY <1>c, <2>6 DEF Outcomes!DeviceNext
<1>7. CASE EnableShutsDown
  <2>1. /\ routine \in Enabling /\ ret = -1
        /\ lib' = IF lib = "none" THEN "none" ELSE "closed"
        /\ failed' = failed \cup {"enable"}
        /\ Leave(FALSE) /\ UNCHANGED is_first_trace
    BY <1>7 DEF EnableShutsDown
  <2>2. /\ sourcesBar = entry[1] /\ sinksBar = entry[2]
        /\ sourcesBar' = SourceState /\ sinksBar' = SinkState
        /\ misuse' = misuse
    BY <1>0, <1>a, <2>1, LeaveShows
  <2>3. lib \in {"none", "up"} /\ Outcomes!NoteMisuse
    <3>1. lib \in {"none", "up"}
      BY <1>0, <2>1 DEF CallInv, TypeOK
    <3>2. misuse \in BOOLEAN
      BY DEF DevicesInv
    <3> QED  BY <2>2, <3>1, <3>2, Zenon DEF Outcomes!NoteMisuse
  <2>4. CASE lib = "up"
    <3>1. SinkState \in {"off", "partial", "on"}
      BY StateTypes
    <3>2. SourceState \in IF is_first_trace /\ SinkState = "on"
                          THEN {"off", "on"} ELSE {entry[1]}
      <4>1. CASE is_first_trace /\ SinkState = "on"
        BY <4>1, StateTypes
      <4>2. CASE ~(is_first_trace /\ SinkState = "on")
        <5>1. CASE board = "ZCU104" /\ routine = "enable_trace"
          <6>1. ~On(MainSinks)
            BY <1>0, <4>2, <5>1 DEF CallInv, SinkState
          <6>2. Off(Sources) /\ entry[1] = "off"
            BY <1>0, <5>1, <6>1 DEF EntryInv, TypeOK
          <6> QED  BY <4>2, <6>2 DEF SourceState
        <5>2. CASE board = "ZCU104" /\ routine # "enable_trace"
          BY <1>0, <2>1, <4>2, <5>2 DEF EntryInv
        <5>3. CASE board # "ZCU104"
          <6>1. SourceState = "off"
            BY <1>0, <5>3, AllOffSeen DEF NoEtmv4Inv, TypeOK
          <6>2. entry[1] = "off"
            BY <1>0, <5>3 DEF NoEtmv4Inv
          <6> QED  BY <4>2, <6>1, <6>2
        <5> QED  BY <5>1, <5>2, <5>3
      <4> QED  BY <4>1, <4>2
    <3>3. Outcomes!EnableFails
      BY <2>1, <2>2, <2>3, <2>4, <3>1, <3>2
      DEF Outcomes!EnableFails, sourcesBar, sinksBar
    <3> QED  BY <1>c, <3>3 DEF Outcomes!DeviceNext
  <2>5. CASE lib = "none"
    <3>1. board = "none"
      BY <1>0, <2>5 DEF CallInv
    <3>2. /\ SourceState = "off" /\ SinkState = "off"
          /\ entry[1] = "off" /\ entry[2] = "off"
      BY <1>0, <3>1, AllOffSeen DEF NoEtmv4Inv
    <3>3. Outcomes!EnableFails
      BY <2>1, <2>2, <2>3, <2>5, <3>2
      DEF Outcomes!EnableFails, sourcesBar, sinksBar
    <3> QED  BY <1>c, <3>3 DEF Outcomes!DeviceNext
  <2> QED  BY <2>3, <2>4, <2>5
<1>8. CASE DisableLeaves
  <2>1. /\ routine \in Disabling /\ ret = 0 /\ Leave(TRUE)
        /\ UNCHANGED <<lib, is_first_trace, failed>>
    BY <1>8 DEF DisableLeaves
  <2>2. board = "ZCU104" /\ lib = "up"
    BY <1>0, <2>1 DEF TypeOK, CallInv, NoEtmv4Inv
  <2>3. /\ sourcesBar = entry[1] /\ sinksBar = entry[2]
        /\ sourcesBar' = SourceState /\ sinksBar' = SinkState
        /\ misuse' = misuse
    BY <1>0, <1>a, <2>1, LeaveShows
  <2>4. /\ Off(MainSinks) /\ dev["etr"] = "off"
        /\ routine = "disable_trace" => Off(Sources)
    BY <1>0, <2>1, <2>2, DisableDone
  <2>5. SinkState = "off"
    BY <2>2, <2>4, Zcu104Sinks DEF SinkState, On
  <2>6. SourceState = IF routine = "disable_trace" THEN "off" ELSE entry[1]
    BY <1>0, <2>1, <2>2, <2>4 DEF EntryInv, SourceState
  <2>8. ~Outcomes!DisableFatal(routine = "disable_trace")
    BY <1>0, <2>1, <2>2 DEF ShownInv, TypeOK, Outcomes!DisableFatal
  <2>7. Outcomes!DisableSucceeds(routine = "disable_trace")
    BY <2>1, <2>2, <2>3, <2>5, <2>6, <2>8
    DEF Outcomes!DisableSucceeds, sourcesBar, sinksBar
  <2> QED  BY <1>c, <2>7 DEF Outcomes!DeviceNext
<1>9. CASE DisableGivesUp
  <2>1. /\ routine \in Disabling /\ ret = -1 /\ Leave(FALSE)
        /\ failed' = failed \cup {"disable"} /\ UNCHANGED <<lib, is_first_trace>>
    BY <1>9 DEF DisableGivesUp
  <2>2. /\ sourcesBar = entry[1] /\ sinksBar = entry[2]
        /\ sourcesBar' = SourceState /\ sinksBar' = SinkState
        /\ misuse' = misuse
    BY <1>0, <1>a, <2>1, LeaveShows
  <2>3. lib \in {"none", "up"} /\ Outcomes!NoteMisuse
    <3>1. lib \in {"none", "up"}
      BY <1>0, <2>1 DEF CallInv, TypeOK
    <3>2. misuse \in BOOLEAN
      BY DEF DevicesInv
    <3> QED  BY <2>2, <3>1, <3>2, Zenon DEF Outcomes!NoteMisuse
  <2>4. CASE lib = "up"
    <3>1. board = "ZCU104"
      BY <1>0, <2>1, <2>4 DEF TypeOK, CallInv, NoEtmv4Inv
    <3>2. SinkState \in {"off", "partial", entry[2]}
      BY <1>0, <2>1, <3>1 DEF EntryInv, SinkState
    <3>3. SourceState \in IF routine = "disable_trace" THEN {"off", entry[1]}
                                                       ELSE {entry[1]}
      <4>1. entry[1] \in {"on", "off"}
        BY <1>0 DEF TypeOK
      <4> QED  BY <1>0, <2>1, <3>1, <4>1 DEF EntryInv, SourceState
    <3>4. Outcomes!DisableFails(routine = "disable_trace")
      BY <2>1, <2>2, <2>3, <2>4, <3>2, <3>3
      DEF Outcomes!DisableFails, sourcesBar, sinksBar
    <3> QED  BY <1>c, <3>4 DEF Outcomes!DeviceNext
  <2>5. CASE lib = "none"
    <3>1. board = "none"
      BY <1>0, <2>5 DEF CallInv
    <3>2. /\ SourceState = "off" /\ SinkState = "off"
          /\ entry[1] = "off" /\ entry[2] = "off"
      BY <1>0, <3>1, AllOffSeen DEF NoEtmv4Inv
    <3>3. Outcomes!DisableFails(TRUE)
      BY <2>1, <2>2, <2>3, <2>5, <3>2
      DEF Outcomes!DisableFails, sourcesBar, sinksBar
    <3> QED  BY <1>c, <3>3 DEF Outcomes!DeviceNext
  <2> QED  BY <2>3, <2>4, <2>5
<1>10. CASE FetchTrace \/ Ended
  <2>1. UNCHANGED <<lib, is_first_trace, failed, misuse, trace_mutex, entry, dev>>
    BY <1>10 DEF FetchTrace, Ended, vars, callVars
  <2>2. sourcesBar' = sourcesBar /\ sinksBar' = sinksBar
    BY <1>b, <2>1 DEF sourcesBar, sinksBar
  <2> QED  BY <1>a, <2>1, <2>2, InsideStutters
<1> QED
  BY <1>2, <1>3, <1>4, <1>5, <1>6, <1>7, <1>8, <1>9, <1>10 DEF Next, Inside

(* enable_cs_trace and disable_cs_trace, access by access, with the        *)
(* functions of config.c, have no outcome but the ones that DeviceOutcomes *)
(* lists and from which TraceSession is built, whichever accesses fail.    *)
THEOREM OutcomesImplemented == Spec => ImplementsOutcomes
<1>1. Init => Outcomes!DeviceInit
  <2> SUFFICES ASSUME Init  PROVE Outcomes!DeviceInit
    OBVIOUS
  <2>1. /\ \A d \in Devices : dev[d] = "off"
        /\ trace_mutex = "free" /\ failed = {} /\ misuse = FALSE
        /\ is_first_trace = TRUE /\ lib \in {"none", "up"}
        /\ board \in {"ZCU104", "ZYNQ7000", "none"}
        /\ registration_verbose \in 0..2
    BY BoardNames DEF Init
  <2>2. MainSinks = {"etr", "etf1", "etf2"} \/ MainSinks = {"etr"}
    BY <2>1, Zcu104Sinks, OtherSinks
  <2>3. SourceState = "off" /\ SinkState = "off"
    BY <2>1, <2>2 DEF SourceState, SinkState, On, Off, Sources, Devices, Fifos
  <2>4. etmBar \in {"ETMv4", "PTM"}
    BY DEF etmBar
  <2> QED  BY <2>1, <2>3, <2>4 DEF Outcomes!DeviceInit, etmBar
<1>2. DevicesInv /\ [Next]_vars => [Outcomes!DeviceNext]_(Outcomes!outcomeVars)
  <2>1. ASSUME UNCHANGED vars
        PROVE  UNCHANGED Outcomes!outcomeVars
    BY <2>1 DEF vars, callVars, Outcomes!outcomeVars, Outcomes!boardVars,
                SourceState, SinkState, MainSinks, On, Off
  <2> QED  BY <2>1, OutcomeStep
<1> QED
  BY <1>1, <1>2, DevicesInvariant, PTL
  DEF Spec, ImplementsOutcomes, Outcomes!DeviceSpec
============================================================================
