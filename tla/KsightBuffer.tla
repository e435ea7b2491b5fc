---------------------------- MODULE KsightBuffer ----------------------------
(***************************************************************************)
(* The buffer of ksight tag events of src/common.c: start_trace allocates  *)
(* it, fini_trace fills it from /dev/ksight (fetch_ksight_events), exports *)
(* it and frees it. Sizes are in bytes; an event is a                      *)
(* struct ksight_tag_event of include/ksight.h.                            *)
(*                                                                         *)
(* The kernel module is external: read() hands out whole events, at most   *)
(* as many as fit, and nothing when not one fits or none is pending. It    *)
(* may record while the buffer is filled: that its enable attribute has    *)
(* been cleared is not certain (see MainKsight of TraceSession).           *)
(***************************************************************************)
EXTENDS Integers

CONSTANTS
  DEFAULT_TRACE_SIZE,
  EventSize,      \* sizeof(struct ksight_tag_event): 72
  SizeMod,        \* size_t counts modulo SizeMod; memory is smaller
  MaxEvents       \* bound: events the kernel records. A run that gives it more
                  \* than fit in memory does not bound the fetch by it

ASSUME EventAssumption == /\ EventSize \in Nat \ {0}
                          /\ EventSize % 8 = 0
ASSUME SizeAssumption  == /\ DEFAULT_TRACE_SIZE \in Nat
                          /\ DEFAULT_TRACE_SIZE >= EventSize
                          /\ SizeMod \in Nat
                          /\ DEFAULT_TRACE_SIZE < SizeMod
ASSUME BoundAssumption == MaxEvents \in Nat

VARIABLES
  pc,             \* where the main thread is
  ksight_buf,     \* "null", "mapped", "invalid": MAP_FAILED, "unmapped"
  ksight_buf_size,
  used,           \* ksight_buf_ptr - ksight_buf, modulo SizeMod
  buf_remain,
  ring,           \* events pending in the kernel
  file,           \* bytes in cstrace.ksight
  (* History *)
  recorded,       \* events the kernel has recorded
  before,         \* of those, the ones recorded when the fetch began
  taken,          \* events the kernel has handed out
  failed          \* what has failed

bufVars == <<ksight_buf, ksight_buf_size, used>>
vars == <<pc, bufVars, buf_remain, ring, file, recorded, before, taken, failed>>

Minus(a, b) == IF a >= b THEN a - b ELSE a - b + SizeMod
ALIGN_UP(n) == 8 * ((n + 7) \div 8)

Init ==
  /\ pc = "start"
  /\ ksight_buf = "null" /\ ksight_buf_size = 0 /\ used = 0 /\ buf_remain = 0
  /\ ring = 0 /\ file = 0
  /\ recorded = 0 /\ before = 0 /\ taken = 0 /\ failed = {}

(* The kernel records an event.                                            *)
Record ==
  /\ pc \notin {"start", "done", "crashed"} /\ recorded < MaxEvents
  /\ recorded' = recorded + 1 /\ ring' = ring + 1
  /\ UNCHANGED <<pc, bufVars, buf_remain, file, before, taken, failed>>

----------------------------------------------------------------------------
(* start_trace. A failure to set the affinity ends it before the buffer is *)
(* allocated; parent() goes on all the same.                               *)
AffinityFails ==
  /\ pc = "start" /\ pc' = "session"
  /\ failed' = failed \cup {"affinity"}
  /\ UNCHANGED <<bufVars, buf_remain, ring, file, recorded, before, taken>>

(* alloc_ksight_buf.                                                       *)
AllocKsightBuf ==
  /\ pc = "start" /\ pc' = "session"
  /\ ksight_buf' = "mapped" /\ ksight_buf_size' = DEFAULT_TRACE_SIZE /\ used' = 0
  /\ UNCHANGED <<buf_remain, ring, file, recorded, before, taken, failed>>

(* mmap fails: ksight_buf is MAP_FAILED, that is -1, and ksight_buf_ptr is *)
(* still NULL, one byte after it. start_trace does not look at the result. *)
AllocFails ==
  /\ pc = "start" /\ pc' = "session"
  /\ ksight_buf' = "invalid" /\ used' = 1
  /\ failed' = failed \cup {"alloc"}
  /\ UNCHANGED <<ksight_buf_size, buf_remain, ring, file, recorded, before, taken>>

----------------------------------------------------------------------------
(* fetch_ksight_events opens the device and aligns the pointer (NULL is    *)
(* aligned, and so is the start of a mapping).                             *)
OpenKsight ==
  /\ pc = "session" /\ pc' = "grow"
  /\ used' = IF ksight_buf = "mapped" THEN ALIGN_UP(used) ELSE used
  /\ buf_remain' = Minus(ksight_buf_size, used')
  /\ before' = recorded
  /\ UNCHANGED <<ksight_buf, ksight_buf_size, ring, file, recorded, taken, failed>>

OpenFails ==
  /\ pc = "session" /\ pc' = "export"
  /\ before' = recorded /\ failed' = failed \cup {"open"}
  /\ UNCHANGED <<bufVars, buf_remain, ring, file, recorded, taken>>

(* Mutant: the buffer grows only when it is full.                          *)
NeedsRoomWhenFull == buf_remain = 0

(* No event fits in what remains.                                          *)
NeedsRoom == buf_remain < EventSize

EnoughRoom ==
  /\ pc = "grow" /\ ~NeedsRoom /\ pc' = "read"
  /\ UNCHANGED <<bufVars, buf_remain, ring, file, recorded, before, taken, failed>>

(* Mutant: ksight_buf still points at the old mapping, which has moved.    *)
GrowKeepsOld ==
  /\ pc = "grow" /\ NeedsRoom /\ ksight_buf = "mapped"
  /\ 2 * ksight_buf_size < SizeMod
  /\ pc' = "read"
  /\ ksight_buf' = "invalid" /\ ksight_buf_size' = 2 * ksight_buf_size
  /\ buf_remain' = Minus(ksight_buf_size', used)
  /\ UNCHANGED <<used, ring, file, recorded, before, taken, failed>>

(* mremap doubles the buffer; a mapping that moves keeps its contents.     *)
Grow ==
  /\ pc = "grow" /\ NeedsRoom /\ ksight_buf = "mapped"
  /\ 2 * ksight_buf_size < SizeMod
  /\ pc' = "read"
  /\ ksight_buf_size' = 2 * ksight_buf_size
  /\ buf_remain' = Minus(ksight_buf_size', used)
  /\ UNCHANGED <<ksight_buf, used, ring, file, recorded, before, taken, failed>>

(* mremap fails, as it always does on a buffer that is not mapped. It has  *)
(* returned MAP_FAILED, which is not NULL: the function goes on with it.   *)
GrowFails ==
  /\ pc = "grow" /\ NeedsRoom
  /\ pc' = "read"
  /\ ksight_buf' = "invalid" /\ ksight_buf_size' = (2 * ksight_buf_size) % SizeMod
  /\ buf_remain' = Minus(ksight_buf_size', used)
  /\ failed' = failed \cup {"grow"}
  /\ UNCHANGED <<used, ring, file, recorded, before, taken>>

(* Mutant: buf_remain is not computed again after a read.                  *)
ReadStaleRemain ==
  /\ pc = "read" /\ ksight_buf = "mapped" /\ pc' = "grow"
  /\ \E k \in 1..ring :
       /\ k * EventSize <= buf_remain
       /\ used' = used + k * EventSize
       /\ ring' = ring - k /\ taken' = taken + k
  /\ UNCHANGED <<ksight_buf, ksight_buf_size, buf_remain, file, recorded, before, failed>>

(* read() hands out k events.                                              *)
ReadEvents ==
  /\ pc = "read" /\ ksight_buf = "mapped" /\ pc' = "grow"
  /\ \E k \in 1..ring :
       /\ k * EventSize <= buf_remain
       /\ used' = used + k * EventSize
       /\ ring' = ring - k /\ taken' = taken + k
  /\ buf_remain' = Minus(ksight_buf_size, used')
  /\ UNCHANGED <<ksight_buf, ksight_buf_size, file, recorded, before, failed>>

(* Mutant: EAGAIN is taken for an interruption and read() called again.    *)
ReadNothingAgain ==
  /\ pc = "read" /\ pc' = "grow"
  /\ ring = 0 \/ buf_remain < EventSize
  /\ UNCHANGED <<bufVars, buf_remain, ring, file, recorded, before, taken, failed>>

(* It returns 0, or EAGAIN: there is nothing that it can hand out.         *)
ReadNothing ==
  /\ pc = "read" /\ pc' = "export"
  /\ ring = 0 \/ buf_remain < EventSize
  /\ UNCHANGED <<bufVars, buf_remain, ring, file, recorded, before, taken, failed>>

(* Another error: EFAULT on a buffer that is not there, or the device's.   *)
ReadFails ==
  /\ pc = "read" /\ pc' = "export"
  /\ failed' = failed \cup {"read"}
  /\ UNCHANGED <<bufVars, buf_remain, ring, file, recorded, before, taken>>

----------------------------------------------------------------------------
(* export_ksight, whatever the fetch returned. Reading the bytes of an     *)
(* invalid buffer ends the process.                                        *)
ExportKsight ==
  /\ pc = "export"
  /\ IF ksight_buf = "invalid" /\ used > 0
     THEN pc' = "crashed" /\ UNCHANGED file
     ELSE pc' = "free" /\ file' = used
  /\ UNCHANGED <<bufVars, buf_remain, ring, recorded, before, taken, failed>>

ExportFails ==
  /\ pc = "export" /\ pc' = "free"
  /\ failed' = failed \cup {"export"}
  /\ UNCHANGED <<bufVars, buf_remain, ring, file, recorded, before, taken>>

(* free_ksight_buf: munmap refuses an address that is not one of a page.   *)
FreeKsightBuf ==
  /\ pc = "free" /\ pc' = "done"
  /\ ksight_buf' = IF ksight_buf = "mapped" THEN "unmapped" ELSE ksight_buf
  /\ used' = 0
  /\ UNCHANGED <<ksight_buf_size, buf_remain, ring, file, recorded, before, taken, failed>>

Terminated == pc \in {"done", "crashed"} /\ UNCHANGED vars

Fetch == EnoughRoom \/ Grow \/ GrowFails \/ ReadEvents \/ ReadNothing \/ ReadFails
Main  == \/ AffinityFails \/ AllocKsightBuf \/ AllocFails
         \/ OpenKsight \/ OpenFails \/ Fetch
         \/ ExportKsight \/ ExportFails \/ FreeKsightBuf

Next == Main \/ Record \/ Terminated
Spec == Init /\ [][Next]_vars

(* The main thread is scheduled.                                           *)
FairSpec == Spec /\ WF_vars(Fetch)

----------------------------------------------------------------------------
(* Properties.                                                             *)

(* No step of fetch_ksight_events reads or writes past the end of the      *)
(* buffer, whatever number of events each read() hands out, and each       *)
(* read() has room for one: one doubling is always enough.                 *)
InBounds ==
  ksight_buf = "mapped" =>
    /\ used <= ksight_buf_size /\ ksight_buf_size < SizeMod
    /\ pc \in {"grow", "read"} => buf_remain = ksight_buf_size - used
    /\ pc = "read" => buf_remain >= EventSize

(* The exported file holds exactly the events that were taken from the     *)
(* kernel, even after a read() that failed; if none did, those are all the *)
(* events recorded before fini_trace fetched them.                         *)
EventsComplete ==
  pc = "done" /\ failed \cap {"affinity", "alloc", "grow", "export"} = {} =>
    /\ file = taken * EventSize
    /\ failed = {} => taken >= before

(* Exporting the events ends the process only after an mmap or an mremap   *)
(* has failed, the two results the code does not use or tests wrongly.     *)
(* Without a buffer (no affinity) it exports an empty file.                *)
CrashNeedsMemory == pc = "crashed" => failed \cap {"alloc", "grow"} # {}

(* fetch_ksight_events returns, though its loop has no bound and the       *)
(* kernel may go on recording faster than it reads: the device is opened   *)
(* O_NONBLOCK, each turn that goes on has put an event into the buffer,    *)
(* and the turn that finds no memory to double it ends the loop, since     *)
(* read() fails on what the failed mremap returned.                        *)
FetchReturns == pc = "grow" ~> pc = "export"
============================================================================
