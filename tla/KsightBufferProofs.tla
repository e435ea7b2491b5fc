------------------------- MODULE KsightBufferProofs -------------------------
(***************************************************************************)
(* Proofs, for every size of the events, of the buffer and of the address  *)
(* space, that KsightBuffer stays in bounds, exports what it has taken and *)
(* ends the process only after an allocation has failed.                   *)
(***************************************************************************)
EXTENDS KsightBuffer, TLAPS

USE EventAssumption, SizeAssumption, BoundAssumption
USE DEF vars, bufVars

TypeInv ==
  /\ pc \in {"start", "session", "grow", "read", "export", "free", "done", "crashed"}
  /\ ksight_buf \in {"null", "mapped", "invalid", "unmapped"}
  /\ ksight_buf_size \in Nat /\ used \in Nat /\ buf_remain \in Int
  /\ ring \in Nat /\ file \in Nat
  /\ recorded \in Nat /\ before \in Nat /\ taken \in Nat
  /\ failed \in SUBSET {"affinity", "alloc", "open", "grow", "read", "export"}

(* Which buffers there are at each point, and why.                         *)
BufferInv ==
  /\ pc = "start" => ksight_buf = "null" /\ failed = {}
  /\ ksight_buf = "null" => pc = "start" \/ "affinity" \in failed
  /\ ksight_buf = "null" => used = 0
  /\ ksight_buf = "invalid" => "alloc" \in failed \/ "grow" \in failed
  /\ ksight_buf = "unmapped" <=>
       pc = "done" /\ ~("affinity" \in failed \/ "alloc" \in failed \/ "grow" \in failed)
  /\ ksight_buf = "mapped" => ~("alloc" \in failed \/ "grow" \in failed \/ "affinity" \in failed)
  /\ pc = "crashed" => "alloc" \in failed \/ "grow" \in failed

(* The arithmetic of a mapped buffer: it is never smaller than at first,   *)
(* which is why one doubling makes room for an event.                      *)
SizeInv ==
  ksight_buf = "mapped" =>
    /\ used <= ksight_buf_size /\ ksight_buf_size < SizeMod
    /\ ksight_buf_size >= DEFAULT_TRACE_SIZE
    /\ pc \in {"grow", "read"} => buf_remain = ksight_buf_size - used
    /\ pc = "read" => buf_remain >= EventSize

(* What has become of the events.                                          *)
AccountInv ==
  /\ recorded = ring + taken
  /\ pc \in {"start", "session"} => taken = 0
  /\ before <= recorded
  /\ ksight_buf = "mapped" => used = taken * EventSize
  /\ pc = "export" /\ failed = {} => taken >= before
  /\ pc \in {"free", "done"} /\ failed = {} => taken >= before
  /\ pc = "free" /\ ksight_buf = "mapped" /\ "export" \notin failed => file = used
  /\ pc = "done" /\ ksight_buf = "unmapped" /\ "export" \notin failed
       => file = taken * EventSize

IInv == TypeInv /\ BufferInv /\ SizeInv /\ AccountInv

----------------------------------------------------------------------------
(* Products with the size of an event, which is not a known number.        *)
LEMMA ProductNat ==
  ASSUME NEW k \in Nat
  PROVE  k * EventSize \in Nat
  OBVIOUS

LEMMA AddEvents ==
  ASSUME NEW t \in Nat, NEW k \in Nat
  PROVE  (t + k) * EventSize = t * EventSize + k * EventSize
  OBVIOUS

LEMMA ZeroEvents == 0 * EventSize = 0
  OBVIOUS

(* Every variable keeps its type.                                           *)
LEMMA TypeInvStep ==
  ASSUME TypeInv, BufferInv, AccountInv, [Next]_vars
  PROVE  TypeInv'
<1> USE DEF TypeInv, BufferInv, AccountInv
<1>1. CASE AffinityFails
  BY <1>1 DEF AffinityFails
<1>2. CASE AllocKsightBuf
  BY <1>2 DEF AllocKsightBuf
<1>3. CASE AllocFails
  BY <1>3 DEF AllocFails
<1>4. CASE OpenKsight
  BY <1>4 DEF OpenKsight, Minus, ALIGN_UP
<1>5. CASE OpenFails
  BY <1>5 DEF OpenFails
<1>6. CASE EnoughRoom
  BY <1>6 DEF EnoughRoom, NeedsRoom
<1>7. CASE Grow
  BY <1>7 DEF Grow, NeedsRoom, Minus
<1>8. CASE GrowFails
  BY <1>8 DEF GrowFails, NeedsRoom, Minus
<1>9. CASE ReadEvents
  <2>1. PICK k \in 1..ring : /\ used' = used + k * EventSize
                            /\ ring' = ring - k /\ taken' = taken + k
    BY <1>9 DEF ReadEvents
  <2>2. k \in Nat /\ k * EventSize \in Nat /\ ring - k \in Nat
    BY <2>1, ProductNat
  <2> QED
    BY <1>9, <2>1, <2>2 DEF ReadEvents, Minus
<1>10. CASE ReadNothing
  BY <1>10 DEF ReadNothing
<1>11. CASE ReadFails
  BY <1>11 DEF ReadFails
<1>12. CASE ExportKsight
  BY <1>12 DEF ExportKsight
<1>13. CASE ExportFails
  BY <1>13 DEF ExportFails
<1>14. CASE FreeKsightBuf
  BY <1>14 DEF FreeKsightBuf
<1>15. CASE Record
  BY <1>15 DEF Record
<1>16. CASE Terminated
  BY <1>16 DEF Terminated
<1>17. CASE UNCHANGED vars
  BY <1>17
<1> QED
  BY <1>1, <1>2, <1>3, <1>4, <1>5, <1>6, <1>7, <1>8, <1>9, <1>10, <1>11, <1>12, <1>13, <1>14, <1>15, <1>16, <1>17
  DEF Next, Main, Fetch

(* A buffer is invalid, missing or unmapped for a reason.                   *)
LEMMA BufferInvStep ==
  ASSUME TypeInv, BufferInv, [Next]_vars
  PROVE  BufferInv'
<1> USE DEF TypeInv, BufferInv
<1>1. CASE AffinityFails
  BY <1>1 DEF AffinityFails
<1>2. CASE AllocKsightBuf
  BY <1>2 DEF AllocKsightBuf
<1>3. CASE AllocFails
  BY <1>3 DEF AllocFails
<1>4. CASE OpenKsight
  BY <1>4 DEF OpenKsight, Minus, ALIGN_UP
<1>5. CASE OpenFails
  BY <1>5 DEF OpenFails
<1>6. CASE EnoughRoom
  BY <1>6 DEF EnoughRoom, NeedsRoom
<1>7. CASE Grow
  BY <1>7 DEF Grow, NeedsRoom, Minus
<1>8. CASE GrowFails
  BY <1>8 DEF GrowFails, NeedsRoom, Minus
<1>9. CASE ReadEvents
  BY <1>9 DEF ReadEvents, Minus
<1>10. CASE ReadNothing
  BY <1>10 DEF ReadNothing
<1>11. CASE ReadFails
  BY <1>11 DEF ReadFails
<1>12. CASE ExportKsight
  BY <1>12 DEF ExportKsight
<1>13. CASE ExportFails
  BY <1>13 DEF ExportFails
<1>14. CASE FreeKsightBuf
  BY <1>14 DEF FreeKsightBuf
<1>15. CASE Record
  BY <1>15 DEF Record
<1>16. CASE Terminated
  BY <1>16 DEF Terminated
<1>17. CASE UNCHANGED vars
  BY <1>17
<1> QED
  BY <1>1, <1>2, <1>3, <1>4, <1>5, <1>6, <1>7, <1>8, <1>9, <1>10, <1>11, <1>12, <1>13, <1>14, <1>15, <1>16, <1>17
  DEF Next, Main, Fetch

(* A mapped buffer stays in bounds: before a read() it has room for an      *)
(* event, and a read() takes no more than remains.                         *)
LEMMA SizeInvStep ==
  ASSUME TypeInv, BufferInv, SizeInv, AccountInv, [Next]_vars
  PROVE  SizeInv'
<1> USE DEF TypeInv, BufferInv, SizeInv, AccountInv
<1>1. CASE AffinityFails
  BY <1>1 DEF AffinityFails
<1>2. CASE AllocKsightBuf
  BY <1>2 DEF AllocKsightBuf
<1>3. CASE AllocFails
  BY <1>3 DEF AllocFails
<1>4. CASE OpenKsight
  <2>1. ksight_buf = "mapped" => used' = 0
    BY <1>4, ZeroEvents DEF OpenKsight, ALIGN_UP
  <2> QED
    BY <1>4, <2>1 DEF OpenKsight, Minus
<1>5. CASE OpenFails
  BY <1>5 DEF OpenFails
<1>6. CASE EnoughRoom
  BY <1>6 DEF EnoughRoom, NeedsRoom
<1>7. CASE Grow
  BY <1>7 DEF Grow, NeedsRoom, Minus
<1>8. CASE GrowFails
  BY <1>8 DEF GrowFails, NeedsRoom, Minus
<1>9. CASE ReadEvents
  <2>1. PICK k \in 1..ring : /\ k * EventSize <= buf_remain
                            /\ used' = used + k * EventSize
    BY <1>9 DEF ReadEvents
  <2>2. k * EventSize \in Nat
    BY <2>1, ProductNat
  <2> QED
    BY <1>9, <2>1, <2>2 DEF ReadEvents, Minus
<1>10. CASE ReadNothing
  BY <1>10 DEF ReadNothing
<1>11. CASE ReadFails
  BY <1>11 DEF ReadFails
<1>12. CASE ExportKsight
  BY <1>12 DEF ExportKsight
<1>13. CASE ExportFails
  BY <1>13 DEF ExportFails
<1>14. CASE FreeKsightBuf
  BY <1>14 DEF FreeKsightBuf
<1>15. CASE Record
  BY <1>15 DEF Record
<1>16. CASE Terminated
  BY <1>16 DEF Terminated
<1>17. CASE UNCHANGED vars
  BY <1>17
<1> QED
  BY <1>1, <1>2, <1>3, <1>4, <1>5, <1>6, <1>7, <1>8, <1>9, <1>10, <1>11, <1>12, <1>13, <1>14, <1>15, <1>16, <1>17
  DEF Next, Main, Fetch

(* Every event recorded is pending or taken, and the buffer holds those     *)
(* taken. A read() that returns nothing had room, so that none is pending. *)
LEMMA AccountInvStep ==
  ASSUME TypeInv, BufferInv, SizeInv, AccountInv, [Next]_vars
  PROVE  AccountInv'
<1> USE DEF TypeInv, BufferInv, SizeInv, AccountInv
<1>1. CASE AffinityFails
  BY <1>1 DEF AffinityFails
<1>2. CASE AllocKsightBuf
  BY <1>2, ZeroEvents DEF AllocKsightBuf
<1>3. CASE AllocFails
  BY <1>3 DEF AllocFails
<1>4. CASE OpenKsight
  <2>1. ksight_buf = "mapped" => used = 0 /\ used' = 0
    BY <1>4, ZeroEvents DEF OpenKsight, ALIGN_UP
  <2> QED
    BY <1>4, <2>1 DEF OpenKsight
<1>5. CASE OpenFails
  BY <1>5 DEF OpenFails
<1>6. CASE EnoughRoom
  BY <1>6 DEF EnoughRoom, NeedsRoom
<1>7. CASE Grow
  BY <1>7 DEF Grow, NeedsRoom, Minus
<1>8. CASE GrowFails
  BY <1>8 DEF GrowFails, NeedsRoom, Minus
<1>9. CASE ReadEvents
  <2>1. PICK k \in 1..ring : /\ used' = used + k * EventSize
                            /\ ring' = ring - k /\ taken' = taken + k
    BY <1>9 DEF ReadEvents
  <2>2. (taken + k) * EventSize = taken * EventSize + k * EventSize
    BY <2>1, AddEvents
  <2> QED
    BY <1>9, <2>1, <2>2 DEF ReadEvents
<1>10. CASE ReadNothing
  <2>1. failed = {} => ksight_buf = "mapped"
    BY <1>10 DEF ReadNothing
  <2>2. failed = {} => ring = 0
    BY <1>10, <2>1 DEF ReadNothing
  <2> QED
    BY <1>10, <2>2 DEF ReadNothing
<1>11. CASE ReadFails
  BY <1>11 DEF ReadFails
<1>12. CASE ExportKsight
  BY <1>12 DEF ExportKsight
<1>13. CASE ExportFails
  BY <1>13 DEF ExportFails
<1>14. CASE FreeKsightBuf
  BY <1>14 DEF FreeKsightBuf
<1>15. CASE Record
  BY <1>15 DEF Record
<1>16. CASE Terminated
  BY <1>16 DEF Terminated
<1>17. CASE UNCHANGED vars
  BY <1>17
<1> QED
  BY <1>1, <1>2, <1>3, <1>4, <1>5, <1>6, <1>7, <1>8, <1>9, <1>10, <1>11, <1>12, <1>13, <1>14, <1>15, <1>16, <1>17
  DEF Next, Main, Fetch

(* The invariant holds initially and is preserved by every step.            *)
LEMMA IInvInit == Init => IInv
  BY ZeroEvents DEF Init, IInv, TypeInv, BufferInv, SizeInv, AccountInv

LEMMA IInvStep == IInv /\ [Next]_vars => IInv'
  BY TypeInvStep, BufferInvStep, SizeInvStep, AccountInvStep DEF IInv

----------------------------------------------------------------------------
(* The inductive invariant of the ksight buffer.                           *)
THEOREM KsightInvariant == Spec => []IInv
  BY IInvInit, IInvStep, PTL DEF Spec

(* fetch_ksight_events stays inside the buffer and always offers room for  *)
(* an event, whatever the sizes.                                           *)
THEOREM KsightInBounds == Spec => []InBounds
<1>1. IInv => InBounds
  BY DEF IInv, SizeInv, InBounds
<1> QED
  BY <1>1, KsightInvariant, PTL

(* cstrace.ksight holds the events taken, and those are all the events     *)
(* recorded before the fetch, unless something failed.                     *)
THEOREM KsightComplete == Spec => []EventsComplete
<1>1. ASSUME IInv, pc = "done",
             failed \cap {"affinity", "alloc", "grow", "export"} = {}
      PROVE  file = taken * EventSize /\ (failed = {} => taken >= before)
  <2>1. /\ "affinity" \notin failed /\ "alloc" \notin failed
        /\ "grow" \notin failed /\ "export" \notin failed
    BY <1>1
  <2>2. ksight_buf = "unmapped"
    BY <1>1, <2>1 DEF IInv, BufferInv
  <2> QED
    BY <1>1, <2>1, <2>2 DEF IInv, AccountInv
<1>2. IInv => EventsComplete
  BY <1>1 DEF EventsComplete
<1> QED
  BY <1>2, KsightInvariant, PTL

(* Exporting the ksight events ends the process only after a failed mmap   *)
(* or mremap.                                                              *)
THEOREM KsightCrash == Spec => []CrashNeedsMemory
<1>1. IInv => CrashNeedsMemory
  BY DEF IInv, BufferInv, CrashNeedsMemory
<1> QED
  BY <1>1, KsightInvariant, PTL
============================================================================
