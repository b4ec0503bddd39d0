---------------------------- MODULE MxlkTxProofs ----------------------------
(***************************************************************************)
(* Proofs about MxlkTx, for every ring size, set of buffers and set of     *)
(* interfaces.  The argument goes up in four layers, each an invariant that*)
(* relies on those below: the ranges of the variables and the order of the *)
(* marks on the ring, the ownership of the buffers, and the order of the   *)
(* fragments in flight, which makes the path the FIFO of MxlkFifo.         *)
(***************************************************************************)
EXTENDS MxlkTx, SequenceTheorems, FiniteSetTheorems, TLAPS

(* The groups of variables only abbreviate the frame of an action.         *)
USE DEF device, lists, work, handler, calls, history

-----------------------------------------------------------------------------
(* The ranges of the variables                                             *)

(* MXLK_CIRCULAR_INC stays on the ring.                                    *)
LEMMA IncIsNext ==
    ASSUME NEW i \in Slots
    PROVE  Inc(i) = (IF i = NDesc - 1 THEN 0 ELSE i + 1) /\ Inc(i) \in Slots
BY TxAssumption DEF Inc, Slots

(* What a buffer may hold.                                                 *)
LEMMA FragKinds ==
    /\ Junk \in Frags
    /\ \A i \in Interfaces, n \in Nat : [interface |-> i, no |-> n] \in Frags
BY DEF Frags

LEMMA RangesInit == Init => Ranges
<1> SUFFICES ASSUME Init PROVE Ranges
  OBVIOUS
<1>1. /\ regHead \in Slots /\ regTail \in Slots
      /\ old \in Slots /\ hHead \in Slots /\ hTail \in Slots
  BY DEF Init
<1>2. writeList \in Seq(Bufs) /\ delivered \in Seq(Frags) /\ chain \in [Interfaces -> Seq(Bufs)]
  BY DEF Init
<1>3. data \in [Bufs -> Frags]
  BY DEF Init, Frags
<1>4. /\ td \in [Slots -> Bufs \cup {NULL}] /\ ddr \in [Slots -> Bufs \cup {NULL}]
      /\ wpc \in [Interfaces -> {"idle", "alloc", "copy", "put", "start"}]
      /\ left \in [Interfaces -> Nat]
  BY DEF Init
<1> QED
  BY <1>1, <1>2, <1>3, <1>4 DEF Init, Ranges

LEMMA RangesStep == Ranges /\ [Next]_vars => Ranges'
<1> SUFFICES ASSUME Ranges, [Next]_vars PROVE Ranges'
  OBVIOUS
<1> USE DEF Ranges
<1>1. CASE TxBegin
  BY <1>1 DEF TxBegin, ReadEnds
<1>2. CASE TxClean
  BY <1>2, IncIsNext DEF TxClean, FreeTxBd, ClearSlot
<1>3. CASE TxFill
  BY <1>3, IncIsNext DEF TxFill, CanFill, SetTd
<1>4. CASE TxMapError
  BY <1>4 DEF TxMapError, CanFill
<1>5. CASE TxFillDone
  BY <1>5 DEF TxFillDone
<1>6. CASE TxPublish
  BY <1>6 DEF TxPublish
<1>7. CASE TxBell
  BY <1>7 DEF TxBell
<1>8. CASE TxWake
  BY <1>8 DEF TxWake, WakeWriters
<1>9. CASE SendDoorbell
  BY <1>9 DEF SendDoorbell
<1>10. CASE Interrupt
  BY <1>10 DEF Interrupt, StartTx
<1>11. ASSUME NEW i \in Interfaces, NEW n \in 0 .. MaxLen, Write(i, n)
       PROVE  Ranges'
  BY <1>11, TxAssumption DEF Write
<1>12. ASSUME NEW i \in Interfaces, WriteAlloc(i)
       PROVE  Ranges'
  <2>1. CASE UNCHANGED <<txPool, data, chain>>
    BY <1>12, <2>1 DEF WriteAlloc, AllocTxBd
  <2>2. ASSUME NEW b \in txPool, txPool' = txPool \ {b},
               data' = [data EXCEPT ![b] = Junk],
               chain' = [chain EXCEPT ![i] = Append(@, b)]
        PROVE  Ranges'
    <3>1. data' \in [Bufs -> Frags] /\ chain' \in [Interfaces -> Seq(Bufs)]
      BY <2>2, FragKinds
    <3> QED
      BY <1>12, <2>2, <3>1 DEF WriteAlloc, AllocTxBd
  <2> QED
    BY <1>12, <2>1, <2>2 DEF WriteAlloc, AllocTxBd
<1>13. ASSUME NEW i \in Interfaces, WriteCopy(i)
       PROVE  Ranges'
  <2>1. left' \in [Interfaces -> Nat] /\ copied' \in Nat
    BY <1>13 DEF WriteCopy
  <2>2. data' \in [Bufs -> Frags]
    <3>1. [interface |-> i, no |-> copied + 1] \in Frags
      BY FragKinds, <2>1
    <3> DEFINE frag == [interface |-> i, no |-> copied + 1]
               last == Last(chain[i])
    <3>2. data' = [data EXCEPT ![last] = frag] /\ frag \in Frags
      BY <1>13, <3>1 DEF WriteCopy
    <3> HIDE DEF frag, last
    <3> QED
      BY <3>2
  <2> QED
    BY <1>13, <2>1, <2>2 DEF WriteCopy
<1>14. ASSUME NEW i \in Interfaces, WriteStop(i)
       PROVE  Ranges'
  BY <1>14 DEF WriteStop
<1>15. ASSUME NEW i \in Interfaces, WritePut(i)
       PROVE  Ranges'
  BY <1>15 DEF WritePut, ListPut
<1>16. ASSUME NEW i \in Interfaces, WriteStart(i)
       PROVE  Ranges'
  BY <1>16 DEF WriteStart, StartTx
<1>17. ASSUME NEW i \in Interfaces, PollSleep(i)
       PROVE  Ranges'
  BY <1>17 DEF PollSleep
<1>18. CASE DeviceConsume
  BY <1>18, IncIsNext DEF DeviceConsume, DmaRead, Frags
<1>19. CASE DeviceDone
  BY <1>19 DEF DeviceDone
<1>20. CASE DeviceDown \/ OtherDirection
  BY <1>20 DEF DeviceDown, OtherDirection
<1>21. CASE UNCHANGED vars
  BY <1>21 DEF vars
<1> QED
  BY <1>1, <1>2, <1>3, <1>4, <1>5, <1>6, <1>7, <1>8, <1>9, <1>10, <1>11, <1>12,
     <1>13, <1>14, <1>15, <1>16, <1>17, <1>18, <1>19, <1>20, <1>21
  DEF Next, TxHandler, WriteCall, DeviceWork

LEMMA RangesHold == Spec => []Ranges
BY RangesInit, RangesStep, PTL DEF Spec

-----------------------------------------------------------------------------
(* The order of the marks on the ring                                      *)

(* The slots the device may still read according to the host: those up to  *)
(* hTail, or, once the device is down and no longer takes writes of td, up *)
(* to the last published tail.                                             *)
FilledUpTo == IF up THEN hTail ELSE regTail

(* RingInOrder is not inductive by itself: a run of the handler starts     *)
(* from the published tail, so between runs that must be where the last    *)
(* one stopped filling; and what is filled but not yet published must      *)
(* already be described by td.                                             *)
RingInv ==
    /\ RingInOrder
    /\ up /\ pc \in {"idle", "bell", "wake"} => hTail = regTail
    /\ \A i \in Slots : Within(i, regHead, FilledUpTo) => td[i] = ddr[i]

LEMMA RingInit == Init => RingInv
BY TxAssumption DEF Init, RingInv, RingInOrder, FilledUpTo, Within, Dist, Slots

(* The variables RingInv speaks of, but for pc.                            *)
ring == <<up, regHead, regTail, td, ddr, old, hHead, hTail>>

(* A step that leaves the ring alone and does not make the handler run or  *)
(* look at the tail again keeps RingInv.                                   *)
LEMMA RingFrame ==
    ASSUME RingInv, UNCHANGED ring,
           pc' = "run" => pc = "run",
           pc' \in {"idle", "bell", "wake"} => pc \in {"idle", "bell", "wake"}
    PROVE  RingInv'
BY DEF RingInv, RingInOrder, FilledUpTo, Within, Dist, ring

LEMMA RingStep == Ranges /\ RingInv /\ [Next]_vars => RingInv'
<1> SUFFICES ASSUME Ranges, RingInv, [Next]_vars PROVE RingInv'
  OBVIOUS
<1> USE DEF ring
<1>m. /\ regHead \in Slots /\ regTail \in Slots
      /\ old \in Slots /\ hHead \in Slots /\ hTail \in Slots
      /\ ddr \in [Slots -> Bufs \cup {NULL}] /\ td \in [Slots -> Bufs \cup {NULL}]
  BY DEF Ranges
<1>1. CASE TxBegin
  BY SMTT(30), <1>1, <1>m, TxAssumption
  DEF TxBegin, ReadEnds, RingInv, RingInOrder, FilledUpTo, Within, Dist, Slots
<1>2. CASE TxClean
  <2>1. /\ pc = "run" /\ old # hHead /\ old' = Inc(old)
        /\ ddr' = [ddr EXCEPT ![old] = NULL]
        /\ UNCHANGED <<up, regHead, regTail, td, pc, hHead, hTail>>
    BY <1>2 DEF TxClean, ClearSlot
  <2>2. /\ old' \in Slots /\ old' = (IF old = NDesc - 1 THEN 0 ELSE old + 1)
    BY <2>1, <1>m, IncIsNext
  <2>3. /\ Dist(old', hHead) <= Dist(old', regHead)
        /\ Dist(old', regHead) + Dist(regHead, regTail) + Dist(regTail, hTail) < NDesc
    BY <2>1, <2>2, <1>m, TxAssumption DEF RingInv, RingInOrder, Dist, Slots
  <2>4. ASSUME NEW i \in Slots, Within(i, old', hTail)
        PROVE  ddr'[i] # NULL
    <3>1. i # old /\ Within(i, old, hTail)
      BY <2>1, <2>2, <2>4, <1>m, TxAssumption
      DEF RingInv, RingInOrder, Within, Dist, Slots
    <3> QED
      BY <2>1, <3>1, <1>m DEF RingInv, RingInOrder
  <2>5. ASSUME NEW i \in Slots, Within(i, regHead, FilledUpTo)
        PROVE  td[i] = ddr'[i]
    <3>1. i # old
      BY <2>1, <2>5, <1>m, TxAssumption
      DEF RingInv, RingInOrder, FilledUpTo, Within, Dist, Slots
    <3> QED
      BY <2>1, <2>5, <3>1, <1>m DEF RingInv
  <2> QED
    BY <2>1, <2>3, <2>4, <2>5 DEF RingInv, RingInOrder, FilledUpTo, Within, Dist
<1>3. CASE TxFill
  <2> DEFINE b == Head(writeList)
  <2>1. /\ pc = "run" /\ old = hHead /\ Inc(hTail) # hHead /\ hTail' = Inc(hTail)
        /\ ddr' = [ddr EXCEPT ![hTail] = b]
        /\ td' = IF up THEN [td EXCEPT ![hTail] = b] ELSE td
        /\ UNCHANGED <<up, regHead, regTail, pc, old, hHead>>
    BY <1>3 DEF TxFill, CanFill, RingHasRoom, SetTd
  <2>2. b \in Bufs /\ b # NULL
    BY <1>3, TxAssumption DEF Ranges, TxFill, CanFill
  <2>3. /\ hTail' \in Slots /\ hTail' = (IF hTail = NDesc - 1 THEN 0 ELSE hTail + 1)
    BY <2>1, <1>m, IncIsNext
  <2>4. /\ Dist(regTail, hTail') = Dist(regTail, hTail) + 1
        /\ Dist(old, regHead) + Dist(regHead, regTail) + Dist(regTail, hTail') < NDesc
    BY <2>1, <2>3, <1>m, TxAssumption DEF RingInv, RingInOrder, Dist, Slots
  <2>5. ASSUME NEW i \in Slots, Within(i, old, hTail')
        PROVE  ddr'[i] # NULL
    <3>1. i = hTail \/ Within(i, old, hTail)
      BY <2>1, <2>3, <2>5, <1>m, TxAssumption
      DEF RingInv, RingInOrder, Within, Dist, Slots
    <3> HIDE DEF b
    <3> QED
      BY <2>1, <2>2, <3>1, <1>m DEF RingInv, RingInOrder
  <2>6. ASSUME NEW i \in Slots, Within(i, regHead, IF up THEN hTail' ELSE regTail)
        PROVE  td'[i] = ddr'[i]
    <3>1. (i = hTail /\ up) \/ (i # hTail /\ Within(i, regHead, FilledUpTo))
      BY <2>1, <2>3, <2>6, <1>m, TxAssumption
      DEF RingInv, RingInOrder, FilledUpTo, Within, Dist, Slots
    <3> HIDE DEF b
    <3> QED
      BY <2>1, <3>1, <1>m DEF RingInv
  <2> HIDE DEF b
  <2> QED
    BY <2>1, <2>4, <2>5, <2>6 DEF RingInv, RingInOrder, FilledUpTo, Within, Dist
<1>4. CASE TxMapError
  BY <1>4, <1>m, TxAssumption
  DEF TxMapError, CanFill, RingInv, RingInOrder, FilledUpTo, Within, Dist, Slots
<1>5. CASE TxFillDone
  BY <1>5, RingFrame DEF TxFillDone
<1>6. CASE TxPublish
  BY <1>6, <1>m, TxAssumption
  DEF TxPublish, TailMoved, RingInv, RingInOrder, FilledUpTo, Within, Dist, Slots
<1>7. CASE TxBell
  BY <1>7, RingFrame DEF TxBell
<1>8. CASE TxWake
  BY <1>8, RingFrame DEF TxWake
<1>9. CASE SendDoorbell
  BY <1>9, RingFrame DEF SendDoorbell
<1>10. CASE Interrupt
  BY <1>10, RingFrame DEF Interrupt
<1>11. ASSUME NEW i \in Interfaces, NEW n \in 0 .. MaxLen, Write(i, n)
       PROVE  RingInv'
  BY <1>11, RingFrame DEF Write
<1>12. ASSUME NEW i \in Interfaces, WriteCall(i)
       PROVE  RingInv'
  BY <1>12, RingFrame
  DEF WriteCall, WriteAlloc, WriteCopy, WriteStop, WritePut, WriteStart
<1>13. ASSUME NEW i \in Interfaces, PollSleep(i)
       PROVE  RingInv'
  BY <1>13, RingFrame DEF PollSleep
<1>14. CASE DeviceConsume
  <2>1. /\ regHead # regTail /\ regHead' = Inc(regHead)
        /\ UNCHANGED <<up, regTail, td, ddr, pc, old, hHead, hTail>>
    BY <1>14 DEF DeviceConsume
  <2>2. /\ regHead' \in Slots
        /\ regHead' = (IF regHead = NDesc - 1 THEN 0 ELSE regHead + 1)
    BY <2>1, <1>m, IncIsNext
  <2>3. /\ pc = "run" => Dist(old, hHead) <= Dist(old, regHead')
        /\ Dist(old, regHead') + Dist(regHead', regTail) + Dist(regTail, hTail) < NDesc
    BY <2>1, <2>2, <1>m, TxAssumption DEF RingInv, RingInOrder, Dist, Slots
  <2>4. ASSUME NEW i \in Slots, Within(i, regHead', FilledUpTo)
        PROVE  Within(i, regHead, FilledUpTo)
    BY <2>1, <2>2, <2>4, <1>m, TxAssumption
    DEF RingInv, RingInOrder, FilledUpTo, Within, Dist, Slots
  <2> QED
    BY <2>1, <2>3, <2>4 DEF RingInv, RingInOrder, FilledUpTo, Within, Dist
<1>15. CASE DeviceDone
  BY <1>15, RingFrame DEF DeviceDone
<1>16. CASE DeviceDown
  BY <1>16, <1>m, TxAssumption
  DEF DeviceDown, RingInv, RingInOrder, FilledUpTo, Within, Dist, Slots
<1>17. CASE OtherDirection
  BY <1>17, RingFrame DEF OtherDirection
<1>18. CASE UNCHANGED vars
  BY <1>18, RingFrame DEF vars
<1> QED
  BY <1>1, <1>2, <1>3, <1>4, <1>5, <1>6, <1>7, <1>8, <1>9, <1>10, <1>11, <1>12,
     <1>13, <1>14, <1>15, <1>16, <1>17, <1>18
  DEF Next, TxHandler, DeviceWork

LEMMA RingHolds == Spec => [](Ranges /\ RingInv)
<1>1. Init => Ranges /\ RingInv
  BY RangesInit, RingInit
<1>2. Ranges /\ RingInv /\ [Next]_vars => (Ranges /\ RingInv)'
  BY RangesStep, RingStep
<1> QED
  BY <1>1, <1>2, PTL DEF Spec

(* However large the ring, and whatever the interleaving of the handler    *)
(* and the device, the marks of txrx_ring never lap each other.            *)
THEOREM RingStaysInOrder == Spec => []RingInOrder
<1>1. RingInv => RingInOrder
  BY DEF RingInv
<1> QED
  BY <1>1, RingHolds, PTL

(* The device never reads a descriptor the handler has not filled, nor one *)
(* whose buffer has gone back to the pool.                                 *)
THEOREM DeviceReadsFilledSlots == Spec => []DeviceWindowFilled
<1>1. ASSUME Ranges, RingInv PROVE DeviceWindowFilled
  <2> SUFFICES ASSUME NEW i \in Slots, Within(i, regHead, regTail)
               PROVE  ddr[i] \in Bufs /\ td[i] = ddr[i]
    BY DEF DeviceWindowFilled
  <2>1. Within(i, old, hTail) /\ Within(i, regHead, FilledUpTo)
    BY <1>1, TxAssumption
    DEF Ranges, RingInv, RingInOrder, FilledUpTo, Within, Dist, Slots
  <2> QED
    BY <1>1, <2>1 DEF Ranges, RingInv, RingInOrder
<1> QED
  BY <1>1, RingHolds, PTL

-----------------------------------------------------------------------------
(* Wake-ups are not lost                                                   *)

(* No doorbell is lost: however the send_doorbell work item coalesces, one *)
(* rings, or is about to, as long as descriptors wait.                     *)
THEOREM DoorbellRings == Spec => []DoorbellNotLost
<1>1. Init => DoorbellNotLost
  BY DEF Init, DoorbellNotLost
<1>2. Ranges /\ DoorbellNotLost /\ [Next]_vars => DoorbellNotLost'
  <2> SUFFICES ASSUME Ranges, DoorbellNotLost, [Next]_vars PROVE DoorbellNotLost'
    OBVIOUS
  <2>1. CASE TxPublish
    BY <2>1 DEF TxPublish, TailMoved, DoorbellNotLost, Ranges
  <2>2. CASE TxHandler /\ ~TxPublish
    <3>1. CASE TxBell
      BY <3>1 DEF TxBell, DoorbellNotLost
    <3>2. CASE ~TxBell
      <4>1. UNCHANGED <<up, regHead, regTail, doorbell, dbPending>> /\ pc # "bell"
        BY <2>2, <3>2 DEF TxHandler, TxBegin, TxClean, TxFill, CanFill, TxMapError,
           TxFillDone, TxWake
      <4> QED
        BY <4>1 DEF DoorbellNotLost
    <3> QED
      BY <3>1, <3>2
  <2>3. CASE SendDoorbell
    BY <2>3 DEF SendDoorbell, DoorbellNotLost
  <2>4. CASE DeviceConsume \/ DeviceDone \/ DeviceDown \/ OtherDirection \/ Interrupt
    BY <2>4 DEF DeviceConsume, DeviceDone, DeviceDown, OtherDirection, Interrupt,
                DoorbellNotLost
  <2>5. ASSUME NEW i \in Interfaces,
               (\E n \in 0 .. MaxLen : Write(i, n)) \/ WriteCall(i) \/ PollSleep(i)
        PROVE  DoorbellNotLost'
    BY <2>5 DEF Write, WriteCall, WriteAlloc, WriteCopy, WriteStop, WritePut, WriteStart,
       PollSleep, DoorbellNotLost
  <2>6. CASE UNCHANGED vars
    BY <2>6 DEF vars, DoorbellNotLost
  <2> QED
    BY <2>1, <2>2, <2>3, <2>4, <2>5, <2>6 DEF Next, DeviceWork
<1> QED
  BY <1>1, <1>2, RangesHold, PTL DEF Spec

(* No wake-up is lost: a poll() asleep for POLLOUT while tx_pool has       *)
(* buffers is one the handler is about to wake.                            *)
THEOREM SleeperIsWoken == Spec => []SleeperWillBeWoken
<1>1. Init => SleeperWillBeWoken
  BY DEF Init, SleeperWillBeWoken
<1>2. SleeperWillBeWoken /\ [Next]_vars => SleeperWillBeWoken'
  <2> SUFFICES ASSUME SleeperWillBeWoken, [Next]_vars PROVE SleeperWillBeWoken'
    OBVIOUS
  <2>1. CASE TxWake
    BY <2>1 DEF TxWake, WakeWriters, SleeperWillBeWoken
  <2>2. CASE TxClean
    BY <2>2 DEF TxClean, SleeperWillBeWoken
  <2>3. CASE TxHandler /\ ~TxWake /\ ~TxClean
    BY <2>3 DEF TxHandler, TxBegin, TxFill, CanFill, TxMapError, TxFillDone, TxPublish,
       TxBell, SleeperWillBeWoken
  <2>4. CASE SendDoorbell \/ Interrupt \/ DeviceWork \/ DeviceDown \/ OtherDirection
    BY <2>4 DEF SendDoorbell, Interrupt, DeviceWork, DeviceConsume, DeviceDone, DeviceDown,
                OtherDirection,
       SleeperWillBeWoken
  <2>5. ASSUME NEW i \in Interfaces, WriteAlloc(i)
        PROVE  SleeperWillBeWoken'
    <3>1. txPool' \subseteq txPool /\ UNCHANGED <<asleep, pc, freed>>
      BY <2>5 DEF WriteAlloc, AllocTxBd
    <3> QED
      BY <3>1 DEF SleeperWillBeWoken
  <2>6. ASSUME NEW i \in Interfaces, PollSleep(i)
        PROVE  SleeperWillBeWoken'
    BY <2>6 DEF PollSleep, SleeperWillBeWoken
  <2>7. ASSUME NEW i \in Interfaces,
               (\E n \in 0 .. MaxLen : Write(i, n))
                 \/ WriteCopy(i) \/ WriteStop(i) \/ WritePut(i) \/ WriteStart(i)
        PROVE  SleeperWillBeWoken'
    BY <2>7 DEF Write, WriteCopy, WriteStop, WritePut, WriteStart, SleeperWillBeWoken
  <2>8. CASE UNCHANGED vars
    BY <2>8 DEF vars, SleeperWillBeWoken
  <2> QED
    BY <2>1, <2>2, <2>3, <2>4, <2>5, <2>6, <2>7, <2>8 DEF Next, WriteCall
<1> QED
  BY <1>1, <1>2, PTL DEF Spec

-----------------------------------------------------------------------------
(* What the list operations do to the buffers on a list                    *)

LEMMA EmptyList == ToSet(<<>>) = {} /\ IsInjective(<<>>)
BY DEF ToSet, IsInjective

(* A buffer put at the end.                                                *)
LEMMA AppendBuf ==
    ASSUME NEW S, NEW s \in Seq(S), NEW b \in S
    PROVE  /\ ToSet(Append(s, b)) = ToSet(s) \cup {b}
           /\ IsInjective(s) /\ b \notin ToSet(s) => IsInjective(Append(s, b))
<1>1. ToSet(Append(s, b)) = ToSet(s) \cup {b}
  BY AppendProperties DEF ToSet
<1>2. ASSUME IsInjective(s), b \notin ToSet(s) PROVE IsInjective(Append(s, b))
  BY <1>2, AppendProperties DEF ToSet, IsInjective
<1> QED
  BY <1>1, <1>2

(* A chain put at the end.                                                 *)
LEMMA ConcatBufs ==
    ASSUME NEW S, NEW s \in Seq(S), NEW t \in Seq(S)
    PROVE  /\ ToSet(s \o t) = ToSet(s) \cup ToSet(t)
           /\ IsInjective(s) /\ IsInjective(t) /\ ToSet(s) \cap ToSet(t) = {}
                => IsInjective(s \o t)
<1>1. ToSet(s \o t) = ToSet(s) \cup ToSet(t)
  <2>1. ToSet(s \o t) \subseteq ToSet(s) \cup ToSet(t)
    BY ConcatProperties DEF ToSet
  <2>2. ASSUME NEW i \in DOMAIN s PROVE s[i] \in ToSet(s \o t)
    BY ConcatProperties DEF ToSet
  <2>3. ASSUME NEW i \in DOMAIN t PROVE t[i] \in ToSet(s \o t)
    <3>1. Len(s) + i \in DOMAIN (s \o t) /\ (s \o t)[Len(s) + i] = t[i]
      BY ConcatProperties
    <3> QED
      BY <3>1 DEF ToSet
  <2> QED
    BY <2>1, <2>2, <2>3 DEF ToSet
<1>2. ASSUME IsInjective(s), IsInjective(t), ToSet(s) \cap ToSet(t) = {}
      PROVE  IsInjective(s \o t)
  <2> SUFFICES ASSUME NEW a \in DOMAIN (s \o t), NEW b \in DOMAIN (s \o t),
                      (s \o t)[a] = (s \o t)[b]
               PROVE  a = b
    BY DEF IsInjective
  <2> DEFINE from(k) == IF k <= Len(s) THEN s[k] ELSE t[k - Len(s)]
  <2>1. /\ a \in 1 .. Len(s) + Len(t) /\ b \in 1 .. Len(s) + Len(t)
        /\ from(a) = from(b)
    BY ConcatProperties
  <2>2. CASE a <= Len(s) /\ b <= Len(s)
    BY <1>2, <2>1, <2>2 DEF IsInjective
  <2>3. CASE a > Len(s) /\ b > Len(s)
    BY <1>2, <2>1, <2>3 DEF IsInjective
  <2>4. CASE (a <= Len(s) /\ b > Len(s)) \/ (a > Len(s) /\ b <= Len(s))
    BY SMTT(30), <1>2, <2>1, <2>4 DEF ToSet
  <2> QED
    BY <2>1, <2>2, <2>3, <2>4
<1> QED
  BY <1>1, <1>2

(* The first buffer taken off.                                             *)
LEMMA TakeHead ==
    ASSUME NEW S, NEW s \in Seq(S), s # <<>>
    PROVE  /\ Head(s) \in ToSet(s) /\ ToSet(Tail(s)) \subseteq ToSet(s)
           /\ IsInjective(s) => IsInjective(Tail(s)) /\ Head(s) \notin ToSet(Tail(s))
<1>1. /\ Len(s) >= 1 /\ Head(s) = s[1] /\ Len(Tail(s)) = Len(s) - 1
      /\ \A i \in 1 .. Len(Tail(s)) : Tail(s)[i] = s[i + 1]
      /\ DOMAIN Tail(s) = 1 .. Len(s) - 1 /\ DOMAIN s = 1 .. Len(s)
  BY HeadTailProperties
<1> QED
  BY <1>1 DEF ToSet, IsInjective

-----------------------------------------------------------------------------
(* Every buffer has one owner                                              *)

LEMMA OwnerInit == Init => OneOwner
BY EmptyList, TxAssumption DEF Init, OneOwner, RingBufs, Held

LEMMA OwnerFrame ==
    ASSUME OneOwner, UNCHANGED <<txPool, writeList, ddr, chain>>
    PROVE  OneOwner'
BY DEF OneOwner, RingBufs, Held

(* The head of the write list moves to a slot, whatever the slot held.     *)
LEMMA OwnerFill ==
    ASSUME Ranges, OneOwner, writeList # <<>>, NEW slot \in Slots,
           writeList' = Tail(writeList),
           ddr' = [ddr EXCEPT ![slot] = Head(writeList)],
           UNCHANGED <<txPool, chain>>
    PROVE  OneOwner'
<1> DEFINE b == Head(writeList)
<1>1. writeList \in Seq(Bufs) /\ ddr \in [Slots -> Bufs \cup {NULL}]
  BY DEF Ranges
<1>2. /\ b \in ToSet(writeList) /\ ToSet(writeList') \subseteq ToSet(writeList)
      /\ IsInjective(writeList') /\ b \notin ToSet(writeList')
  BY <1>1, TakeHead DEF OneOwner
<1>3. ddr' = [ddr EXCEPT ![slot] = b]
  OBVIOUS
<1> HIDE DEF b
<1>4. RingBufs' \subseteq RingBufs \cup {b}
  BY <1>1, <1>3 DEF RingBufs
<1>5. b \notin RingBufs
  BY <1>2 DEF OneOwner
<1>6. ASSUME NEW i \in Slots, NEW j \in Slots, ddr'[i] = ddr'[j], ddr'[i] # NULL
      PROVE  i = j
  BY <1>1, <1>3, <1>5, <1>6 DEF OneOwner, RingBufs
<1>7. b \notin txPool /\ \A i \in Interfaces : b \notin Held(i)
  BY <1>2 DEF OneOwner
<1>8. /\ txPool' \cap RingBufs' = {}
      /\ ToSet(writeList') \cap (txPool' \cup RingBufs') = {}
  BY <1>2, <1>4, <1>7 DEF OneOwner
<1>9. ASSUME NEW i \in Interfaces
      PROVE  /\ Held(i)' \cap (txPool' \cup RingBufs' \cup ToSet(writeList')) = {}
             /\ Held(i)' = Held(i)
  BY <1>2, <1>4, <1>7 DEF OneOwner, Held
<1> QED
  BY <1>2, <1>6, <1>8, <1>9 DEF OneOwner

LEMMA OwnerStep == Ranges /\ OneOwner /\ [Next]_vars => OneOwner'
<1> SUFFICES ASSUME Ranges, OneOwner, [Next]_vars PROVE OneOwner'
  OBVIOUS
<1>t. /\ writeList \in Seq(Bufs) /\ ddr \in [Slots -> Bufs \cup {NULL}]
      /\ chain \in [Interfaces -> Seq(Bufs)] /\ txPool \subseteq Bufs
      /\ old \in Slots /\ hTail \in Slots
  BY DEF Ranges
<1>1. CASE TxClean
  <2>1. /\ ddr' = [ddr EXCEPT ![old] = NULL]
        /\ txPool' = txPool \cup ({ddr[old]} \ {NULL})
        /\ UNCHANGED <<writeList, chain>>
    BY <1>1 DEF TxClean, FreeTxBd, ClearSlot
  <2>2. RingBufs' \subseteq RingBufs \ {ddr[old]}
    BY <2>1, <1>t DEF RingBufs, OneOwner
  <2>3. txPool' \subseteq txPool \cup (RingBufs \cap {ddr[old]})
    BY <2>1, <1>t DEF RingBufs
  <2>4. \A i, j \in Slots : ddr'[i] = ddr'[j] => i = j \/ ddr'[i] = NULL
    BY <2>1, <1>t DEF OneOwner
  <2> QED
    BY <2>1, <2>2, <2>3, <2>4 DEF OneOwner, Held
<1>2. CASE TxFill
  BY <1>2, <1>t, OwnerFill DEF TxFill, CanFill
<1>3. CASE TxMapError
  BY <1>3, <1>t, OwnerFill DEF TxMapError, CanFill
<1>4. CASE TxBegin \/ TxFillDone \/ TxPublish \/ TxBell \/ TxWake
  BY <1>4, OwnerFrame DEF TxBegin, TxFillDone, TxPublish, TxBell, TxWake
<1>5. CASE SendDoorbell \/ Interrupt \/ DeviceWork \/ DeviceDown \/ OtherDirection
  BY <1>5, OwnerFrame
  DEF SendDoorbell, Interrupt, DeviceWork, DeviceConsume, DeviceDone, DeviceDown, OtherDirection
<1>6. ASSUME NEW i \in Interfaces, NEW n \in 0 .. MaxLen, Write(i, n)
      PROVE  OneOwner'
  BY <1>6, OwnerFrame DEF Write
<1>7. ASSUME NEW i \in Interfaces, WriteAlloc(i)
      PROVE  OneOwner'
  <2>1. CASE UNCHANGED <<txPool, data, chain>>
    BY <1>7, <2>1, OwnerFrame DEF WriteAlloc
  <2>2. ASSUME NEW b \in txPool, txPool' = txPool \ {b},
               chain' = [chain EXCEPT ![i] = Append(@, b)]
        PROVE  OneOwner'
    <3>1. UNCHANGED <<writeList, ddr>>
      BY <1>7 DEF WriteAlloc
    <3>2. b \in Bufs /\ b \notin Held(i)
      BY <1>t DEF OneOwner
    <3>3. chain'[i] = Append(chain[i], b) /\ \A j \in Interfaces \ {i} : chain'[j] = chain[j]
      BY <2>2, <1>t
    <3>4. Held(i)' = Held(i) \cup {b} /\ IsInjective(chain'[i])
      BY <3>2, <3>3, <1>t, AppendBuf DEF Held, OneOwner
    <3>5. \A j \in Interfaces \ {i} : Held(j)' = Held(j) /\ b \notin Held(j)
      BY <3>3 DEF Held, OneOwner
    <3> QED
      BY <2>2, <3>1, <3>3, <3>4, <3>5 DEF OneOwner, RingBufs
  <2> QED
    BY <1>7, <2>1, <2>2 DEF WriteAlloc, AllocTxBd
<1>8. ASSUME NEW i \in Interfaces, WriteCopy(i) \/ WriteStop(i) \/ WriteStart(i)
      PROVE  OneOwner'
  BY <1>8, OwnerFrame DEF WriteCopy, WriteStop, WriteStart
<1>9. ASSUME NEW i \in Interfaces, WritePut(i)
      PROVE  OneOwner'
  <2>1. /\ writeList' = writeList \o chain[i] /\ chain' = [chain EXCEPT ![i] = <<>>]
        /\ UNCHANGED <<txPool, ddr>>
    BY <1>9 DEF WritePut, ListPut
  <2>2. ToSet(writeList') = ToSet(writeList) \cup Held(i) /\ IsInjective(writeList')
    BY <2>1, <1>t, ConcatBufs DEF OneOwner, Held
  <2>3. chain'[i] = <<>> /\ \A j \in Interfaces \ {i} : chain'[j] = chain[j]
    BY <2>1, <1>t
  <2>4. /\ Held(i)' = {} /\ IsInjective(chain'[i])
        /\ \A j \in Interfaces \ {i} : Held(j)' = Held(j)
    BY <2>3, EmptyList DEF Held
  <2> QED
    BY <2>1, <2>2, <2>3, <2>4 DEF OneOwner, RingBufs
<1>10. ASSUME NEW i \in Interfaces, PollSleep(i)
       PROVE  OneOwner'
  BY <1>10, OwnerFrame DEF PollSleep
<1>11. CASE UNCHANGED vars
  BY <1>11, OwnerFrame DEF vars
<1> QED
  BY <1>1, <1>2, <1>3, <1>4, <1>5, <1>6, <1>7, <1>8, <1>9, <1>10, <1>11
  DEF Next, TxHandler, WriteCall

(* However many buffers, slots and interfaces there are, the pools, lists  *)
(* and rings of the transmit path never share a buffer.                    *)
THEOREM BuffersHaveOneOwner == Spec => []OneOwner
<1>1. Init => Ranges /\ OneOwner
  BY RangesInit, OwnerInit
<1>2. Ranges /\ OneOwner /\ [Next]_vars => (Ranges /\ OneOwner)'
  BY RangesStep, OwnerStep
<1> QED
  BY <1>1, <1>2, PTL DEF Spec

-----------------------------------------------------------------------------
(* Nobody touches what the device may be reading                           *)

(* A write() that is about to copy has a buffer to copy into.              *)
CopyInv == \A i \in Interfaces : wpc[i] = "copy" => chain[i] # <<>>

LEMMA CopyStep == Ranges /\ CopyInv /\ [Next]_vars => CopyInv'
<1> SUFFICES ASSUME Ranges, CopyInv, [Next]_vars PROVE CopyInv'
  OBVIOUS
<1>t. wpc \in [Interfaces -> {"idle", "alloc", "copy", "put", "start"}]
      /\ chain \in [Interfaces -> Seq(Bufs)] /\ txPool \subseteq Bufs
  BY DEF Ranges
<1>1. CASE TxHandler
  BY <1>1
  DEF TxHandler, TxBegin, TxClean, TxFill, TxMapError, TxFillDone, TxPublish, TxBell,
      TxWake, CopyInv
<1>2. CASE SendDoorbell \/ Interrupt \/ DeviceWork \/ DeviceDown \/ OtherDirection
  BY <1>2
  DEF SendDoorbell, Interrupt, DeviceWork, DeviceConsume, DeviceDone, DeviceDown,
      OtherDirection, CopyInv
<1>3. ASSUME NEW i \in Interfaces, NEW n \in 0 .. MaxLen, Write(i, n)
      PROVE  CopyInv'
  BY <1>3, <1>t DEF Write, CopyInv
<1>4. ASSUME NEW i \in Interfaces, WriteAlloc(i)
      PROVE  CopyInv'
  <2>1. CASE wpc' = [wpc EXCEPT ![i] = "put"] /\ UNCHANGED chain
    BY <2>1, <1>t DEF CopyInv
  <2>2. ASSUME NEW b \in txPool, wpc' = [wpc EXCEPT ![i] = "copy"],
               chain' = [chain EXCEPT ![i] = Append(@, b)]
        PROVE  CopyInv'
    <3>1. Append(chain[i], b) # <<>>
      BY <1>t, AppendProperties
    <3> QED
      BY <2>2, <3>1, <1>t DEF CopyInv
  <2> QED
    BY <1>4, <2>1, <2>2 DEF WriteAlloc
<1>5. ASSUME NEW i \in Interfaces,
             WriteCopy(i) \/ WriteStop(i) \/ WritePut(i) \/ WriteStart(i)
      PROVE  CopyInv'
  BY <1>5, <1>t DEF WriteCopy, WriteStop, WritePut, WriteStart, CopyInv
<1>6. ASSUME NEW i \in Interfaces, PollSleep(i)
      PROVE  CopyInv'
  BY <1>6 DEF PollSleep, CopyInv
<1>7. CASE UNCHANGED vars
  BY <1>7 DEF vars, CopyInv
<1> QED
  BY <1>1, <1>2, <1>3, <1>4, <1>5, <1>6, <1>7 DEF Next, WriteCall

(* The buffer a write() copies into is one it holds.                       *)
LEMMA CopyIntoHeld ==
    ASSUME Ranges, CopyInv, NEW i \in Interfaces, wpc[i] = "copy"
    PROVE  Last(chain[i]) \in Held(i) /\ Last(chain[i]) \in Bufs
<1>1. chain[i] \in Seq(Bufs) /\ chain[i] # <<>>
  BY DEF Ranges, CopyInv
<1> QED
  BY <1>1, LenProperties, EmptySeq DEF Last, Held, ToSet

(* All that was shown so far, together inductive.                          *)
BufferInv == Ranges /\ RingInv /\ OneOwner /\ CopyInv

LEMMA BuffersHold == Spec => []BufferInv
<1>1. Init => BufferInv
  BY RangesInit, RingInit, OwnerInit DEF BufferInv, Init, CopyInv
<1>2. BufferInv /\ [Next]_vars => BufferInv'
  BY RangesStep, RingStep, OwnerStep, CopyStep DEF BufferInv
<1> QED
  BY <1>1, <1>2, PTL DEF Spec

(* A step changes what buffers hold only where nobody else has them: not   *)
(* on the ring and not on the write list.                                  *)
LEMMA DataStable ==
    ASSUME BufferInv, [Next]_vars, NEW b \in RingBufs \cup ToSet(writeList)
    PROVE  data'[b] = data[b]
<1>t. data \in [Bufs -> Frags] /\ txPool \subseteq Bufs
  BY DEF BufferInv, Ranges
<1>1. CASE UNCHANGED data
  BY <1>1
<1>2. ASSUME NEW i \in Interfaces, WriteAlloc(i)
      PROVE  data'[b] = data[b]
  <2>1. b \notin txPool
    BY DEF BufferInv, OneOwner
  <2>2. CASE UNCHANGED data
    BY <2>2
  <2>3. ASSUME NEW c \in txPool, data' = [data EXCEPT ![c] = Junk]
        PROVE  data'[b] = data[b]
    BY <2>1, <2>3, <1>t
  <2> QED
    BY <1>2, <2>2, <2>3 DEF WriteAlloc, AllocTxBd
<1>3. ASSUME NEW i \in Interfaces, WriteCopy(i)
      PROVE  data'[b] = data[b]
  <2> DEFINE last == Last(chain[i])
             frag == [interface |-> i, no |-> copied + 1]
  <2>1. data' = [data EXCEPT ![last] = frag]
    BY <1>3 DEF WriteCopy
  <2>2. last \in Held(i)
    BY <1>3, CopyIntoHeld DEF WriteCopy, BufferInv
  <2> HIDE DEF last, frag
  <2>3. last # b
    BY <2>2 DEF BufferInv, OneOwner
  <2> QED
    BY <2>1, <2>3, <1>t
<1> QED
  BY <1>1, <1>2, <1>3
  DEF Next, TxHandler, TxBegin, TxClean, TxFill, TxMapError, TxFillDone, TxPublish,
      TxBell, TxWake, SendDoorbell, Interrupt, Write, WriteCall, WriteStop, WritePut,
      WriteStart, PollSleep, DeviceWork, DeviceConsume, DeviceDone, DeviceDown, OtherDirection,
      vars

(* The descriptors and slots the device may read lie between the last slot *)
(* recycled and the next one filled.                                       *)
LEMMA WindowSlots ==
    ASSUME BufferInv, NEW i \in Slots, Within(i, regHead, regTail)
    PROVE  /\ i # hTail /\ (pc = "run" /\ old # hHead => i # old)
           /\ ddr[i] \in RingBufs
<1>1. /\ regHead \in Slots /\ regTail \in Slots
      /\ old \in Slots /\ hHead \in Slots /\ hTail \in Slots
  BY DEF BufferInv, Ranges
<1>2. i # hTail /\ Within(i, old, hTail) /\ (pc = "run" /\ old # hHead => i # old)
  BY <1>1, TxAssumption DEF BufferInv, RingInv, RingInOrder, Within, Dist, Slots
<1> QED
  BY <1>2 DEF BufferInv, RingInv, RingInOrder, RingBufs

(* From the moment its descriptor is published to the moment the device has*)
(* moved on, no step of anybody alters a descriptor, the slot that goes    *)
(* with it or what its buffer holds.                                       *)
THEOREM DeviceWindowUntouched == Spec => DeviceWindowStable
<1> DEFINE Stable ==
        \A i \in Slots :
            Within(i, regHead, regTail) /\ Within(i, regHead', regTail') =>
                td'[i] = td[i] /\ ddr'[i] = ddr[i] /\ data'[ddr[i]] = data[ddr[i]]
<1>1. ASSUME BufferInv, [Next]_vars PROVE Stable
  <2> SUFFICES ASSUME NEW i \in Slots, Within(i, regHead, regTail)
               PROVE  td'[i] = td[i] /\ ddr'[i] = ddr[i] /\ data'[ddr[i]] = data[ddr[i]]
    OBVIOUS
  <2>1. /\ i # hTail /\ (pc = "run" /\ old # hHead => i # old)
        /\ ddr[i] \in RingBufs
    BY <1>1, WindowSlots
  <2>2. data'[ddr[i]] = data[ddr[i]]
    BY <1>1, <2>1, DataStable
  <2>3. /\ td \in [Slots -> Bufs \cup {NULL}] /\ ddr \in [Slots -> Bufs \cup {NULL}]
    BY <1>1 DEF BufferInv, Ranges
  <2>4. CASE TxClean
    BY <2>1, <2>3, <2>4 DEF TxClean, ClearSlot
  <2>5. CASE TxFill \/ TxMapError
    BY <2>1, <2>3, <2>5 DEF TxFill, TxMapError, SetTd
  <2>6. CASE UNCHANGED <<td, ddr>>
    BY <2>2, <2>6
  <2>7. td'[i] = td[i] /\ ddr'[i] = ddr[i]
    BY <1>1, <2>4, <2>5, <2>6
    DEF Next, TxHandler, TxBegin, TxFillDone, TxPublish, TxBell, TxWake, SendDoorbell,
        Interrupt, Write, WriteCall, WriteAlloc, WriteCopy, WriteStop, WritePut,
        WriteStart, PollSleep, DeviceWork, DeviceConsume, DeviceDone, DeviceDown,
        OtherDirection, vars
  <2> QED
    BY <2>2, <2>7
<1>2. BufferInv /\ [Next]_vars => [Stable]_vars
  BY <1>1
<1> QED
  BY <1>2, BuffersHold, PTL DEF Spec, DeviceWindowStable

-----------------------------------------------------------------------------
(* Where a buffer can get lost                                             *)

(* A mapping failure leaves the buffer it met in the slot at hTail, from   *)
(* which the next fill drops it; no other slot outside the window holds a  *)
(* buffer, so nothing else is dropped.                                     *)
OnBrink == IF ddr[hTail] = NULL THEN 0 ELSE 1

LeakInv ==
    /\ \A i \in Slots : ~Within(i, old, hTail) /\ i # hTail => ddr[i] = NULL
    /\ Cardinality(Leaked) + OnBrink <= mapErrors

(* All the places a buffer can be in.                                      *)
Placed == txPool \cup RingBufs \cup ToSet(writeList) \cup UNION {Held(i) : i \in Interfaces}

LEMMA LeakedIsRest == Leaked = Bufs \ Placed
BY DEF Leaked, Placed

(* The size of a set that gains one element at most.                       *)
LEMMA GrowsByOne ==
    ASSUME NEW S, NEW T, NEW x, IsFiniteSet(S), T \subseteq S \cup {x}
    PROVE  /\ Cardinality(T) \in Nat /\ Cardinality(S) \in Nat
           /\ Cardinality(T) <= Cardinality(S) + 1
           /\ T \subseteq S => Cardinality(T) <= Cardinality(S)
<1>1. /\ IsFiniteSet(S \cup {x})
      /\ Cardinality(S \cup {x}) \in Nat /\ Cardinality(S) \in Nat
      /\ Cardinality(S \cup {x}) <= Cardinality(S) + 1
  BY FS_AddElement, FS_CardinalityType
<1>2. Cardinality(T) \in Nat /\ Cardinality(T) <= Cardinality(S \cup {x})
  BY <1>1, FS_Subset, FS_CardinalityType
<1>3. T \subseteq S => Cardinality(T) <= Cardinality(S)
  BY FS_Subset
<1> QED
  BY <1>1, <1>2, <1>3

LEMMA LeakInit == Init => LeakInv
<1> SUFFICES ASSUME Init PROVE LeakInv
  OBVIOUS
<1>1. Leaked = {}
  BY DEF Init, Leaked
<1>2. Cardinality(Leaked) = 0
  BY <1>1, FS_EmptySet
<1>3. hTail \in Slots /\ (\A i \in Slots : ddr[i] = NULL) /\ mapErrors = 0
  BY RangesInit DEF Init, Ranges
<1> QED
  BY <1>2, <1>3 DEF LeakInv, OnBrink

(* What a step does to the buffers that are lost, and to the brink.        *)
LEMMA LeakBound ==
    ASSUME IsFiniteSet(Bufs), LeakInv, mapErrors \in Nat, NEW x,
           Placed \subseteq Placed' \cup {x}
    PROVE  /\ Cardinality(Leaked') \in Nat
           /\ OnBrink = 1 => Cardinality(Leaked') <= mapErrors
           /\ Cardinality(Leaked') <= mapErrors + 1
           /\ Placed \subseteq Placed' => Cardinality(Leaked') + OnBrink <= mapErrors
<1>1. Leaked = Bufs \ Placed /\ Leaked' = Bufs \ Placed'
  BY DEF Leaked, Placed
<1>2. /\ IsFiniteSet(Leaked) /\ Leaked' \subseteq Leaked \cup {x}
      /\ Placed \subseteq Placed' => Leaked' \subseteq Leaked
  BY <1>1, FS_Subset
<1>3. /\ Cardinality(Leaked') \in Nat /\ Cardinality(Leaked) \in Nat
      /\ Cardinality(Leaked') <= Cardinality(Leaked) + 1
      /\ Placed \subseteq Placed' => Cardinality(Leaked') <= Cardinality(Leaked)
  BY <1>2, GrowsByOne
<1>4. OnBrink \in {0, 1} /\ Cardinality(Leaked) + OnBrink <= mapErrors
  BY DEF OnBrink, LeakInv
<1> QED
  BY <1>3, <1>4

(* A step that puts back or passes on what it takes.                       *)
LEMMA LeakFrame ==
    ASSUME IsFiniteSet(Bufs), LeakInv, mapErrors \in Nat, Placed \subseteq Placed',
           UNCHANGED <<ddr, old, hTail, mapErrors>>
    PROVE  LeakInv'
<1>1. Cardinality(Leaked') + OnBrink <= mapErrors
  BY LeakBound
<1>2. OnBrink' = OnBrink
  BY DEF OnBrink
<1>3. \A i \in Slots : ~Within(i, old', hTail') /\ i # hTail' => ddr'[i] = NULL
  BY DEF LeakInv
<1> QED
  BY <1>1, <1>2, <1>3 DEF LeakInv, Within, Dist

(* A fill of the slot at hTail: what was on the brink is lost.             *)
LEMMA LeakFill ==
    ASSUME IsFiniteSet(Bufs), BufferInv, LeakInv, CanFill,
           writeList' = Tail(writeList),
           ddr' = [ddr EXCEPT ![hTail] = Head(writeList)],
           UNCHANGED <<txPool, chain, old>>,
           \/ hTail' = Inc(hTail) /\ mapErrors' = mapErrors
           \/ hTail' = hTail /\ mapErrors' = mapErrors + 1
    PROVE  LeakInv'
<1>t. /\ writeList \in Seq(Bufs) /\ writeList # <<>> /\ mapErrors \in Nat
      /\ old \in Slots /\ hTail \in Slots /\ ddr \in [Slots -> Bufs \cup {NULL}]
  BY DEF BufferInv, Ranges, CanFill
<1>1. PICK b \in Bufs : b = Head(writeList) /\ b # NULL
  BY <1>t, HeadTailProperties, TxAssumption
<1>2. ToSet(writeList) = {b} \cup ToSet(writeList')
  <2>1. /\ Len(writeList) >= 1 /\ b = writeList[1] /\ Len(writeList') = Len(writeList) - 1
        /\ \A i \in 1 .. Len(writeList') : writeList'[i] = writeList[i + 1]
        /\ DOMAIN writeList' = 1 .. Len(writeList) - 1 /\ DOMAIN writeList = 1 .. Len(writeList)
    BY <1>t, <1>1, HeadTailProperties
  <2>2. \A i \in DOMAIN writeList : i = 1 \/ (i - 1 \in DOMAIN writeList' /\ i = (i - 1) + 1)
    BY <2>1
  <2>3. \A i \in DOMAIN writeList' : i + 1 \in DOMAIN writeList
    BY <2>1
  <2>4. ToSet(writeList) \subseteq {b} \cup ToSet(writeList')
    BY <2>1, <2>2 DEF ToSet
  <2>5. ToSet(writeList') \subseteq ToSet(writeList) /\ b \in ToSet(writeList)
    BY <2>1, <2>3 DEF ToSet
  <2> QED
    BY <2>4, <2>5
<1>3. b \in RingBufs' /\ RingBufs \subseteq RingBufs' \cup {ddr[hTail]}
  BY <1>t, <1>1 DEF RingBufs
<1>4. ddr[hTail] = NULL => RingBufs \subseteq RingBufs'
  BY <1>t, <1>3 DEF RingBufs
<1>5. /\ Placed \subseteq Placed' \cup {ddr[hTail]}
      /\ ddr[hTail] = NULL => Placed \subseteq Placed'
  BY <1>2, <1>3, <1>4 DEF Placed, Held
<1>6. /\ Cardinality(Leaked') \in Nat /\ Cardinality(Leaked') <= mapErrors
  <2> DEFINE x == ddr[hTail]
  <2>1. Placed \subseteq Placed' \cup {x}
    BY <1>5
  <2> HIDE DEF x
  <2>2. /\ Cardinality(Leaked') \in Nat
        /\ OnBrink = 1 => Cardinality(Leaked') <= mapErrors
        /\ Placed \subseteq Placed' => Cardinality(Leaked') + OnBrink <= mapErrors
    BY <1>t, <2>1, LeakBound
  <2>3. CASE ddr[hTail] = NULL
    <3>1. OnBrink = 0 /\ Placed \subseteq Placed'
      BY <1>5, <2>3 DEF OnBrink
    <3> QED
      BY <1>t, <2>2, <3>1
  <2>4. CASE ddr[hTail] # NULL
    <3>1. OnBrink = 1
      BY <2>4 DEF OnBrink
    <3> QED
      BY <2>2, <3>1
  <2> QED
    BY <2>3, <2>4
<1>7. \A i \in Slots : i # hTail => ddr'[i] = ddr[i]
  BY <1>t
<1>8. CASE hTail' = Inc(hTail) /\ mapErrors' = mapErrors
  <2>1. /\ hTail' \in Slots /\ hTail' # hTail /\ ~Within(hTail', old, hTail)
        /\ \A i \in Slots : ~Within(i, old, hTail') => i # hTail /\ ~Within(i, old, hTail)
    <3>1. /\ hTail' \in Slots /\ hTail' = (IF hTail = NDesc - 1 THEN 0 ELSE hTail + 1)
          /\ hTail' # old
      BY <1>t, <1>8, IncIsNext DEF CanFill, RingHasRoom
    <3>2. hTail' # hTail /\ Dist(old, hTail') = Dist(old, hTail) + 1
      BY <1>t, <3>1, TxAssumption DEF Dist, Slots
    <3>3. ASSUME NEW i \in Slots, Within(i, old, hTail) \/ i = hTail
          PROVE  Within(i, old, hTail')
      BY <1>t, <3>2, <3>3, TxAssumption DEF Within, Dist, Slots
    <3>4. ~Within(hTail', old, hTail)
      BY <1>t, <3>1, <3>2, TxAssumption DEF Within, Dist, Slots
    <3> QED
      BY <3>1, <3>2, <3>3, <3>4
  <2>2. ddr'[hTail'] = NULL /\ OnBrink' = 0
    BY <1>7, <2>1 DEF LeakInv, OnBrink
  <2>3. \A i \in Slots : ~Within(i, old, hTail') => ddr'[i] = NULL
    BY <1>7, <2>1, <2>2 DEF LeakInv
  <2> QED
    BY <1>6, <1>8, <2>2, <2>3 DEF LeakInv, Within, Dist
<1>9. CASE hTail' = hTail /\ mapErrors' = mapErrors + 1
  <2>1. OnBrink' \in {0, 1}
    BY DEF OnBrink
  <2>2. Cardinality(Leaked') + OnBrink' <= mapErrors'
    BY <1>t, <1>6, <1>9, <2>1
  <2>3. \A i \in Slots : ~Within(i, old, hTail') /\ i # hTail' => ddr'[i] = NULL
    BY <1>7, <1>9 DEF LeakInv
  <2> QED
    BY <2>2, <2>3 DEF LeakInv, Within, Dist
<1> QED
  BY <1>8, <1>9

LEMMA LeakStep == IsFiniteSet(Bufs) /\ BufferInv /\ LeakInv /\ [Next]_vars => LeakInv'
<1> SUFFICES ASSUME IsFiniteSet(Bufs), BufferInv, LeakInv, [Next]_vars PROVE LeakInv'
  OBVIOUS
<1>t. /\ writeList \in Seq(Bufs) /\ ddr \in [Slots -> Bufs \cup {NULL}]
      /\ chain \in [Interfaces -> Seq(Bufs)] /\ txPool \subseteq Bufs
      /\ old \in Slots /\ hHead \in Slots /\ hTail \in Slots /\ regTail \in Slots
      /\ regHead \in Slots /\ mapErrors \in Nat
  BY DEF BufferInv, Ranges
<1>1. CASE UNCHANGED <<txPool, writeList, ddr, chain, old, hTail, mapErrors>>
  BY <1>t, <1>1, LeakFrame DEF Placed, RingBufs, Held
<1>2. CASE TxBegin
  <2>1. hTail' = hTail
    BY <1>2 DEF TxBegin, ReadEnds, BufferInv, RingInv
  <2> QED
    BY <1>1, <1>2, <2>1 DEF TxBegin
<1>3. CASE TxClean
  <2>1. /\ txPool' = txPool \cup ({ddr[old]} \ {NULL}) /\ ddr' = [ddr EXCEPT ![old] = NULL]
        /\ old' = Inc(old) /\ old # hHead /\ pc = "run"
        /\ UNCHANGED <<writeList, chain, hTail, mapErrors>>
    BY <1>3 DEF TxClean, FreeTxBd, ClearSlot
  <2>2. RingBufs \subseteq RingBufs' \cup txPool'
    BY <1>t, <2>1 DEF RingBufs
  <2>3. Placed \subseteq Placed'
    BY <2>1, <2>2 DEF Placed, Held
  <2>4. old # hTail
    BY <1>t, <2>1, TxAssumption DEF BufferInv, RingInv, RingInOrder, Dist, Slots
  <2>5. \A i \in Slots : ~Within(i, old', hTail) => i = old \/ ~Within(i, old, hTail)
    <3>1. /\ old' \in Slots /\ old' = (IF old = NDesc - 1 THEN 0 ELSE old + 1)
      BY <1>t, <2>1, IncIsNext
    <3>2. ASSUME NEW i \in Slots, i # old, Within(i, old, hTail)
          PROVE  Within(i, old', hTail)
      BY <1>t, <2>4, <3>1, <3>2, TxAssumption DEF Within, Dist, Slots
    <3> QED
      BY <3>2
  <2>6. OnBrink' = OnBrink
    BY <1>t, <2>1, <2>4 DEF OnBrink
  <2>7. Cardinality(Leaked') + OnBrink' <= mapErrors'
    BY <1>t, <2>1, <2>3, <2>6, LeakBound
  <2>8. \A i \in Slots : ~Within(i, old', hTail') /\ i # hTail' => ddr'[i] = NULL
    BY <1>t, <2>1, <2>5 DEF LeakInv
  <2> QED
    BY <2>7, <2>8 DEF LeakInv, Within, Dist
<1>4. CASE TxFill
  BY <1>4, LeakFill DEF TxFill
<1>5. CASE TxMapError
  BY <1>5, LeakFill DEF TxMapError
<1>6. CASE TxFillDone \/ TxPublish \/ TxBell \/ TxWake
  BY <1>1, <1>6 DEF TxFillDone, TxPublish, TxBell, TxWake
<1>7. CASE SendDoorbell \/ Interrupt \/ DeviceWork \/ DeviceDown \/ OtherDirection
  BY <1>1, <1>7
  DEF SendDoorbell, Interrupt, DeviceWork, DeviceConsume, DeviceDone, DeviceDown, OtherDirection
<1>8. ASSUME NEW i \in Interfaces, WriteAlloc(i)
      PROVE  LeakInv'
  <2>1. UNCHANGED <<writeList, ddr, old, hTail, mapErrors>>
    BY <1>8 DEF WriteAlloc
  <2>2. CASE UNCHANGED <<txPool, chain>>
    BY <1>1, <2>1, <2>2
  <2>3. ASSUME NEW b \in txPool, txPool' = txPool \ {b},
               chain' = [chain EXCEPT ![i] = Append(@, b)]
        PROVE  LeakInv'
    <3>1. Held(i)' = Held(i) \cup {b}
      <4>1. chain[i] \in Seq(Bufs) /\ b \in Bufs /\ chain'[i] = Append(chain[i], b)
        BY <1>t, <2>3
      <4> QED
        BY <4>1, AppendBuf DEF Held
    <3>2. \A j \in Interfaces : Held(j) \subseteq Held(j)'
      BY <1>t, <2>3, <3>1 DEF Held
    <3>3. Placed \subseteq Placed'
      BY <2>1, <2>3, <3>1, <3>2 DEF Placed, RingBufs
    <3> QED
      BY <1>t, <2>1, <3>3, LeakFrame
  <2> QED
    BY <1>8, <2>2, <2>3 DEF WriteAlloc, AllocTxBd
<1>9. ASSUME NEW i \in Interfaces, WritePut(i)
      PROVE  LeakInv'
  <2>1. /\ writeList' = writeList \o chain[i] /\ chain' = [chain EXCEPT ![i] = <<>>]
        /\ UNCHANGED <<txPool, ddr, old, hTail, mapErrors>>
    BY <1>9 DEF WritePut, ListPut
  <2>2. ToSet(writeList') = ToSet(writeList) \cup Held(i)
    BY <1>t, <2>1, ConcatBufs DEF Held
  <2>3. \A j \in Interfaces \ {i} : Held(j)' = Held(j)
    BY <1>t, <2>1 DEF Held
  <2>4. Placed \subseteq Placed'
    BY <2>1, <2>2, <2>3 DEF Placed, RingBufs
  <2> QED
    BY <1>t, <2>1, <2>4, LeakFrame
<1>10. ASSUME NEW i \in Interfaces,
              \/ \E n \in 0 .. MaxLen : Write(i, n)
              \/ WriteCopy(i) \/ WriteStop(i) \/ WriteStart(i) \/ PollSleep(i)
       PROVE  LeakInv'
  BY <1>1, <1>10 DEF Write, WriteCopy, WriteStop, WriteStart, PollSleep
<1>11. CASE UNCHANGED vars
  BY <1>1, <1>11 DEF vars
<1> QED
  BY <1>2, <1>3, <1>4, <1>5, <1>6, <1>7, <1>8, <1>9, <1>10, <1>11
  DEF Next, TxHandler, WriteCall

(* With a pool of any finite size, only a failed DMA mapping makes a buffer*)
(* of the transmit path disappear, and one at a time.                      *)
THEOREM OnlyMapErrorsLeak == IsFiniteSet(Bufs) => (Spec => []LeakOnlyByMapError)
<1> SUFFICES ASSUME IsFiniteSet(Bufs) PROVE Spec => []LeakOnlyByMapError
  OBVIOUS
<1>1. BufferInv /\ LeakInv /\ [Next]_vars => LeakInv'
  BY LeakStep
<1>2. BufferInv /\ LeakInv => LeakOnlyByMapError
  <2>1. BufferInv /\ LeakInv => mapErrors \in Nat /\ Placed \subseteq Placed \cup {NULL}
    BY DEF BufferInv, Ranges
  <2>2. BufferInv /\ LeakInv => Cardinality(Leaked) \in Nat
    BY FS_Subset, FS_CardinalityType, LeakedIsRest
  <2> QED
    BY <2>1, <2>2 DEF LeakInv, OnBrink, LeakOnlyByMapError
<1> QED
  BY <1>1, <1>2, LeakInit, BuffersHold, PTL DEF Spec

-----------------------------------------------------------------------------
(* The buffers in flight, position by position                             *)

(* The slot k places from h, h itself being the first.                     *)
SlotAt(h, k) == IF h + k - 1 < NDesc THEN h + k - 1 ELSE h + k - 1 - NDesc

LEMMA SlotAtIsModulo ==
    ASSUME NEW h \in Slots, NEW k \in 1 .. NDesc
    PROVE  /\ (h + k - 1) % NDesc = SlotAt(h, k)
           /\ SlotAt(h, k) \in Slots /\ Dist(h, SlotAt(h, k)) = k - 1
<1>1. NDesc \in Nat \ {0} /\ h \in 0 .. NDesc - 1
  BY TxAssumption DEF Slots
<1>2. CASE h + k - 1 < NDesc
  BY <1>1, <1>2 DEF SlotAt, Dist, Slots
<1>3. CASE ~(h + k - 1 < NDesc)
  <2>1. (h + k - 1) % NDesc = h + k - 1 - NDesc
    BY <1>1, <1>3
  <2> QED
    BY <1>1, <1>3, <2>1 DEF SlotAt, Dist, Slots
<1> QED
  BY <1>2, <1>3

(* How many buffers the ring holds for the device.                         *)
Loaded == Dist(regHead, hTail)

(* What InFlight is, said of each of its places.                           *)
FlightInv ==
    /\ Loaded \in 0 .. NDesc - 1
    /\ InFlight \in Seq(Bufs)
    /\ Len(InFlight) = Loaded + Len(writeList)
    /\ \A k \in 1 .. Loaded : InFlight[k] = ddr[SlotAt(regHead, k)]
    /\ \A k \in 1 .. Len(writeList) : InFlight[Loaded + k] = writeList[k]
    /\ \A k \in 1 .. Len(InFlight) : InFlight[k] \in RingBufs \cup ToSet(writeList)

LEMMA FlightHolds == BufferInv => FlightInv
<1> SUFFICES ASSUME BufferInv PROVE FlightInv
  OBVIOUS
<1>1. /\ regHead \in Slots /\ hTail \in Slots /\ old \in Slots /\ regTail \in Slots
      /\ ddr \in [Slots -> Bufs \cup {NULL}] /\ writeList \in Seq(Bufs)
  BY DEF BufferInv, Ranges
<1>2. Loaded \in 0 .. NDesc - 1
  BY <1>1, TxAssumption DEF Loaded, Dist, Slots
<1> DEFINE onRing == [k \in 1 .. Loaded |-> ddr[(regHead + k - 1) % NDesc]]
<1>3. ASSUME NEW k \in 1 .. Loaded
      PROVE  /\ onRing[k] = ddr[SlotAt(regHead, k)] /\ onRing[k] \in RingBufs /\ onRing[k] \in Bufs
  <2>1. k \in 1 .. NDesc
    BY <1>2, TxAssumption
  <2>2. /\ SlotAt(regHead, k) \in Slots /\ Dist(regHead, SlotAt(regHead, k)) = k - 1
        /\ onRing[k] = ddr[SlotAt(regHead, k)]
    BY <1>1, <2>1, SlotAtIsModulo
  <2>3. Within(SlotAt(regHead, k), old, hTail)
    BY SMTT(30), <1>1, <2>2, TxAssumption
    DEF BufferInv, RingInv, RingInOrder, Within, Dist, Slots, Loaded
  <2> QED
    BY <1>1, <2>2, <2>3 DEF BufferInv, RingInv, RingInOrder, RingBufs
<1>4. onRing \in Seq(Bufs) /\ Len(onRing) = Loaded
  BY <1>2, <1>3
<1>5. InFlight = onRing \o writeList
  BY DEF InFlight, Loaded
<1> HIDE DEF onRing
<1>6. /\ InFlight \in Seq(Bufs) /\ Len(InFlight) = Loaded + Len(writeList)
      /\ \A k \in 1 .. Loaded + Len(writeList) :
            InFlight[k] = IF k <= Loaded THEN onRing[k] ELSE writeList[k - Loaded]
  BY <1>1, <1>4, <1>5, ConcatProperties
<1>7. ASSUME NEW k \in 1 .. Len(writeList) PROVE InFlight[Loaded + k] = writeList[k]
  BY <1>1, <1>2, <1>6, LenProperties
<1>8. ASSUME NEW k \in 1 .. Len(InFlight)
      PROVE  InFlight[k] \in RingBufs \cup ToSet(writeList)
  BY <1>1, <1>2, <1>3, <1>6, <1>8, LenProperties DEF ToSet
<1> QED
  BY <1>1, <1>2, <1>3, <1>6, <1>7, <1>8, LenProperties DEF FlightInv

LEMMA FlightHoldsNext == BufferInv' => FlightInv'
BY FlightHolds, PTL

LEMMA ContentsOf ==
    ASSUME Ranges, NEW s \in Seq(Bufs)
    PROVE  /\ Contents(s) \in Seq(Frags) /\ Len(Contents(s)) = Len(s)
           /\ DOMAIN Contents(s) = 1 .. Len(s)
           /\ \A k \in 1 .. Len(s) : Contents(s)[k] = data[s[k]]
<1>1. data \in [Bufs -> Frags] /\ Len(s) \in Nat /\ DOMAIN s = 1 .. Len(s)
  BY LenProperties DEF Ranges
<1>2. Contents(s) = [k \in 1 .. Len(s) |-> data[s[k]]]
  BY <1>1 DEF Contents
<1>3. \A k \in 1 .. Len(s) : data[s[k]] \in Frags
  BY <1>1, ElementOfSeq
<1> QED
  BY <1>1, <1>2, <1>3

-----------------------------------------------------------------------------
(* Sequences                                                               *)

LEMMA RemoveAtProperties ==
    ASSUME NEW S, NEW s \in Seq(S), NEW n \in 1 .. Len(s)
    PROVE  /\ RemoveAt(s, n) \in Seq(S) /\ Len(RemoveAt(s, n)) = Len(s) - 1
           /\ \A k \in 1 .. Len(s) - 1 :
                 RemoveAt(s, n)[k] = IF k < n THEN s[k] ELSE s[k + 1]
<1> DEFINE pre  == SubSeq(s, 1, n - 1)
           post == SubSeq(s, n + 1, Len(s))
<1>1. Len(s) \in Nat /\ \A k \in 1 .. Len(s) : s[k] \in S
  BY LenProperties, ElementOfSeq
<1>2. /\ pre \in Seq(S) /\ Len(pre) = n - 1
      /\ \A k \in 1 .. n - 1 : pre[k] = s[k]
  BY <1>1, SubSeqProperties
<1>3. /\ post \in Seq(S) /\ Len(post) = Len(s) - n
      /\ \A k \in 1 .. Len(s) - n : post[k] = s[n + k]
  BY <1>1, SubSeqProperties
<1>4. RemoveAt(s, n) = pre \o post
  BY DEF RemoveAt
<1> HIDE DEF pre, post
<1>5. /\ RemoveAt(s, n) \in Seq(S) /\ Len(RemoveAt(s, n)) = Len(s) - 1
      /\ \A k \in 1 .. Len(s) - 1 :
            RemoveAt(s, n)[k] = IF k <= n - 1 THEN pre[k] ELSE post[k - (n - 1)]
  <2>1. /\ pre \o post \in Seq(S) /\ Len(pre \o post) = Len(pre) + Len(post)
        /\ \A k \in 1 .. Len(pre) + Len(post) :
              (pre \o post)[k] = IF k <= Len(pre) THEN pre[k] ELSE post[k - Len(pre)]
    BY <1>2, <1>3, ConcatProperties
  <2>2. Len(pre) = n - 1 /\ Len(pre) + Len(post) = Len(s) - 1
    BY <1>1, <1>2, <1>3
  <2> QED
    BY <1>4, <2>1, <2>2
<1>6. ASSUME NEW k \in 1 .. Len(s) - 1
      PROVE  RemoveAt(s, n)[k] = IF k < n THEN s[k] ELSE s[k + 1]
  <2>1. CASE k < n
    <3>1. k <= n - 1 /\ k \in 1 .. n - 1
      BY <1>1, <2>1
    <3>2. RemoveAt(s, n)[k] = pre[k] /\ pre[k] = s[k]
      BY <1>2, <1>5, <3>1
    <3> QED
      BY <2>1, <3>2
  <2>2. CASE ~(k < n)
    <3>1. k - (n - 1) \in 1 .. Len(s) - n /\ n + (k - (n - 1)) = k + 1 /\ ~(k <= n - 1)
      BY <1>1, <2>2
    <3>2. RemoveAt(s, n)[k] = post[k - (n - 1)]
      BY <1>5, <3>1
    <3>3. post[k - (n - 1)] = s[k + 1]
      BY <1>3, <3>1
    <3> QED
      BY <2>2, <3>2, <3>3
  <2> QED
    BY <2>1, <2>2, Zenon
<1> QED
  BY <1>5, <1>6

(* Taking the head of the second part and putting it at the end of the     *)
(* first changes nothing in the whole.                                     *)
LEMMA HeadMovesOver ==
    ASSUME NEW S, NEW s \in Seq(S), NEW t \in Seq(S), t # <<>>
    PROVE  Append(s, t[1]) \o Tail(t) = s \o t
<1>1. /\ Tail(t) \in Seq(S) /\ Len(Tail(t)) = Len(t) - 1 /\ Len(t) >= 1 /\ t[1] \in S
      /\ \A k \in 1 .. Len(t) - 1 : Tail(t)[k] = t[k + 1]
      /\ Len(s) \in Nat /\ Len(t) \in Nat
  BY HeadTailProperties, LenProperties, EmptySeq, ElementOfSeq
<1>2. /\ Append(s, t[1]) \in Seq(S) /\ Len(Append(s, t[1])) = Len(s) + 1
      /\ \A k \in 1 .. Len(s) : Append(s, t[1])[k] = s[k]
      /\ Append(s, t[1])[Len(s) + 1] = t[1]
  BY <1>1, AppendProperties
<1> DEFINE a == Append(s, t[1])
           r == Tail(t)
<1> HIDE DEF a, r
<1>3. /\ a \o r \in Seq(S) /\ Len(a \o r) = Len(s) + Len(t)
      /\ \A k \in 1 .. Len(s) + Len(t) :
            (a \o r)[k] = IF k <= Len(s) + 1 THEN a[k] ELSE r[k - (Len(s) + 1)]
  BY <1>1, <1>2, ConcatProperties DEF a, r
<1>4. /\ s \o t \in Seq(S) /\ Len(s \o t) = Len(s) + Len(t)
      /\ \A k \in 1 .. Len(s) + Len(t) :
            (s \o t)[k] = IF k <= Len(s) THEN s[k] ELSE t[k - Len(s)]
  BY <1>1, ConcatProperties
<1>5. ASSUME NEW k \in 1 .. Len(s) + Len(t) PROVE (a \o r)[k] = (s \o t)[k]
  <2>0. k <= Len(s) \/ k = Len(s) + 1 \/ k > Len(s) + 1
    BY <1>1
  <2>1. CASE k <= Len(s)
    BY <1>1, <1>2, <1>3, <1>4, <2>1 DEF a
  <2>2. CASE k = Len(s) + 1
    BY <1>1, <1>2, <1>3, <1>4, <2>2 DEF a
  <2>3. CASE k > Len(s) + 1
    <3>1. k - (Len(s) + 1) \in 1 .. Len(t) - 1 /\ (k - (Len(s) + 1)) + 1 = k - Len(s)
      BY <1>1, <2>3
    <3>2. r[k - (Len(s) + 1)] = t[k - Len(s)]
      BY <1>1, <3>1 DEF r
    <3> QED
      BY <1>1, <1>3, <1>4, <2>3, <3>2
  <2> QED
    BY <2>0, <2>1, <2>2, <2>3, Zenon
<1> QED
  BY <1>3, <1>4, <1>5, SeqEqual DEF a, r

(* Removing a place of the second part.                                    *)
LEMMA RemoveAtConcat ==
    ASSUME NEW S, NEW s \in Seq(S), NEW t \in Seq(S), NEW n \in 1 .. Len(t)
    PROVE  RemoveAt(s \o t, Len(s) + n) = s \o RemoveAt(t, n)
<1>1. Len(s) \in Nat /\ Len(t) \in Nat
  BY LenProperties
<1> DEFINE w == s \o t
           r == RemoveAt(t, n)
<1>2. /\ w \in Seq(S) /\ Len(w) = Len(s) + Len(t)
      /\ \A k \in 1 .. Len(s) + Len(t) : w[k] = IF k <= Len(s) THEN s[k] ELSE t[k - Len(s)]
  BY ConcatProperties
<1>3. /\ r \in Seq(S) /\ Len(r) = Len(t) - 1
      /\ \A k \in 1 .. Len(t) - 1 : r[k] = IF k < n THEN t[k] ELSE t[k + 1]
  BY RemoveAtProperties
<1> HIDE DEF w, r
<1>4. Len(s) + n \in 1 .. Len(w)
  BY <1>1, <1>2
<1>5. /\ RemoveAt(w, Len(s) + n) \in Seq(S)
      /\ Len(RemoveAt(w, Len(s) + n)) = Len(s) + Len(t) - 1
      /\ \A k \in 1 .. Len(s) + Len(t) - 1 :
            RemoveAt(w, Len(s) + n)[k] = IF k < Len(s) + n THEN w[k] ELSE w[k + 1]
  <2> DEFINE m == Len(s) + n
  <2>1. m \in 1 .. Len(w)
    BY <1>4
  <2> HIDE DEF m
  <2>2. /\ RemoveAt(w, m) \in Seq(S) /\ Len(RemoveAt(w, m)) = Len(w) - 1
        /\ \A k \in 1 .. Len(w) - 1 : RemoveAt(w, m)[k] = IF k < m THEN w[k] ELSE w[k + 1]
    BY <1>2, <2>1, RemoveAtProperties
  <2>3. Len(w) - 1 = Len(s) + Len(t) - 1
    BY <1>2
  <2> QED
    BY <2>2, <2>3 DEF m
<1>6. /\ s \o r \in Seq(S) /\ Len(s \o r) = Len(s) + Len(t) - 1
      /\ \A k \in 1 .. Len(s) + Len(t) - 1 :
            (s \o r)[k] = IF k <= Len(s) THEN s[k] ELSE r[k - Len(s)]
  <2>1. /\ s \o r \in Seq(S) /\ Len(s \o r) = Len(s) + Len(r)
        /\ \A k \in 1 .. Len(s) + Len(r) :
              (s \o r)[k] = IF k <= Len(s) THEN s[k] ELSE r[k - Len(s)]
    BY <1>3, ConcatProperties
  <2>2. Len(s) + Len(r) = Len(s) + Len(t) - 1
    BY <1>1, <1>3
  <2> QED
    BY <2>1, <2>2
<1>7. ASSUME NEW k \in 1 .. Len(s) + Len(t) - 1
      PROVE  RemoveAt(w, Len(s) + n)[k] = (s \o r)[k]
  <2>1. CASE k <= Len(s)
    BY <1>1, <1>2, <1>5, <1>6, <2>1
  <2>2. CASE k > Len(s)
    <3> DEFINE j == k - Len(s)
    <3>1. j \in 1 .. Len(t) - 1 /\ k = Len(s) + j
      BY <1>1, <2>2
    <3> HIDE DEF j
    <3>2. (s \o r)[k] = IF j < n THEN t[j] ELSE t[j + 1]
      <4>1. ~(k <= Len(s)) /\ k - Len(s) = j
        BY <1>1, <2>2, <3>1
      <4> QED
        BY <1>3, <1>6, <3>1, <4>1
    <3>3. w[k] = t[j] /\ w[k + 1] = t[j + 1]
      <4>1. /\ k \in 1 .. Len(s) + Len(t) /\ k + 1 \in 1 .. Len(s) + Len(t)
            /\ ~(k <= Len(s)) /\ ~(k + 1 <= Len(s))
            /\ k - Len(s) = j /\ (k + 1) - Len(s) = j + 1
        BY <1>1, <2>2, <3>1
      <4> QED
        BY <1>2, <4>1
    <3>4. k < Len(s) + n <=> j < n
      BY <1>1, <3>1
    <3> QED
      BY <1>5, <3>2, <3>3, <3>4
  <2>3. k <= Len(s) \/ k > Len(s)
    BY <1>1
  <2> QED
    BY <2>1, <2>2, <2>3, Zenon
<1>8. RemoveAt(w, Len(s) + n) = s \o r
  BY <1>5, <1>6, <1>7, SeqEqual
<1> QED
  BY <1>8 DEF w, r

-----------------------------------------------------------------------------
(* What the steps do to the buffers in flight                              *)

(* Nothing, as long as the window, its slots and the list stay.            *)
LEMMA FlightSame ==
    ASSUME BufferInv, FlightInv, FlightInv', UNCHANGED <<regHead, hTail, writeList>>,
           \A i \in Slots : Within(i, regHead, hTail) => ddr'[i] = ddr[i]
    PROVE  InFlight' = InFlight
<1>1. Loaded' = Loaded /\ Loaded \in 0 .. NDesc - 1 /\ regHead \in Slots
  BY DEF FlightInv, Loaded, Dist, BufferInv, Ranges
<1>2. /\ InFlight \in Seq(Bufs) /\ InFlight' \in Seq(Bufs)
      /\ Len(InFlight) = Loaded + Len(writeList) /\ Len(InFlight') = Len(InFlight)
  BY <1>1 DEF FlightInv
<1>w. writeList \in Seq(Bufs) /\ Len(writeList) \in Nat
  BY DEF BufferInv, Ranges
<1>3. ASSUME NEW k \in 1 .. Loaded PROVE InFlight'[k] = InFlight[k]
  <2>1. k \in 1 .. NDesc
    BY <1>1, TxAssumption
  <2>2. SlotAt(regHead, k) \in Slots /\ Within(SlotAt(regHead, k), regHead, hTail)
    BY <1>1, <2>1, SlotAtIsModulo, TxAssumption DEF Within, Loaded
  <2>3. InFlight'[k] = ddr'[SlotAt(regHead, k)] /\ InFlight[k] = ddr[SlotAt(regHead, k)]
    BY <1>1 DEF FlightInv, SlotAt
  <2> QED
    BY <2>2, <2>3
<1>4. ASSUME NEW k \in 1 .. Len(writeList)
      PROVE  InFlight'[Loaded + k] = InFlight[Loaded + k]
  BY <1>1 DEF FlightInv
<1>5. ASSUME NEW k \in 1 .. Len(InFlight) PROVE InFlight'[k] = InFlight[k]
  <2>1. CASE k <= Loaded
    BY <1>1, <1>3, <2>1
  <2>2. CASE k > Loaded
    <3>1. k - Loaded \in 1 .. Len(writeList) /\ Loaded + (k - Loaded) = k
      BY <1>1, <1>2, <1>w, <2>2
    <3> QED
      BY <1>4, <3>1
  <2> QED
    BY <1>1, <2>1, <2>2
<1> QED
  BY <1>2, <1>5, SeqEqual

(* A buffer that moves from the list to the ring keeps its place.          *)
LEMMA FlightFill ==
    ASSUME BufferInv, BufferInv', FlightInv, FlightInv', TxFill
    PROVE  InFlight' = InFlight
<1>1. /\ Loaded \in 0 .. NDesc - 1 /\ Loaded' \in 0 .. NDesc - 1
      /\ regHead \in Slots /\ hTail \in Slots /\ old \in Slots /\ regTail \in Slots
      /\ ddr \in [Slots -> Bufs \cup {NULL}]
      /\ writeList \in Seq(Bufs) /\ writeList # <<>>
  BY DEF FlightInv, BufferInv, Ranges, TxFill, CanFill
<1>2. /\ hTail' = Inc(hTail) /\ Inc(hTail) # old /\ regHead' = regHead
      /\ ddr' = [ddr EXCEPT ![hTail] = Head(writeList)]
      /\ writeList' = Tail(writeList)
  BY DEF TxFill, CanFill, RingHasRoom
<1>3. Inc(hTail) = (IF hTail = NDesc - 1 THEN 0 ELSE hTail + 1) /\ Inc(hTail) \in Slots
  BY <1>1, IncIsNext
<1>4. Loaded' = Loaded + 1
  <2>1. Dist(old, regHead) + Dist(regHead, regTail) + Dist(regTail, hTail) < NDesc
    BY DEF BufferInv, RingInv, RingInOrder
  <2>2. Dist(regHead, Inc(hTail)) = Dist(regHead, hTail) + 1
    BY <1>1, <1>2, <1>3, <2>1, TxAssumption DEF Dist, Slots
  <2>3. Loaded' = Dist(regHead, Inc(hTail))
    BY <1>2 DEF Loaded, Dist
  <2> QED
    BY <2>2, <2>3 DEF Loaded
<1>5. /\ Len(writeList) \in Nat /\ Len(writeList') = Len(writeList) - 1
      /\ Len(writeList) >= 1 /\ Head(writeList) = writeList[1]
      /\ \A k \in 1 .. Len(writeList') : writeList'[k] = writeList[k + 1]
  BY <1>1, <1>2, HeadTailProperties
<1>6. /\ InFlight \in Seq(Bufs) /\ InFlight' \in Seq(Bufs)
      /\ Len(InFlight) = Loaded + Len(writeList) /\ Len(InFlight') = Len(InFlight)
  <2>1. InFlight' \in Seq(Bufs) /\ Len(InFlight') = Loaded' + Len(writeList')
    BY DEF FlightInv
  <2>2. InFlight \in Seq(Bufs) /\ Len(InFlight) = Loaded + Len(writeList)
    BY DEF FlightInv
  <2>3. Loaded' + Len(writeList') = Loaded + Len(writeList)
    BY <1>1, <1>4, <1>5
  <2> QED
    BY <2>1, <2>2, <2>3
<1>7. ASSUME NEW k \in 1 .. Loaded + 1
      PROVE  /\ InFlight'[k] = ddr'[SlotAt(regHead, k)]
             /\ SlotAt(regHead, k) \in Slots /\ (SlotAt(regHead, k) = hTail <=> k = Loaded + 1)
  <2>1. k \in 1 .. NDesc
    BY <1>1, TxAssumption
  <2>2. SlotAt(regHead, k) \in Slots /\ Dist(regHead, SlotAt(regHead, k)) = k - 1
    BY <1>1, <2>1, SlotAtIsModulo
  <2>3. SlotAt(regHead, k) = hTail <=> k = Loaded + 1
    BY <1>1, <2>2, TxAssumption DEF Loaded, Dist, Slots
  <2> QED
    BY <1>2, <1>4, <2>2, <2>3 DEF FlightInv, SlotAt
<1>8. ASSUME NEW k \in 1 .. Len(InFlight) PROVE InFlight'[k] = InFlight[k]
  <2>1. CASE k <= Loaded
    BY <1>1, <1>2, <1>7, <2>1 DEF FlightInv
  <2>2. CASE k = Loaded + 1
    <3>1. InFlight'[k] = Head(writeList)
      BY <1>1, <1>2, <1>7, <2>2
    <3>2. InFlight[Loaded + 1] = writeList[1]
      BY <1>5 DEF FlightInv
    <3> QED
      BY <1>5, <2>2, <3>1, <3>2
  <2>3. CASE k > Loaded + 1
    <3> DEFINE j == k - (Loaded + 1)
    <3>1. j \in 1 .. Len(writeList') /\ j + 1 \in 1 .. Len(writeList)
          /\ Loaded' + j = k /\ Loaded + (j + 1) = k
      BY <1>1, <1>4, <1>5, <1>6, <2>3
    <3> HIDE DEF j
    <3>2. InFlight'[Loaded' + j] = writeList'[j] /\ InFlight[Loaded + (j + 1)] = writeList[j + 1]
      BY <3>1 DEF FlightInv
    <3> QED
      BY <1>5, <3>1, <3>2
  <2> QED
    BY <1>1, <2>1, <2>2, <2>3
<1> QED
  BY <1>6, <1>8, SeqEqual

(* The device takes the first one.                                         *)
LEMMA FlightConsume ==
    ASSUME BufferInv, FlightInv, FlightInv', DeviceConsume
    PROVE  /\ InFlight # <<>> /\ InFlight' = Tail(InFlight)
           /\ InFlight[1] = td[regHead]
<1>1. /\ Loaded \in 0 .. NDesc - 1 /\ Len(writeList) \in Nat
      /\ regHead \in Slots /\ hTail \in Slots /\ old \in Slots /\ regTail \in Slots
      /\ NDesc \in Nat \ {0}
  BY TxAssumption DEF FlightInv, BufferInv, Ranges
<1>2. /\ up /\ regHead # regTail /\ regHead' = Inc(regHead)
      /\ UNCHANGED <<hTail, ddr, writeList>>
  BY DEF DeviceConsume
<1>3. /\ Inc(regHead) = (IF regHead = NDesc - 1 THEN 0 ELSE regHead + 1)
      /\ Inc(regHead) \in Slots
  BY <1>1, IncIsNext
<1>4. Loaded >= 1 /\ Loaded' = Loaded - 1
  <2>1. Dist(old, regHead) + Dist(regHead, regTail) + Dist(regTail, hTail) < NDesc
    BY DEF BufferInv, RingInv, RingInOrder
  <2>2. /\ Dist(regHead, hTail) >= 1
        /\ Dist(Inc(regHead), hTail) = Dist(regHead, hTail) - 1
    BY <1>1, <1>2, <1>3, <2>1 DEF Dist, Slots
  <2>3. Loaded' = Dist(Inc(regHead), hTail)
    BY <1>2 DEF Loaded, Dist
  <2> QED
    BY <2>2, <2>3 DEF Loaded
<1>5. /\ InFlight \in Seq(Bufs) /\ Len(InFlight) = Loaded + Len(writeList)
      /\ InFlight' \in Seq(Bufs) /\ Len(InFlight') = Loaded' + Len(writeList)
  BY <1>2 DEF FlightInv
<1>6. InFlight # <<>>
  BY <1>1, <1>4, <1>5, EmptySeq
<1>7. InFlight[1] = td[regHead]
  <2>1. InFlight[1] = ddr[regHead]
    BY <1>1, <1>4 DEF FlightInv, SlotAt, Slots
  <2>2. Within(regHead, regHead, FilledUpTo)
    BY <1>1, <1>2, <1>4 DEF Within, FilledUpTo, Loaded, Dist, Slots
  <2> QED
    BY <1>1, <2>1, <2>2 DEF BufferInv, RingInv
<1>8. ASSUME NEW k \in 1 .. Len(InFlight') PROVE InFlight'[k] = InFlight[k + 1]
  <2>1. CASE k <= Loaded'
    <3>1. SlotAt(regHead', k) = SlotAt(regHead, k + 1)
      BY <1>1, <1>2, <1>3, <1>4, <2>1 DEF SlotAt, Slots
    <3>2. InFlight'[k] = ddr'[SlotAt(regHead', k)]
      BY <1>1, <1>4, <2>1 DEF FlightInv, SlotAt
    <3>3. InFlight[k + 1] = ddr[SlotAt(regHead, k + 1)]
      BY <1>1, <1>4, <2>1 DEF FlightInv
    <3> QED
      BY <1>2, <3>1, <3>2, <3>3
  <2>2. CASE k > Loaded'
    <3> DEFINE j == k - Loaded'
    <3>1. j \in 1 .. Len(writeList) /\ Loaded' + j = k /\ Loaded + j = k + 1
      BY <1>1, <1>4, <1>5, <2>2
    <3> HIDE DEF j
    <3>2. InFlight'[Loaded' + j] = writeList'[j] /\ InFlight[Loaded + j] = writeList[j]
      BY <1>2, <3>1 DEF FlightInv
    <3> QED
      BY <1>2, <3>1, <3>2
  <2> QED
    BY <1>1, <1>4, <1>5, <2>1, <2>2
<1>9. InFlight' = Tail(InFlight)
  <2>1. /\ Tail(InFlight) \in Seq(Bufs) /\ Len(Tail(InFlight)) = Len(InFlight')
        /\ \A k \in 1 .. Len(InFlight') : Tail(InFlight)[k] = InFlight[k + 1]
    BY <1>1, <1>4, <1>5, <1>6, HeadTailProperties
  <2> QED
    BY <1>5, <1>8, <2>1, SeqEqual
<1> QED
  BY <1>6, <1>7, <1>9

(* A chain joins at the end.                                               *)
LEMMA FlightPut ==
    ASSUME BufferInv, NEW i \in Interfaces, WritePut(i)
    PROVE  InFlight' = InFlight \o chain[i]
<1>1. writeList' = writeList \o chain[i] /\ UNCHANGED <<regHead, hTail, ddr>>
  BY DEF WritePut, ListPut
<1> DEFINE onRing == [k \in 1 .. Loaded |-> ddr[(regHead + k - 1) % NDesc]]
<1>2. InFlight = onRing \o writeList /\ InFlight' = onRing \o writeList'
  BY <1>1 DEF InFlight, Loaded, Dist
<1>3. onRing \in Seq(Bufs \cup {NULL})
  <2>1. /\ Loaded \in 0 .. NDesc - 1 /\ regHead \in Slots
        /\ ddr \in [Slots -> Bufs \cup {NULL}] /\ NDesc \in Nat \ {0}
    BY FlightHolds, TxAssumption DEF FlightInv, BufferInv, Ranges
  <2>2. ASSUME NEW k \in 1 .. Loaded PROVE ddr[(regHead + k - 1) % NDesc] \in Bufs \cup {NULL}
    <3>1. k \in 1 .. NDesc
      BY <2>1
    <3> QED
      BY <2>1, <3>1, SlotAtIsModulo
  <2> QED
    BY <2>1, <2>2
<1>4. writeList \in Seq(Bufs \cup {NULL}) /\ chain[i] \in Seq(Bufs \cup {NULL})
  <2>1. writeList \in Seq(Bufs) /\ chain[i] \in Seq(Bufs)
    BY DEF BufferInv, Ranges
  <2> QED
    BY <2>1, SeqMonotonic
<1> HIDE DEF onRing
<1>5. (onRing \o writeList) \o chain[i] = onRing \o (writeList \o chain[i])
  <2>1. \A s, t, u \in Seq(Bufs \cup {NULL}) : (s \o t) \o u = s \o (t \o u)
    BY ConcatAssociative
  <2> QED
    BY <1>3, <1>4, <2>1, Zenon
<1> QED
  BY <1>1, <1>2, <1>5

(* A buffer that cannot be mapped is gone from its place.                  *)
LEMMA FlightMapError ==
    ASSUME BufferInv, FlightInv, FlightInv', TxMapError
    PROVE  /\ Loaded + 1 \in 1 .. Len(InFlight)
           /\ InFlight' = RemoveAt(InFlight, Loaded + 1)
<1>1. /\ Loaded \in 0 .. NDesc - 1 /\ regHead \in Slots /\ hTail \in Slots
      /\ ddr \in [Slots -> Bufs \cup {NULL}] /\ NDesc \in Nat \ {0}
      /\ writeList \in Seq(Bufs) /\ writeList # <<>>
  BY TxAssumption DEF FlightInv, BufferInv, Ranges, TxMapError, CanFill
<1>2. /\ ddr' = [ddr EXCEPT ![hTail] = Head(writeList)]
      /\ writeList' = Tail(writeList) /\ UNCHANGED <<regHead, hTail>>
  BY DEF TxMapError
<1>3. Loaded' = Loaded
  BY <1>2 DEF Loaded, Dist
<1>4. /\ Len(writeList) \in Nat /\ Len(writeList) >= 1
      /\ Len(writeList') = Len(writeList) - 1
      /\ \A k \in 1 .. Len(writeList') : writeList'[k] = writeList[k + 1]
  BY <1>1, <1>2, HeadTailProperties, EmptySeq
<1>5. InFlight \in Seq(Bufs) /\ Len(InFlight) = Loaded + Len(writeList)
  BY DEF FlightInv
<1>6. InFlight' \in Seq(Bufs) /\ Len(InFlight') = Loaded + Len(writeList')
  BY <1>3 DEF FlightInv
<1>7. Loaded + 1 \in 1 .. Len(InFlight) /\ Len(InFlight') = Len(InFlight) - 1
  BY <1>1, <1>4, <1>5, <1>6
<1>8. ASSUME NEW k \in 1 .. Len(InFlight')
      PROVE  InFlight'[k] = IF k < Loaded + 1 THEN InFlight[k] ELSE InFlight[k + 1]
  <2>1. CASE k < Loaded + 1
    <3>1. k \in 1 .. Loaded /\ k \in 1 .. NDesc
      BY <1>1, <2>1
    <3>2. SlotAt(regHead, k) \in Slots /\ Dist(regHead, SlotAt(regHead, k)) = k - 1
      BY <1>1, <3>1, SlotAtIsModulo
    <3>3. SlotAt(regHead, k) # hTail
      BY <1>1, <3>1, <3>2 DEF Loaded
    <3>4. InFlight'[k] = ddr'[SlotAt(regHead, k)] /\ InFlight[k] = ddr[SlotAt(regHead, k)]
      BY <1>2, <1>3, <3>1 DEF FlightInv, SlotAt
    <3> QED
      BY <1>1, <1>2, <2>1, <3>2, <3>3, <3>4
  <2>2. CASE k >= Loaded + 1
    <3> DEFINE j == k - Loaded
    <3>1. j \in 1 .. Len(writeList') /\ j + 1 \in 1 .. Len(writeList)
          /\ Loaded + j = k /\ Loaded + (j + 1) = k + 1
      BY <1>1, <1>4, <1>6, <2>2
    <3> HIDE DEF j
    <3>2. InFlight'[Loaded + j] = writeList'[j]
      BY <1>3, <3>1 DEF FlightInv
    <3>3. InFlight[Loaded + (j + 1)] = writeList[j + 1]
      BY <3>1 DEF FlightInv
    <3>4. ~(k < Loaded + 1)
      BY <1>1, <2>2
    <3> QED
      BY <1>4, <3>1, <3>2, <3>3, <3>4
  <2>3. k < Loaded + 1 \/ k >= Loaded + 1
    BY <1>1
  <2> QED
    BY <2>1, <2>2, <2>3, Zenon
<1> DEFINE n == Loaded + 1
<1>9. n \in 1 .. Len(InFlight)
  BY <1>7
<1> HIDE DEF n
<1>10. /\ RemoveAt(InFlight, n) \in Seq(Bufs)
       /\ Len(RemoveAt(InFlight, n)) = Len(InFlight) - 1
       /\ \A k \in 1 .. Len(InFlight) - 1 :
             RemoveAt(InFlight, n)[k] = IF k < n THEN InFlight[k] ELSE InFlight[k + 1]
  BY <1>5, <1>9, RemoveAtProperties
<1>11. InFlight' = RemoveAt(InFlight, n)
  <2>1. \A k \in 1 .. Len(InFlight') : InFlight'[k] = RemoveAt(InFlight, n)[k]
    BY <1>7, <1>8, <1>10 DEF n
  <2> QED
    BY <1>6, <1>7, <1>10, <2>1, SeqEqual
<1> QED
  BY <1>7, <1>11 DEF n

-----------------------------------------------------------------------------
(* The order of the fragments                                              *)

(* The fragments in flight.                                                *)
Pipe == Contents(InFlight)

PipeInv ==
    /\ Pipe \in Seq(Frags) /\ Len(Pipe) = Len(InFlight)
    /\ \A k \in 1 .. Len(InFlight) : Pipe[k] = data[InFlight[k]]

LEMMA PipeHolds == BufferInv => PipeInv
BY FlightHolds, ContentsOf DEF FlightInv, BufferInv, Pipe, PipeInv

LEMMA PipeHoldsNext == BufferInv' => PipeInv'
BY PipeHolds, PTL

(* What is in flight does not change in its buffers.                       *)
LEMMA FlightData ==
    ASSUME BufferInv, FlightInv, [Next]_vars
    PROVE  \A k \in 1 .. Len(InFlight) : data'[InFlight[k]] = data[InFlight[k]]
<1> SUFFICES ASSUME NEW k \in 1 .. Len(InFlight)
             PROVE  data'[InFlight[k]] = data[InFlight[k]]
  OBVIOUS
<1>1. InFlight[k] \in RingBufs \cup ToSet(writeList)
  BY DEF FlightInv
<1> QED
  BY <1>1, DataStable

LEMMA OrderInit == Init => PipelineInOrder
<1> SUFFICES ASSUME Init PROVE PipelineInOrder
  OBVIOUS
<1>1. BufferInv
  BY RangesInit, RingInit, OwnerInit DEF BufferInv, Init, CopyInv
<1>2. InFlight \in Seq(Bufs) /\ Len(InFlight) = 0
  BY <1>1, FlightHolds, TxAssumption DEF FlightInv, Loaded, Dist, Init, Slots
<1>3. Pipe \in Seq(Frags) /\ Len(Pipe) = 0
  BY <1>1, <1>2, PipeHolds DEF PipeInv
<1>4. Pipe = <<>>
  BY <1>3, EmptySeq
<1> QED
  BY <1>4 DEF PipelineInOrder, Pipe, Init

(* As long as the same buffers are in flight, so are the same fragments.   *)
LEMMA PipeSame ==
    ASSUME BufferInv, BufferInv', [Next]_vars, InFlight' = InFlight
    PROVE  Pipe' = Pipe
<1>1. /\ Pipe \in Seq(Frags) /\ Len(Pipe) = Len(InFlight)
      /\ \A k \in 1 .. Len(InFlight) : Pipe[k] = data[InFlight[k]]
  BY PipeHolds DEF PipeInv
<1>2. /\ Pipe' \in Seq(Frags) /\ Len(Pipe') = Len(InFlight)
      /\ \A k \in 1 .. Len(InFlight) : Pipe'[k] = data'[InFlight[k]]
  BY PipeHoldsNext DEF PipeInv
<1>3. \A k \in 1 .. Len(InFlight) : data'[InFlight[k]] = data[InFlight[k]]
  BY FlightHolds, FlightData
<1> QED
  BY <1>1, <1>2, <1>3, SeqEqual

(* The device takes the oldest fragment, unaltered.                        *)
LEMMA PipeConsume ==
    ASSUME BufferInv, BufferInv', [Next]_vars, DeviceConsume
    PROVE  /\ Pipe # <<>> /\ Pipe' = Tail(Pipe)
           /\ delivered' = Append(delivered, Pipe[1])
<1>1. /\ InFlight # <<>> /\ InFlight' = Tail(InFlight) /\ InFlight[1] = td[regHead]
      /\ InFlight \in Seq(Bufs)
  BY FlightHolds, FlightHoldsNext, FlightConsume DEF FlightInv
<1>2. /\ Len(InFlight) \in Nat /\ Len(InFlight) >= 1 /\ Len(InFlight') = Len(InFlight) - 1
      /\ \A k \in 1 .. Len(InFlight) - 1 : InFlight'[k] = InFlight[k + 1]
      /\ InFlight[1] \in Bufs
  BY <1>1, HeadTailProperties, LenProperties, EmptySeq
<1>3. /\ Pipe \in Seq(Frags) /\ Len(Pipe) = Len(InFlight)
      /\ \A k \in 1 .. Len(InFlight) : Pipe[k] = data[InFlight[k]]
  BY PipeHolds DEF PipeInv
<1>4. /\ Pipe' \in Seq(Frags) /\ Len(Pipe') = Len(InFlight')
      /\ \A k \in 1 .. Len(InFlight') : Pipe'[k] = data'[InFlight'[k]]
  BY PipeHoldsNext DEF PipeInv
<1>5. \A k \in 1 .. Len(InFlight) : data'[InFlight[k]] = data[InFlight[k]]
  BY FlightHolds, FlightData
<1>6. Pipe # <<>>
  BY <1>2, <1>3, EmptySeq
<1>7. /\ Tail(Pipe) \in Seq(Frags) /\ Len(Tail(Pipe)) = Len(InFlight) - 1
      /\ \A k \in 1 .. Len(InFlight) - 1 : Tail(Pipe)[k] = Pipe[k + 1]
  BY <1>3, <1>6, HeadTailProperties
<1>8. ASSUME NEW k \in 1 .. Len(InFlight) - 1 PROVE Pipe'[k] = Tail(Pipe)[k]
  <2>1. k + 1 \in 1 .. Len(InFlight)
    BY <1>2
  <2> QED
    BY <1>2, <1>3, <1>4, <1>5, <1>7, <2>1
<1>9. Pipe' = Tail(Pipe)
  BY <1>2, <1>4, <1>7, <1>8, SeqEqual
<1>10. delivered' = Append(delivered, Pipe[1])
  BY <1>1, <1>2, <1>3 DEF DeviceConsume, DmaRead
<1> QED
  BY <1>6, <1>9, <1>10

(* A chain brings its fragments to the end.                                *)
LEMMA PipePut ==
    ASSUME BufferInv, BufferInv', [Next]_vars, NEW i \in Interfaces, WritePut(i)
    PROVE  Pipe' = Pipe \o Contents(chain[i])
<1>1. InFlight' = InFlight \o chain[i] /\ InFlight \in Seq(Bufs) /\ chain[i] \in Seq(Bufs)
  BY FlightHolds, FlightPut DEF FlightInv, BufferInv, Ranges
<1> DEFINE c == chain[i]
           new == Contents(c)
<1>2. /\ new \in Seq(Frags) /\ Len(new) = Len(c)
      /\ \A k \in 1 .. Len(c) : new[k] = data[c[k]]
  BY <1>1, ContentsOf DEF BufferInv
<1>3. c \in Seq(Bufs) /\ InFlight' = InFlight \o c
  BY <1>1
<1>4. data' = data
  BY DEF WritePut
<1> HIDE DEF c, new
<1>5. /\ Len(InFlight) \in Nat /\ Len(c) \in Nat
      /\ Len(InFlight') = Len(InFlight) + Len(c)
      /\ \A k \in 1 .. Len(InFlight) + Len(c) :
            InFlight'[k] = IF k <= Len(InFlight) THEN InFlight[k] ELSE c[k - Len(InFlight)]
  BY <1>1, <1>3, ConcatProperties, LenProperties
<1>6. /\ Pipe \in Seq(Frags) /\ Len(Pipe) = Len(InFlight)
      /\ \A k \in 1 .. Len(InFlight) : Pipe[k] = data[InFlight[k]]
  BY PipeHolds DEF PipeInv
<1>7. /\ Pipe' \in Seq(Frags) /\ Len(Pipe') = Len(InFlight')
      /\ \A k \in 1 .. Len(InFlight') : Pipe'[k] = data'[InFlight'[k]]
  BY PipeHoldsNext DEF PipeInv
<1>8. /\ Pipe \o new \in Seq(Frags) /\ Len(Pipe \o new) = Len(Pipe) + Len(new)
      /\ \A k \in 1 .. Len(Pipe) + Len(new) :
            (Pipe \o new)[k] = IF k <= Len(Pipe) THEN Pipe[k] ELSE new[k - Len(Pipe)]
  <2>1. Pipe \in Seq(Frags) /\ new \in Seq(Frags)
    BY <1>2, <1>6
  <2> QED
    BY <2>1, ConcatProperties
<1>9. ASSUME NEW k \in 1 .. Len(InFlight) + Len(c) PROVE Pipe'[k] = (Pipe \o new)[k]
  <2>1. CASE k <= Len(InFlight)
    BY <1>2, <1>4, <1>5, <1>6, <1>7, <1>8, <2>1
  <2>2. CASE k > Len(InFlight)
    <3>1. k - Len(InFlight) \in 1 .. Len(c) /\ ~(k <= Len(InFlight))
      BY <1>5, <2>2
    <3>2. k \in 1 .. Len(InFlight') /\ k \in 1 .. Len(Pipe) + Len(new)
      BY <1>2, <1>5, <1>6
    <3>3. InFlight'[k] = c[k - Len(InFlight)]
      BY <1>5, <3>1
    <3>4. Pipe'[k] = data[c[k - Len(InFlight)]]
      BY <1>4, <1>7, <3>2, <3>3
    <3>5. (Pipe \o new)[k] = new[k - Len(InFlight)]
      BY <1>6, <1>8, <3>1, <3>2
    <3> QED
      BY <1>2, <3>1, <3>4, <3>5
  <2>3. k <= Len(InFlight) \/ k > Len(InFlight)
    BY <1>5
  <2> QED
    BY <2>1, <2>2, <2>3, Zenon
<1>10. Pipe' = Pipe \o new
  BY <1>2, <1>5, <1>6, <1>7, <1>8, <1>9, SeqEqual
<1> QED
  BY <1>10 DEF new, c

(* A fragment that cannot be mapped leaves its neighbours as they are.     *)
LEMMA PipeMapError ==
    ASSUME BufferInv, BufferInv', [Next]_vars, TxMapError
    PROVE  /\ Loaded + 1 \in 1 .. Len(Pipe)
           /\ Pipe' = RemoveAt(Pipe, Loaded + 1)
<1> DEFINE n == Loaded + 1
<1>1. /\ n \in 1 .. Len(InFlight) /\ InFlight' = RemoveAt(InFlight, n)
      /\ InFlight \in Seq(Bufs)
  BY FlightHolds, FlightHoldsNext, FlightMapError DEF FlightInv
<1> HIDE DEF n
<1>2. /\ Len(InFlight) \in Nat /\ Len(InFlight') = Len(InFlight) - 1
      /\ \A k \in 1 .. Len(InFlight) - 1 :
            InFlight'[k] = IF k < n THEN InFlight[k] ELSE InFlight[k + 1]
  BY <1>1, RemoveAtProperties, LenProperties
<1>3. /\ Pipe \in Seq(Frags) /\ Len(Pipe) = Len(InFlight)
      /\ \A k \in 1 .. Len(InFlight) : Pipe[k] = data[InFlight[k]]
  BY PipeHolds DEF PipeInv
<1>4. /\ Pipe' \in Seq(Frags) /\ Len(Pipe') = Len(InFlight')
      /\ \A k \in 1 .. Len(InFlight') : Pipe'[k] = data'[InFlight'[k]]
  BY PipeHoldsNext DEF PipeInv
<1>5. data' = data
  BY DEF TxMapError
<1>6. n \in 1 .. Len(Pipe)
  BY <1>1, <1>3
<1>7. /\ RemoveAt(Pipe, n) \in Seq(Frags) /\ Len(RemoveAt(Pipe, n)) = Len(Pipe) - 1
      /\ \A k \in 1 .. Len(Pipe) - 1 :
            RemoveAt(Pipe, n)[k] = IF k < n THEN Pipe[k] ELSE Pipe[k + 1]
  BY <1>3, <1>6, RemoveAtProperties
<1>8. ASSUME NEW k \in 1 .. Len(InFlight) - 1 PROVE Pipe'[k] = RemoveAt(Pipe, n)[k]
  <2>1. /\ k \in 1 .. Len(InFlight) /\ k + 1 \in 1 .. Len(InFlight)
        /\ k \in 1 .. Len(InFlight') /\ k \in 1 .. Len(Pipe) - 1
    BY <1>2, <1>3
  <2>2. Pipe'[k] = data[InFlight'[k]]
    BY <1>4, <1>5, <2>1
  <2>3. CASE k < n
    BY <1>2, <1>3, <1>7, <2>1, <2>2, <2>3
  <2>4. CASE ~(k < n)
    <3>1. InFlight'[k] = InFlight[k + 1] /\ RemoveAt(Pipe, n)[k] = Pipe[k + 1]
      BY <1>2, <1>7, <2>1, <2>4
    <3> QED
      BY <1>3, <2>1, <2>2, <3>1
  <2> QED
    BY <2>3, <2>4, Zenon
<1>9. Pipe' = RemoveAt(Pipe, n)
  BY <1>2, <1>3, <1>4, <1>7, <1>8, SeqEqual
<1> QED
  BY <1>6, <1>9 DEF n

(* A step that leaves the window, its slots and the list alone.            *)
LEMMA OrderFrame ==
    ASSUME BufferInv, BufferInv', [Next]_vars, PipelineInOrder,
           UNCHANGED <<regHead, hTail, writeList, queued, delivered>>,
           \A i \in Slots : Within(i, regHead, hTail) => ddr'[i] = ddr[i]
    PROVE  PipelineInOrder'
<1>1. InFlight' = InFlight
  BY FlightHolds, FlightHoldsNext, FlightSame
<1>2. Pipe' = Pipe
  BY <1>1, PipeSame
<1> QED
  BY <1>2 DEF PipelineInOrder, Pipe

LEMMA OrderStep ==
    ASSUME BufferInv, BufferInv', [Next]_vars, PipelineInOrder
    PROVE  PipelineInOrder'
<1>p. queued = delivered \o Pipe
  BY DEF PipelineInOrder, Pipe
<1>q. SUFFICES queued' = delivered' \o Pipe'
  BY DEF PipelineInOrder, Pipe
<1>r. /\ delivered \in Seq(Frags) /\ Pipe \in Seq(Frags)
      /\ \A i \in Interfaces : chain[i] \in Seq(Bufs)
  BY PipeHolds DEF PipeInv, BufferInv, Ranges
<1>f. ASSUME UNCHANGED <<regHead, hTail, writeList, ddr, queued, delivered>>
      PROVE  queued' = delivered' \o Pipe'
  BY <1>f, OrderFrame DEF PipelineInOrder, Pipe
<1>1. CASE TxBegin
  <2>1. UNCHANGED <<regHead, writeList, ddr, queued, delivered>>
    BY <1>1 DEF TxBegin
  <2>2. hTail' = hTail
    BY <1>1 DEF TxBegin, ReadEnds, BufferInv, RingInv
  <2> QED
    BY <1>f, <2>1, <2>2
<1>2. CASE TxClean
  <2>1. /\ UNCHANGED <<regHead, hTail, writeList, queued, delivered>>
        /\ pc = "run" /\ old # hHead /\ ddr' = [ddr EXCEPT ![old] = NULL]
    BY <1>2 DEF TxClean, ClearSlot
  <2>2. /\ regHead \in Slots /\ regTail \in Slots /\ old \in Slots /\ hHead \in Slots
        /\ hTail \in Slots /\ ddr \in [Slots -> Bufs \cup {NULL}]
    BY DEF BufferInv, Ranges
  <2>3. /\ Dist(old, hHead) <= Dist(old, regHead)
        /\ Dist(old, regHead) + Dist(regHead, regTail) + Dist(regTail, hTail) < NDesc
    BY <2>1 DEF BufferInv, RingInv, RingInOrder
  <2>4. ~Within(old, regHead, hTail)
    BY <2>1, <2>2, <2>3, TxAssumption DEF Within, Dist, Slots
  <2>5. \A i \in Slots : Within(i, regHead, hTail) => ddr'[i] = ddr[i]
    BY <2>1, <2>2, <2>4
  <2> QED
    BY <2>1, <2>5, OrderFrame DEF PipelineInOrder, Pipe
<1>3. CASE TxFill
  <2>1. InFlight' = InFlight
    BY <1>3, FlightHolds, FlightHoldsNext, FlightFill
  <2>2. Pipe' = Pipe /\ UNCHANGED <<queued, delivered>>
    BY <1>3, <2>1, PipeSame DEF TxFill
  <2> QED
    BY <1>p, <2>2
<1>4. CASE TxMapError
  <2>1. Loaded + 1 \in 1 .. Len(Pipe) /\ Pipe' = RemoveAt(Pipe, Loaded + 1)
    BY <1>4, PipeMapError
  <2>2. queued' = RemoveAt(queued, Len(delivered) + Dist(regHead, hTail) + 1)
        /\ delivered' = delivered
    BY <1>4 DEF TxMapError
  <2>3. Loaded \in Nat /\ Len(delivered) \in Nat
    BY <1>r, FlightHolds, TxAssumption, LenProperties DEF FlightInv
  <2>4. Len(delivered) + Dist(regHead, hTail) + 1 = Len(delivered) + (Loaded + 1)
    BY <2>3 DEF Loaded
  <2>5. \A s, t \in Seq(Frags) : \A n \in 1 .. Len(t) :
            RemoveAt(s \o t, Len(s) + n) = s \o RemoveAt(t, n)
    BY RemoveAtConcat
  <2>6. RemoveAt(delivered \o Pipe, Len(delivered) + (Loaded + 1))
            = delivered \o RemoveAt(Pipe, Loaded + 1)
    BY <1>r, <2>1, <2>5, Zenon
  <2> QED
    BY <1>p, <2>1, <2>2, <2>4, <2>6
<1>5. CASE DeviceConsume
  <2>1. /\ Pipe # <<>> /\ Pipe' = Tail(Pipe) /\ delivered' = Append(delivered, Pipe[1])
        /\ queued' = queued
    BY <1>5, PipeConsume DEF DeviceConsume
  <2>2. Append(delivered, Pipe[1]) \o Tail(Pipe) = delivered \o Pipe
    BY <1>r, <2>1, HeadMovesOver
  <2> QED
    BY <1>p, <2>1, <2>2
<1>6. ASSUME NEW i \in Interfaces, WritePut(i)
      PROVE  queued' = delivered' \o Pipe'
  <2>1. /\ Pipe' = Pipe \o Contents(chain[i]) /\ delivered' = delivered
        /\ queued' = queued \o Contents(chain[i])
    BY <1>6, PipePut DEF WritePut
  <2>2. Contents(chain[i]) \in Seq(Frags)
    BY <1>r, ContentsOf DEF BufferInv
  <2>3. \A s, t, u \in Seq(Frags) : (s \o t) \o u = s \o (t \o u)
    BY ConcatAssociative
  <2>4. (delivered \o Pipe) \o Contents(chain[i]) = delivered \o (Pipe \o Contents(chain[i]))
    BY <1>r, <2>2, <2>3, Zenon
  <2> QED
    BY <1>p, <2>1, <2>4
<1>7. CASE TxFillDone
  BY <1>7, <1>f DEF TxFillDone
<1>8. CASE TxPublish
  BY <1>8, <1>f DEF TxPublish
<1>9. CASE TxBell
  BY <1>9, <1>f DEF TxBell
<1>10. CASE TxWake
  BY <1>10, <1>f DEF TxWake
<1>11. CASE SendDoorbell
  BY <1>11, <1>f DEF SendDoorbell
<1>12. CASE Interrupt
  BY <1>12, <1>f DEF Interrupt
<1>13. ASSUME NEW i \in Interfaces, NEW n \in 0 .. MaxLen, Write(i, n)
       PROVE  queued' = delivered' \o Pipe'
  BY <1>13, <1>f DEF Write
<1>14. ASSUME NEW i \in Interfaces, WriteAlloc(i)
       PROVE  queued' = delivered' \o Pipe'
  BY <1>14, <1>f DEF WriteAlloc
<1>15. ASSUME NEW i \in Interfaces, WriteCopy(i)
       PROVE  queued' = delivered' \o Pipe'
  BY <1>15, <1>f DEF WriteCopy
<1>16. ASSUME NEW i \in Interfaces, WriteStop(i) \/ WriteStart(i) \/ PollSleep(i)
       PROVE  queued' = delivered' \o Pipe'
  BY <1>16, <1>f DEF WriteStop, WriteStart, PollSleep
<1>17. CASE DeviceDone
  BY <1>17, <1>f DEF DeviceDone
<1>18. CASE DeviceDown \/ OtherDirection
  BY <1>18, <1>f DEF DeviceDown, OtherDirection
<1>19. CASE UNCHANGED vars
  BY <1>19, <1>f DEF vars
<1> QED
  BY <1>1, <1>2, <1>3, <1>4, <1>5, <1>6, <1>7, <1>8, <1>9, <1>10, <1>11, <1>12,
     <1>13, <1>14, <1>15, <1>16, <1>17, <1>18, <1>19
  DEF Next, TxHandler, WriteCall, DeviceWork

(* Nothing is lost, repeated, reordered or overwritten between write() and *)
(* the device: PipelineInOrder holds in every reachable state, for rings   *)
(* and pools of any size and any number of interfaces.                     *)
THEOREM FragmentsStayInOrder == Spec => []PipelineInOrder
<1>1. BufferInv /\ BufferInv' /\ [Next]_vars /\ PipelineInOrder => PipelineInOrder'
  BY OrderStep
<1> QED
  BY <1>1, OrderInit, BuffersHold, PTL DEF Spec

(* The type invariant of the transmit path.                                *)
THEOREM TypesHold == Spec => []TypeOK
<1>1. BufferInv /\ PipelineInOrder => TypeOK
  <2> SUFFICES ASSUME BufferInv, PipelineInOrder PROVE TypeOK
    OBVIOUS
  <2>1. Ranges /\ delivered \in Seq(Frags) /\ Pipe \in Seq(Frags)
    BY PipeHolds DEF BufferInv, PipeInv, Ranges
  <2>2. queued = delivered \o Pipe
    BY DEF PipelineInOrder, Pipe
  <2>3. queued \in Seq(Frags)
    BY <2>1, <2>2, ConcatProperties
  <2> QED
    BY <2>1, <2>3 DEF TypeOK
<1> QED
  BY <1>1, FragmentsStayInOrder, BuffersHold, PTL

-----------------------------------------------------------------------------
(* The transmit path implements the FIFO                                   *)

(* What is appended extends what was there.                                *)
LEMMA ConcatExtends ==
    ASSUME NEW S, NEW s \in Seq(S), NEW t \in Seq(S), t # <<>>
    PROVE  s \o t \in Seq(S) /\ IsStrictPrefix(s, s \o t)
<1>1. /\ Len(s) \in Nat /\ Len(t) \in Nat /\ Len(t) >= 1
  BY LenProperties, EmptySeq
<1> DEFINE w == s \o t
<1>2. /\ w \in Seq(S) /\ Len(w) = Len(s) + Len(t)
      /\ \A k \in 1 .. Len(s) + Len(t) : w[k] = IF k <= Len(s) THEN s[k] ELSE t[k - Len(s)]
  BY ConcatProperties
<1> HIDE DEF w
<1>3. /\ SubSeq(w, 1, Len(s)) \in Seq(S) /\ Len(SubSeq(w, 1, Len(s))) = Len(s)
      /\ \A k \in 1 .. Len(s) : SubSeq(w, 1, Len(s))[k] = w[k]
  BY <1>1, <1>2, SubSeqProperties
<1>4. /\ SubSeq(s, 1, Len(s)) \in Seq(S) /\ Len(SubSeq(s, 1, Len(s))) = Len(s)
      /\ \A k \in 1 .. Len(s) : SubSeq(s, 1, Len(s))[k] = s[k]
  BY <1>1, SubSeqProperties
<1>5. SubSeq(w, 1, Len(s)) = SubSeq(s, 1, Len(s))
  BY <1>1, <1>2, <1>3, <1>4, SeqEqual
<1>6. w # s /\ Len(s) <= Len(w)
  BY <1>1, <1>2
<1> QED
  BY <1>2, <1>5, <1>6 DEF IsStrictPrefix, IsPrefix, w

LEMMA FifoStep ==
    ASSUME BufferInv, BufferInv', [Next]_vars, PipelineInOrder
    PROVE  [Fifo!Next]_(Fifo!vars)
<1>f. ASSUME UNCHANGED <<queued, delivered>>
      PROVE  [Fifo!Next]_(Fifo!vars)
  BY <1>f DEF Fifo!vars
<1>1. /\ queued = delivered \o Pipe
      /\ delivered \in Seq(Frags) /\ Pipe \in Seq(Frags)
      /\ Len(delivered) \in Nat /\ Len(Pipe) \in Nat
  BY PipeHolds, LenProperties DEF PipelineInOrder, Pipe, PipeInv, BufferInv, Ranges
<1>2. /\ queued \in Seq(Frags) /\ Len(queued) = Len(delivered) + Len(Pipe)
      /\ \A k \in 1 .. Len(delivered) + Len(Pipe) :
            queued[k] = IF k <= Len(delivered) THEN delivered[k] ELSE Pipe[k - Len(delivered)]
  BY <1>1, ConcatProperties
<1>3. ASSUME NEW i \in Interfaces, WritePut(i)
      PROVE  [Fifo!Next]_(Fifo!vars)
  <2>1. chain[i] \in Seq(Bufs)
    BY DEF BufferInv, Ranges
  <2>2. queued' = queued \o Contents(chain[i]) /\ delivered' = delivered
    BY <1>3 DEF WritePut
  <2>3. Contents(chain[i]) \in Seq(Frags)
    BY <2>1, ContentsOf DEF BufferInv
  <2>4. CASE Contents(chain[i]) = <<>>
    <3>1. queued' = queued
      BY <1>2, <2>2, <2>4, ConcatEmptySeq
    <3> QED
      BY <1>f, <2>2, <3>1
  <2>5. CASE Contents(chain[i]) # <<>>
    <3>1. queued' \in Seq(Frags) /\ IsStrictPrefix(queued, queued')
      BY <1>2, <2>2, <2>3, <2>5, ConcatExtends
    <3> QED
      BY <2>2, <3>1
      DEF Fifo!Next, Fifo!Accept, Fifo!IsStrictPrefix, Fifo!IsPrefix, IsStrictPrefix, IsPrefix
  <2> QED
    BY <2>4, <2>5
<1>4. CASE DeviceConsume
  <2>1. Pipe # <<>> /\ delivered' = Append(delivered, Pipe[1]) /\ queued' = queued
    BY <1>4, PipeConsume DEF DeviceConsume
  <2>2. Len(Pipe) >= 1
    BY <1>1, <2>1, EmptySeq
  <2>3. Len(delivered) + 1 \in 1 .. Len(delivered) + Len(Pipe)
        /\ ~(Len(delivered) + 1 <= Len(delivered))
        /\ (Len(delivered) + 1) - Len(delivered) = 1
    BY <1>1, <2>2
  <2>4. Len(delivered) < Len(queued) /\ queued[Len(delivered) + 1] = Pipe[1]
    BY <1>1, <1>2, <2>2, <2>3
  <2> QED
    BY <2>1, <2>4 DEF Fifo!Next, Fifo!Deliver
<1>5. CASE TxMapError
  <2> DEFINE k == Len(delivered) + Dist(regHead, hTail) + 1
  <2>1. queued' = RemoveAt(queued, k) /\ delivered' = delivered
    BY <1>5 DEF TxMapError
  <2>2. Loaded \in Nat /\ Loaded + 1 \in 1 .. Len(Pipe)
    BY <1>5, PipeMapError, FlightHolds, TxAssumption DEF FlightInv
  <2>3. k \in (Len(delivered) + 1) .. Len(queued) /\ k \in 1 .. Len(queued)
    BY <1>1, <1>2, <2>2 DEF Loaded
  <2> HIDE DEF k
  <2>4. Fifo!GiveUp(k)
    BY <2>1, <2>3 DEF Fifo!GiveUp, Fifo!RemoveAt, RemoveAt
  <2> QED
    BY <2>3, <2>4 DEF Fifo!Next
<1>6. CASE TxHandler /\ ~TxMapError
  BY <1>6, <1>f
  DEF TxHandler, TxBegin, TxClean, TxFill, TxFillDone, TxPublish, TxBell, TxWake
<1>7. CASE SendDoorbell \/ Interrupt \/ DeviceDone \/ DeviceDown \/ OtherDirection
  BY <1>7, <1>f DEF SendDoorbell, Interrupt, DeviceDone, DeviceDown, OtherDirection
<1>8. ASSUME NEW i \in Interfaces, NEW n \in 0 .. MaxLen, Write(i, n)
      PROVE  [Fifo!Next]_(Fifo!vars)
  BY <1>8, <1>f DEF Write
<1>9. ASSUME NEW i \in Interfaces,
             WriteAlloc(i) \/ WriteCopy(i) \/ WriteStop(i) \/ WriteStart(i) \/ PollSleep(i)
      PROVE  [Fifo!Next]_(Fifo!vars)
  BY <1>9, <1>f DEF WriteAlloc, WriteCopy, WriteStop, WriteStart, PollSleep
<1>10. CASE UNCHANGED vars
  BY <1>10, <1>f DEF vars
<1> QED
  BY <1>3, <1>4, <1>5, <1>6, <1>7, <1>8, <1>9, <1>10 DEF Next, WriteCall, DeviceWork

(* The transmit path implements the FIFO of MxlkFifo: a write() whose      *)
(* chain joins the list is an Accept, a descriptor the device consumes is  *)
(* a Deliver, a mapping failure gives one fragment up, and no other step   *)
(* of any actor shows.                                                     *)
THEOREM TransmitIsFifo == Spec => IsFifo
<1>1. Init => Fifo!Init
  BY DEF Init, Fifo!Init
<1>2. BufferInv /\ BufferInv' /\ [Next]_vars /\ PipelineInOrder => [Fifo!Next]_(Fifo!vars)
  BY FifoStep
<1> QED
  BY <1>1, <1>2, BuffersHold, FragmentsStayInOrder, PTL DEF Spec, IsFifo, Fifo!Spec
=============================================================================
