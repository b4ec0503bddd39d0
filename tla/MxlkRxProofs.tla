---------------------------- MODULE MxlkRxProofs ----------------------------
(***************************************************************************)
(* Proofs about MxlkRx, for every ring size, set of buffers, set of        *)
(* interfaces and set of descriptors the device may produce: the ranges of *)
(* the variables, the order of the marks on the ring and with it the slots *)
(* the device may write, the owners of the buffers, the signals, and the   *)
(* bytes a reader gets.                                                    *)
(***************************************************************************)
EXTENDS MxlkRx, SequenceTheorems, WellFoundedInduction, TLAPS

(* The groups of variables only abbreviate the frame of an action.         *)
USE DEF device, lists, work, handler, calls, history

-----------------------------------------------------------------------------
(* The ranges of the variables                                             *)

(* MXLK_CIRCULAR_INC stays on the ring.                                    *)
LEMMA IncIsNext ==
    ASSUME NEW i \in Slots
    PROVE  Inc(i) = (IF i = NDesc - 1 THEN 0 ELSE i + 1) /\ Inc(i) \in Slots
BY RxAssumption DEF Inc, Slots

(* What read() copies at once: no more than is asked for, nor than there is.*)
LEMMA MinOfTwo ==
    ASSUME NEW a \in Nat, NEW b \in Nat
    PROVE  Min({a, b}) \in Nat /\ Min({a, b}) <= a /\ Min({a, b}) <= b
<1>1. \E x \in {a, b} : \A y \in {a, b} : x <= y
  <2>1. CASE a <= b
    BY <2>1
  <2>2. CASE b <= a
    BY <2>2
  <2> QED
    BY <2>1, <2>2
<1> QED
  BY <1>1 DEF Min

(* The length in a descriptor is a number, also in one that reads as ones. *)
LEMMA HeaderLength ==
    \A h \in Headers \cup {NoHdr} :
        h.len \in Nat /\ h.interface \in Interfaces \cup {BadInterface}
BY RxAssumption DEF NoHdr

(* Two fields of the buffers change, of the same buffer or of two.         *)
BufRecs == [Bufs -> [frag : Nat, off : Nat, len : Nat]]

LEMMA FieldsChange ==
    ASSUME NEW f \in BufRecs, NEW a \in Bufs, NEW b \in Bufs, NEW m \in Nat, NEW n \in Nat
    PROVE  [f EXCEPT ![a].off = m, ![b].len = n] \in BufRecs
<1> DEFINE r == [f[a] EXCEPT !.off = m]
           g == [f EXCEPT ![a] = r]
           t == [g[b] EXCEPT !.len = n]
<1>1. r \in [frag : Nat, off : Nat, len : Nat]
  <2>1. f[a] \in [frag : Nat, off : Nat, len : Nat]
    BY DEF BufRecs
  <2> QED
    BY <2>1
<1>2. g \in BufRecs
  BY <1>1 DEF BufRecs
<1>3. t \in [frag : Nat, off : Nat, len : Nat]
  <2>1. g[b] \in [frag : Nat, off : Nat, len : Nat]
    BY <1>2 DEF BufRecs
  <2> QED
    BY <2>1
<1>4. [g EXCEPT ![b] = t] \in BufRecs
  BY <1>2, <1>3 DEF BufRecs
<1> QED
  BY <1>4

(* The bytes a read() copies at once.                                      *)
LEMMA BytesCopied ==
    ASSUME NEW b \in Bufs, bd \in BufRecs, NEW n \in Nat, n <= bd[b].len
    PROVE  SubSeq(Bytes(b), 1, n) \in Seq(Nat \X Nat)
<1>1. bd[b] \in [frag : Nat, off : Nat, len : Nat]
  BY DEF BufRecs
<1>2. \A k \in 1 .. bd[b].len : <<bd[b].frag, bd[b].off + k>> \in Nat \X Nat
  BY <1>1
<1>3. \A k \in 1 .. n : Bytes(b)[k] \in Nat \X Nat
  BY <1>1, <1>2 DEF Bytes
<1> QED
  BY <1>3, SubSeqProperties

LEMMA TypeInit == Init => TypeOK
<1> SUFFICES ASSUME Init PROVE TypeOK
  OBVIOUS
<1>1. ddr \in [Slots -> Bufs] /\ tdAddr \in [Slots -> Bufs \cup {NULL}]
  BY DEF Init
<1>2. bd \in [Bufs -> [frag : Nat, off : Nat, len : Nat]]
  BY DEF Init
<1>3. /\ readList \in [Interfaces -> Seq(Bufs)]
      /\ out \in [Interfaces -> Seq(Nat \X Nat)] /\ sent \in Seq(Headers)
  BY DEF Init
<1> QED
  BY <1>1, <1>2, <1>3 DEF Init, TypeOK

LEMMA TypeStep == TypeOK /\ [Next]_vars => TypeOK'
<1> SUFFICES ASSUME TypeOK, [Next]_vars PROVE TypeOK'
  OBVIOUS
<1> USE DEF TypeOK
<1>1. CASE RxBegin
  BY <1>1 DEF RxBegin
<1>2. ASSUME NEW new \in rxPool, NEW mapped \in BOOLEAN, RxTake(new, mapped)
      PROVE  TypeOK'
  <2> DEFINE filled == ddr[hHead]
             hdr == HdrRead(hHead)
             good == hdr.ok /\ hdr.interface \in Interfaces
  <2>1. /\ new \in Bufs /\ filled \in Bufs
        /\ hdr.len \in Nat
    BY HeaderLength DEF HdrRead
  <2>2. bd' \in [Bufs -> [frag : Nat, off : Nat, len : Nat]]
    <3> DEFINE len == hdr.len
    <3>1. bd' = [bd EXCEPT ![new].off = 0, ![filled].len = len]
      BY <1>2 DEF RxTake, SwapBd
    <3>2. len \in Nat /\ bd \in BufRecs
      BY <2>1 DEF BufRecs
    <3> HIDE DEF filled, len
    <3>3. [bd EXCEPT ![new].off = 0, ![filled].len = len] \in BufRecs
      BY <2>1, <3>2, FieldsChange
    <3> QED
      BY <3>1, <3>3 DEF BufRecs
  <2>3. rxPool' \subseteq Bufs /\ asleep' \subseteq Interfaces
    BY <1>2, <2>1 DEF RxTake, WakeReaders
  <2>4. readList' \in [Interfaces -> Seq(Bufs)]
    <3>1. CASE good
      <4> DEFINE i == hdr.interface
                 list == Append(readList[i], filled)
      <4>1. readList' = [readList EXCEPT ![i] = list]
        BY <1>2, <3>1 DEF RxTake
      <4>2. i \in Interfaces /\ readList[i] \in Seq(Bufs)
        BY <3>1
      <4>3. list \in Seq(Bufs)
        BY <2>1, <4>2
      <4> HIDE DEF i, list
      <4> QED
        BY <4>1, <4>2, <4>3
    <3>2. CASE ~good
      BY <1>2, <3>2 DEF RxTake
    <3> QED
      BY <3>1, <3>2
  <2>5. ddr' \in [Slots -> Bufs] /\ tdAddr' \in [Slots -> Bufs \cup {NULL}]
    BY <1>2, <2>1 DEF RxTake, SetAddr
  <2>6. mapErrors' \in Nat /\ hHead' \in Slots
    BY <1>2, IncIsNext DEF RxTake
  <2> QED
    BY <1>2, <2>2, <2>3, <2>4, <2>5, <2>6 DEF RxTake
<1>3. CASE RxNoReplacement \/ RxTakenAll
  BY <1>3 DEF RxNoReplacement, RxTakenAll
<1>4. CASE RxPublish
  BY <1>4 DEF RxPublish
<1>5. CASE RxBell
  BY <1>5 DEF RxBell
<1>6. CASE RxEnd
  BY <1>6 DEF RxEnd, Restart
<1>7. CASE SendDoorbell
  BY <1>7 DEF SendDoorbell
<1>8. CASE Interrupt
  BY <1>8 DEF Interrupt
<1>9. ASSUME NEW i \in Interfaces, GetNext(i)
      PROVE  /\ cur' \in [Interfaces -> Bufs \cup {NULL}]
             /\ readList' \in [Interfaces -> Seq(Bufs)]
  <2>1. readList[i] # <<>> =>
            Head(readList[i]) \in Bufs /\ Tail(readList[i]) \in Seq(Bufs)
    OBVIOUS
  <2> QED
    BY <1>9, <2>1 DEF GetNext
<1>10. ASSUME NEW i \in Interfaces, NEW n \in 0 .. MaxRead, Read(i, n)
       PROVE  TypeOK'
  <2>1. n \in Nat
    BY RxAssumption
  <2>2. /\ cur' \in [Interfaces -> Bufs \cup {NULL}]
        /\ readList' \in [Interfaces -> Seq(Bufs)]
    BY <1>9, <1>10 DEF Read, ResumePartial
  <2> QED
    BY <1>10, <2>1, <2>2 DEF Read
<1>11. ASSUME NEW i \in Interfaces, ReadCopy(i)
       PROVE  TypeOK'
  <2>1. PICK b \in Bufs, n \in Nat :
            /\ n <= want[i] /\ n <= bd[b].len
            /\ out' = [out EXCEPT ![i] = @ \o SubSeq(Bytes(b), 1, n)]
            /\ want' = [want EXCEPT ![i] = @ - n]
            /\ bd' = [bd EXCEPT ![b].off = bd[b].off + n, ![b].len = bd[b].len - n]
            /\ rxPool' = rxPool \/ rxPool' = rxPool \cup {b}
    <3> DEFINE b == cur[i]
               n == Min({want[i], bd[b].len})
    <3>1. b \in Bufs /\ bd[b].len \in Nat /\ want[i] \in Nat
      BY <1>11 DEF ReadCopy, Copying
    <3>2. n \in Nat /\ n <= want[i] /\ n <= bd[b].len
      BY <3>1, MinOfTwo
    <3>3. /\ out' = [out EXCEPT ![i] = @ \o SubSeq(Bytes(b), 1, n)]
          /\ want' = [want EXCEPT ![i] = @ - n]
          /\ bd' = [bd EXCEPT ![b].off = bd[b].off + n, ![b].len = bd[b].len - n]
      BY <1>11 DEF ReadCopy, Advance
    <3>4. rxPool' = rxPool \/ rxPool' = rxPool \cup {b}
      BY <1>11 DEF ReadCopy
    <3> HIDE DEF b, n
    <3> QED
      BY <3>1, <3>2, <3>3, <3>4
  <2>2. bd[b] \in [frag : Nat, off : Nat, len : Nat] /\ want[i] \in Nat
    OBVIOUS
  <2>3. want[i] - n \in Nat /\ bd[b].off + n \in Nat /\ bd[b].len - n \in Nat
    <3>1. bd[b].off \in Nat /\ bd[b].len \in Nat
      BY <2>2
    <3>2. n <= want[i] /\ n <= bd[b].len
      BY <2>1
    <3>3. \A x, y \in Nat : x + y \in Nat /\ (y <= x => x - y \in Nat)
      OBVIOUS
    <3> QED
      BY <2>2, <3>1, <3>2, <3>3, Zenon
  <2>4. SubSeq(Bytes(b), 1, n) \in Seq(Nat \X Nat)
    BY <2>1, BytesCopied DEF BufRecs
  <2>5. out' \in [Interfaces -> Seq(Nat \X Nat)]
    <3> DEFINE bytes == SubSeq(Bytes(b), 1, n)
               all == out[i] \o bytes
    <3>1. out' = [out EXCEPT ![i] = all]
      BY <2>1
    <3>2. all \in Seq(Nat \X Nat)
      BY <2>4, ConcatProperties
    <3> HIDE DEF all
    <3> QED
      BY <3>1, <3>2
  <2>6. bd' \in [Bufs -> [frag : Nat, off : Nat, len : Nat]]
    <3> DEFINE off == bd[b].off + n
               len == bd[b].len - n
    <3>1. bd' = [bd EXCEPT ![b].off = off, ![b].len = len]
      BY <2>1
    <3>2. off \in Nat /\ len \in Nat /\ bd \in BufRecs
      BY <2>3 DEF BufRecs
    <3> HIDE DEF off, len
    <3>3. [bd EXCEPT ![b].off = off, ![b].len = len] \in BufRecs
      BY <3>2, FieldsChange
    <3> QED
      BY <3>1, <3>3 DEF BufRecs
  <2>7. want' \in [Interfaces -> Nat]
    <3> DEFINE rest == want[i] - n
    <3>1. rest \in Nat /\ want' = [want EXCEPT ![i] = rest]
      BY <2>1, <2>3
    <3> HIDE DEF rest
    <3> QED
      BY <3>1
  <2>9. rxPool' \subseteq Bufs
    BY <2>1
  <2>8. /\ cur' \in [Interfaces -> Bufs \cup {NULL}]
        /\ rpc' \in [Interfaces -> {"idle", "copy", "next"}]
    BY <1>11 DEF ReadCopy
  <2> QED
    BY <1>11, <2>5, <2>6, <2>7, <2>8, <2>9 DEF ReadCopy
<1>12. ASSUME NEW i \in Interfaces, ReadNext(i)
       PROVE  TypeOK'
  BY <1>9, <1>12 DEF ReadNext
<1>13. ASSUME NEW i \in Interfaces, ReadEnd(i)
       PROVE  TypeOK'
  BY <1>13 DEF ReadEnd
<1>14. ASSUME NEW i \in Interfaces, PollSleep(i)
       PROVE  TypeOK'
  BY <1>14 DEF PollSleep
<1>15. ASSUME NEW hdr \in Headers, NEW signal \in BOOLEAN, DeviceSend(hdr, signal)
       PROVE  TypeOK'
  <2>1. sent' \in Seq(Headers) /\ Len(sent) + 1 \in Nat
    BY <1>15 DEF DeviceSend
  <2>2. bd' \in [Bufs -> [frag : Nat, off : Nat, len : Nat]]
    <3>1. CASE tdAddr[regTail] = NULL
      BY <1>15, <3>1 DEF DeviceSend
    <3>2. CASE tdAddr[regTail] # NULL
      <4> DEFINE b == tdAddr[regTail]
                 n == Len(sent) + 1
      <4>1. b \in Bufs /\ bd' = [bd EXCEPT ![b].frag = n]
        BY <1>15, <3>2 DEF DeviceSend
      <4> HIDE DEF b, n
      <4> QED
        BY <2>1, <4>1 DEF n
    <3> QED
      BY <3>1, <3>2
  <2>3. tdHdr' \in [Slots -> Headers \cup {NoHdr}] /\ regTail' \in Slots
    BY <1>15, IncIsNext DEF DeviceSend
  <2> QED
    BY <1>15, <2>1, <2>2, <2>3 DEF DeviceSend
<1>16. CASE DeviceStall
  BY <1>16 DEF DeviceStall
<1>17. CASE DeviceSignal
  BY <1>17 DEF DeviceSignal
<1>18. CASE DeviceDown
  BY <1>18 DEF DeviceDown
<1>19. CASE OtherDirection
  BY <1>19 DEF OtherDirection
<1>20. CASE UNCHANGED vars
  BY <1>20 DEF vars
<1> QED
  BY <1>1, <1>2, <1>3, <1>4, <1>5, <1>6, <1>7, <1>8, <1>10, <1>11, <1>12, <1>13, <1>14,
     <1>15, <1>16, <1>17, <1>18, <1>19, <1>20 DEF Next, RxHandler, ReadCall, DeviceWork

(* Every variable of the receive path keeps to its range.                  *)
THEOREM ReceiveTypes == Spec => []TypeOK
BY TypeInit, TypeStep, PTL DEF Spec

-----------------------------------------------------------------------------
(* The ring                                                                *)

(* The host has taken, or is about to publish, what lies before this mark. *)
Mark == IF up /\ pc \in {"run", "publish"} THEN hHead ELSE regHead

(* DeviceWindowMapped is not inductive: while the handler runs, slots it   *)
(* has not published yet are already mapped, and must stay so until they   *)
(* are; and its marks must lie between those of the device.                *)
RingInv ==
    /\ Dist(regHead, regTail) < NDesc
    /\ pc \in {"run", "publish"} =>
        Dist(regHead, hHead) + Dist(hHead, hTail) + Dist(hTail, regTail) < NDesc
    /\ \A i \in Slots :
        ~Within(i, Mark, regTail) => tdAddr[i] = ddr[i] \/ (tdAddr[i] = NULL /\ mapErrors > 0)

LEMMA RingInit == Init => RingInv
BY RxAssumption DEF Init, RingInv, Mark, Within, Dist, Slots

(* The variables RingInv speaks of, but for pc.                            *)
ring == <<up, regHead, regTail, tdAddr, ddr, hHead, hTail, mapErrors>>

(* A step that leaves the ring alone and neither starts nor ends a run.    *)
LEMMA RingFrame ==
    ASSUME RingInv, UNCHANGED ring,
           pc' \in {"run", "publish"} <=> pc \in {"run", "publish"}
    PROVE  RingInv'
BY DEF RingInv, Mark, Within, Dist, ring

LEMMA RingStep == TypeOK /\ RingInv /\ [Next]_vars => RingInv'
<1> SUFFICES ASSUME TypeOK, RingInv, [Next]_vars PROVE RingInv'
  OBVIOUS
<1> USE DEF ring
<1>m. /\ regHead \in Slots /\ regTail \in Slots /\ hHead \in Slots /\ hTail \in Slots
      /\ ddr \in [Slots -> Bufs] /\ tdAddr \in [Slots -> Bufs \cup {NULL}]
      /\ mapErrors \in Nat /\ up \in BOOLEAN
  BY DEF TypeOK
<1>1. CASE RxBegin
  BY SMTT(30), <1>1, <1>m, RxAssumption DEF RxBegin, RingInv, Mark, Within, Dist, Slots
<1>2. ASSUME NEW new \in rxPool, NEW mapped \in BOOLEAN, RxTake(new, mapped)
      PROVE  RingInv'
  <2>1. /\ pc = "run" /\ hHead # hTail /\ hHead' = Inc(hHead)
        /\ ddr' = [ddr EXCEPT ![hHead] = new]
        /\ tdAddr' = IF up THEN [tdAddr EXCEPT ![hHead] = IF mapped THEN new ELSE NULL]
                     ELSE tdAddr
        /\ mapErrors' = mapErrors + (IF mapped THEN 0 ELSE 1)
        /\ UNCHANGED <<up, regHead, regTail, pc, hTail>>
    BY <1>2 DEF RxTake, SetAddr
  <2>2. hHead' \in Slots /\ hHead' = (IF hHead = NDesc - 1 THEN 0 ELSE hHead + 1)
    BY <2>1, <1>m, IncIsNext
  <2>3. Dist(regHead, hHead') + Dist(hHead', hTail) + Dist(hTail, regTail) < NDesc
    BY <2>1, <2>2, <1>m, RxAssumption DEF RingInv, Dist, Slots
  <2>4. ASSUME NEW i \in Slots, ~Within(i, Mark', regTail)
        PROVE  tdAddr'[i] = ddr'[i] \/ (tdAddr'[i] = NULL /\ mapErrors' > 0)
    <3>1. CASE up /\ i = hHead
      BY <2>1, <3>1, <1>m
    <3>2. CASE up /\ i # hHead
      <4>1. ~Within(i, hHead, regTail)
        BY <2>1, <2>2, <2>4, <3>2, <1>m, RxAssumption DEF RingInv, Mark, Within, Dist, Slots
      <4> QED
        BY <2>1, <3>2, <4>1, <1>m DEF RingInv, Mark
    <3>3. CASE ~up
      <4>1. i # hHead /\ ~Within(i, regHead, regTail)
        BY <2>1, <2>4, <3>3, <1>m, RxAssumption DEF RingInv, Mark, Within, Dist, Slots
      <4> QED
        BY <2>1, <3>3, <4>1, <1>m DEF RingInv, Mark
    <3> QED
      BY <3>1, <3>2, <3>3
  <2>5. Dist(regHead', regTail') < NDesc
    BY <2>1 DEF RingInv, Dist
  <2>6. Dist(regHead', hHead') + Dist(hHead', hTail') + Dist(hTail', regTail') < NDesc
    BY <2>1, <2>3
  <2>7. \A i \in Slots : ~Within(i, Mark', regTail') =>
            tdAddr'[i] = ddr'[i] \/ (tdAddr'[i] = NULL /\ mapErrors' > 0)
    BY <2>1, <2>4
  <2> QED
    BY <2>5, <2>6, <2>7 DEF RingInv, Dist, Within
<1>3. CASE RxNoReplacement \/ RxTakenAll
  BY <1>3, RingFrame DEF RxNoReplacement, RxTakenAll
<1>4. CASE RxPublish
  <2>1. /\ pc = "publish" /\ pc' \in {"bell", "restart"}
        /\ regHead' = Mark
        /\ UNCHANGED <<up, regTail, tdAddr, ddr, hHead, hTail, mapErrors>>
    BY <1>4 DEF RxPublish, Mark
  <2>2. Dist(Mark, regTail) < NDesc
    BY <2>1, <1>m, RxAssumption DEF RingInv, Mark, Dist, Slots
  <2>3. Mark' = Mark
    BY <2>1 DEF Mark
  <2> QED
    BY <2>1, <2>2, <2>3 DEF RingInv, Dist, Within
<1>5. CASE RxBell \/ RxEnd \/ SendDoorbell \/ Interrupt
  BY <1>5, RingFrame DEF RxBell, RxEnd, SendDoorbell, Interrupt
<1>6. ASSUME NEW i \in Interfaces,
             \/ \E n \in 0 .. MaxRead : Read(i, n)
             \/ ReadCall(i) \/ PollSleep(i)
      PROVE  RingInv'
  BY <1>6, RingFrame DEF Read, ReadCall, ReadCopy, ReadNext, ReadEnd, PollSleep
<1>7. ASSUME NEW hdr \in Headers, NEW signal \in BOOLEAN, DeviceSend(hdr, signal)
      PROVE  RingInv'
  <2>1. /\ regTail' = Inc(regTail) /\ Inc(regTail) # regHead
        /\ UNCHANGED <<up, regHead, tdAddr, ddr, pc, hHead, hTail, mapErrors>>
    BY <1>7 DEF DeviceSend, RingFull
  <2>2. regTail' \in Slots /\ regTail' = (IF regTail = NDesc - 1 THEN 0 ELSE regTail + 1)
    BY <2>1, <1>m, IncIsNext
  <2>3. /\ Dist(regHead, regTail') < NDesc
        /\ pc \in {"run", "publish"} =>
            Dist(regHead, hHead) + Dist(hHead, hTail) + Dist(hTail, regTail') < NDesc
    BY SMTT(30), <2>1, <2>2, <1>m, RxAssumption DEF RingInv, Dist, Slots
  <2>4. ASSUME NEW i \in Slots, ~Within(i, Mark, regTail')
        PROVE  ~Within(i, Mark, regTail)
    BY SMTT(30), <2>1, <2>2, <2>3, <2>4, <1>m, RxAssumption
    DEF RingInv, Mark, Within, Dist, Slots
  <2>5. Mark' = Mark
    BY <2>1 DEF Mark
  <2>6. \A i \in Slots : ~Within(i, Mark', regTail') =>
            tdAddr'[i] = ddr'[i] \/ (tdAddr'[i] = NULL /\ mapErrors' > 0)
    BY <2>1, <2>4, <2>5 DEF RingInv
  <2> QED
    BY <2>1, <2>3, <2>6 DEF RingInv, Dist, Within
<1>8. CASE DeviceStall \/ DeviceSignal
  BY <1>8, RingFrame DEF DeviceStall, DeviceSignal
<1>9. CASE DeviceDown
  <2>1. /\ up /\ ~up'
        /\ UNCHANGED <<regHead, regTail, tdAddr, ddr, pc, hHead, hTail, mapErrors>>
    BY <1>9 DEF DeviceDown
  <2>2. Mark' = regHead
    BY <2>1 DEF Mark
  <2>3. ASSUME NEW i \in Slots, ~Within(i, regHead, regTail)
        PROVE  ~Within(i, Mark, regTail)
    BY <2>3, <1>m, RxAssumption DEF RingInv, Mark, Within, Dist, Slots
  <2> QED
    BY <2>1, <2>2, <2>3 DEF RingInv, Dist, Within
<1>10. CASE OtherDirection
  BY <1>10, RingFrame DEF OtherDirection
<1>11. CASE UNCHANGED vars
  BY <1>11, RingFrame DEF vars
<1> QED
  BY <1>1, <1>2, <1>3, <1>4, <1>5, <1>6, <1>7, <1>8, <1>9, <1>10, <1>11
  DEF Next, RxHandler, DeviceWork

LEMMA WindowFromRing == TypeOK /\ RingInv => DeviceWindowMapped
<1> SUFFICES ASSUME TypeOK, RingInv, NEW i \in Slots, ~Within(i, regHead, regTail)
             PROVE  tdAddr[i] = ddr[i] \/ (tdAddr[i] = NULL /\ mapErrors > 0)
  BY DEF DeviceWindowMapped
<1>1. ~Within(i, Mark, regTail)
  BY RxAssumption DEF TypeOK, RingInv, Mark, Within, Dist, Slots
<1> QED
  BY <1>1 DEF RingInv

(* DMA never reaches a buffer that a reader or the pool has: wherever the  *)
(* device may write next, the descriptor names the buffer in the slot.     *)
THEOREM WindowStaysMapped == Spec => []DeviceWindowMapped
BY TypeInit, TypeStep, RingInit, RingStep, WindowFromRing, PTL DEF Spec

-----------------------------------------------------------------------------
(* The owners of the buffers                                               *)

LEMMA EmptyList == ToSet(<<>>) = {} /\ IsInjective(<<>>)
BY DEF ToSet, IsInjective

(* A buffer put at the end of a list.                                      *)
LEMMA AppendBuf ==
    ASSUME NEW S, NEW s \in Seq(S), NEW b \in S, b \notin ToSet(s), IsInjective(s)
    PROVE  /\ ToSet(Append(s, b)) = ToSet(s) \cup {b}
           /\ IsInjective(Append(s, b))
<1>1. ToSet(Append(s, b)) = ToSet(s) \cup {b}
  BY AppendProperties DEF ToSet
<1>2. IsInjective(Append(s, b))
  BY AppendProperties DEF ToSet, IsInjective
<1> QED
  BY <1>1, <1>2

(* The buffer in use comes before those on the list; it leaves, or another *)
(* one joins the list.                                                     *)
LEMMA InFront ==
    ASSUME NEW S, NEW x \in S, NEW s \in Seq(S)
    PROVE  /\ <<x>> \o s \in Seq(S)
           /\ ToSet(<<x>> \o s) = {x} \cup ToSet(s)
           /\ IsInjective(<<x>> \o s) => IsInjective(s) /\ x \notin ToSet(s)
           /\ \A b \in S : <<x>> \o Append(s, b) = Append(<<x>> \o s, b)
<1> DEFINE t == <<x>> \o s
<1>1. /\ t \in Seq(S) /\ Len(t) = Len(s) + 1 /\ t[1] = x
      /\ \A k \in 1 .. Len(s) : t[k + 1] = s[k]
  OBVIOUS
<1>2. DOMAIN t = 1 .. Len(s) + 1 /\ DOMAIN s = 1 .. Len(s) /\ Len(s) \in Nat
  BY <1>1
<1>3. \A b \in S : <<x>> \o Append(s, b) = Append(t, b)
  OBVIOUS
<1> HIDE DEF t
<1>4. \A k \in 2 .. Len(s) + 1 : t[k] = s[k - 1] /\ k - 1 \in 1 .. Len(s)
  <2> TAKE k \in 2 .. Len(s) + 1
  <2>1. k - 1 \in 1 .. Len(s) /\ k = (k - 1) + 1
    BY <1>2
  <2> QED
    BY <1>1, <2>1
<1>5. ToSet(t) = {x} \cup ToSet(s)
  <2>1. ToSet(t) \subseteq {x} \cup ToSet(s)
    <3>1. \A k \in DOMAIN t : k = 1 \/ (k - 1 \in DOMAIN s /\ t[k] = s[k - 1])
      BY <1>1, <1>2, <1>4
    <3> QED
      BY <1>1, <3>1 DEF ToSet
  <2>2. x \in ToSet(t)
    BY <1>1, <1>2 DEF ToSet
  <2>3. ToSet(s) \subseteq ToSet(t)
    BY <1>1, <1>2 DEF ToSet
  <2> QED
    BY <2>1, <2>2, <2>3
<1>6. ASSUME IsInjective(t) PROVE IsInjective(s) /\ x \notin ToSet(s)
  <2>1. \A k \in DOMAIN s : k + 1 \in DOMAIN t /\ k + 1 # 1 /\ t[k + 1] = s[k]
    BY <1>1, <1>2
  <2>2. 1 \in DOMAIN t /\ t[1] = x
    BY <1>1, <1>2
  <2>3. \A k, m \in DOMAIN s : k + 1 = m + 1 => k = m
    BY <1>2
  <2>4. IsInjective(s)
    BY <1>6, <2>1, <2>3 DEF IsInjective
  <2>5. ASSUME NEW k \in DOMAIN s, s[k] = x PROVE FALSE
    BY <1>6, <2>1, <2>2, <2>5 DEF IsInjective
  <2> QED
    BY <2>4, <2>5 DEF ToSet
<1> QED
  BY <1>1, <1>3, <1>5, <1>6 DEF t

(* The head of a list, in front of the rest, is the list.                  *)
LEMMA HeadInFront ==
    ASSUME NEW S, NEW s \in Seq(S), s # <<>>
    PROVE  Head(s) \in S /\ <<Head(s)>> \o Tail(s) = s
OBVIOUS

(* A read() looks for its next buffer when it has none.                    *)
OwnerInv ==
    /\ OneOwner
    /\ \A i \in Interfaces : rpc[i] = "next" => cur[i] = NULL

LEMMA OwnerInit == Init => OwnerInv
<1> SUFFICES ASSUME Init PROVE OwnerInv
  OBVIOUS
<1>1. \A i \in Interfaces : Waiting(i) = <<>>
  BY DEF Init, Waiting, InUse
<1>2. \A i \in Interfaces : ToSet(Waiting(i)) = {} /\ IsInjective(Waiting(i))
  BY <1>1, EmptyList
<1>3. IsInjective(ddr) /\ ddr \in [Slots -> Bufs] /\ rxPool = Bufs \ {ddr[i] : i \in Slots}
  BY DEF Init
<1> QED
  BY <1>2, <1>3 DEF Init, OwnerInv, OneOwner

LEMMA WaitingType ==
    ASSUME TypeOK, NEW i \in Interfaces
    PROVE  /\ Waiting(i) \in Seq(Bufs)
           /\ InUse(i) = NULL => Waiting(i) = readList[i]
           /\ InUse(i) # NULL => InUse(i) \in Bufs /\ Waiting(i) = <<InUse(i)>> \o readList[i]
<1>1. readList[i] \in Seq(Bufs) /\ InUse(i) \in Bufs \cup {NULL}
  BY DEF TypeOK, InUse
<1>2. CASE InUse(i) = NULL
  <2>1. Waiting(i) = <<>> \o readList[i]
    BY <1>2 DEF Waiting
  <2> QED
    BY <1>1, <1>2, <2>1, ConcatEmptySeq
<1>3. CASE InUse(i) # NULL
  <2>1. Waiting(i) = <<InUse(i)>> \o readList[i] /\ InUse(i) \in Bufs
    BY <1>1, <1>3 DEF Waiting
  <2> QED
    BY <1>1, <1>3, <2>1, InFront
<1> QED
  BY <1>2, <1>3

(* No buffer changes hands if the pool, the ring and what waits for each   *)
(* reader stay the same.                                                   *)
LEMMA OwnerFrame ==
    ASSUME OwnerInv, UNCHANGED <<rxPool, ddr>>,
           \A i \in Interfaces : Waiting(i)' = Waiting(i),
           \A i \in Interfaces : rpc[i]' = "next" => cur[i]' = NULL
    PROVE  OwnerInv'
BY DEF OwnerInv, OneOwner

LEMMA OwnerSame ==
    ASSUME OwnerInv, UNCHANGED <<rxPool, ddr, readList, rpc, cur, partial>>
    PROVE  OwnerInv'
BY OwnerFrame DEF OwnerInv, Waiting, InUse

(* Getting a buffer from the list moves it to the front of what is waiting.*)
LEMMA GetKeepsWaiting ==
    ASSUME TypeOK, NEW i \in Interfaces, InUse(i) = NULL, GetNext(i), rpc'[i] = "copy",
           \A j \in Interfaces \ {i} : rpc'[j] = rpc[j],
           UNCHANGED partial
    PROVE  \A j \in Interfaces : Waiting(j)' = Waiting(j)
<1>t. /\ readList \in [Interfaces -> Seq(Bufs)]
      /\ cur \in [Interfaces -> Bufs \cup {NULL}]
  BY DEF TypeOK
<1>1. Waiting(i)' = Waiting(i)
  <2>1. CASE readList[i] = <<>>
    BY <1>t, <2>1 DEF GetNext, Waiting, InUse
  <2>2. CASE readList[i] # <<>>
    <3>1. /\ Head(readList[i]) \in Bufs /\ Head(readList[i]) # NULL
          /\ <<Head(readList[i])>> \o Tail(readList[i]) = readList[i]
      BY <1>t, <2>2, HeadInFront, RxAssumption
    <3>2. cur'[i] = Head(readList[i]) /\ readList'[i] = Tail(readList[i])
      BY <1>t, <2>2 DEF GetNext
    <3>3. InUse(i)' = Head(readList[i])
      BY <3>2 DEF InUse
    <3>4. Waiting(i)' = <<Head(readList[i])>> \o Tail(readList[i])
      BY <3>1, <3>2, <3>3 DEF Waiting
    <3>5. Waiting(i) = readList[i]
      BY WaitingType
    <3> QED
      BY <3>1, <3>4, <3>5
  <2> QED
    BY <2>1, <2>2
<1>2. ASSUME NEW j \in Interfaces \ {i}
      PROVE  Waiting(j)' = Waiting(j)
  BY <1>2, <1>t DEF GetNext, Waiting, InUse
<1> QED
  BY <1>1, <1>2

(* So a read() that starts, goes on to its next buffer or ends leaves what *)
(* is waiting as it is.                                                    *)
LEMMA ReadKeepsWaiting ==
    ASSUME TypeOK, OwnerInv, NEW i \in Interfaces,
           (\E n \in 0 .. MaxRead : Read(i, n)) \/ ReadNext(i) \/ ReadEnd(i)
    PROVE  \A j \in Interfaces : Waiting(j)' = Waiting(j)
<1>t. /\ cur \in [Interfaces -> Bufs \cup {NULL}]
      /\ partial \in [Interfaces -> Bufs \cup {NULL}]
      /\ rpc \in [Interfaces -> {"idle", "copy", "next"}]
  BY DEF TypeOK
<1>1. ASSUME NEW n \in 0 .. MaxRead, Read(i, n)
      PROVE  \A j \in Interfaces : Waiting(j)' = Waiting(j)
  <2>1. rpc[i] = "idle" /\ rpc' = [rpc EXCEPT ![i] = "copy"] /\ UNCHANGED partial
    BY <1>1 DEF Read
  <2>2. rpc'[i] = "copy" /\ \A j \in Interfaces \ {i} : rpc'[j] = rpc[j]
    BY <1>t, <2>1
  <2>3. CASE partial[i] = NULL /\ GetNext(i)
    <3>1. InUse(i) = NULL
      BY <2>1, <2>3 DEF InUse
    <3> QED
      BY <2>1, <2>2, <2>3, <3>1, GetKeepsWaiting
  <2>4. CASE partial[i] # NULL /\ cur' = [cur EXCEPT ![i] = partial[i]] /\ UNCHANGED readList
    BY <1>t, <2>1, <2>4 DEF Waiting, InUse
  <2> QED
    BY <1>1, <2>3, <2>4 DEF Read, ResumePartial
<1>2. CASE ReadNext(i)
  <2>1. /\ rpc[i] = "next" /\ rpc' = [rpc EXCEPT ![i] = "copy"] /\ GetNext(i)
        /\ UNCHANGED partial
    BY <1>2 DEF ReadNext
  <2>2. rpc'[i] = "copy" /\ \A j \in Interfaces \ {i} : rpc'[j] = rpc[j]
    BY <1>t, <2>1
  <2>3. InUse(i) = NULL
    BY <2>1 DEF OwnerInv, InUse
  <2> QED
    BY <2>1, <2>2, <2>3, GetKeepsWaiting
<1>3. CASE ReadEnd(i)
  <2>1. /\ rpc[i] = "copy" /\ rpc' = [rpc EXCEPT ![i] = "idle"]
        /\ partial' = [partial EXCEPT ![i] = cur[i]]
        /\ cur' = [cur EXCEPT ![i] = NULL]
        /\ UNCHANGED readList
    BY <1>3 DEF ReadEnd
  <2>2. ASSUME NEW j \in Interfaces
        PROVE  InUse(j)' = InUse(j)
    BY <1>t, <2>1 DEF InUse
  <2> QED
    BY <2>1, <2>2 DEF Waiting
<1> QED
  BY <1>1, <1>2, <1>3

(* A buffer put on a read list is the last of what waits for its reader.   *)
LEMMA TakenIsLast ==
    ASSUME TypeOK, NEW j \in Interfaces, NEW b \in Bufs,
           readList' = [readList EXCEPT ![j] = Append(@, b)],
           UNCHANGED <<rpc, cur, partial>>
    PROVE  /\ Waiting(j)' = Append(Waiting(j), b)
           /\ \A i \in Interfaces \ {j} : Waiting(i)' = Waiting(i)
<1>t. /\ readList \in [Interfaces -> Seq(Bufs)]
      /\ \A i \in Interfaces : InUse(i)' = InUse(i) /\ InUse(i) \in Bufs \cup {NULL}
  BY DEF TypeOK, InUse
<1>1. Waiting(j)' = Append(Waiting(j), b)
  <2>1. readList[j]' = Append(readList[j], b) /\ readList[j] \in Seq(Bufs)
    BY <1>t
  <2>2. CASE InUse(j) = NULL
    <3>1. Waiting(j) = <<>> \o readList[j] /\ Waiting(j)' = <<>> \o readList[j]'
      BY <1>t, <2>2 DEF Waiting
    <3>2. readList[j]' \in Seq(Bufs)
      BY <2>1, AppendProperties
    <3> QED
      BY <2>1, <3>1, <3>2, ConcatEmptySeq
  <2>3. CASE InUse(j) # NULL
    <3>1. PICK x \in Bufs : x = InUse(j)
      BY <1>t, <2>3
    <3>2. Waiting(j) = <<x>> \o readList[j] /\ Waiting(j)' = <<x>> \o readList[j]'
      BY <1>t, <2>3, <3>1 DEF Waiting
    <3> QED
      BY <2>1, <3>2, InFront
  <2> QED
    BY <2>2, <2>3
<1>2. \A i \in Interfaces \ {j} : Waiting(i)' = Waiting(i)
  BY <1>t DEF Waiting
<1> QED
  BY <1>1, <1>2

LEMMA OwnerStep == TypeOK /\ OwnerInv /\ [Next]_vars => OwnerInv'
<1> SUFFICES ASSUME TypeOK, OwnerInv, [Next]_vars PROVE OwnerInv'
  OBVIOUS
<1>t. /\ rxPool \subseteq Bufs /\ ddr \in [Slots -> Bufs] /\ hHead \in Slots
      /\ readList \in [Interfaces -> Seq(Bufs)]
      /\ cur \in [Interfaces -> Bufs \cup {NULL}]
      /\ partial \in [Interfaces -> Bufs \cup {NULL}]
      /\ rpc \in [Interfaces -> {"idle", "copy", "next"}]
  BY DEF TypeOK
<1>1. ASSUME NEW new \in rxPool, NEW mapped \in BOOLEAN, RxTake(new, mapped)
      PROVE  OwnerInv'
  <2>1. PICK filled \in Bufs : filled = ddr[hHead]
    BY <1>t
  <2>2. /\ ddr' = [ddr EXCEPT ![hHead] = new]
        /\ UNCHANGED <<rpc, cur, partial>>
    BY <1>1 DEF RxTake
  <2>3. \A i \in Interfaces : InUse(i)' = InUse(i)
    BY <2>2 DEF InUse
  <2> DEFINE ringBufs == {ddr[i] : i \in Slots}
  <2>4. new \in Bufs /\ new \notin ringBufs /\ filled \in ringBufs /\ filled \notin rxPool
    BY <2>1, <1>t DEF OwnerInv, OneOwner
  <2>5. IsInjective(ddr')
    BY <2>2, <2>4, <1>t DEF OwnerInv, OneOwner, IsInjective
  <2>6. ringBufs' = (ringBufs \ {filled}) \cup {new}
    BY <2>1, <2>2, <2>4, <1>t DEF OwnerInv, OneOwner, IsInjective
  <2>7. \A i \in Interfaces :
            new \notin ToSet(Waiting(i)) /\ filled \notin ToSet(Waiting(i))
    BY <2>4 DEF OwnerInv, OneOwner
  <2>8. CASE /\ rxPool' = (rxPool \ {new}) \cup {filled}
             /\ UNCHANGED readList
    <3>1. \A i \in Interfaces : Waiting(i)' = Waiting(i)
      BY <2>3, <2>8 DEF Waiting
    <3> HIDE DEF ringBufs
    <3>2. /\ rxPool \cap ringBufs = {}
          /\ \A i \in Interfaces : ToSet(Waiting(i)) \cap (rxPool \cup ringBufs) = {}
          /\ Bufs = rxPool \cup ringBufs \cup UNION {ToSet(Waiting(i)) : i \in Interfaces}
      BY DEF OwnerInv, OneOwner, ringBufs
    <3>3. /\ rxPool' \cap ringBufs' = {}
          /\ \A i \in Interfaces : ToSet(Waiting(i)) \cap (rxPool' \cup ringBufs') = {}
          /\ Bufs = rxPool' \cup ringBufs' \cup UNION {ToSet(Waiting(i)) : i \in Interfaces}
      BY <2>4, <2>6, <2>7, <2>8, <3>2
    <3> QED
      BY <2>2, <2>5, <3>1, <3>3 DEF OwnerInv, OneOwner, ringBufs
  <2>9. ASSUME NEW j \in Interfaces,
               rxPool' = rxPool \ {new},
               readList' = [readList EXCEPT ![j] = Append(@, filled)]
        PROVE  OwnerInv'
    <3>1. /\ Waiting(j)' = Append(Waiting(j), filled)
          /\ \A i \in Interfaces \ {j} : Waiting(i)' = Waiting(i)
      BY <2>2, <2>9, TakenIsLast
    <3>2. \A i \in Interfaces \ {j} : Waiting(i)' = Waiting(i)
      BY <3>1
    <3>3. /\ ToSet(Waiting(j)') = ToSet(Waiting(j)) \cup {filled}
          /\ IsInjective(Waiting(j)')
      <4>1. Waiting(j) \in Seq(Bufs)
        BY WaitingType
      <4>2. IsInjective(Waiting(j)) /\ filled \notin ToSet(Waiting(j))
        BY <2>7 DEF OwnerInv, OneOwner
      <4> QED
        BY <3>1, <4>1, <4>2, AppendBuf
    <3> DEFINE w(i) == ToSet(Waiting(i))
    <3>4. w(j)' = w(j) \cup {filled} /\ \A i \in Interfaces \ {j} : w(i)' = w(i)
      BY <3>2, <3>3
    <3>5. \A i \in Interfaces : IsInjective(Waiting(i)')
      BY <3>2, <3>3 DEF OwnerInv, OneOwner
    <3>6. /\ rxPool \cap ringBufs = {}
          /\ \A i \in Interfaces : w(i) \cap (rxPool \cup ringBufs) = {}
          /\ \A i \in Interfaces : \A k \in Interfaces \ {i} : w(i) \cap w(k) = {}
          /\ Bufs = rxPool \cup ringBufs \cup UNION {w(i) : i \in Interfaces}
          /\ \A i \in Interfaces : new \notin w(i) /\ filled \notin w(i)
      BY <2>7 DEF OwnerInv, OneOwner
    <3> HIDE DEF ringBufs, w
    <3>7. rxPool' \cap ringBufs' = {}
      BY <2>4, <2>6, <2>9, <3>6
    <3>8. \A i \in Interfaces : w(i)' \cap (rxPool' \cup ringBufs') = {}
      BY <2>4, <2>6, <2>9, <3>4, <3>6
    <3>9. \A i \in Interfaces : \A k \in Interfaces \ {i} : w(i)' \cap w(k)' = {}
      BY <3>4, <3>6
    <3>10. Bufs = rxPool' \cup ringBufs' \cup UNION {w(i)' : i \in Interfaces}
      <4>1. \A x : (\E i \in Interfaces : x \in w(i)')
                      <=> (x = filled \/ \E i \in Interfaces : x \in w(i))
        BY <3>4, ZenonT(60)
      <4>2. \A x : x \in Bufs <=> x \in rxPool \/ x \in ringBufs \/ \E i \in Interfaces : x \in w(i)
        BY <3>6
      <4>3. \A x : x \in Bufs <=>
                x \in rxPool' \/ x \in ringBufs' \/ \E i \in Interfaces : x \in w(i)'
        BY <2>4, <2>6, <2>9, <4>1, <4>2
      <4> QED
        BY <4>3
    <3> QED
      BY <2>2, <2>5, <3>5, <3>7, <3>8, <3>9, <3>10 DEF OwnerInv, OneOwner, ringBufs, w
  <2> QED
    BY <1>1, <2>1, <2>8, <2>9 DEF RxTake
<1>2. ASSUME NEW i \in Interfaces,
             (\E n \in 0 .. MaxRead : Read(i, n)) \/ ReadNext(i) \/ ReadEnd(i)
      PROVE  OwnerInv'
  <2>1. \A j \in Interfaces : Waiting(j)' = Waiting(j)
    BY <1>2, ReadKeepsWaiting
  <2>2. \A j \in Interfaces : rpc'[j] = "next" => rpc[j] = "next" /\ cur'[j] = cur[j]
    BY <1>2, <1>t DEF Read, ReadNext, ReadEnd, ResumePartial, GetNext
  <2>3. UNCHANGED <<rxPool, ddr>>
    BY <1>2 DEF Read, ReadNext, ReadEnd
  <2> QED
    BY <2>1, <2>2, <2>3, OwnerFrame DEF OwnerInv
<1>4. ASSUME NEW i \in Interfaces, ReadCopy(i)
      PROVE  OwnerInv'
  <2>1. PICK b \in Bufs : b = cur[i] /\ b # NULL
    BY <1>4, <1>t DEF ReadCopy, Copying
  <2>2. rpc[i] = "copy" /\ UNCHANGED <<ddr, readList, partial>>
    BY <1>4 DEF ReadCopy, Copying
  <2>3. CASE UNCHANGED <<rxPool, cur, rpc>>
    BY <2>2, <2>3, OwnerSame
  <2>4. CASE /\ rxPool' = rxPool \cup {b}
             /\ cur' = [cur EXCEPT ![i] = NULL]
             /\ rpc' = [rpc EXCEPT ![i] = "next"]
    <3>1. Waiting(i) = <<b>> \o readList[i] /\ Waiting(i)' = readList[i]
      BY <1>t, <2>1, <2>2, <2>4 DEF Waiting, InUse
    <3>2. \A j \in Interfaces \ {i} : Waiting(j)' = Waiting(j)
      BY <1>t, <2>2, <2>4 DEF Waiting, InUse
    <3> DEFINE w(j) == ToSet(Waiting(j))
               ringBufs == {ddr[k] : k \in Slots}
    <3>3. /\ ToSet(Waiting(i)) = {b} \cup ToSet(readList[i])
          /\ IsInjective(readList[i]) /\ b \notin ToSet(readList[i])
      <4>1. readList[i] \in Seq(Bufs) /\ IsInjective(Waiting(i))
        BY <1>t DEF OwnerInv, OneOwner
      <4> QED
        BY <3>1, <4>1, InFront
    <3>4. w(i) = {b} \cup w(i)' /\ b \notin w(i)' /\ \A j \in Interfaces \ {i} : w(j)' = w(j)
      BY <3>1, <3>2, <3>3
    <3>5. \A j \in Interfaces : IsInjective(Waiting(j)')
      BY <3>1, <3>2, <3>3 DEF OwnerInv, OneOwner
    <3>6. /\ rxPool \cap ringBufs = {} /\ ringBufs' = ringBufs /\ ddr' = ddr
          /\ IsInjective(ddr)
          /\ \A j \in Interfaces : w(j) \cap (rxPool \cup ringBufs) = {}
          /\ \A j \in Interfaces : \A k \in Interfaces \ {j} : w(j) \cap w(k) = {}
          /\ Bufs = rxPool \cup ringBufs \cup UNION {w(j) : j \in Interfaces}
      BY <2>2 DEF OwnerInv, OneOwner
    <3> HIDE DEF w, ringBufs
    <3>7. rxPool' \cap ringBufs' = {}
      BY <2>4, <3>4, <3>6
    <3>8. \A j \in Interfaces : w(j)' \cap (rxPool' \cup ringBufs') = {}
      BY <2>4, <3>4, <3>6
    <3>9. \A j \in Interfaces : \A k \in Interfaces \ {j} : w(j)' \cap w(k)' = {}
      BY <3>4, <3>6
    <3>10. Bufs = rxPool' \cup ringBufs' \cup UNION {w(j)' : j \in Interfaces}
      <4>1. \A x : (\E j \in Interfaces : x \in w(j))
                      <=> (x = b \/ \E j \in Interfaces : x \in w(j)')
        BY <3>4, ZenonT(60)
      <4>2. \A x : x \in Bufs <=> x \in rxPool \/ x \in ringBufs \/ \E j \in Interfaces : x \in w(j)
        BY <3>6
      <4>3. \A x : x \in Bufs <=>
                x \in rxPool' \/ x \in ringBufs' \/ \E j \in Interfaces : x \in w(j)'
        BY <2>4, <3>6, <4>1, <4>2
      <4> QED
        BY <4>3
    <3>11. \A j \in Interfaces : rpc'[j] = "next" => cur'[j] = NULL
      BY <1>t, <2>4 DEF OwnerInv
    <3>12. IsInjective(ddr')
      BY <3>6
    <3> QED
      BY <3>5, <3>7, <3>8, <3>9, <3>10, <3>11, <3>12 DEF OwnerInv, OneOwner, w, ringBufs
  <2> QED
    BY <1>4, <2>1, <2>3, <2>4 DEF ReadCopy
<1>7. CASE RxBegin \/ RxNoReplacement \/ RxTakenAll \/ RxPublish \/ RxBell \/ RxEnd
  BY <1>7, OwnerSame
  DEF RxBegin, RxNoReplacement, RxTakenAll, RxPublish, RxBell, RxEnd
<1>8. CASE \/ SendDoorbell \/ Interrupt \/ DeviceStall
           \/ DeviceSignal \/ DeviceDown \/ OtherDirection
  BY <1>8, OwnerSame
  DEF SendDoorbell, Interrupt, DeviceStall, DeviceSignal, DeviceDown, OtherDirection
<1>9. ASSUME NEW hdr \in Headers, NEW signal \in BOOLEAN, DeviceSend(hdr, signal)
      PROVE  OwnerInv'
  BY <1>9, OwnerSame DEF DeviceSend
<1>10. ASSUME NEW i \in Interfaces, PollSleep(i)
       PROVE  OwnerInv'
  BY <1>10, OwnerSame DEF PollSleep
<1>11. CASE UNCHANGED vars
  BY <1>11, OwnerSame DEF vars
<1> QED
  BY <1>1, <1>2, <1>4, <1>7, <1>8, <1>9, <1>10, <1>11
  DEF Next, RxHandler, ReadCall, DeviceWork

(* A buffer of the receive path is in one place only and never in none.    *)
THEOREM BuffersHaveOneOwner == Spec => []OneOwner
<1>1. OwnerInv => OneOwner
  BY DEF OwnerInv
<1> QED
  BY <1>1, TypeInit, TypeStep, OwnerInit, OwnerStep, PTL DEF Spec

-----------------------------------------------------------------------------
(* The signals                                                             *)

(* As long as no thread polls an interface while another one reads from it,*)
(* who sleeps has no read() in progress and nothing to read.               *)
SleepInv == \A i \in asleep : rpc[i] = "idle" /\ ~DataAvailable(i)

LEMMA SleepStep == ~PollWhileReading /\ TypeOK /\ SleepInv /\ [Next]_vars => SleepInv'
<1> SUFFICES ASSUME ~PollWhileReading, TypeOK, SleepInv, [Next]_vars PROVE SleepInv'
  OBVIOUS
<1>t. /\ asleep \subseteq Interfaces
      /\ rpc \in [Interfaces -> {"idle", "copy", "next"}]
      /\ partial \in [Interfaces -> Bufs \cup {NULL}]
      /\ readList \in [Interfaces -> Seq(Bufs)]
  BY DEF TypeOK
<1>1. CASE UNCHANGED <<rpc, partial, readList, asleep>>
  BY <1>1 DEF SleepInv, DataAvailable
<1>2. ASSUME NEW new \in rxPool, NEW mapped \in BOOLEAN, RxTake(new, mapped)
      PROVE  SleepInv'
  <2>1. CASE UNCHANGED <<readList, asleep>>
    BY <1>1, <1>2, <2>1 DEF RxTake
  <2>2. ASSUME NEW j \in Interfaces, NEW b,
               readList' = [readList EXCEPT ![j] = Append(@, b)],
               asleep' = asleep \ {j}
        PROVE  SleepInv'
    <3>1. \A i \in asleep' : i \in asleep /\ readList'[i] = readList[i]
      BY <1>t, <2>2
    <3>2. UNCHANGED <<rpc, partial>>
      BY <1>2 DEF RxTake
    <3> QED
      BY <3>1, <3>2 DEF SleepInv, DataAvailable
  <2> QED
    BY <1>2, <2>1, <2>2 DEF RxTake, WakeReaders
<1>3. ASSUME NEW i \in Interfaces,
             i \notin asleep, UNCHANGED asleep,
             \A j \in Interfaces \ {i} :
                rpc'[j] = rpc[j] /\ partial'[j] = partial[j] /\ readList'[j] = readList[j]
      PROVE  SleepInv'
  BY <1>t, <1>3 DEF SleepInv, DataAvailable
<1>4. ASSUME NEW i \in Interfaces, NEW n \in 0 .. MaxRead, Read(i, n)
      PROVE  SleepInv'
  BY <1>t, <1>3, <1>4 DEF Read, ResumePartial, GetNext
<1>5. ASSUME NEW i \in Interfaces, ReadCopy(i)
      PROVE  SleepInv'
  <2>1. i \notin asleep
    BY <1>5 DEF ReadCopy, Copying, SleepInv
  <2>2. \A j \in Interfaces \ {i} : rpc'[j] = rpc[j]
    BY <1>t, <1>5 DEF ReadCopy
  <2> QED
    BY <1>t, <1>3, <1>5, <2>1, <2>2 DEF ReadCopy
<1>6. ASSUME NEW i \in Interfaces, ReadNext(i)
      PROVE  SleepInv'
  BY <1>t, <1>3, <1>6 DEF ReadNext, GetNext, SleepInv
<1>7. ASSUME NEW i \in Interfaces, ReadEnd(i)
      PROVE  SleepInv'
  BY <1>t, <1>3, <1>7 DEF ReadEnd, SleepInv
<1>8. ASSUME NEW i \in Interfaces, PollSleep(i)
      PROVE  SleepInv'
  BY <1>8 DEF PollSleep, SleepInv, DataAvailable
<1>9. CASE RxBegin \/ RxNoReplacement \/ RxTakenAll \/ RxPublish \/ RxBell \/ RxEnd
  BY <1>1, <1>9 DEF RxBegin, RxNoReplacement, RxTakenAll, RxPublish, RxBell, RxEnd
<1>10. CASE \/ SendDoorbell \/ Interrupt \/ DeviceStall
            \/ DeviceSignal \/ DeviceDown \/ OtherDirection
  BY <1>1, <1>10 DEF SendDoorbell, Interrupt, DeviceStall, DeviceSignal, DeviceDown,
                     OtherDirection
<1>11. ASSUME NEW hdr \in Headers, NEW signal \in BOOLEAN, DeviceSend(hdr, signal)
       PROVE  SleepInv'
  BY <1>1, <1>11 DEF DeviceSend
<1>12. CASE UNCHANGED vars
  BY <1>1, <1>12 DEF vars
<1> QED
  BY <1>2, <1>4, <1>5, <1>6, <1>7, <1>8, <1>9, <1>10, <1>11, <1>12
  DEF Next, RxHandler, ReadCall, DeviceWork

(* With one thread per interface nobody sleeps for POLLIN over data.       *)
THEOREM NobodySleepsOverData ==
    ~PollWhileReading => (Spec => []NoSleepWithData)
<1>1. Init => SleepInv
  BY DEF Init, SleepInv
<1>2. SleepInv => NoSleepWithData
  BY DEF SleepInv, NoSleepWithData
<1>3. ASSUME ~PollWhileReading PROVE Spec => []NoSleepWithData
  <2>1. TypeOK /\ SleepInv /\ [Next]_vars => SleepInv'
    BY <1>3, SleepStep
  <2> QED
    BY <1>1, <1>2, <2>1, TypeInit, TypeStep, PTL DEF Spec
<1> QED
  BY <1>3

(* What rx_event has yet to see: the tail moved after the handler read it, *)
(* and then an interrupt is due; or the handler stopped early, and then it *)
(* is about to ask for another run.                                        *)
SignalInv ==
    /\ StallNotForgotten
    /\ DescriptorsNotForgotten
    /\ up => /\ pc # "idle" /\ hTail # regTail => owes \/ msi \/ rxPending
             /\ pc \in {"bell", "restart"} => regHead = hHead
             /\ pc \in {"publish", "bell", "restart"} /\ ~restart => hHead = hTail

LEMMA SignalInit == Init => SignalInv
BY DEF Init, SignalInv, StallNotForgotten, DescriptorsNotForgotten

LEMMA SignalStep == TypeOK /\ SignalInv /\ [Next]_vars => SignalInv'
<1> SUFFICES ASSUME TypeOK, SignalInv, [Next]_vars PROVE SignalInv'
  OBVIOUS
<1> USE DEF SignalInv, StallNotForgotten, DescriptorsNotForgotten, RingFull, Inc
<1>t. /\ rxPending \in BOOLEAN /\ dbPending \in BOOLEAN /\ restart \in BOOLEAN
      /\ up \in BOOLEAN /\ stalled \in BOOLEAN /\ owes \in BOOLEAN /\ msi \in BOOLEAN
  BY DEF TypeOK
<1>1. CASE UNCHANGED <<up, regHead, regTail, stalled, owes, msi, rxPending, dbPending,
                       pc, hHead, hTail, restart>>
  BY <1>1
<1>2. CASE RxBegin
  BY <1>2 DEF RxBegin
<1>3. ASSUME NEW new \in rxPool, NEW mapped \in BOOLEAN, RxTake(new, mapped)
      PROVE  SignalInv'
  BY <1>3 DEF RxTake
<1>4. CASE RxNoReplacement
  BY <1>4 DEF RxNoReplacement
<1>5. CASE RxTakenAll
  BY <1>5 DEF RxTakenAll
<1>6. CASE RxPublish
  BY <1>6 DEF RxPublish, HeadMoved
<1>7. CASE RxBell
  BY <1>7 DEF RxBell
<1>8. CASE RxEnd
  BY <1>8, <1>t DEF RxEnd, Restart
<1>9. CASE SendDoorbell
  BY <1>9 DEF SendDoorbell
<1>10. CASE Interrupt
  BY <1>10 DEF Interrupt
<1>11. ASSUME NEW i \in Interfaces,
              \/ \E n \in 0 .. MaxRead : Read(i, n)
              \/ ReadCall(i) \/ PollSleep(i)
       PROVE  SignalInv'
  BY <1>1, <1>11 DEF Read, ReadCall, ReadCopy, ReadNext, ReadEnd, PollSleep
<1>12. ASSUME NEW hdr \in Headers, NEW signal \in BOOLEAN, DeviceSend(hdr, signal)
       PROVE  SignalInv'
  BY <1>12, <1>t DEF DeviceSend
<1>13. CASE DeviceStall
  BY <1>13 DEF DeviceStall
<1>14. CASE DeviceSignal
  BY <1>14 DEF DeviceSignal
<1>15. CASE DeviceDown \/ OtherDirection
  BY <1>15 DEF DeviceDown, OtherDirection
<1>16. CASE UNCHANGED vars
  BY <1>1, <1>16 DEF vars
<1> QED
  BY <1>2, <1>3, <1>4, <1>5, <1>6, <1>7, <1>8, <1>9, <1>10, <1>11, <1>12, <1>13, <1>14,
     <1>15, <1>16 DEF Next, RxHandler, DeviceWork

LEMMA SignalHolds == Spec => []SignalInv
BY TypeInit, TypeStep, SignalInit, SignalStep, PTL DEF Spec

(* A device that waits for room is told when there is some.                *)
THEOREM StallIsRungOff == Spec => []StallNotForgotten
<1>1. SignalInv => StallNotForgotten
  BY DEF SignalInv
<1> QED
  BY <1>1, SignalHolds, PTL

(* While descriptors wait for the host, rx_event runs or is going to.      *)
THEOREM DescriptorsAreSeen == Spec => []DescriptorsNotForgotten
<1>1. SignalInv => DescriptorsNotForgotten
  BY DEF SignalInv
<1> QED
  BY <1>1, SignalHolds, PTL

-----------------------------------------------------------------------------
(* Sequences of sequences                                                  *)

(* A set of natural numbers has a least element.                           *)
LEMMA HasLeast ==
    ASSUME NEW T \in SUBSET Nat, T # {}
    PROVE  \E x \in T : \A y \in T : x <= y
<1> DEFINE R == OpToRel(<, Nat)
<1>1. PICK x \in T : \A y \in T : ~ (<<y, x>> \in R)
  <2> HIDE DEF R
  <2>1. IsWellFoundedOn(R, Nat)
    BY NatLessThanWellFounded DEF R
  <2>2. QED
    BY <2>1, WFMin
<1>2. ASSUME NEW y \in T
      PROVE  x <= y
  <2>1. ~ (<<y, x>> \in R)
    BY <1>1
  <2>2. <<y, x>> \in R <=> y < x
    BY DEF R, OpToRel
  <2>3. x \in Nat /\ y \in Nat
    OBVIOUS
  <2>4. ~ (y < x)
    BY <2>1, <2>2
  <2>5. QED
    BY <2>3, <2>4
<1>3. QED
  BY <1>1, <1>2

(* So what holds of 0, and of n + 1 if of n, holds of all.                 *)
LEMMA SetInduction ==
    ASSUME NEW S \in SUBSET Nat, 0 \in S, \A n \in S : n + 1 \in S
    PROVE  S = Nat
<1>1. SUFFICES ASSUME Nat \ S # {} PROVE FALSE
  OBVIOUS
<1>2. PICK x \in Nat \ S : \A y \in Nat \ S : x <= y
  <2>1. Nat \ S \in SUBSET Nat
    OBVIOUS
  <2>2. QED
    BY <1>1, <2>1, HasLeast
<1>3. x # 0 /\ x \in Nat
  BY <1>2
<1>4. x - 1 \in Nat /\ x = (x - 1) + 1 /\ ~(x <= x - 1)
  BY <1>3
<1>5. x - 1 \in S
  BY <1>2, <1>4
<1>6. QED
  BY <1>2, <1>4, <1>5

(* What FlattenSeq has put together after each of the first k sequences.   *)
IsSum(g, s, k) == \A i \in 1 .. k : g[i] = IF i = 1 THEN s[i] ELSE g[i - 1] \o s[i]
(* The functions with that property.                                       *)
Sums(s, k, S) == {g \in [1 .. k -> Seq(S)] : IsSum(g, s, k)}

(* There is one.                                                           *)
LEMMA SumsExist ==
    ASSUME NEW S, NEW s \in Seq(Seq(S)), NEW k \in 1 .. Len(s)
    PROVE  Sums(s, k, S) # {}
<1> DEFINE K == {n \in Nat : n + 1 <= Len(s) => Sums(s, n + 1, S) # {}}
<1>1. 0 \in K
  <2>1. SUFFICES ASSUME 1 <= Len(s) PROVE Sums(s, 1, S) # {}
    OBVIOUS
  <2>2. s[1] \in Seq(S)
    BY <2>1
  <2>3. [i \in 1 .. 1 |-> s[1]] \in Sums(s, 1, S)
    BY <2>2 DEF Sums, IsSum
  <2>4. QED
    BY <2>3
<1>2. ASSUME NEW n \in K
      PROVE  n + 1 \in K
  <2>1. SUFFICES ASSUME (n + 1) + 1 <= Len(s) PROVE Sums(s, (n + 1) + 1, S) # {}
    OBVIOUS
  <2> DEFINE m == n + 1
  <2>2. m \in Nat \ {0} /\ m \in 1 .. m /\ m + 1 \in 1 .. Len(s) /\ n \in Nat
    BY <2>1
  <2>3. PICK g : g \in Sums(s, m, S)
    BY <2>1
  <2> HIDE DEF m
  <2>4. /\ g \in [1 .. m -> Seq(S)]
        /\ \A i \in 1 .. m : g[i] = IF i = 1 THEN s[i] ELSE g[i - 1] \o s[i]
    BY <2>3 DEF Sums, IsSum
  <2>5. g[m] \o s[m + 1] \in Seq(S)
    <3>1. g[m] \in Seq(S) /\ s[m + 1] \in Seq(S)
      BY <2>2, <2>4
    <3>2. QED
      BY <3>1
  <2> DEFINE h == [i \in 1 .. m + 1 |-> IF i = m + 1 THEN g[m] \o s[m + 1] ELSE g[i]]
  <2>6. h \in [1 .. m + 1 -> Seq(S)]
    BY <2>2, <2>4, <2>5
  <2>7. ASSUME NEW i \in 1 .. m + 1
        PROVE  h[i] = IF i = 1 THEN s[i] ELSE h[i - 1] \o s[i]
    <3>1. CASE i = m + 1
      <4>1. i # 1 /\ i - 1 = m /\ h[m] = g[m]
        BY <2>2, <3>1
      <4>2. QED
        BY <3>1, <4>1
    <3>2. CASE i # m + 1
      <4>1. i \in 1 .. m /\ h[i] = g[i]
        BY <2>2, <3>2
      <4>2. i # 1 => i - 1 \in 1 .. m + 1 /\ i - 1 # m + 1 /\ h[i - 1] = g[i - 1]
        BY <2>2, <4>1
      <4>3. QED
        BY <2>4, <4>1, <4>2
    <3>3. QED
      BY <3>1, <3>2
  <2> HIDE DEF h
  <2>8. h \in Sums(s, m + 1, S)
    BY <2>6, <2>7 DEF Sums, IsSum
  <2>9. QED
    BY <2>8 DEF m
<1>3. K = Nat
  <2>1. K \in SUBSET Nat
    OBVIOUS
  <2> HIDE DEF K
  <2>2. QED
    BY <1>1, <1>2, <2>1, SetInduction
<1>4. k - 1 \in Nat /\ (k - 1) + 1 = k /\ k <= Len(s)
  OBVIOUS
<1>5. k - 1 \in K
  BY <1>3, <1>4
<1>6. QED
  BY <1>4, <1>5

(* Two sequences that begin alike.                                         *)
SameTo(s, t, k) == \A i \in 1 .. k : s[i] = t[i]

(* A longer sum begins as the shorter one does.                            *)
LEMMA SumsAgree ==
    ASSUME NEW s, NEW t, NEW k \in Nat, NEW m \in Nat, k <= m, SameTo(s, t, k),
           NEW g, NEW h, IsSum(g, s, k), IsSum(h, t, m)
    PROVE  \A i \in 1 .. k : g[i] = h[i]
<1> DEFINE K == {n \in Nat : n + 1 <= k => g[n + 1] = h[n + 1]}
<1>0. /\ \A i \in 1 .. k : g[i] = IF i = 1 THEN s[i] ELSE g[i - 1] \o s[i]
      /\ \A i \in 1 .. m : h[i] = IF i = 1 THEN t[i] ELSE h[i - 1] \o t[i]
  BY DEF Sums, IsSum
<1>s. \A i \in 1 .. k : s[i] = t[i]
  BY DEF SameTo
<1>1. 0 \in K
  BY <1>0, <1>s
<1>2. ASSUME NEW n \in K
      PROVE  n + 1 \in K
  <2>1. SUFFICES ASSUME (n + 1) + 1 <= k PROVE g[(n + 1) + 1] = h[(n + 1) + 1]
    OBVIOUS
  <2>2. /\ n + 1 \in Nat /\ n + 1 <= k /\ (n + 1) + 1 \in 1 .. k /\ (n + 1) + 1 \in 1 .. m
        /\ (n + 1) + 1 # 1 /\ ((n + 1) + 1) - 1 = n + 1 /\ g[n + 1] = h[n + 1]
    BY <2>1
  <2>3. QED
    BY <1>0, <1>s, <2>2
<1>3. K = Nat
  <2>1. K \in SUBSET Nat
    OBVIOUS
  <2> HIDE DEF K
  <2>2. QED
    BY <1>1, <1>2, <2>1, SetInduction
<1>4. ASSUME NEW i \in 1 .. k
      PROVE  g[i] = h[i]
  <2>1. i - 1 \in Nat /\ (i - 1) + 1 = i /\ i <= k
    OBVIOUS
  <2>2. i - 1 \in K
    BY <1>3, <2>1
  <2>3. QED
    BY <2>1, <2>2
<1>5. QED
  BY <1>4

(* What FlattenSeq defines by recursion is the last of the sums.           *)
LEMMA FlattenIsSum ==
    ASSUME NEW S, NEW s \in Seq(Seq(S)), Len(s) # 0
    PROVE  \E g \in Sums(s, Len(s), S) : FlattenSeq(s) = g[Len(s)]
<1> DEFINE f == CHOOSE f : f = [i \in 1 .. Len(s) |-> IF i = 1 THEN s[i] ELSE f[i - 1] \o s[i]]
<1>1. FlattenSeq(s) = f[Len(s)]
  BY DEF FlattenSeq
<1>2. Len(s) \in 1 .. Len(s) /\ Len(s) \in Nat
  OBVIOUS
<1>3. PICK g : g \in Sums(s, Len(s), S)
  BY <1>2, SumsExist
<1>4. g = [i \in 1 .. Len(s) |-> IF i = 1 THEN s[i] ELSE g[i - 1] \o s[i]]
  BY <1>3 DEF Sums, IsSum
<1>5. f = [i \in 1 .. Len(s) |-> IF i = 1 THEN s[i] ELSE f[i - 1] \o s[i]]
  BY <1>4
<1> HIDE DEF f
<1>6. IsSum(f, s, Len(s)) /\ IsSum(g, s, Len(s))
  <2>1. \A i \in 1 .. Len(s) : f[i] = IF i = 1 THEN s[i] ELSE f[i - 1] \o s[i]
    BY <1>5
  <2>2. QED
    BY <1>3, <2>1 DEF Sums, IsSum
<1>7. \A i \in 1 .. Len(s) : f[i] = g[i]
  <2>1. Len(s) <= Len(s) /\ SameTo(s, s, Len(s))
    BY <1>2 DEF SameTo
  <2>2. QED
    BY <1>2, <1>6, <2>1, SumsAgree
<1>8. QED
  BY <1>1, <1>2, <1>3, <1>7

(* Nothing comes of nothing.                                               *)
LEMMA FlattenEmpty == FlattenSeq(<<>>) = <<>>
BY DEF FlattenSeq

(* What comes of sequences over S is a sequence over S.                    *)
LEMMA FlattenType ==
    ASSUME NEW S, NEW s \in Seq(Seq(S))
    PROVE  FlattenSeq(s) \in Seq(S)
<1>1. CASE Len(s) = 0
  <2>1. s = <<>>
    BY <1>1
  <2>2. FlattenSeq(s) = <<>>
    BY <2>1, FlattenEmpty
  <2>3. QED
    BY <2>2
<1>2. CASE Len(s) # 0
  <2>1. PICK g \in Sums(s, Len(s), S) : FlattenSeq(s) = g[Len(s)]
    BY <1>2, FlattenIsSum
  <2>2. Len(s) \in 1 .. Len(s)
    BY <1>2
  <2>3. QED
    BY <2>1, <2>2 DEF Sums
<1>3. QED
  BY <1>1, <1>2

(* A sequence at the end adds to the end.                                  *)
LEMMA FlattenAppend ==
    ASSUME NEW S, NEW s \in Seq(Seq(S)), NEW x \in Seq(S)
    PROVE  FlattenSeq(Append(s, x)) = FlattenSeq(s) \o x
<1> DEFINE t == Append(s, x)
           n == Len(s)
<1>1. /\ t \in Seq(Seq(S)) /\ Len(t) = n + 1 /\ t[n + 1] = x
      /\ \A i \in 1 .. n : t[i] = s[i]
      /\ n \in Nat
  OBVIOUS
<1> HIDE DEF t, n
<1>2. PICK h \in Sums(t, n + 1, S) : FlattenSeq(t) = h[n + 1]
  <2>1. n + 1 # 0
    BY <1>1
  <2>2. QED
    BY <1>1, <2>1, FlattenIsSum
<1>3. CASE n = 0
  <2>1. 1 \in 1 .. n + 1 /\ n + 1 = 1
    BY <1>3
  <2>2. FlattenSeq(t) = x
    BY <1>1, <1>2, <2>1 DEF Sums, IsSum
  <2>3. s = <<>>
    BY <1>3 DEF n
  <2>4. FlattenSeq(s) = <<>>
    BY <2>3, FlattenEmpty
  <2>5. <<>> \o x = x
    OBVIOUS
  <2>6. QED
    BY <2>2, <2>4, <2>5 DEF t
<1>4. CASE n # 0
  <2>1. PICK g \in Sums(s, n, S) : FlattenSeq(s) = g[n]
    BY <1>4, FlattenIsSum DEF n
  <2>2. n \in 1 .. n /\ n + 1 \in 1 .. n + 1 /\ n + 1 # 1 /\ (n + 1) - 1 = n /\ n <= n + 1
        /\ n + 1 \in Nat
    BY <1>1, <1>4
  <2>3. h[n + 1] = h[n] \o x
    BY <1>1, <2>2 DEF Sums, IsSum
  <2>4. g[n] = h[n]
    <3> DEFINE m == n + 1
    <3>1. /\ IsSum(g, s, n) /\ IsSum(h, t, m) /\ SameTo(s, t, n)
          /\ n \in Nat /\ m \in Nat /\ n <= m
      BY <1>1, <2>2 DEF Sums, SameTo
    <3> HIDE DEF m
    <3>2. \A i \in 1 .. n : g[i] = h[i]
      BY <3>1, SumsAgree
    <3>3. QED
      BY <2>2, <3>2
  <2>5. QED
    BY <1>2, <2>1, <2>3, <2>4 DEF t
<1>5. QED
  BY <1>3, <1>4

(* A sequence in front adds to the front.                                  *)
LEMMA FlattenInFront ==
    ASSUME NEW S, NEW s \in Seq(Seq(S)), NEW x \in Seq(S)
    PROVE  FlattenSeq(Cons(x, s)) = x \o FlattenSeq(s)
<1> DEFINE Q == Seq(S)
           OK(r) == FlattenSeq(<<x>> \o r) = x \o FlattenSeq(r)
           K == {n \in Nat : \A r \in Seq(Q) : Len(r) = n => OK(r)}
<1>1. 0 \in K
  <2>1. SUFFICES ASSUME NEW r \in Seq(Q), Len(r) = 0 PROVE OK(r)
    OBVIOUS
  <2>2. r = <<>> /\ <<x>> \o r = Append(<<>>, x) /\ <<>> \in Seq(Q) /\ x \o <<>> = <<>> \o x
    BY <2>1
  <2>3. QED
    BY <2>2, FlattenAppend, FlattenEmpty
<1>2. ASSUME NEW n \in K
      PROVE  n + 1 \in K
  <2>1. SUFFICES ASSUME NEW r \in Seq(Q), Len(r) = n + 1 PROVE OK(r)
    <3> HIDE DEF Q, OK
    <3>1. QED
      OBVIOUS
  <2> DEFINE p == SubSeq(r, 1, n)
             y == r[n + 1]
  <2>2. n \in Nat /\ p \in Seq(Q) /\ Len(p) = n /\ y \in Q /\ r = Append(p, y)
    BY <2>1
  <2> HIDE DEF p, y
  <2>3. OK(p)
    BY <2>2
  <2>4. <<x>> \o Append(p, y) = Append(<<x>> \o p, y) /\ <<x>> \o p \in Seq(Q)
    BY <2>2, InFront
  <2>5. FlattenSeq(<<x>> \o r) = FlattenSeq(<<x>> \o p) \o y
    BY <2>2, <2>4, FlattenAppend
  <2>6. FlattenSeq(r) = FlattenSeq(p) \o y /\ FlattenSeq(p) \in Seq(S)
    BY <2>2, FlattenAppend, FlattenType
  <2>7. (x \o FlattenSeq(p)) \o y = x \o (FlattenSeq(p) \o y)
    <3>1. x \in Seq(S) /\ FlattenSeq(p) \in Seq(S) /\ y \in Seq(S)
      BY <2>2, <2>6
    <3>2. QED
      BY <3>1, ConcatAssociative, SMTT(30)
  <2>8. QED
    BY <2>3, <2>5, <2>6, <2>7
<1>3. K = Nat
  <2>1. K \in SUBSET Nat
    OBVIOUS
  <2> HIDE DEF K
  <2>2. QED
    BY <1>1, <1>2, <2>1, SetInduction
<1>4. Len(s) \in Nat
  OBVIOUS
<1>5. QED
  BY <1>3, <1>4 DEF Cons

-----------------------------------------------------------------------------
(* The slots of the ring, one after the other                              *)

(* The slot k places from h, h itself being the first.                     *)
SlotAt(h, k) == IF h + k - 1 < NDesc THEN h + k - 1 ELSE h + k - 1 - NDesc

(* It is what OnRing says it is, and a slot.                               *)
LEMMA SlotAtIsModulo ==
    ASSUME NEW h \in Slots, NEW k \in 1 .. NDesc
    PROVE  (h + k - 1) % NDesc = SlotAt(h, k) /\ SlotAt(h, k) \in Slots
<1>1. NDesc \in Nat \ {0} /\ h \in 0 .. NDesc - 1
  BY RxAssumption DEF Slots
<1>2. CASE h + k - 1 < NDesc
  BY <1>1, <1>2 DEF SlotAt, Slots
<1>3. CASE ~(h + k - 1 < NDesc)
  <2>1. (h + k - 1) % NDesc = h + k - 1 - NDesc
    BY <1>1, <1>3
  <2> QED
    BY <1>1, <1>3, <2>1 DEF SlotAt, Slots
<1> QED
  BY <1>2, <1>3

(* The ring between two marks loses its first slot.                        *)
LEMMA FirstSlotTaken ==
    ASSUME NEW h \in Slots, NEW t \in Slots, h # t
    PROVE  /\ Dist(h, t) \in 1 .. NDesc - 1 /\ Inc(h) \in Slots
           /\ Dist(Inc(h), t) = Dist(h, t) - 1
           /\ SlotAt(h, 1) = h
           /\ \A k \in 1 .. Dist(h, t) - 1 :
                 SlotAt(h, k + 1) = SlotAt(Inc(h), k) /\ SlotAt(Inc(h), k) # h
<1>1. /\ NDesc \in Nat \ {0} /\ h \in 0 .. NDesc - 1 /\ t \in 0 .. NDesc - 1
      /\ Inc(h) = (IF h = NDesc - 1 THEN 0 ELSE h + 1) /\ Inc(h) \in Slots
  BY IncIsNext, RxAssumption DEF Slots
<1>2. Dist(h, t) \in 1 .. NDesc - 1 /\ Dist(Inc(h), t) = Dist(h, t) - 1
  BY <1>1 DEF Dist
<1>3. SlotAt(h, 1) = h
  BY <1>1 DEF SlotAt
<1>4. ASSUME NEW k \in 1 .. Dist(h, t) - 1
      PROVE  SlotAt(h, k + 1) = SlotAt(Inc(h), k) /\ SlotAt(Inc(h), k) # h
  <2>1. k \in Nat /\ 1 <= k /\ k < NDesc - 1
    BY <1>1, <1>2
  <2> QED
    BY <1>1, <2>1 DEF SlotAt
<1> QED
  BY <1>1, <1>2, <1>3, <1>4

(* It gains one at its end.                                                *)
LEMMA LastSlotFilled ==
    ASSUME NEW h \in Slots, NEW t \in Slots, Dist(h, t) < NDesc - 1
    PROVE  /\ Dist(h, t) \in 0 .. NDesc - 1
           /\ Dist(h, Inc(t)) = Dist(h, t) + 1
           /\ SlotAt(h, Dist(h, t) + 1) = t
           /\ \A k \in 1 .. Dist(h, t) : SlotAt(h, k) # t
<1>1. /\ NDesc \in Nat \ {0} /\ h \in 0 .. NDesc - 1 /\ t \in 0 .. NDesc - 1
      /\ Inc(t) = (IF t = NDesc - 1 THEN 0 ELSE t + 1)
  BY IncIsNext, RxAssumption DEF Slots
<1>2. Dist(h, t) \in 0 .. NDesc - 1 /\ Dist(h, Inc(t)) = Dist(h, t) + 1
  BY <1>1 DEF Dist
<1>3. SlotAt(h, Dist(h, t) + 1) = t
  BY <1>1 DEF SlotAt, Dist
<1>4. ASSUME NEW k \in 1 .. Dist(h, t)
      PROVE  SlotAt(h, k) # t
  BY <1>1 DEF SlotAt, Dist
<1> QED
  BY <1>2, <1>3, <1>4

-----------------------------------------------------------------------------
(* The bytes sent, on the ring, and waiting, piece by piece                *)

(* Bytes, descriptors and buffers, as TypeOK has them.                     *)
Byte  == Nat \X Nat
Hdrs  == Headers \cup {NoHdr}
BdRec == [frag : Nat, off : Nat, len : Nat]

(* What fragment n, of this header, means to interface i.                  *)
Piece(hdr, n, i) == IF Meant(hdr, i) THEN [m \in 1 .. hdr.len |-> <<n, m>>] ELSE <<>>

(* Those of all fragments sent.                                            *)
SentPieces(s, i) == [n \in 1 .. Len(s) |-> Piece(s[n], n, i)]

(* Those of n slots from h on, with these headers and fragments.           *)
RingPieces(h, n, hdrs, frags, i) ==
    [k \in 1 .. n |-> Piece(hdrs[SlotAt(h, k)], frags[SlotAt(h, k)], i)]

(* Two functions of the slots that differ in slot h only.                  *)
AgreeBut(h, f, g) == \A s \in Slots \ {h} : f[s] = g[s]

(* Headers and fragments for every slot.                                   *)
OnSlots(hdrs, frags) == hdrs \in [Slots -> Hdrs] /\ frags \in [Slots -> Nat]

(* The fragments in the buffers of the ring.                               *)
RingFrags == [s \in Slots |-> bd[ddr[s]].frag]

(* What is left in a buffer, and in those of a list.                       *)
BufBytes(r)      == [k \in 1 .. r.len |-> <<r.frag, r.off + k>>]
ListBytes(w, d) == [k \in 1 .. Len(w) |-> BufBytes(d[w[k]])]

(* Byte sequences put together are one...                                  *)
LEMMA BytesTogether == \A a, b \in Seq(Byte) : a \o b \in Seq(Byte)
OBVIOUS

(* ...and the same one in whatever order that is done.                     *)
LEMMA BytesRegroup == \A a, b, c \in Seq(Byte) : (a \o b) \o c = a \o (b \o c)
BY ConcatAssociative

(* The ranges of these sequences.                                          *)
LEMMA PieceType ==
    ASSUME NEW hdr \in Hdrs, NEW n \in Nat, NEW i
    PROVE  Piece(hdr, n, i) \in Seq(Byte)
<1>1. hdr.len \in Nat
  BY HeaderLength DEF Hdrs
<1>2. \A m \in 1 .. hdr.len : <<n, m>> \in Byte
  BY <1>1 DEF Byte
<1>3. [m \in 1 .. hdr.len |-> <<n, m>>] \in Seq(Byte)
  <2> DEFINE p == [m \in 1 .. hdr.len |-> <<n, m>>]
  <2>1. p \in [1 .. hdr.len -> Byte]
    BY <1>2
  <2> HIDE DEF p
  <2>2. QED
    BY <1>1, <2>1 DEF p
<1>4. <<>> \in Seq(Byte)
  OBVIOUS
<1>5. QED
  BY <1>3, <1>4 DEF Piece

LEMMA BufBytesType ==
    ASSUME NEW r \in BdRec
    PROVE  BufBytes(r) \in Seq(Byte) /\ Len(BufBytes(r)) = r.len
<1>1. r.len \in Nat /\ r.frag \in Nat /\ r.off \in Nat
  BY DEF BdRec
<1>2. \A k \in 1 .. r.len : <<r.frag, r.off + k>> \in Byte
  BY <1>1 DEF Byte
<1>3. BufBytes(r) \in [1 .. r.len -> Byte]
  BY <1>2 DEF BufBytes
<1>4. QED
  BY <1>1, <1>3

(* A list built place by place.                                            *)
LEMMA IsList ==
    ASSUME NEW S, NEW n \in Nat, NEW f \in [1 .. n -> S]
    PROVE  f \in Seq(S) /\ Len(f) = n
OBVIOUS

LEMMA SentType ==
    ASSUME NEW s \in Seq(Headers), NEW i
    PROVE  SentPieces(s, i) \in Seq(Seq(Byte)) /\ Len(SentPieces(s, i)) = Len(s)
<1>1. Len(s) \in Nat
  OBVIOUS
<1>2. ASSUME NEW n \in 1 .. Len(s)
      PROVE  Piece(s[n], n, i) \in Seq(Byte)
  <2>1. s[n] \in Hdrs /\ n \in Nat
    BY DEF Hdrs
  <2>2. QED
    BY <2>1, PieceType
<1>3. SentPieces(s, i) \in [1 .. Len(s) -> Seq(Byte)]
  BY <1>2 DEF SentPieces
<1>4. QED
  BY <1>1, <1>3, IsList

LEMMA RingType ==
    ASSUME NEW h \in Slots, NEW n \in 0 .. NDesc, NEW hdrs \in [Slots -> Hdrs],
           NEW frags \in [Slots -> Nat], NEW i
    PROVE  /\ RingPieces(h, n, hdrs, frags, i) \in Seq(Seq(Byte))
           /\ Len(RingPieces(h, n, hdrs, frags, i)) = n
<1>1. n \in Nat
  BY RxAssumption
<1>2. ASSUME NEW k \in 1 .. n
      PROVE  Piece(hdrs[SlotAt(h, k)], frags[SlotAt(h, k)], i) \in Seq(Byte)
  <2>1. k \in 1 .. NDesc
    BY RxAssumption
  <2>2. SlotAt(h, k) \in Slots
    BY <2>1, SlotAtIsModulo
  <2>3. hdrs[SlotAt(h, k)] \in Hdrs /\ frags[SlotAt(h, k)] \in Nat
    BY <2>2
  <2>4. QED
    BY <2>3, PieceType
<1>3. RingPieces(h, n, hdrs, frags, i) \in [1 .. n -> Seq(Byte)]
  BY <1>2 DEF RingPieces
<1>4. QED
  BY <1>1, <1>3, IsList

LEMMA ListType ==
    ASSUME NEW w \in Seq(Bufs), NEW d \in [Bufs -> BdRec]
    PROVE  ListBytes(w, d) \in Seq(Seq(Byte)) /\ Len(ListBytes(w, d)) = Len(w)
<1>1. Len(w) \in Nat
  OBVIOUS
<1>2. \A k \in 1 .. Len(w) : BufBytes(d[w[k]]) \in Seq(Byte)
  BY BufBytesType
<1>3. ListBytes(w, d) \in [1 .. Len(w) -> Seq(Byte)]
  BY <1>2 DEF ListBytes
<1>4. QED
  BY <1>1, <1>3, IsList

(* Another fragment is sent.                                               *)
LEMMA SentGrows ==
    ASSUME NEW s \in Seq(Headers), NEW hdr \in Headers, NEW i
    PROVE  SentPieces(Append(s, hdr), i) = Append(SentPieces(s, i), Piece(hdr, Len(s) + 1, i))
<1> DEFINE t == Append(s, hdr)
           p == SentPieces(t, i)
           q == Append(SentPieces(s, i), Piece(hdr, Len(s) + 1, i))
<1>1. /\ t \in Seq(Headers) /\ Len(t) = Len(s) + 1 /\ t[Len(s) + 1] = hdr /\ Len(s) \in Nat
      /\ \A n \in 1 .. Len(s) : t[n] = s[n]
  OBVIOUS
<1>2. Piece(hdr, Len(s) + 1, i) \in Seq(Byte)
  BY <1>1, PieceType DEF Hdrs
<1>3. SentPieces(s, i) \in Seq(Seq(Byte)) /\ Len(SentPieces(s, i)) = Len(s)
  BY SentType
<1>4. /\ q \in Seq(Seq(Byte)) /\ Len(q) = Len(s) + 1 /\ q[Len(s) + 1] = Piece(hdr, Len(s) + 1, i)
      /\ \A n \in 1 .. Len(s) : q[n] = SentPieces(s, i)[n]
  BY <1>1, <1>2, <1>3
<1> HIDE DEF t, q
<1>5. p \in Seq(Seq(Byte)) /\ Len(p) = Len(s) + 1
  BY <1>1, SentType
<1>6. ASSUME NEW n \in 1 .. Len(s) + 1
      PROVE  p[n] = q[n]
  <2>1. p[n] = Piece(t[n], n, i)
    BY <1>1 DEF SentPieces
  <2>2. CASE n = Len(s) + 1
    BY <1>1, <1>4, <2>1, <2>2
  <2>3. CASE n # Len(s) + 1
    <3>1. n \in 1 .. Len(s)
      BY <1>1, <2>3
    <3>2. SentPieces(s, i)[n] = Piece(s[n], n, i)
      BY <3>1 DEF SentPieces
    <3>3. QED
      BY <1>1, <1>4, <2>1, <3>1, <3>2
  <2>4. QED
    BY <2>2, <2>3
<1> HIDE DEF p
<1>7. p = q
  BY <1>4, <1>5, <1>6, SeqEqual
<1>8. QED
  BY <1>7 DEF p, q, t

(* A slot more is filled.                                                  *)
LEMMA RingGrows ==
    ASSUME NEW h \in Slots, NEW t \in Slots, Dist(h, t) < NDesc - 1, NEW i,
           NEW hdrs, NEW frags, OnSlots(hdrs, frags),
           NEW hdrs2, NEW frags2, OnSlots(hdrs2, frags2),
           AgreeBut(t, hdrs2, hdrs), AgreeBut(t, frags2, frags)
    PROVE  RingPieces(h, Dist(h, Inc(t)), hdrs2, frags2, i)
               = Append(RingPieces(h, Dist(h, t), hdrs, frags, i), Piece(hdrs2[t], frags2[t], i))
<1> DEFINE n == Dist(h, t)
           p == RingPieces(h, n + 1, hdrs2, frags2, i)
           o == RingPieces(h, n, hdrs, frags, i)
           x == Piece(hdrs2[t], frags2[t], i)
           q == Append(o, x)
<1>0. /\ hdrs \in [Slots -> Hdrs] /\ frags \in [Slots -> Nat]
      /\ hdrs2 \in [Slots -> Hdrs] /\ frags2 \in [Slots -> Nat]
  BY DEF OnSlots
<1>1. /\ n \in 0 .. NDesc - 1 /\ n + 1 \in 0 .. NDesc /\ Dist(h, Inc(t)) = n + 1 /\ n \in Nat
      /\ n \in 0 .. NDesc
      /\ SlotAt(h, n + 1) = t /\ \A k \in 1 .. n : SlotAt(h, k) # t
  BY LastSlotFilled, RxAssumption
<1> HIDE DEF n
<1>2. x \in Seq(Byte)
  BY <1>0, PieceType
<1>3. o \in Seq(Seq(Byte)) /\ Len(o) = n /\ p \in Seq(Seq(Byte)) /\ Len(p) = n + 1
  <2>1. o \in Seq(Seq(Byte)) /\ Len(o) = n
    <3>1. n \in 0 .. NDesc
      BY <1>1
    <3>2. QED
      BY <1>0, <3>1, RingType
  <2> DEFINE m == n + 1
  <2>2. m \in 0 .. NDesc
    BY <1>1
  <2> HIDE DEF m
  <2>3. /\ RingPieces(h, m, hdrs2, frags2, i) \in Seq(Seq(Byte))
        /\ Len(RingPieces(h, m, hdrs2, frags2, i)) = m
    BY <1>0, <2>2, RingType, SMTT(30)
  <2>4. QED
    BY <2>1, <2>3 DEF m
<1>4. \A k \in 1 .. n : p[k] = o[k]
  <2>1. ASSUME NEW k \in 1 .. n
        PROVE  p[k] = o[k]
    <3>1. k \in 1 .. n + 1 /\ k \in 1 .. NDesc
      BY <1>1, RxAssumption
    <3>2. SlotAt(h, k) \in Slots \ {t}
      BY <1>1, <3>1, SlotAtIsModulo
    <3>3. QED
      BY <3>1, <3>2 DEF RingPieces, AgreeBut
  <2>2. QED
    BY <2>1
<1>5. p[n + 1] = x
  <2>1. n + 1 \in 1 .. n + 1
    BY <1>1
  <2>2. QED
    BY <1>1, <2>1 DEF RingPieces
<1> HIDE DEF o, p, x
<1>6. /\ q \in Seq(Seq(Byte)) /\ Len(q) = n + 1 /\ q[n + 1] = x
      /\ \A k \in 1 .. n : q[k] = o[k]
  BY <1>1, <1>2, <1>3
<1> HIDE DEF q
<1>7. \A k \in 1 .. n + 1 : p[k] = q[k]
  <2>1. \A k \in 1 .. n + 1 : k \in 1 .. n \/ k = n + 1
    BY <1>1
  <2>2. QED
    BY <1>4, <1>5, <1>6, <2>1
<1>8. p = q
  BY <1>3, <1>6, <1>7, SeqEqual
<1>9. QED
  BY <1>1, <1>8 DEF p, q, o, x, n

(* The first slot is taken, and another buffer put into it.                *)
LEMMA RingShrinks ==
    ASSUME NEW h \in Slots, NEW t \in Slots, h # t, NEW i,
           NEW hdrs \in [Slots -> Hdrs], NEW frags \in [Slots -> Nat],
           NEW frags2 \in [Slots -> Nat], AgreeBut(h, frags2, frags)
    PROVE  RingPieces(h, Dist(h, t), hdrs, frags, i)
               = Cons(Piece(hdrs[h], frags[h], i),
                      RingPieces(Inc(h), Dist(Inc(h), t), hdrs, frags2, i))
<1> DEFINE n == Dist(h, t) - 1
           p == RingPieces(h, n + 1, hdrs, frags, i)
           o == RingPieces(Inc(h), n, hdrs, frags2, i)
           x == Piece(hdrs[h], frags[h], i)
           q == <<x>> \o o
<1>1. /\ n \in Nat /\ n \in 0 .. NDesc /\ n + 1 \in 0 .. NDesc /\ n + 1 = Dist(h, t)
      /\ Dist(Inc(h), t) = n /\ Inc(h) \in Slots
      /\ SlotAt(h, 1) = h
      /\ \A k \in 1 .. n : SlotAt(h, k + 1) = SlotAt(Inc(h), k) /\ SlotAt(Inc(h), k) # h
  BY FirstSlotTaken, RxAssumption
<1> HIDE DEF n
<1>2. x \in Seq(Byte)
  BY PieceType
<1>3. o \in Seq(Seq(Byte)) /\ Len(o) = n /\ p \in Seq(Seq(Byte)) /\ Len(p) = n + 1
  <2>1. o \in Seq(Seq(Byte)) /\ Len(o) = n
    BY <1>1, RingType, SMTT(30)
  <2> DEFINE m == n + 1
  <2>2. m \in 0 .. NDesc
    BY <1>1
  <2> HIDE DEF m
  <2>3. /\ RingPieces(h, m, hdrs, frags, i) \in Seq(Seq(Byte))
        /\ Len(RingPieces(h, m, hdrs, frags, i)) = m
    BY <2>2, RingType, SMTT(30)
  <2>4. QED
    BY <2>1, <2>3 DEF m
<1>4. \A k \in 1 .. n : p[k + 1] = o[k]
  <2>1. ASSUME NEW k \in 1 .. n
        PROVE  p[k + 1] = o[k]
    <3>1. k + 1 \in 1 .. n + 1 /\ k \in 1 .. NDesc
      BY <1>1, RxAssumption
    <3>2. SlotAt(Inc(h), k) \in Slots \ {h}
      BY <1>1, <3>1, SlotAtIsModulo
    <3>3. QED
      BY <1>1, <3>1, <3>2 DEF RingPieces, AgreeBut
  <2>2. QED
    BY <2>1
<1>5. p[1] = x
  <2>1. 1 \in 1 .. n + 1
    BY <1>1
  <2>2. QED
    BY <1>1, <2>1 DEF RingPieces
<1> HIDE DEF o, p, x
<1>6. /\ q \in Seq(Seq(Byte)) /\ Len(q) = n + 1 /\ q[1] = x
      /\ \A k \in 1 .. n : q[k + 1] = o[k]
  BY <1>1, <1>2, <1>3
<1> HIDE DEF q
<1>7. ASSUME NEW k \in 1 .. n + 1 PROVE p[k] = q[k]
  <2>1. CASE k = 1
    BY <1>5, <1>6, <2>1
  <2>2. CASE k # 1
    <3>1. k - 1 \in 1 .. n /\ (k - 1) + 1 = k
      BY <1>1, <2>2
    <3>2. QED
      BY <1>4, <1>6, <3>1
  <2>3. QED
    BY <2>1, <2>2
<1>8. p = q
  BY <1>3, <1>6, <1>7, SeqEqual
<1>9. QED
  BY <1>1, <1>8 DEF p, q, o, x, Cons

(* A list whose buffers stay as they are.                                  *)
LEMMA ListSame ==
    ASSUME NEW w \in Seq(Bufs), NEW d, NEW e, \A b \in ToSet(w) : d[b] = e[b]
    PROVE  ListBytes(w, d) = ListBytes(w, e)
<1>1. \A k \in 1 .. Len(w) : w[k] \in ToSet(w)
  BY DEF ToSet
<1>2. QED
  BY <1>1 DEF ListBytes

(* A buffer joins the list, at its end or in front.                        *)
LEMMA ListGrows ==
    ASSUME NEW w \in Seq(Bufs), NEW d \in [Bufs -> BdRec], NEW b \in Bufs
    PROVE  ListBytes(Append(w, b), d) = Append(ListBytes(w, d), BufBytes(d[b]))
<1> DEFINE t == Append(w, b)
           p == ListBytes(t, d)
           o == ListBytes(w, d)
           x == BufBytes(d[b])
           q == Append(o, x)
           n == Len(w)
<1>1. /\ t \in Seq(Bufs) /\ Len(t) = n + 1 /\ t[n + 1] = b /\ n \in Nat
      /\ \A k \in 1 .. n : t[k] = w[k]
  OBVIOUS
<1> HIDE DEF t, n
<1>2. x \in Seq(Byte)
  BY BufBytesType
<1>3. o \in Seq(Seq(Byte)) /\ Len(o) = n /\ p \in Seq(Seq(Byte)) /\ Len(p) = n + 1
  BY <1>1, ListType DEF n
<1>4. \A k \in 1 .. n : k \in 1 .. n + 1 /\ p[k] = o[k]
  BY <1>1 DEF ListBytes, n
<1>5. n + 1 \in 1 .. n + 1 /\ p[n + 1] = x
  BY <1>1 DEF ListBytes
<1> HIDE DEF o, p, x
<1>6. /\ q \in Seq(Seq(Byte)) /\ Len(q) = n + 1 /\ q[n + 1] = x
      /\ \A k \in 1 .. n : q[k] = o[k]
  BY <1>1, <1>2, <1>3
<1> HIDE DEF q
<1>7. \A k \in 1 .. n + 1 : p[k] = q[k]
  <2>1. \A k \in 1 .. n + 1 : k \in 1 .. n \/ k = n + 1
    BY <1>1
  <2>2. QED
    BY <1>4, <1>5, <1>6, <2>1
<1>8. p = q
  BY <1>3, <1>6, <1>7, SeqEqual
<1>9. QED
  BY <1>8 DEF p, q, o, x, t

LEMMA ListInFront ==
    ASSUME NEW w \in Seq(Bufs), NEW d \in [Bufs -> BdRec], NEW b \in Bufs
    PROVE  ListBytes(<<b>> \o w, d) = Cons(BufBytes(d[b]), ListBytes(w, d))
<1> DEFINE t == <<b>> \o w
           p == ListBytes(t, d)
           o == ListBytes(w, d)
           x == BufBytes(d[b])
           q == <<x>> \o o
           n == Len(w)
<1>1. /\ t \in Seq(Bufs) /\ Len(t) = n + 1 /\ t[1] = b /\ n \in Nat
      /\ \A k \in 1 .. n : t[k + 1] = w[k]
  OBVIOUS
<1> HIDE DEF t, n
<1>2. x \in Seq(Byte)
  BY BufBytesType
<1>3. o \in Seq(Seq(Byte)) /\ Len(o) = n /\ p \in Seq(Seq(Byte)) /\ Len(p) = n + 1
  BY <1>1, ListType DEF n
<1>4. \A k \in 1 .. n : k + 1 \in 1 .. n + 1 /\ p[k + 1] = o[k]
  BY <1>1 DEF ListBytes, n
<1>5. 1 \in 1 .. n + 1 /\ p[1] = x
  BY <1>1 DEF ListBytes
<1> HIDE DEF o, p, x
<1>6. /\ q \in Seq(Seq(Byte)) /\ Len(q) = n + 1 /\ q[1] = x
      /\ \A k \in 1 .. n : q[k + 1] = o[k]
  BY <1>1, <1>2, <1>3
<1> HIDE DEF q
<1>7. ASSUME NEW k \in 1 .. n + 1 PROVE p[k] = q[k]
  <2>1. CASE k = 1
    BY <1>5, <1>6, <2>1
  <2>2. CASE k # 1
    <3>1. k - 1 \in 1 .. n /\ (k - 1) + 1 = k
      BY <1>1, <2>2
    <3>2. QED
      BY <1>4, <1>6, <3>1
  <2>3. QED
    BY <2>1, <2>2
<1>8. p = q
  BY <1>3, <1>6, <1>7, SeqEqual
<1>9. QED
  BY <1>8 DEF p, q, o, x, t, Cons

-----------------------------------------------------------------------------
(* The bytes, in order                                                     *)

(* Outside a run of the handler its copy of the head is the published one, *)
(* and the buffers on the ring have been rewound.                          *)
HeadInv == up /\ pc \in {"idle", "bell", "restart"} => regHead = hHead
RewoundInv == \A s \in Slots : bd[ddr[s]].off = 0

(* StreamInOrder is not inductive when the device is down: it speaks then  *)
(* of what has been read only, and says nothing of what is waiting.        *)
StreamInv ==
    mapErrors = 0 =>
        \A i \in Interfaces :
            \E rest \in Seq(Byte) :
                /\ up => rest = OnRing(i)
                /\ (out[i] \o Unread(i)) \o rest = SentTo(i)

(* The sequences StreamInv speaks of, and their ranges.                    *)
StreamSeqs ==
    /\ Dist(hHead, regTail) \in 0 .. NDesc /\ hHead \in Slots /\ regTail \in Slots
    /\ tdHdr \in [Slots -> Hdrs] /\ RingFrags \in [Slots -> Nat]
    /\ bd \in [Bufs -> BdRec] /\ sent \in Seq(Headers)
    /\ \A i \in Interfaces :
        /\ OnRing(i) = FlattenSeq(RingPieces(hHead, Dist(hHead, regTail), tdHdr, RingFrags, i))
        /\ RingPieces(hHead, Dist(hHead, regTail), tdHdr, RingFrags, i) \in Seq(Seq(Byte))
        /\ SentTo(i) = FlattenSeq(SentPieces(sent, i)) /\ SentPieces(sent, i) \in Seq(Seq(Byte))
        /\ Waiting(i) \in Seq(Bufs)
        /\ Unread(i) = FlattenSeq(ListBytes(Waiting(i), bd))
        /\ ListBytes(Waiting(i), bd) \in Seq(Seq(Byte))
        /\ OnRing(i) \in Seq(Byte) /\ SentTo(i) \in Seq(Byte) /\ Unread(i) \in Seq(Byte)
        /\ out[i] \in Seq(Byte)

(* They follow from the ranges of the variables.                           *)
LEMMA SeqsHold == TypeOK => StreamSeqs
<1> SUFFICES ASSUME TypeOK PROVE StreamSeqs
  OBVIOUS
<1>1. /\ hHead \in Slots /\ regTail \in Slots /\ tdHdr \in [Slots -> Hdrs]
      /\ bd \in [Bufs -> BdRec] /\ ddr \in [Slots -> Bufs] /\ sent \in Seq(Headers)
      /\ out \in [Interfaces -> Seq(Byte)]
  BY DEF TypeOK, Hdrs, BdRec, Byte
<1>2. Dist(hHead, regTail) \in 0 .. NDesc
  BY <1>1, RxAssumption DEF Dist, Slots
<1>3. RingFrags \in [Slots -> Nat]
  BY <1>1 DEF RingFrags, BdRec
<1>4. ASSUME NEW i \in Interfaces
      PROVE  OnRing(i) = FlattenSeq(RingPieces(hHead, Dist(hHead, regTail), tdHdr, RingFrags, i))
  <2> DEFINE n == Dist(hHead, regTail)
             P(slot) == IF Meant(tdHdr[slot], i)
                        THEN [m \in 1 .. tdHdr[slot].len |-> <<bd[ddr[slot]].frag, m>>]
                        ELSE <<>>
  <2>1. OnRing(i) = FlattenSeq([k \in 1 .. n |-> P((hHead + k - 1) % NDesc)])
    BY DEF OnRing
  <2>2. ASSUME NEW k \in 1 .. n
        PROVE  P((hHead + k - 1) % NDesc)
                   = Piece(tdHdr[SlotAt(hHead, k)], RingFrags[SlotAt(hHead, k)], i)
    <3>1. k \in 1 .. NDesc
      BY <1>2, RxAssumption
    <3>2. (hHead + k - 1) % NDesc = SlotAt(hHead, k) /\ SlotAt(hHead, k) \in Slots
      BY <1>1, <3>1, SlotAtIsModulo
    <3>3. RingFrags[SlotAt(hHead, k)] = bd[ddr[SlotAt(hHead, k)]].frag
      BY <3>2 DEF RingFrags
    <3>4. QED
      BY <3>2, <3>3 DEF Piece
  <2> HIDE DEF P
  <2>3. [k \in 1 .. n |-> P((hHead + k - 1) % NDesc)] = RingPieces(hHead, n, tdHdr, RingFrags, i)
    BY <2>2 DEF RingPieces
  <2>4. QED
    BY <2>1, <2>3
<1>5. ASSUME NEW i \in Interfaces
      PROVE  SentTo(i) = FlattenSeq(SentPieces(sent, i))
  <2>1. DOMAIN sent = 1 .. Len(sent)
    BY <1>1
  <2>2. QED
    BY <2>1 DEF SentTo, SentPieces, Piece, FragBytes
<1>6. ASSUME NEW i \in Interfaces
      PROVE  Waiting(i) \in Seq(Bufs) /\ Unread(i) = FlattenSeq(ListBytes(Waiting(i), bd))
  <2>1. Waiting(i) \in Seq(Bufs)
    BY WaitingType
  <2>2. DOMAIN Waiting(i) = 1 .. Len(Waiting(i))
    BY <2>1
  <2>3. QED
    BY <2>1, <2>2 DEF Unread, ListBytes, Bytes, BufBytes
<1>7. ASSUME NEW i \in Interfaces
      PROVE  /\ RingPieces(hHead, Dist(hHead, regTail), tdHdr, RingFrags, i) \in Seq(Seq(Byte))
             /\ SentPieces(sent, i) \in Seq(Seq(Byte))
             /\ ListBytes(Waiting(i), bd) \in Seq(Seq(Byte))
  BY <1>1, <1>2, <1>3, <1>6, RingType, SentType, ListType
<1>8. ASSUME NEW i \in Interfaces
      PROVE  OnRing(i) \in Seq(Byte) /\ SentTo(i) \in Seq(Byte) /\ Unread(i) \in Seq(Byte)
  BY <1>4, <1>5, <1>6, <1>7, FlattenType
<1>9. QED
  BY <1>1, <1>2, <1>3, <1>4, <1>5, <1>6, <1>7, <1>8 DEF StreamSeqs

LEMMA SeqsHoldNext == TypeOK' => StreamSeqs'
BY SeqsHold, PTL

(* The steps, one invariant at a time.                                     *)
LEMMA HeadStep == TypeOK /\ HeadInv /\ [Next]_vars => HeadInv'
<1> SUFFICES ASSUME TypeOK, HeadInv, [Next]_vars PROVE HeadInv'
  OBVIOUS
<1> USE DEF HeadInv
<1>1. CASE RxHandler
  <2>1. CASE RxBegin
    BY <2>1 DEF RxBegin
  <2>2. CASE \E new \in rxPool, mapped \in BOOLEAN : RxTake(new, mapped)
    BY <2>2 DEF RxTake
  <2>3. CASE RxNoReplacement \/ RxTakenAll \/ RxPublish
    BY <2>3 DEF RxNoReplacement, RxTakenAll, RxPublish
  <2>4. CASE RxBell \/ RxEnd
    BY <2>4 DEF RxBell, RxEnd
  <2> QED
    BY <1>1, <2>1, <2>2, <2>3, <2>4 DEF RxHandler
<1>2. CASE SendDoorbell \/ Interrupt \/ DeviceWork \/ DeviceDown \/ OtherDirection
  <2>1. ASSUME NEW hdr, NEW signal, DeviceSend(hdr, signal)
        PROVE  UNCHANGED <<up, pc, regHead, hHead>>
    BY <2>1 DEF DeviceSend
  <2>2. CASE \/ SendDoorbell \/ Interrupt \/ DeviceStall
             \/ DeviceSignal \/ DeviceDown \/ OtherDirection
    BY <2>2 DEF SendDoorbell, Interrupt, DeviceStall, DeviceSignal, DeviceDown, OtherDirection
  <2> QED
    BY <1>2, <2>1, <2>2 DEF DeviceWork
<1>3. ASSUME NEW i \in Interfaces,
             (\E n \in 0 .. MaxRead : Read(i, n)) \/ ReadCall(i) \/ PollSleep(i)
      PROVE  HeadInv'
  BY <1>3 DEF Read, ReadCall, ReadCopy, ReadNext, ReadEnd, PollSleep
<1>4. CASE UNCHANGED vars
  BY <1>4 DEF vars
<1> QED
  BY <1>1, <1>2, <1>3, <1>4 DEF Next

(* As soon as a run begins the copy is the published head, and it stays    *)
(* between that and the device's tail: the ring is never full from there.  *)
LEMMA CopyIsBetween ==
    ASSUME TypeOK, RingInv, HeadInv, up
    PROVE  Dist(hHead, regTail) <= Dist(regHead, regTail)
<1>1. /\ regHead \in 0 .. NDesc - 1 /\ hHead \in 0 .. NDesc - 1 /\ regTail \in 0 .. NDesc - 1
      /\ hTail \in 0 .. NDesc - 1 /\ NDesc \in Nat
      /\ pc \in {"idle", "run", "publish", "bell", "restart"}
  BY RxAssumption DEF TypeOK, Slots
<1>2. CASE pc \in {"run", "publish"}
  <2>1. Dist(regHead, hHead) + Dist(hHead, hTail) + Dist(hTail, regTail) < NDesc
    BY <1>2 DEF RingInv
  <2>2. QED
    BY <1>1, <2>1 DEF Dist
<1>3. CASE ~(pc \in {"run", "publish"})
  <2>1. regHead = hHead
    BY <1>1, <1>3 DEF HeadInv
  <2>2. QED
    BY <1>1, <2>1 DEF Dist
<1>4. QED
  BY <1>2, <1>3

(* What taking a buffer off the ring does to the buffers.                  *)
LEMMA TakeChanges ==
    ASSUME TypeOK, OwnerInv, NEW new \in rxPool, NEW mapped \in BOOLEAN, RxTake(new, mapped)
    PROVE  /\ ddr[hHead] \in Bufs /\ new \in Bufs
           /\ \A s \in Slots : ddr[s] # new /\ (s # hHead => ddr[s] # ddr[hHead])
           /\ \A i \in Interfaces : {new, ddr[hHead]} \cap ToSet(Waiting(i)) = {}
           /\ \A b \in Bufs : bd'[b].frag = bd[b].frag
           /\ \A b \in Bufs \ {new, ddr[hHead]} : bd'[b] = bd[b]
           /\ bd'[new].off = 0
           /\ bd'[ddr[hHead]].off = bd[ddr[hHead]].off
           /\ bd'[ddr[hHead]].len = HdrRead(hHead).len
<1> DEFINE filled == ddr[hHead]
           len == HdrRead(hHead).len
<1>1. /\ bd \in [Bufs -> BdRec] /\ ddr \in [Slots -> Bufs] /\ hHead \in Slots
      /\ rxPool \subseteq Bufs
  BY DEF TypeOK, BdRec
<1>2. filled \in Bufs /\ new \in Bufs
  BY <1>1
<1>3. /\ \A s \in Slots : ddr[s] # new /\ (s # hHead => ddr[s] # filled)
      /\ new # filled
      /\ \A i \in Interfaces : {new, filled} \cap ToSet(Waiting(i)) = {}
  BY <1>1 DEF OwnerInv, OneOwner, IsInjective
<1>4. bd' = [bd EXCEPT ![new].off = 0, ![filled].len = len]
  BY DEF RxTake, SwapBd
<1> HIDE DEF filled, len
<1>5. /\ \A b \in Bufs : bd'[b].frag = bd[b].frag
      /\ \A b \in Bufs \ {new, filled} : bd'[b] = bd[b]
      /\ bd'[new].off = 0
      /\ bd'[filled].off = bd[filled].off
      /\ bd'[filled].len = len
  <2>1. bd'[new] = [bd[new] EXCEPT !.off = 0]
    BY <1>1, <1>2, <1>3, <1>4
  <2>2. bd'[filled] = [bd[filled] EXCEPT !.len = len]
    BY <1>1, <1>2, <1>3, <1>4
  <2>3. \A b \in Bufs \ {new, filled} : bd'[b] = bd[b]
    BY <1>1, <1>2, <1>4
  <2>4. bd[new] \in BdRec /\ bd[filled] \in BdRec
    BY <1>1, <1>2
  <2>5. bd'[new].frag = bd[new].frag /\ bd'[new].off = 0
    BY <2>1, <2>4 DEF BdRec
  <2>6. bd'[filled].frag = bd[filled].frag /\ bd'[filled].off = bd[filled].off
        /\ bd'[filled].len = len
    BY <2>2, <2>4 DEF BdRec
  <2>7. QED
    BY <2>3, <2>5, <2>6
<1>6. QED
  BY <1>2, <1>3, <1>5 DEF filled, len

(* What read() does to the buffer it copies from.                          *)
LEMMA CopyChanges ==
    ASSUME TypeOK, OwnerInv, NEW i \in Interfaces, ReadCopy(i)
    PROVE  \E n \in Nat :
              /\ cur[i] \in Bufs /\ readList[i] \in Seq(Bufs)
              /\ Waiting(i) = <<cur[i]>> \o readList[i]
              /\ \A s \in Slots : ddr[s] # cur[i]
              /\ cur[i] \notin ToSet(readList[i])
              /\ \A j \in Interfaces \ {i} :
                    cur[i] \notin ToSet(Waiting(j)) /\ Waiting(j)' = Waiting(j)
              /\ n <= bd[cur[i]].len
              /\ \A b \in Bufs \ {cur[i]} : bd'[b] = bd[b]
              /\ bd'[cur[i]] = [frag |-> bd[cur[i]].frag, off |-> bd[cur[i]].off + n,
                                len |-> bd[cur[i]].len - n]
              /\ out' = [out EXCEPT ![i] = @ \o SubSeq(BufBytes(bd[cur[i]]), 1, n)]
              /\ \/ n = bd[cur[i]].len /\ Waiting(i)' = readList[i]
                 \/ n < bd[cur[i]].len /\ Waiting(i)' = Waiting(i)
<1> DEFINE b == cur[i]
           n == Min({want[i], bd[b].len})
<1>1. /\ bd \in [Bufs -> BdRec] /\ ddr \in [Slots -> Bufs] /\ want[i] \in Nat
      /\ cur \in [Interfaces -> Bufs \cup {NULL}]
      /\ rpc \in [Interfaces -> {"idle", "copy", "next"}]
      /\ readList \in [Interfaces -> Seq(Bufs)] /\ readList[i] \in Seq(Bufs)
  BY DEF TypeOK, BdRec
<1>2. /\ b \in Bufs /\ b # NULL /\ rpc[i] = "copy"
      /\ UNCHANGED <<readList, partial>>
      /\ bd' = [bd EXCEPT ![b].off = bd[b].off + n, ![b].len = bd[b].len - n]
      /\ out' = [out EXCEPT ![i] = @ \o SubSeq(BufBytes(bd[b]), 1, n)]
  BY <1>1 DEF ReadCopy, Copying, Advance, Bytes, BufBytes
<1>3. \/ n = bd[b].len /\ cur' = [cur EXCEPT ![i] = NULL] /\ rpc' = [rpc EXCEPT ![i] = "next"]
      \/ n # bd[b].len /\ UNCHANGED <<cur, rpc>>
  BY DEF ReadCopy
<1>4. Waiting(i) = <<b>> \o readList[i]
  BY <1>2 DEF Waiting, InUse
<1>5. b \in ToSet(Waiting(i)) /\ b \notin ToSet(readList[i])
  <2>1. IsInjective(Waiting(i))
    BY DEF OwnerInv, OneOwner
  <2>2. QED
    BY <1>1, <1>2, <1>4, <2>1, InFront
<1>6. /\ \A s \in Slots : ddr[s] # b
      /\ \A j \in Interfaces \ {i} : b \notin ToSet(Waiting(j))
  BY <1>1, <1>5 DEF OwnerInv, OneOwner
<1>7. ASSUME NEW j \in Interfaces \ {i} PROVE Waiting(j)' = Waiting(j)
  BY <1>1, <1>2, <1>3 DEF Waiting, InUse
<1>8. \/ n = bd[b].len /\ Waiting(i)' = readList[i]
      \/ n # bd[b].len /\ Waiting(i)' = Waiting(i)
  <2>1. CASE n = bd[b].len /\ cur' = [cur EXCEPT ![i] = NULL] /\ rpc' = [rpc EXCEPT ![i] = "next"]
    <3>1. InUse(i)' = NULL /\ readList'[i] = readList[i]
      BY <1>1, <1>2, <2>1 DEF InUse
    <3>2. Waiting(i)' = <<>> \o readList[i]
      BY <3>1 DEF Waiting
    <3>3. QED
      BY <1>1, <2>1, <3>2, ConcatEmptySeq
  <2>2. CASE n # bd[b].len /\ UNCHANGED <<cur, rpc>>
    BY <1>2, <2>2 DEF Waiting, InUse
  <2>3. QED
    BY <1>3, <2>1, <2>2
<1>9. n \in Nat /\ n <= bd[b].len /\ bd[b].len \in Nat /\ bd[b].off \in Nat
  <2>1. bd[b].len \in Nat /\ bd[b].off \in Nat
    BY <1>1, <1>2 DEF BdRec
  <2>2. QED
    BY <1>1, <2>1, MinOfTwo
<1> HIDE DEF n, b
<1>10. /\ \A c \in Bufs \ {b} : bd'[c] = bd[c]
       /\ bd'[b] = [frag |-> bd[b].frag, off |-> bd[b].off + n, len |-> bd[b].len - n]
  <2> DEFINE o == bd[b].off + n
             l == bd[b].len - n
  <2>1. bd' = [bd EXCEPT ![b].off = o, ![b].len = l]
    BY <1>2
  <2> HIDE DEF o, l
  <2>2. \A c \in Bufs \ {b} : bd'[c] = bd[c]
    BY <1>1, <1>2, <2>1
  <2>3. bd'[b] = [[bd[b] EXCEPT !.off = o] EXCEPT !.len = l]
    BY <1>1, <1>2, <2>1
  <2>4. bd[b] \in BdRec
    BY <1>1, <1>2
  <2>5. bd'[b] = [frag |-> bd[b].frag, off |-> o, len |-> l]
    BY <2>3, <2>4 DEF BdRec
  <2>6. QED
    BY <2>2, <2>5 DEF o, l
<1>11. n # bd[b].len => n < bd[b].len
  BY <1>9
<1>12. QED
  BY <1>1, <1>2, <1>4, <1>5, <1>6, <1>7, <1>8, <1>9, <1>10, <1>11 DEF b

LEMMA RewoundStep == TypeOK /\ OwnerInv /\ RewoundInv /\ [Next]_vars => RewoundInv'
<1> SUFFICES ASSUME TypeOK, OwnerInv, RewoundInv, [Next]_vars PROVE RewoundInv'
  OBVIOUS
<1>t. bd \in [Bufs -> BdRec] /\ ddr \in [Slots -> Bufs]
  BY DEF TypeOK, BdRec
<1>1. ASSUME NEW new \in rxPool, NEW mapped \in BOOLEAN, RxTake(new, mapped)
      PROVE  RewoundInv'
  <2>1. ddr' = [ddr EXCEPT ![hHead] = new]
    BY <1>1 DEF RxTake
  <2>2. /\ \A s \in Slots : ddr[s] # new /\ (s # hHead => ddr[s] # ddr[hHead])
        /\ \A b \in Bufs \ {new, ddr[hHead]} : bd'[b] = bd[b]
        /\ bd'[new].off = 0
    BY <1>1, TakeChanges
  <2>3. ASSUME NEW s \in Slots
        PROVE  bd'[ddr'[s]].off = 0
    <3>1. CASE s = hHead
      BY <1>t, <2>1, <2>2, <3>1
    <3>2. CASE s # hHead
      <4>1. ddr'[s] = ddr[s] /\ ddr[s] \in Bufs \ {new, ddr[hHead]}
        BY <1>t, <2>1, <2>2, <3>2
      <4>2. QED
        BY <2>2, <4>1 DEF RewoundInv
    <3>3. QED
      BY <3>1, <3>2
  <2>4. QED
    BY <2>3 DEF RewoundInv
<1>2. ASSUME NEW i \in Interfaces, ReadCopy(i)
      PROVE  RewoundInv'
  <2>1. UNCHANGED ddr
    BY <1>2 DEF ReadCopy
  <2>2. (\A s \in Slots : ddr[s] # cur[i]) /\ \A b \in Bufs \ {cur[i]} : bd'[b] = bd[b]
    BY <1>2, CopyChanges
  <2>3. QED
    BY <1>t, <2>1, <2>2 DEF RewoundInv
<1>3. ASSUME NEW hdr \in Headers, NEW signal \in BOOLEAN, DeviceSend(hdr, signal)
      PROVE  RewoundInv'
  <2>1. UNCHANGED ddr
    BY <1>3 DEF DeviceSend
  <2>2. \A b \in Bufs : bd'[b].off = bd[b].off
    <3> DEFINE a == tdAddr[regTail]
               n == Len(sent) + 1
    <3>1. bd' = bd \/ bd' = [bd EXCEPT ![a].frag = n]
      BY <1>3 DEF DeviceSend
    <3> HIDE DEF a, n
    <3>2. ASSUME NEW b \in Bufs, bd' = [bd EXCEPT ![a].frag = n]
          PROVE  bd'[b].off = bd[b].off
      <4>1. bd[b] \in BdRec
        BY <1>t
      <4>2. bd'[b] = bd[b] \/ bd'[b] = [bd[b] EXCEPT !.frag = n]
        BY <1>t, <3>2
      <4>3. QED
        BY <4>1, <4>2 DEF BdRec
    <3>3. QED
      BY <3>1, <3>2
  <2>3. QED
    BY <1>t, <2>1, <2>2 DEF RewoundInv
<1>4. ASSUME UNCHANGED <<ddr, bd>>
      PROVE  RewoundInv'
  BY <1>4 DEF RewoundInv
<1>5. CASE RxBegin \/ RxNoReplacement \/ RxTakenAll \/ RxPublish \/ RxBell \/ RxEnd
  BY <1>4, <1>5 DEF RxBegin, RxNoReplacement, RxTakenAll, RxPublish, RxBell, RxEnd
<1>6. CASE \/ SendDoorbell \/ Interrupt \/ DeviceStall
           \/ DeviceSignal \/ DeviceDown \/ OtherDirection
  BY <1>4, <1>6 DEF SendDoorbell, Interrupt, DeviceStall, DeviceSignal, DeviceDown,
                    OtherDirection
<1>7. ASSUME NEW i \in Interfaces,
             (\E n \in 0 .. MaxRead : Read(i, n)) \/ ReadNext(i) \/ ReadEnd(i) \/ PollSleep(i)
      PROVE  RewoundInv'
  BY <1>4, <1>7 DEF Read, ReadNext, ReadEnd, PollSleep
<1>8. CASE UNCHANGED vars
  BY <1>4, <1>8 DEF vars
<1> QED
  BY <1>1, <1>2, <1>3, <1>5, <1>6, <1>7, <1>8 DEF Next, RxHandler, ReadCall, DeviceWork

(* A step that touches none of what StreamInv speaks of, but may take the  *)
(* device down.                                                            *)
LEMMA StreamFrame ==
    ASSUME StreamInv, up' => up, UNCHANGED <<hHead, regTail, tdHdr, ddr, bd, sent, out>>,
           mapErrors' = 0 => mapErrors = 0, \A j \in Interfaces : Waiting(j)' = Waiting(j)
    PROVE  StreamInv'
<1>1. \A i \in Interfaces :
          OnRing(i)' = OnRing(i) /\ SentTo(i)' = SentTo(i) /\ Unread(i)' = Unread(i)
  <2>1. ASSUME NEW i \in Interfaces
        PROVE  OnRing(i)' = OnRing(i)
    BY DEF OnRing
  <2>2. ASSUME NEW i \in Interfaces
        PROVE  SentTo(i)' = SentTo(i)
    BY DEF SentTo, FragBytes
  <2>3. ASSUME NEW i \in Interfaces
        PROVE  Unread(i)' = Unread(i)
    BY DEF Unread, Bytes
  <2>4. QED
    BY <2>1, <2>2, <2>3
<1>2. QED
  BY <1>1 DEF StreamInv

(* A buffer taken off the ring: its bytes are the next ones to wait, or    *)
(* the host has no use for them.                                           *)
LEMMA StreamTake ==
    ASSUME TypeOK, TypeOK', RingInv, OwnerInv, RewoundInv, StreamInv,
           NEW new \in rxPool, NEW mapped \in BOOLEAN, RxTake(new, mapped)
    PROVE  StreamInv'
<1> DEFINE filled == ddr[hHead]
           hdr == HdrRead(hHead)
           p(i) == Piece(hdr, bd[filled].frag, i)
<1>s. StreamSeqs /\ StreamSeqs'
  BY SeqsHold, SeqsHoldNext
<1>t. /\ ddr \in [Slots -> Bufs] /\ bd \in [Bufs -> BdRec] /\ bd' \in [Bufs -> BdRec]
      /\ regHead \in Slots /\ hHead \in Slots /\ hTail \in Slots /\ regTail \in Slots
      /\ mapErrors \in Nat
      /\ tdHdr \in [Slots -> Hdrs] /\ hdr \in Hdrs
  BY DEF TypeOK, BdRec, Hdrs, HdrRead
<1>1. /\ ddr' = [ddr EXCEPT ![hHead] = new] /\ hHead' = Inc(hHead) /\ hHead # hTail
      /\ pc = "run"
      /\ UNCHANGED <<up, regTail, tdHdr, sent, out, rpc, cur, partial>>
      /\ mapErrors' = mapErrors + (IF mapped THEN 0 ELSE 1)
  BY DEF RxTake
<1>2. /\ filled \in Bufs /\ new \in Bufs
      /\ \A s \in Slots : ddr[s] # new /\ (s # hHead => ddr[s] # filled)
      /\ \A i \in Interfaces : {new, filled} \cap ToSet(Waiting(i)) = {}
      /\ \A b \in Bufs : bd'[b].frag = bd[b].frag
      /\ \A b \in Bufs \ {new, filled} : bd'[b] = bd[b]
      /\ bd'[filled].off = bd[filled].off
      /\ bd'[filled].len = hdr.len
  BY TakeChanges
<1>3. \A i : p(i) \in Seq(Byte)
  <2>1. bd[filled].frag \in Nat
    BY <1>t, <1>2 DEF BdRec
  <2>2. QED
    BY <1>t, <2>1, PieceType
<1>4. ASSUME NEW i \in Interfaces
      PROVE  Unread(i)' = Unread(i) \o p(i)
  <2>1. ListBytes(Waiting(i), bd') = ListBytes(Waiting(i), bd) /\ Waiting(i) \in Seq(Bufs)
    <3>1. Waiting(i) \in Seq(Bufs)
      BY <1>s DEF StreamSeqs
    <3>2. \A b \in ToSet(Waiting(i)) : b \in Bufs
      BY <3>1 DEF ToSet
    <3>3. \A b \in ToSet(Waiting(i)) : bd'[b] = bd[b]
      BY <1>2, <3>2
    <3>4. QED
      BY <3>1, <3>3, ListSame
  <2>2. /\ Unread(i) = FlattenSeq(ListBytes(Waiting(i), bd))
        /\ Unread(i)' = FlattenSeq(ListBytes(Waiting(i)', bd'))
        /\ Unread(i) \in Seq(Byte)
        /\ ListBytes(Waiting(i), bd) \in Seq(Seq(Byte))
    BY <1>s DEF StreamSeqs
  <2>3. CASE hdr.ok /\ hdr.interface = i
    <3>1. Waiting(i)' = Append(Waiting(i), filled)
      <4>1. readList' = [readList EXCEPT ![i] = Append(@, filled)]
        BY <2>3 DEF RxTake
      <4>2. QED
        BY <1>1, <1>2, <4>1, TakenIsLast
    <3>2. BufBytes(bd'[filled]) = p(i)
      <4>1. bd'[filled].frag = bd[filled].frag /\ bd'[filled].off = 0 /\ bd'[filled].len = hdr.len
        BY <1>t, <1>2 DEF RewoundInv
      <4>2. hdr.len \in Nat
        BY <1>t, HeaderLength DEF Hdrs
      <4>3. \A k \in 1 .. hdr.len : 0 + k = k
        BY <4>2
      <4>4. BufBytes(bd'[filled]) = [k \in 1 .. hdr.len |-> <<bd[filled].frag, k>>]
        BY <4>1, <4>3 DEF BufBytes
      <4>5. QED
        BY <2>3, <4>4 DEF Piece, Meant
    <3>3. ListBytes(Waiting(i)', bd') = Append(ListBytes(Waiting(i), bd), p(i))
      BY <1>t, <1>2, <2>1, <3>1, <3>2, ListGrows
    <3> HIDE DEF p
    <3>4. QED
      BY <1>3, <2>2, <3>3, FlattenAppend
  <2>4. CASE ~(hdr.ok /\ hdr.interface = i)
    <3>1. Waiting(i)' = Waiting(i)
      <4>1. CASE hdr.ok /\ hdr.interface \in Interfaces
        <5>1. readList' = [readList EXCEPT ![hdr.interface] = Append(@, filled)]
          BY <4>1 DEF RxTake
        <5>2. i \in Interfaces \ {hdr.interface}
          BY <2>4, <4>1
        <5>3. QED
          BY <1>1, <1>2, <4>1, <5>1, <5>2, TakenIsLast
      <4>2. CASE ~(hdr.ok /\ hdr.interface \in Interfaces)
        <5>1. UNCHANGED readList
          BY <4>2 DEF RxTake
        <5>2. QED
          BY <1>1, <5>1 DEF Waiting, InUse
      <4>3. QED
        BY <4>1, <4>2
    <3>2. p(i) = <<>>
      BY <2>4 DEF Piece, Meant
    <3>3. Unread(i)' = Unread(i)
      BY <2>1, <2>2, <3>1
    <3>4. QED
      BY <2>2, <3>2, <3>3, ConcatEmptySeq
  <2>5. QED
    BY <2>3, <2>4
<1>5. ASSUME NEW i \in Interfaces, up
      PROVE  OnRing(i) = p(i) \o OnRing(i)'
  <2>1. hHead # regTail
    <3>1. Dist(hHead, hTail) + Dist(hTail, regTail) < NDesc
      <4>1. Dist(regHead, hHead) + Dist(hHead, hTail) + Dist(hTail, regTail) < NDesc
        BY <1>1 DEF RingInv
      <4>2. \A a, b \in Slots : Dist(a, b) \in Nat
        BY RxAssumption DEF Dist, Slots
      <4>3. /\ Dist(regHead, hHead) \in Nat /\ Dist(hHead, hTail) \in Nat
            /\ Dist(hTail, regTail) \in Nat
        BY <1>t, <4>2
      <4>4. QED
        BY <4>1, <4>3, RxAssumption
    <3>2. QED
      BY <1>t, <1>1, <3>1, RxAssumption DEF Dist, Slots
  <2>2. hdr = tdHdr[hHead]
    BY <1>5 DEF HdrRead
  <2>3. RingFrags \in [Slots -> Nat] /\ RingFrags' \in [Slots -> Nat]
    BY <1>s DEF StreamSeqs
  <2>4. RingFrags[hHead] = bd[filled].frag
    BY <1>t DEF RingFrags
  <2>5. \A s \in Slots \ {hHead} : RingFrags'[s] = RingFrags[s]
    <3>1. ASSUME NEW s \in Slots \ {hHead}
          PROVE  RingFrags'[s] = RingFrags[s]
      <4>1. ddr'[s] = ddr[s] /\ ddr[s] \in Bufs
        BY <1>t, <1>1
      <4>2. bd'[ddr'[s]].frag = bd[ddr[s]].frag
        BY <1>2, <4>1
      <4>3. RingFrags'[s] = bd'[ddr'[s]].frag /\ RingFrags[s] = bd[ddr[s]].frag
        BY DEF RingFrags
      <4>4. QED
        BY <4>2, <4>3
    <3>2. QED
      BY <3>1
  <2> DEFINE o == RingPieces(Inc(hHead), Dist(Inc(hHead), regTail), tdHdr, RingFrags', i)
  <2>6. RingPieces(hHead, Dist(hHead, regTail), tdHdr, RingFrags, i) = Cons(p(i), o)
    <3> DEFINE g == RingFrags'
    <3>1. g \in [Slots -> Nat] /\ AgreeBut(hHead, g, RingFrags)
      BY <2>3, <2>5 DEF AgreeBut
    <3> HIDE DEF g
    <3>2. RingPieces(hHead, Dist(hHead, regTail), tdHdr, RingFrags, i)
              = Cons(Piece(tdHdr[hHead], RingFrags[hHead], i),
                     RingPieces(Inc(hHead), Dist(Inc(hHead), regTail), tdHdr, g, i))
      BY <1>t, <2>1, <2>3, <3>1, RingShrinks
    <3>3. QED
      BY <2>2, <2>4, <3>2 DEF g
  <2>7. /\ OnRing(i) = FlattenSeq(RingPieces(hHead, Dist(hHead, regTail), tdHdr, RingFrags, i))
        /\ OnRing(i)' = FlattenSeq(o) /\ o \in Seq(Seq(Byte))
    BY <1>s, <1>1 DEF StreamSeqs
  <2> HIDE DEF o, p
  <2>8. QED
    BY <1>3, <2>6, <2>7, FlattenInFront
<1>6. SUFFICES ASSUME mapErrors' = 0, NEW i \in Interfaces
               PROVE  \E rest \in Seq(Byte) :
                         /\ up' => rest = OnRing(i)'
                         /\ (out'[i] \o Unread(i)') \o rest = SentTo(i)'
  BY DEF StreamInv
<1>7. mapErrors = 0
  BY <1>t, <1>1, <1>6
<1>8. PICK rest \in Seq(Byte) :
          /\ up => rest = OnRing(i)
          /\ (out[i] \o Unread(i)) \o rest = SentTo(i)
  BY <1>7 DEF StreamInv
<1>9. SentTo(i)' = SentTo(i) /\ out'[i] = out[i]
  BY <1>1 DEF SentTo, FragBytes
<1>10. out[i] \in Seq(Byte) /\ Unread(i) \in Seq(Byte) /\ OnRing(i)' \in Seq(Byte)
  BY <1>s DEF StreamSeqs
<1> HIDE DEF p
<1>11. CASE up
  <2>1. rest = p(i) \o OnRing(i)'
    BY <1>5, <1>8, <1>11
  <2>2. (out[i] \o (Unread(i) \o p(i))) \o OnRing(i)' = (out[i] \o Unread(i)) \o rest
    <3> DEFINE a == out[i]
               u == Unread(i)
               q == p(i)
               r == OnRing(i)'
    <3>1. a \in Seq(Byte) /\ u \in Seq(Byte) /\ q \in Seq(Byte) /\ r \in Seq(Byte)
      BY <1>3, <1>10
    <3> HIDE DEF a, u, q, r
    <3>2. (a \o u) \o q = a \o (u \o q)
      BY <3>1, BytesRegroup, Zenon
    <3> DEFINE v == a \o u
    <3>3. v \in Seq(Byte)
      BY <3>1
    <3> HIDE DEF v
    <3>4. (v \o q) \o r = v \o (q \o r)
      BY <3>1, <3>3, BytesRegroup, Zenon
    <3>5. QED
      BY <2>1, <3>2, <3>4 DEF a, u, q, r, v
  <2>3. QED
    BY <1>4, <1>8, <1>9, <1>10, <2>2
<1>12. CASE ~up
  <2>1. p(i) = <<>>
    BY <1>12 DEF p, Piece, Meant, HdrRead, NoHdr
  <2>2. Unread(i)' = Unread(i)
    BY <1>4, <1>10, <2>1, ConcatEmptySeq
  <2>3. QED
    BY <1>1, <1>8, <1>9, <1>12, <2>2
<1>13. QED
  BY <1>11, <1>12

(* A buffer's bytes are those read() copies and those it leaves.           *)
LEMMA CutBuf ==
    ASSUME NEW r \in BdRec, NEW n \in Nat, n <= r.len,
           NEW rest, rest = BufBytes([frag |-> r.frag, off |-> r.off + n, len |-> r.len - n])
    PROVE  /\ SubSeq(BufBytes(r), 1, n) \in Seq(Byte) /\ rest \in Seq(Byte)
           /\ SubSeq(BufBytes(r), 1, n) \o rest = BufBytes(r)
           /\ n = r.len => rest = <<>>
<1> DEFINE p == BufBytes(r)
           x == SubSeq(p, 1, n)
           e == r.len
           o == r.off
           g == r.frag
           q == x \o rest
<1>1. e \in Nat /\ o \in Nat /\ g \in Nat /\ n <= e /\ e - n \in Nat /\ o + n \in Nat
  BY DEF BdRec
<1>2. p \in Seq(Byte) /\ Len(p) = e /\ \A k \in 1 .. e : p[k] = <<g, o + k>>
  BY <1>1, BufBytesType DEF BufBytes
<1>3. rest \in Seq(Byte) /\ Len(rest) = e - n /\ \A k \in 1 .. e - n : rest[k] = <<g, (o + n) + k>>
  <2> DEFINE s == [frag |-> g, off |-> o + n, len |-> e - n]
  <2>1. s \in BdRec /\ s.frag = g /\ s.off = o + n /\ s.len = e - n
    BY <1>1 DEF BdRec
  <2> HIDE DEF s
  <2>2. BufBytes(s) \in Seq(Byte) /\ Len(BufBytes(s)) = e - n
    BY <2>1, BufBytesType
  <2>3. \A k \in 1 .. e - n : BufBytes(s)[k] = <<g, (o + n) + k>>
    BY <2>1 DEF BufBytes
  <2>4. QED
    BY <2>2, <2>3 DEF s
<1> HIDE DEF p, e, o, g
<1>4. x \in Seq(Byte) /\ Len(x) = n /\ \A k \in 1 .. n : x[k] = p[k]
  <2>1. \A k \in 1 .. n : k \in 1 .. Len(p) /\ p[k] \in Byte
    BY <1>1, <1>2
  <2>2. QED
    BY <2>1
<1> HIDE DEF x
<1>5. /\ q \in Seq(Byte) /\ Len(q) = n + (e - n)
      /\ \A k \in 1 .. n + (e - n) : q[k] = IF k <= n THEN x[k] ELSE rest[k - n]
  BY <1>3, <1>4, ConcatProperties, SMTT(30)
<1> HIDE DEF q
<1>6. n + (e - n) = e
  BY <1>1
<1>7. ASSUME NEW k \in 1 .. e
      PROVE  q[k] = p[k]
  <2>1. CASE k <= n
    BY <1>4, <1>5, <1>6, <2>1
  <2>2. CASE ~(k <= n)
    <3>1. k - n \in 1 .. e - n /\ (o + n) + (k - n) = o + k
      BY <1>1, <2>2
    <3>2. q[k] = rest[k - n]
      BY <1>5, <1>6, <2>2
    <3>3. QED
      BY <1>2, <1>3, <3>1, <3>2
  <2>3. QED
    BY <2>1, <2>2
<1>8. q = p
  BY <1>2, <1>5, <1>6, <1>7, SeqEqual
<1>9. n = e => rest = <<>>
  BY <1>1, <1>3
<1>10. QED
  BY <1>3, <1>4, <1>8, <1>9 DEF p, q, x, e

(* What read() copies moves from what is waiting to what has been read.    *)
LEMMA StreamCopy ==
    ASSUME TypeOK, TypeOK', OwnerInv, StreamInv, NEW i \in Interfaces, ReadCopy(i)
    PROVE  StreamInv'
<1>s. StreamSeqs /\ StreamSeqs'
  BY SeqsHold, SeqsHoldNext
<1>t. /\ ddr \in [Slots -> Bufs] /\ bd \in [Bufs -> BdRec] /\ bd' \in [Bufs -> BdRec]
      /\ out \in [Interfaces -> Seq(Byte)]
  BY DEF TypeOK, BdRec, Byte
<1> DEFINE b == cur[i]
           l == readList[i]
<1>1. PICK n \in Nat :
          /\ b \in Bufs /\ Waiting(i) = <<b>> \o l /\ l \in Seq(Bufs)
          /\ \A s \in Slots : ddr[s] # b
          /\ b \notin ToSet(l)
          /\ \A j \in Interfaces \ {i} : b \notin ToSet(Waiting(j)) /\ Waiting(j)' = Waiting(j)
          /\ n <= bd[b].len
          /\ \A c \in Bufs \ {b} : bd'[c] = bd[c]
          /\ bd'[b] = [frag |-> bd[b].frag, off |-> bd[b].off + n, len |-> bd[b].len - n]
          /\ out' = [out EXCEPT ![i] = @ \o SubSeq(BufBytes(bd[b]), 1, n)]
          /\ \/ n = bd[b].len /\ Waiting(i)' = l
             \/ n < bd[b].len /\ Waiting(i)' = Waiting(i)
  BY CopyChanges
<1>2. UNCHANGED <<up, hHead, regTail, tdHdr, ddr, sent, mapErrors>>
  BY DEF ReadCopy
<1> HIDE DEF b, l
<1> DEFINE x == SubSeq(BufBytes(bd[b]), 1, n)
           y == BufBytes(bd'[b])
           v == FlattenSeq(ListBytes(l, bd))
<1>3. /\ x \in Seq(Byte) /\ y \in Seq(Byte) /\ x \o y = BufBytes(bd[b])
      /\ n = bd[b].len => y = <<>>
  <2>1. bd[b] \in BdRec
    BY <1>t, <1>1
  <2>2. QED
    BY <1>1, <2>1, CutBuf
<1>4. ASSUME NEW w \in Seq(Bufs), b \notin ToSet(w)
      PROVE  ListBytes(w, bd') = ListBytes(w, bd)
  <2>1. \A c \in ToSet(w) : c \in Bufs /\ c # b
    BY <1>4 DEF ToSet
  <2>2. \A c \in ToSet(w) : bd'[c] = bd[c]
    BY <1>1, <2>1
  <2>3. QED
    BY <2>2, ListSame
<1>5. v \in Seq(Byte) /\ ListBytes(l, bd) \in Seq(Seq(Byte))
  BY <1>t, <1>1, ListType, FlattenType
<1>6. Unread(i) = (x \o y) \o v
  <2>1. Unread(i) = FlattenSeq(ListBytes(<<b>> \o l, bd))
    BY <1>s, <1>1 DEF StreamSeqs
  <2>2. ListBytes(<<b>> \o l, bd) = Cons(BufBytes(bd[b]), ListBytes(l, bd))
    BY <1>t, <1>1, ListInFront
  <2>3. BufBytes(bd[b]) \in Seq(Byte)
    BY <1>t, <1>1, BufBytesType
  <2>4. FlattenSeq(Cons(BufBytes(bd[b]), ListBytes(l, bd))) = BufBytes(bd[b]) \o v
    BY <1>5, <2>3, FlattenInFront
  <2>5. QED
    BY <1>3, <2>1, <2>2, <2>4
<1>7. Unread(i)' = y \o v
  <2>1. ListBytes(l, bd') = ListBytes(l, bd)
    BY <1>1, <1>4
  <2>2. Unread(i)' = FlattenSeq(ListBytes(Waiting(i)', bd'))
    BY <1>s DEF StreamSeqs
  <2>3. CASE n = bd[b].len /\ Waiting(i)' = l
    <3>1. Unread(i)' = v
      BY <2>1, <2>2, <2>3
    <3>2. y = <<>>
      BY <1>3, <2>3
    <3>3. <<>> \o v = v
      BY <1>5, ConcatEmptySeq
    <3>4. QED
      BY <3>1, <3>2, <3>3
  <2>4. CASE Waiting(i)' = Waiting(i)
    <3>1. Unread(i)' = FlattenSeq(ListBytes(<<b>> \o l, bd'))
      BY <1>1, <2>2, <2>4
    <3>2. ListBytes(<<b>> \o l, bd') = Cons(y, ListBytes(l, bd))
      BY <1>t, <1>1, <2>1, ListInFront
    <3>3. FlattenSeq(Cons(y, ListBytes(l, bd))) = y \o v
      BY <1>3, <1>5, FlattenInFront
    <3>4. QED
      BY <3>1, <3>2, <3>3
  <2>5. QED
    BY <1>1, <2>3, <2>4
<1> HIDE DEF x, y, v
<1>8. out'[i] \o Unread(i)' = out[i] \o Unread(i)
  <2> DEFINE a == out[i]
             z == x \o y
             u == y \o v
  <2>1. a \in Seq(Byte) /\ z \in Seq(Byte) /\ u \in Seq(Byte) /\ out'[i] = a \o x
    <3>1. z \in Seq(Byte) /\ u \in Seq(Byte)
      <4>1. x \in Seq(Byte) /\ y \in Seq(Byte) /\ v \in Seq(Byte)
        BY <1>3, <1>5
      <4>2. QED
        BY <4>1, BytesTogether, Zenon
    <3>2. a \in Seq(Byte)
      BY <1>t
    <3>3. out'[i] = a \o x
      BY <1>1, <1>t DEF x
    <3>4. QED
      BY <3>1, <3>2, <3>3
  <2> HIDE DEF a
  <2>2. (a \o x) \o u = a \o (x \o u)
    <3> HIDE DEF u
    <3>1. QED
      BY <1>3, <2>1, BytesRegroup, Zenon
  <2>3. x \o u = z \o v
    <3>0. x \in Seq(Byte) /\ y \in Seq(Byte) /\ v \in Seq(Byte)
      BY <1>3, <1>5
    <3>1. (x \o y) \o v = x \o (y \o v)
      BY <3>0, BytesRegroup, Zenon
    <3>2. QED
      BY <3>1
  <2> HIDE DEF u, z
  <2>4. (a \o x) \o u = a \o (z \o v)
    BY <2>2, <2>3
  <2>5. QED
    BY <1>6, <1>7, <2>1, <2>4 DEF a, u, z
<1>9. ASSUME NEW j \in Interfaces
      PROVE  out'[j] \o Unread(j)' = out[j] \o Unread(j)
  <2>1. CASE j = i
    BY <1>8, <2>1
  <2>2. CASE j # i
    <3>1. out'[j] = out[j]
      BY <1>t, <1>1, <2>2
    <3>2. Waiting(j) \in Seq(Bufs) /\ b \notin ToSet(Waiting(j)) /\ Waiting(j)' = Waiting(j)
      BY <1>s, <1>1, <2>2 DEF StreamSeqs
    <3>3. ListBytes(Waiting(j), bd') = ListBytes(Waiting(j), bd)
      BY <1>4, <3>2
    <3>4. /\ Unread(j) = FlattenSeq(ListBytes(Waiting(j), bd))
          /\ Unread(j)' = FlattenSeq(ListBytes(Waiting(j)', bd'))
      BY <1>s DEF StreamSeqs
    <3>5. QED
      BY <3>1, <3>2, <3>3, <3>4
  <2>3. QED
    BY <2>1, <2>2
<1>10. ASSUME NEW j \in Interfaces
       PROVE  OnRing(j)' = OnRing(j) /\ SentTo(j)' = SentTo(j)
  <2>1. RingFrags' = RingFrags
    <3>1. \A s \in Slots : bd'[ddr'[s]] = bd[ddr[s]]
      BY <1>t, <1>1, <1>2
    <3>2. QED
      BY <3>1 DEF RingFrags
  <2>2. /\ OnRing(j) = FlattenSeq(RingPieces(hHead, Dist(hHead, regTail), tdHdr, RingFrags, j))
        /\ OnRing(j)'
               = FlattenSeq(RingPieces(hHead', Dist(hHead', regTail'), tdHdr', RingFrags', j))
        /\ SentTo(j) = FlattenSeq(SentPieces(sent, j))
        /\ SentTo(j)' = FlattenSeq(SentPieces(sent', j))
    BY <1>s DEF StreamSeqs
  <2>3. QED
    BY <1>2, <2>1, <2>2
<1>11. QED
  BY <1>2, <1>9, <1>10 DEF StreamInv

(* What the device sends goes to the end of the ring.                      *)
LEMMA StreamSend ==
    ASSUME TypeOK, TypeOK', RingInv, OwnerInv, HeadInv, StreamInv,
           NEW hdr \in Headers, NEW signal \in BOOLEAN, DeviceSend(hdr, signal)
    PROVE  StreamInv'
<1>s. StreamSeqs /\ StreamSeqs'
  BY SeqsHold, SeqsHoldNext
<1>t. /\ ddr \in [Slots -> Bufs] /\ bd \in [Bufs -> BdRec] /\ tdHdr \in [Slots -> Hdrs]
      /\ hHead \in Slots /\ regHead \in Slots /\ regTail \in Slots
      /\ sent \in Seq(Headers) /\ Len(sent) \in Nat /\ hdr \in Hdrs
  <2>1. sent \in Seq(Headers)
    BY DEF TypeOK
  <2>2. Len(sent) \in Nat /\ hdr \in Hdrs
    BY <2>1 DEF Hdrs
  <2>3. QED
    BY <2>1, <2>2 DEF TypeOK, BdRec, Hdrs
<1> DEFINE n == Len(sent) + 1
           a == tdAddr[regTail]
<1>1. /\ up /\ ~RingFull
      /\ sent' = Append(sent, hdr) /\ tdHdr' = [tdHdr EXCEPT ![regTail] = hdr]
      /\ regTail' = Inc(regTail)
      /\ bd' = IF a = NULL THEN bd ELSE [bd EXCEPT ![a].frag = n]
      /\ UNCHANGED <<up, regHead, hHead, ddr, readList, rpc, cur, partial, out, mapErrors>>
  BY DEF DeviceSend
<1>2. SUFFICES ASSUME mapErrors' = 0, NEW i \in Interfaces
               PROVE  \E rest \in Seq(Byte) :
                         /\ up' => rest = OnRing(i)'
                         /\ (out'[i] \o Unread(i)') \o rest = SentTo(i)'
  BY DEF StreamInv
<1>3. a = ddr[regTail] /\ a \in Bufs /\ a # NULL
  <2>1. DeviceWindowMapped
    BY WindowFromRing
  <2>2. ~Within(regTail, regHead, regTail)
    BY <1>t, RxAssumption DEF Within, Dist, Slots
  <2>3. QED
    BY <1>t, <1>1, <1>2, <2>1, <2>2, RxAssumption DEF DeviceWindowMapped
<1> HIDE DEF a, n
<1>4. /\ n \in Nat /\ bd'[a].frag = n
      /\ \A b \in Bufs \ {a} : bd'[b] = bd[b]
  <2>1. n \in Nat /\ bd' = [bd EXCEPT ![a].frag = n]
    BY <1>t, <1>1, <1>3 DEF n
  <2>2. bd'[a] = [bd[a] EXCEPT !.frag = n] /\ bd[a] \in BdRec
    BY <1>t, <1>3, <2>1
  <2>3. QED
    BY <1>t, <1>3, <2>1, <2>2 DEF BdRec
<1>5. Unread(i)' = Unread(i)
  <2>1. Waiting(i)' = Waiting(i)
    BY <1>1 DEF Waiting, InUse
  <2>2. Waiting(i) \in Seq(Bufs) /\ a \notin ToSet(Waiting(i))
    <3>1. ToSet(Waiting(i)) \cap (rxPool \cup {ddr[s] : s \in Slots}) = {}
      BY DEF OwnerInv, OneOwner
    <3>2. a \in {ddr[s] : s \in Slots}
      BY <1>t, <1>3
    <3>3. QED
      BY <1>s, <3>1, <3>2 DEF StreamSeqs
  <2>3. \A b \in ToSet(Waiting(i)) : b \in Bufs /\ b # a
    BY <2>2 DEF ToSet
  <2>4. \A b \in ToSet(Waiting(i)) : bd'[b] = bd[b]
    BY <1>4, <2>3
  <2>5. ListBytes(Waiting(i), bd') = ListBytes(Waiting(i), bd)
    BY <2>2, <2>4, ListSame
  <2>6. /\ Unread(i) = FlattenSeq(ListBytes(Waiting(i), bd))
        /\ Unread(i)' = FlattenSeq(ListBytes(Waiting(i)', bd'))
    BY <1>s DEF StreamSeqs
  <2>7. QED
    BY <2>1, <2>5, <2>6
<1> DEFINE p == Piece(hdr, n, i)
<1>6. p \in Seq(Byte)
  BY <1>t, <1>4, PieceType
<1>7. SentTo(i)' = SentTo(i) \o p
  <2>1. SentPieces(sent', i) = Append(SentPieces(sent, i), p)
    BY <1>t, <1>1, SentGrows DEF n
  <2>2. /\ SentTo(i) = FlattenSeq(SentPieces(sent, i)) /\ SentPieces(sent, i) \in Seq(Seq(Byte))
        /\ SentTo(i)' = FlattenSeq(SentPieces(sent', i))
    BY <1>s DEF StreamSeqs
  <2> HIDE DEF p
  <2>3. QED
    BY <1>6, <2>1, <2>2, FlattenAppend
<1>8. OnRing(i)' = OnRing(i) \o p
  <2>1. Dist(hHead, regTail) < NDesc - 1
    <3>1. Dist(hHead, regTail) <= Dist(regHead, regTail)
      BY <1>1, CopyIsBetween
    <3>2. Dist(regHead, regTail) < NDesc - 1
      <4>1. Dist(regHead, regTail) < NDesc
        BY DEF RingInv
      <4>2. Inc(regTail) # regHead
        BY <1>1 DEF RingFull
      <4>3. Inc(regTail) = IF regTail = NDesc - 1 THEN 0 ELSE regTail + 1
        BY <1>t, IncIsNext
      <4>4. QED
        BY <1>t, <4>1, <4>2, <4>3, RxAssumption DEF Dist, Slots
    <3>3. Dist(hHead, regTail) \in Nat /\ Dist(regHead, regTail) \in Nat
      BY <1>t, RxAssumption DEF Dist, Slots
    <3>4. QED
      BY <3>1, <3>2, <3>3, RxAssumption
  <2> DEFINE f == RingFrags
             g == RingFrags'
             h == tdHdr'
  <2>2. /\ f \in [Slots -> Nat] /\ g \in [Slots -> Nat] /\ h \in [Slots -> Hdrs]
        /\ h[regTail] = hdr /\ AgreeBut(regTail, h, tdHdr)
    <3>1. /\ RingFrags \in [Slots -> Nat] /\ RingFrags' \in [Slots -> Nat]
          /\ tdHdr' \in [Slots -> Hdrs]
      BY <1>s DEF StreamSeqs
    <3>2. tdHdr'[regTail] = hdr /\ \A s \in Slots \ {regTail} : tdHdr'[s] = tdHdr[s]
      BY <1>t, <1>1
    <3>3. QED
      BY <3>1, <3>2 DEF AgreeBut
  <2>3. g[regTail] = n
    <3>1. RingFrags'[regTail] = bd'[ddr'[regTail]].frag
      BY <1>t DEF RingFrags
    <3>2. QED
      BY <1>1, <1>3, <1>4, <3>1
  <2>4. AgreeBut(regTail, g, f)
    <3>1. ASSUME NEW s \in Slots \ {regTail}
          PROVE  RingFrags'[s] = RingFrags[s]
      <4>1. ddr[s] \in Bufs \ {a}
        BY <1>t, <1>3 DEF OwnerInv, OneOwner, IsInjective
      <4>2. bd'[ddr'[s]].frag = bd[ddr[s]].frag
        BY <1>1, <1>4, <4>1
      <4>3. RingFrags'[s] = bd'[ddr'[s]].frag /\ RingFrags[s] = bd[ddr[s]].frag
        BY DEF RingFrags
      <4>4. QED
        BY <4>2, <4>3
    <3>2. QED
      BY <3>1 DEF AgreeBut
  <2>5. /\ OnRing(i) = FlattenSeq(RingPieces(hHead, Dist(hHead, regTail), tdHdr, f, i))
        /\ RingPieces(hHead, Dist(hHead, regTail), tdHdr, f, i) \in Seq(Seq(Byte))
        /\ OnRing(i)' = FlattenSeq(RingPieces(hHead, Dist(hHead, Inc(regTail)), h, g, i))
    BY <1>s, <1>1 DEF StreamSeqs
  <2> HIDE DEF f, g, h
  <2>6. RingPieces(hHead, Dist(hHead, Inc(regTail)), h, g, i)
            = Append(RingPieces(hHead, Dist(hHead, regTail), tdHdr, f, i), p)
    <3>1. RingPieces(hHead, Dist(hHead, Inc(regTail)), h, g, i)
              = Append(RingPieces(hHead, Dist(hHead, regTail), tdHdr, f, i),
                       Piece(h[regTail], g[regTail], i))
      <4>1. hHead \in Slots /\ regTail \in Slots /\ OnSlots(tdHdr, f) /\ OnSlots(h, g)
        BY <1>t, <2>2 DEF OnSlots
      <4>2. AgreeBut(regTail, h, tdHdr)
        BY <2>2
      <4>3. QED
        BY <2>1, <2>4, <4>1, <4>2, RingGrows
    <3>2. QED
      BY <2>2, <2>3, <3>1
  <2> HIDE DEF p
  <2>7. QED
    BY <1>6, <2>5, <2>6, FlattenAppend
<1> HIDE DEF p
<1>9. (out[i] \o Unread(i)) \o OnRing(i) = SentTo(i)
  BY <1>1, <1>2 DEF StreamInv
<1>10. (out[i] \o Unread(i)) \o (OnRing(i) \o p) = SentTo(i) \o p
  <2> DEFINE v == out[i] \o Unread(i)
             r == OnRing(i)
  <2>1. v \in Seq(Byte) /\ r \in Seq(Byte)
    BY <1>s DEF StreamSeqs
  <2>2. v \o r = SentTo(i)
    BY <1>9
  <2> HIDE DEF v, r
  <2>3. (v \o r) \o p = v \o (r \o p)
    BY <1>6, <2>1, BytesRegroup, Zenon
  <2>4. v \o (r \o p) = SentTo(i) \o p
    BY <2>2, <2>3
  <2>5. QED
    BY <2>4 DEF v, r
<1>11. OnRing(i)' \in Seq(Byte)
  BY <1>s DEF StreamSeqs
<1>12. QED
  BY <1>1, <1>5, <1>7, <1>8, <1>10, <1>11

LEMMA StreamStep ==
    TypeOK /\ TypeOK' /\ RingInv /\ OwnerInv /\ HeadInv /\ RewoundInv /\ StreamInv /\ [Next]_vars
        => StreamInv'
<1> SUFFICES ASSUME TypeOK, TypeOK', RingInv, OwnerInv, HeadInv, RewoundInv, StreamInv, [Next]_vars
             PROVE  StreamInv'
  OBVIOUS
<1>1. ASSUME UNCHANGED <<hHead, regTail, tdHdr, ddr, bd, sent, out, mapErrors>>,
             UNCHANGED <<rpc, cur, partial, readList>>, up' => up
      PROVE  StreamInv'
  <2>1. \A j \in Interfaces : Waiting(j)' = Waiting(j)
    BY <1>1 DEF Waiting, InUse
  <2>2. QED
    BY <1>1, <2>1, StreamFrame
<1>2. ASSUME NEW new \in rxPool, NEW mapped \in BOOLEAN, RxTake(new, mapped)
      PROVE  StreamInv'
  BY <1>2, StreamTake
<1>3. ASSUME NEW i \in Interfaces, ReadCopy(i)
      PROVE  StreamInv'
  BY <1>3, StreamCopy
<1>4. ASSUME NEW hdr \in Headers, NEW signal \in BOOLEAN, DeviceSend(hdr, signal)
      PROVE  StreamInv'
  BY <1>4, StreamSend
<1>5. ASSUME NEW i \in Interfaces,
             (\E n \in 0 .. MaxRead : Read(i, n)) \/ ReadNext(i) \/ ReadEnd(i)
      PROVE  StreamInv'
  <2>1. \A j \in Interfaces : Waiting(j)' = Waiting(j)
    BY <1>5, ReadKeepsWaiting
  <2>2. UNCHANGED <<up, hHead, regTail, tdHdr, ddr, bd, sent, out, mapErrors>>
    BY <1>5 DEF Read, ReadNext, ReadEnd
  <2>3. QED
    BY <2>1, <2>2, StreamFrame
<1>6. CASE RxBegin
  <2>1. hHead' = hHead
    BY <1>6 DEF RxBegin, HeadInv
  <2>2. QED
    BY <1>1, <1>6, <2>1 DEF RxBegin
<1>7. CASE RxNoReplacement \/ RxTakenAll \/ RxPublish \/ RxBell \/ RxEnd
  BY <1>1, <1>7 DEF RxNoReplacement, RxTakenAll, RxPublish, RxBell, RxEnd
<1>8. CASE \/ SendDoorbell \/ Interrupt \/ DeviceStall
           \/ DeviceSignal \/ DeviceDown \/ OtherDirection
  BY <1>1, <1>8 DEF SendDoorbell, Interrupt, DeviceStall, DeviceSignal, DeviceDown,
                    OtherDirection
<1>9. ASSUME NEW i \in Interfaces, PollSleep(i)
      PROVE  StreamInv'
  BY <1>1, <1>9 DEF PollSleep
<1>10. CASE UNCHANGED vars
  BY <1>1, <1>10 DEF vars
<1> QED
  BY <1>2, <1>3, <1>4, <1>5, <1>6, <1>7, <1>8, <1>9, <1>10
  DEF Next, RxHandler, ReadCall, DeviceWork

LEMMA StreamInit == Init => HeadInv /\ RewoundInv /\ StreamInv
<1> SUFFICES ASSUME Init PROVE HeadInv /\ RewoundInv /\ StreamInv
  OBVIOUS
<1>1. HeadInv /\ RewoundInv
  BY DEF Init, HeadInv, RewoundInv
<1>2. ASSUME NEW i \in Interfaces
      PROVE  /\ OnRing(i) \in Seq(Byte)
             /\ (out[i] \o Unread(i)) \o OnRing(i) = SentTo(i)
  <2>1. Waiting(i) = <<>>
    BY DEF Init, Waiting, InUse
  <2>2. Dist(hHead, regTail) = 0
    BY RxAssumption DEF Init, Dist, Slots
  <2>3. Unread(i) = <<>>
    <3>1. [k \in DOMAIN Waiting(i) |-> Bytes(Waiting(i)[k])] = <<>>
      BY <2>1
    <3>2. QED
      BY <3>1, FlattenEmpty DEF Unread
  <2>4. OnRing(i) = <<>>
    BY <2>2, FlattenEmpty DEF OnRing
  <2>5. SentTo(i) = <<>>
    <3>1. sent = <<>>
      BY DEF Init
    <3>2. QED
      BY <3>1, FlattenEmpty DEF SentTo
  <2>6. out[i] = <<>>
    BY DEF Init
  <2>7. QED
    BY <2>3, <2>4, <2>5, <2>6
<1>3. QED
  BY <1>1, <1>2 DEF StreamInv

(* The reader of an interface gets the bytes the device sent to it, in     *)
(* order and none twice, however fragments, buffers and reads are cut, and *)
(* while the device is up none is lost on the way, unless the mapping of a *)
(* buffer failed: for every ring size, pool and set of interfaces.         *)
THEOREM BytesStayInOrder == Spec => []StreamInOrder
<1>1. TypeOK /\ StreamInv => StreamInOrder
  <2>1. SUFFICES ASSUME TypeOK, StreamInv, mapErrors = 0, NEW i \in Interfaces
                 PROVE  /\ IsPrefix(out[i], SentTo(i))
                        /\ up => out[i] \o Unread(i) \o OnRing(i) = SentTo(i)
    BY DEF StreamInOrder
  <2>2. PICK rest \in Seq(Byte) :
            (up => rest = OnRing(i)) /\ (out[i] \o Unread(i)) \o rest = SentTo(i)
    BY <2>1 DEF StreamInv
  <2> DEFINE a == out[i]
             u == Unread(i)
  <2>3. a \in Seq(Byte) /\ u \in Seq(Byte)
    BY <2>1, SeqsHold DEF StreamSeqs
  <2> HIDE DEF a, u
  <2> DEFINE w == u \o rest
  <2>4. w \in Seq(Byte) /\ SentTo(i) = a \o w
    <3>1. (a \o u) \o rest = a \o (u \o rest)
      BY <2>3, BytesRegroup, Zenon
    <3>2. (a \o u) \o rest = SentTo(i)
      BY <2>2 DEF a, u
    <3>3. w \in Seq(Byte)
      BY <2>3
    <3>4. QED
      BY <3>1, <3>2, <3>3
  <2> HIDE DEF w
  <2>5. IsPrefix(a, a \o w)
    <3> DEFINE c == a \o w
    <3>1. /\ Len(a) \in Nat /\ Len(c) = Len(a) + Len(w) /\ Len(w) \in Nat
          /\ \A k \in 1 .. Len(a) : c[k] = a[k]
          /\ c \in Seq(Byte)
      BY <2>3, <2>4, ConcatProperties
    <3> HIDE DEF c
    <3>2. SubSeq(a, 1, Len(a)) = SubSeq(c, 1, Len(a))
      BY <2>3, <3>1
    <3>3. QED
      BY <3>1, <3>2 DEF IsPrefix, c
  <2>6. QED
    BY <2>2, <2>4, <2>5 DEF a, u
<1>2. TypeOK /\ HeadInv /\ RingInv /\ OwnerInv /\ RewoundInv /\ StreamInv /\ [Next]_vars
          => (HeadInv /\ RewoundInv /\ StreamInv)'
  BY TypeStep, HeadStep, RewoundStep, StreamStep
<1> QED
  BY <1>1, <1>2, TypeInit, TypeStep, RingInit, RingStep, OwnerInit, OwnerStep, StreamInit, PTL
  DEF Spec
=============================================================================
