------------------------------- MODULE MxlkRx -------------------------------
(***************************************************************************)
(* The device-to-host half of the mxlk serial driver                       *)
(* (serial/mxlk/mxlk_core.c): every slot of the receive ring offers the    *)
(* device a buffer of rx_pool; the rx_event work item takes filled buffers *)
(* off the ring, puts a replacement in their place and hands them to the   *)
(* read list of their interface, from which read() copies them out, keeping*)
(* a buffer it has only partly copied for the next call.                   *)
(*                                                                         *)
(* Actors: the rx_event and send_doorbell work items, the interrupt        *)
(* handler, a reader and a poller per interface, the device (external), and*)
(* the other direction, as far as it uses the same work item and interrupt.*)
(* Operators named Bug_... are faults the properties must catch.           *)
(***************************************************************************)
EXTENDS SequencesExt

CONSTANTS
    Bufs,            \* the buffer descriptors of rx_pool
    NULL,            \* no buffer, and an address nothing is mapped at
    NDesc,           \* rx.pipe.ndesc: slots of the ring
    Interfaces,      \* the interfaces, MXLK_NUM_INTERFACES of them
    BadInterface,    \* an interface number the host does not have
    Headers,         \* the descriptors the device may produce
    MaxRead,         \* bound: the longest read()
    MaxFrags,        \* bound: fragments the device sends
    MaxMapErrors,    \* bound: failures of dma_map_single()
    DeviceMayFail,   \* whether the device may fall silent
    BothWays,        \* whether the other direction is in use, too
    PollWhileReading \* whether one thread polls while another reads

ASSUME RxAssumption ==
    /\ NULL \notin Bufs
    /\ NDesc \in Nat \ {0}
    /\ IsFiniteSet(Bufs) /\ Cardinality(Bufs) >= NDesc
    /\ BadInterface \notin Interfaces
    /\ Headers \subseteq [ok : BOOLEAN, interface : Interfaces \cup {BadInterface},
                          len : Nat]
    /\ MaxRead \in Nat /\ MaxFrags \in Nat /\ MaxMapErrors \in Nat
    /\ DeviceMayFail \in BOOLEAN /\ PollWhileReading \in BOOLEAN /\ BothWays \in BOOLEAN

VARIABLES
    (* Registers and memory of the device, reached over PCIe.              *)
    up,              \* the device answers; else reads give all ones
    regHead,         \* cap.rx.head, moved by the host
    regTail,         \* cap.rx.tail, moved by the device
    tdAddr,          \* the address in every descriptor, set by the host
    tdHdr,           \* its status, interface and length, set by the device
    stalled,         \* the device found the ring full and waits for a doorbell
    owes,            \* the device has moved its tail and not yet interrupted
    msi,             \* an interrupt is on its way to the host
    (* Host: lists and buffers.                                            *)
    rxPool,          \* rx_pool, its order left out
    ddr,             \* rx.ddr[].bd
    bd,              \* of each buffer: the fragment in it, data offset, length
    readList,        \* the read list of every interface
    partial,         \* partial_read of every interface
    (* Host: the work items.                                               *)
    rxPending,       \* rx_event is queued
    dbPending,       \* send_doorbell is queued
    pc,              \* where the rx_event handler stands
    hHead,           \* the handler's copy of head
    hTail,           \* the handler's copy of tail
    restart,         \* the handler's restart
    (* Host: the system calls.                                             *)
    rpc,             \* where the read() of an interface stands
    want,            \* bytes it still has to copy
    cur,             \* the buffer it copies from
    asleep,          \* the interfaces with a poll() asleep for POLLIN
    (* History.                                                            *)
    sent,            \* the descriptors the device has produced
    out,             \* the bytes read() has returned, by interface
    mapErrors        \* failures of dma_map_single() so far

device  == <<up, regHead, regTail, tdAddr, tdHdr, stalled, owes, msi>>
lists   == <<rxPool, ddr, bd, readList>>
work    == <<rxPending, dbPending>>
handler == <<pc, hHead, hTail, restart>>
calls   == <<rpc, want, cur, partial, asleep>>
history == <<sent, out, mapErrors>>
vars    == <<device, lists, work, handler, calls, history>>

Slots == 0 .. NDesc - 1

(* MXLK_CIRCULAR_INC                                                       *)
Inc(i) == (i + 1) % NDesc

(* Slots to walk from a to b, and whether slot i is met on the way.        *)
Dist(a, b)      == IF a <= b THEN b - a ELSE NDesc - a + b
Within(i, a, b) == Dist(a, i) < Dist(a, b)

NoHdr == [ok |-> FALSE, interface |-> BadInterface, len |-> 0]

(* mxlk_txrx_init() fills the ring from the pool.  The bytes of fragment n *)
(* are <<n, 1>>, <<n, 2>> and so on; fragment 0 is what a buffer holds     *)
(* before the device has written it.                                       *)
Init ==
    /\ up = TRUE /\ stalled = FALSE /\ owes = FALSE /\ msi = FALSE
    /\ regHead \in Slots /\ regTail = regHead
    /\ ddr \in {f \in [Slots -> Bufs] : IsInjective(f)}
    /\ tdAddr = ddr /\ tdHdr = [i \in Slots |-> NoHdr]
    /\ rxPool = Bufs \ {ddr[i] : i \in Slots}
    /\ bd = [b \in Bufs |-> [frag |-> 0, off |-> 0, len |-> 0]]
    /\ readList = [i \in Interfaces |-> <<>>]
    /\ partial = [i \in Interfaces |-> NULL]
    /\ rxPending = FALSE /\ dbPending = FALSE
    /\ pc = "idle" /\ hHead = regHead /\ hTail = regHead /\ restart = FALSE
    /\ rpc = [i \in Interfaces |-> "idle"]
    /\ want = [i \in Interfaces |-> 0]
    /\ cur = [i \in Interfaces |-> NULL]
    /\ asleep = {}
    /\ sent = <<>> /\ out = [i \in Interfaces |-> <<>>] /\ mapErrors = 0

-----------------------------------------------------------------------------
(* mxlk_rx_event_handler()                                                 *)

(* Read both ends of the ring, or give up because the device is down.      *)
RxBegin ==
    /\ pc = "idle" /\ rxPending
    /\ rxPending' = FALSE
    /\ \/ up /\ pc' = "run" /\ hHead' = regHead /\ hTail' = regTail
       \/ ~up /\ UNCHANGED <<pc, hHead, hTail>>
    /\ UNCHANGED <<device, lists, dbPending, restart, calls, history>>

(* The status, interface and length the handler reads from a descriptor: a *)
(* device that is down gives all ones, which is no success.                *)
HdrRead(i) == IF up THEN tdHdr[i] ELSE NoHdr

(* mxlk_alloc_rx_bd() rewinds the replacement; the buffer that is taken    *)
(* off gets the length the device gave.                                    *)
SwapBd(new, filled, len) == bd' = [bd EXCEPT ![new].off = 0, ![filled].len = len]

(* mxlk_add_bd_to_interface()                                              *)
Bug_NoWake(i) == UNCHANGED asleep
WakeReaders(i) == asleep' = asleep \ {i}

(* A failed mapping is reported and otherwise ignored: the descriptor gets *)
(* the address of nothing.  One written to a device that is down is lost.  *)
Bug_KeepAddr(i, new, mapped) == UNCHANGED tdAddr
SetAddr(i, new, mapped) ==
    tdAddr' = IF up THEN [tdAddr EXCEPT ![i] = IF mapped THEN new ELSE NULL] ELSE tdAddr

(* Take the buffer of the oldest filled slot and put `new` in its place.   *)
RxTake(new, mapped) ==
    LET filled == ddr[hHead]
        hdr    == HdrRead(hHead)
        good   == hdr.ok /\ hdr.interface \in Interfaces
    IN
    /\ pc = "run" /\ hHead # hTail
    /\ mapped \/ mapErrors < MaxMapErrors
    /\ SwapBd(new, filled, hdr.len)
    /\ IF good
       THEN /\ rxPool' = rxPool \ {new}
            /\ readList' = [readList EXCEPT ![hdr.interface] = Append(@, filled)]
            /\ WakeReaders(hdr.interface)
       ELSE /\ rxPool' = (rxPool \ {new}) \cup {filled}
            /\ UNCHANGED <<readList, asleep>>
    /\ ddr' = [ddr EXCEPT ![hHead] = new]
    /\ SetAddr(hHead, new, mapped)
    /\ hHead' = Inc(hHead)
    /\ mapErrors' = mapErrors + (IF mapped THEN 0 ELSE 1)
    /\ UNCHANGED <<up, regHead, regTail, tdHdr, stalled, owes, msi, work, pc, hTail,
                   restart, rpc, want, cur, partial, sent, out>>

(* No replacement: stop here and ask for another run.                      *)
RxNoReplacement ==
    /\ pc = "run" /\ hHead # hTail /\ rxPool = {}
    /\ restart' = TRUE /\ pc' = "publish"
    /\ UNCHANGED <<device, lists, work, hHead, hTail, calls, history>>

RxTakenAll ==
    /\ pc = "run" /\ hHead = hTail
    /\ pc' = "publish"
    /\ UNCHANGED <<device, lists, work, hHead, hTail, restart, calls, history>>

(* Publish the head if it moved, then ring; reading the register of a      *)
(* device that is down gives 0xFFFFFFFF, which no head equals.             *)
Bug_HeadMovedFar == Dist(regHead, hHead) > 1
HeadMoved == ~up \/ regHead # hHead

RxPublish ==
    /\ pc = "publish"
    /\ regHead' = IF up THEN hHead ELSE regHead
    /\ pc' = IF HeadMoved THEN "bell" ELSE "restart"
    /\ UNCHANGED <<up, regTail, tdAddr, tdHdr, stalled, owes, msi, lists, work,
                   hHead, hTail, restart, calls, history>>

(* mxlk_send_doorbell()                                                    *)
RxBell ==
    /\ pc = "bell"
    /\ dbPending' = TRUE
    /\ pc' = "restart"
    /\ UNCHANGED <<device, lists, rxPending, hHead, hTail, restart, calls, history>>

(* Sleep a little and queue rx_event again if buffers ran out.             *)
Bug_NoRestart == UNCHANGED rxPending
Restart == rxPending' = (rxPending \/ restart)

RxEnd ==
    /\ pc = "restart"
    /\ Restart
    /\ restart' = FALSE /\ pc' = "idle"
    /\ UNCHANGED <<device, lists, dbPending, hHead, hTail, calls, history>>

(* mxlk_send_doorbell_handler()                                            *)
SendDoorbell ==
    /\ dbPending
    /\ dbPending' = FALSE
    /\ stalled' = (stalled /\ ~up)
    /\ UNCHANGED <<up, regHead, regTail, tdAddr, tdHdr, owes, msi, lists, rxPending,
                   handler, calls, history>>

(* mxlk_interrupt() starts work only in application mode, as read from the *)
(* device.                                                                 *)
Interrupt ==
    /\ msi
    /\ msi' = FALSE
    /\ rxPending' = (rxPending \/ up)
    /\ UNCHANGED <<up, regHead, regTail, tdAddr, tdHdr, stalled, owes, lists,
                   dbPending, handler, calls, history>>

(* The transmit path shares the work item that rings the doorbell and the  *)
(* interrupt with this one (MxlkLink): its handler queues the one, and the *)
(* device raises the other when it has taken fragments.                    *)
OtherDirection ==
    /\ BothWays
    /\ \/ ~dbPending /\ dbPending' = TRUE /\ UNCHANGED msi
       \/ up /\ ~msi /\ msi' = TRUE /\ UNCHANGED dbPending
    /\ UNCHANGED <<up, regHead, regTail, tdAddr, tdHdr, stalled, owes, lists, rxPending,
                   handler, calls, history>>

-----------------------------------------------------------------------------
(* mxlk_core_read(): under the interface's rlock from Read to ReadEnd.     *)
(* partial_read keeps pointing at the buffer in use until the call ends.   *)

(* mxlk_list_get() on the read list                                        *)
GetNext(i) ==
    /\ cur' = [cur EXCEPT ![i] = IF readList[i] = <<>> THEN NULL ELSE Head(readList[i])]
    /\ readList' = [readList EXCEPT ![i] = IF @ = <<>> THEN @ ELSE Tail(@)]

Bug_IgnorePartial(i) == GetNext(i)
ResumePartial(i) ==
    \/ partial[i] = NULL /\ GetNext(i)
    \/ /\ partial[i] # NULL
       /\ cur' = [cur EXCEPT ![i] = partial[i]]
       /\ UNCHANGED readList

Read(i, n) ==
    /\ rpc[i] = "idle" /\ (i \notin asleep \/ PollWhileReading)
    /\ rpc' = [rpc EXCEPT ![i] = "copy"]
    /\ want' = [want EXCEPT ![i] = n]
    /\ ResumePartial(i)
    /\ UNCHANGED <<device, rxPool, ddr, bd, work, handler, partial, asleep, history>>

Bug_NoAdvance(b, n) == bd' = [bd EXCEPT ![b].len = @ - n]
Advance(b, n) == bd' = [bd EXCEPT ![b].off = @ + n, ![b].len = @ - n]

(* copy_to_user() of what fits; a buffer copied to its end goes back to    *)
(* the pool.                                                               *)
Bytes(b)   == [k \in 1 .. bd[b].len |-> <<bd[b].frag, bd[b].off + k>>]
Copying(i) == rpc[i] = "copy" /\ want[i] > 0 /\ cur[i] # NULL

ReadCopy(i) ==
    LET b == cur[i]
        n == Min({want[i], bd[b].len})
    IN
    /\ Copying(i)
    /\ out' = [out EXCEPT ![i] = @ \o SubSeq(Bytes(b), 1, n)]
    /\ want' = [want EXCEPT ![i] = @ - n]
    /\ Advance(b, n)
    /\ IF n = bd[b].len
       THEN /\ rxPool' = rxPool \cup {b}
            /\ cur' = [cur EXCEPT ![i] = NULL]
            /\ rpc' = [rpc EXCEPT ![i] = "next"]
       ELSE UNCHANGED <<rxPool, cur, rpc>>
    /\ UNCHANGED <<device, ddr, readList, work, handler, partial, asleep, sent,
                   mapErrors>>

ReadNext(i) ==
    /\ rpc[i] = "next"
    /\ GetNext(i)
    /\ rpc' = [rpc EXCEPT ![i] = "copy"]
    /\ UNCHANGED <<device, rxPool, ddr, bd, work, handler, want, partial, asleep,
                   history>>

(* Done, out of data, or a bad user address: keep the buffer for next time.*)
ReadEnd(i) ==
    /\ rpc[i] = "copy"
    /\ partial' = [partial EXCEPT ![i] = cur[i]]
    /\ cur' = [cur EXCEPT ![i] = NULL]
    /\ want' = [want EXCEPT ![i] = 0]
    /\ rpc' = [rpc EXCEPT ![i] = "idle"]
    /\ UNCHANGED <<device, lists, work, handler, asleep, history>>

(* mxlk_core_read_data_available()                                         *)
Bug_ListOnly(i) == readList[i] # <<>>
DataAvailable(i) == partial[i] # NULL \/ readList[i] # <<>>

(* mxlk_dev_poll() for POLLIN: joining rd_waitq, looking and falling       *)
(* asleep are one step, as a wake in between makes the caller look again.  *)
PollSleep(i) ==
    /\ rpc[i] = "idle" \/ PollWhileReading
    /\ ~DataAvailable(i)
    /\ asleep' = asleep \cup {i}
    /\ UNCHANGED <<device, lists, work, handler, rpc, want, cur, partial, history>>

-----------------------------------------------------------------------------
(* The device, as the driver relies on it: it writes into the buffer of    *)
(* the slot at its tail, then the descriptor, then moves the tail; it      *)
(* keeps one slot empty, interrupts sooner or later, and once it has found *)
(* the ring full it does not look again before the next doorbell.          *)
RingFull == Inc(regTail) = regHead

DeviceSend(hdr, signal) ==
    /\ up /\ ~stalled /\ ~RingFull /\ Len(sent) < MaxFrags
    /\ sent' = Append(sent, hdr)
    /\ bd' = IF tdAddr[regTail] = NULL THEN bd
             ELSE [bd EXCEPT ![tdAddr[regTail]].frag = Len(sent) + 1]
    /\ tdHdr' = [tdHdr EXCEPT ![regTail] = hdr]
    /\ regTail' = Inc(regTail)
    /\ msi' = (msi \/ signal) /\ owes' = ~signal
    /\ UNCHANGED <<up, regHead, tdAddr, stalled, rxPool, ddr, readList, work, handler,
                   calls, out, mapErrors>>

DeviceStall ==
    /\ up /\ ~stalled /\ RingFull /\ Len(sent) < MaxFrags
    /\ stalled' = TRUE
    /\ UNCHANGED <<up, regHead, regTail, tdAddr, tdHdr, owes, msi, lists, work, handler,
                   calls, history>>

DeviceSignal ==
    /\ up /\ owes
    /\ owes' = FALSE /\ msi' = TRUE
    /\ UNCHANGED <<up, regHead, regTail, tdAddr, tdHdr, stalled, lists, work, handler,
                   calls, history>>

DeviceDown ==
    /\ up /\ DeviceMayFail
    /\ up' = FALSE
    /\ UNCHANGED <<regHead, regTail, tdAddr, tdHdr, stalled, owes, msi, lists, work,
                   handler, calls, history>>

-----------------------------------------------------------------------------
RxHandler ==
    \/ RxBegin \/ \E new \in rxPool, mapped \in BOOLEAN : RxTake(new, mapped)
    \/ RxNoReplacement \/ RxTakenAll \/ RxPublish \/ RxBell \/ RxEnd

ReadCall(i) == ReadCopy(i) \/ ReadNext(i) \/ ReadEnd(i)

DeviceWork ==
    \/ \E hdr \in Headers, signal \in BOOLEAN : DeviceSend(hdr, signal)
    \/ DeviceStall \/ DeviceSignal

Next ==
    \/ RxHandler \/ SendDoorbell \/ Interrupt
    \/ \E i \in Interfaces :
        \/ \E n \in 0 .. MaxRead : Read(i, n)
        \/ ReadCall(i) \/ PollSleep(i)
    \/ DeviceWork \/ DeviceDown \/ OtherDirection

Spec == Init /\ [][Next]_vars

(* Queued work items run and work items in progress finish (the kernel's   *)
(* workqueue), a raised interrupt is handled, the device interrupts when   *)
(* it owes one, and the user asks for data again and again, not always for *)
(* none of it and not always into a bad address.                           *)
Fairness ==
    /\ WF_vars(RxHandler) /\ WF_vars(SendDoorbell) /\ WF_vars(Interrupt)
    /\ WF_vars(DeviceSignal)
    /\ \A i \in Interfaces :
        /\ SF_vars(ReadCopy(i)) /\ WF_vars(ReadNext(i)) /\ WF_vars(ReadEnd(i))
        /\ SF_vars(\E n \in 1 .. MaxRead : Read(i, n))

FairSpec == Spec /\ Fairness

-----------------------------------------------------------------------------
(* The ranges of the variables of the receive path.                        *)
TypeOK ==
    /\ up \in BOOLEAN /\ stalled \in BOOLEAN /\ owes \in BOOLEAN /\ msi \in BOOLEAN
    /\ regHead \in Slots /\ regTail \in Slots
    /\ tdAddr \in [Slots -> Bufs \cup {NULL}]
    /\ tdHdr \in [Slots -> Headers \cup {NoHdr}]
    /\ rxPool \subseteq Bufs /\ ddr \in [Slots -> Bufs]
    /\ bd \in [Bufs -> [frag : Nat, off : Nat, len : Nat]]
    /\ readList \in [Interfaces -> Seq(Bufs)]
    /\ partial \in [Interfaces -> Bufs \cup {NULL}]
    /\ rxPending \in BOOLEAN /\ dbPending \in BOOLEAN /\ restart \in BOOLEAN
    /\ pc \in {"idle", "run", "publish", "bell", "restart"}
    /\ hHead \in Slots /\ hTail \in Slots
    /\ rpc \in [Interfaces -> {"idle", "copy", "next"}]
    /\ want \in [Interfaces -> Nat]
    /\ cur \in [Interfaces -> Bufs \cup {NULL}]
    /\ asleep \subseteq Interfaces
    /\ sent \in Seq(Headers) /\ mapErrors \in Nat
    /\ out \in [Interfaces -> Seq(Nat \X Nat)]

(* The buffers of an interface, in the order in which they will be read:   *)
(* the one a read is copying or left for next time, then the read list.    *)
InUse(i)   == IF rpc[i] = "idle" THEN partial[i] ELSE cur[i]
Waiting(i) == (IF InUse(i) = NULL THEN <<>> ELSE <<InUse(i)>>) \o readList[i]

(* A buffer is in one place only, and never in none: free, in a slot of    *)
(* the ring, or on its way to the reader of one interface.                 *)
OneOwner ==
    LET ring == {ddr[i] : i \in Slots} IN
    /\ IsInjective(ddr) /\ rxPool \cap ring = {}
    /\ \A i \in Interfaces :
        /\ IsInjective(Waiting(i))
        /\ ToSet(Waiting(i)) \cap (rxPool \cup ring) = {}
        /\ \A j \in Interfaces \ {i} : ToSet(Waiting(i)) \cap ToSet(Waiting(j)) = {}
    /\ Bufs = rxPool \cup ring \cup UNION {ToSet(Waiting(i)) : i \in Interfaces}

(* Wherever the device may write next, from its tail round to the          *)
(* published head, the descriptor names the buffer the host keeps in that  *)
(* slot: DMA never reaches a buffer that a reader or the pool has.         *)
DeviceWindowMapped ==
    \A i \in Slots :
        ~Within(i, regHead, regTail) =>
            tdAddr[i] = ddr[i] \/ (tdAddr[i] = NULL /\ mapErrors > 0)

FragBytes(n) == [k \in 1 .. sent[n].len |-> <<n, k>>]
Meant(hdr, i) == hdr.ok /\ hdr.interface = i

(* What the device has sent to interface i.                                *)
SentTo(i) ==
    FlattenSeq([n \in DOMAIN sent |-> IF Meant(sent[n], i) THEN FragBytes(n) ELSE <<>>])

(* What is on the ring for interface i, and what its reader has not copied.*)
OnRing(i) ==
    FlattenSeq([k \in 1 .. Dist(hHead, regTail) |->
        LET slot == (hHead + k - 1) % NDesc IN
        IF Meant(tdHdr[slot], i)
        THEN [m \in 1 .. tdHdr[slot].len |-> <<bd[ddr[slot]].frag, m>>]
        ELSE <<>>])
Unread(i) == FlattenSeq([k \in DOMAIN Waiting(i) |-> Bytes(Waiting(i)[k])])

(* The reader of an interface gets the bytes the device sent to it, in     *)
(* order, whatever the sizes of the fragments and of the reads; as long as *)
(* the device is up those it has not got yet are all on their way.  A      *)
(* failed mapping voids this: its slot delivers whatever the buffer held.  *)
StreamInOrder ==
    mapErrors = 0 =>
        \A i \in Interfaces :
            /\ IsPrefix(out[i], SentTo(i))
            /\ up => out[i] \o Unread(i) \o OnRing(i) = SentTo(i)

(* Nobody sleeps for POLLIN while there is data for it to read.            *)
NoSleepWithData == \A i \in asleep : rpc[i] = "idle" => ~DataAvailable(i)

(* The device does not wait for a doorbell that nobody is going to ring    *)
(* although the host has made room.                                        *)
StallNotForgotten == up /\ stalled /\ ~RingFull => dbPending \/ pc = "bell"

(* While descriptors wait for the host, rx_event is running, queued or     *)
(* about to be queued, even when it stopped for want of buffers.           *)
DescriptorsNotForgotten ==
    up /\ regHead # regTail => owes \/ msi \/ rxPending \/ pc # "idle"

(* Unless the device falls silent, a user who keeps reading gets every byte*)
(* sent to the interface, also when buffers run out on the way: as the     *)
(* device sends MaxFrags fragments at most, the reader catches up with it. *)
EveryByteRead == \A i \in Interfaces : []<>(~up \/ out[i] = SentTo(i))
=============================================================================
