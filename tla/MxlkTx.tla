------------------------------- MODULE MxlkTx -------------------------------
(***************************************************************************)
(* The host-to-device half of the mxlk serial driver                       *)
(* (serial/mxlk/mxlk_core.c): write() turns user data into fragments taken *)
(* from tx_pool and appends them to the write list; the tx_event work item *)
(* moves them from that list onto a ring of transfer descriptors in device *)
(* memory and rings the doorbell; the device consumes the ring and raises  *)
(* an interrupt, which runs tx_event again to recycle the buffers.         *)
(*                                                                         *)
(* Actors: a writer and a poller per interface, the tx_event and the       *)
(* send_doorbell work items (a work item never runs twice at once, two     *)
(* different ones may), the interrupt handler, the device (external), and  *)
(* the other direction, as far as it uses the same work item and interrupt.*)
(*                                                                         *)
(* Operators named Bug_... are faults the properties must catch; no        *)
(* definition of the model uses them.                                      *)
(***************************************************************************)
EXTENDS SequencesExt

CONSTANTS
    Bufs,            \* the buffer descriptors of tx_pool
    NULL,            \* no buffer
    NDesc,           \* tx.pipe.ndesc: slots of the ring
    Interfaces,      \* the interfaces, MXLK_NUM_INTERFACES of them
    NoInterface,     \* -1, the interface of a buffer nobody filled
    MaxWrites,       \* bound: calls of write()
    MaxLen,          \* bound: fragments one write() asks for
    MaxMapErrors,    \* bound: failures of dma_map_single()
    DeviceMayFail,   \* whether the device may fall silent
    BothWays         \* whether the other direction is in use, too

ASSUME TxAssumption ==
    /\ NULL \notin Bufs
    /\ NDesc \in Nat \ {0}
    /\ NoInterface \notin Interfaces
    /\ MaxWrites \in Nat /\ MaxLen \in Nat /\ MaxMapErrors \in Nat
    /\ DeviceMayFail \in BOOLEAN /\ BothWays \in BOOLEAN

VARIABLES
    (* Registers and memory of the device, reached over PCIe.              *)
    up,              \* the device answers; else reads return 0xFFFFFFFF
    regHead,         \* cap.tx.head, moved by the device
    regTail,         \* cap.tx.tail, moved by the host
    td,              \* the address in every transfer descriptor
    doorbell,        \* the device has a doorbell to answer
    msi,             \* an interrupt is on its way to the host
    (* Host: lists and buffers.                                            *)
    txPool,          \* tx_pool, its order left out
    writeList,       \* the write list
    ddr,             \* tx.ddr[].bd
    data,            \* what each buffer holds, with bd.interface
    (* Host: the work items.                                               *)
    txPending,       \* tx_event is queued
    dbPending,       \* send_doorbell is queued
    pc,              \* where the tx_event handler stands
    old,             \* tx.pipe.old: the oldest slot not yet recycled
    hHead,           \* the handler's copy of head
    hTail,           \* the handler's copy of tail
    freed,           \* the handler's buffer_freed
    (* Host: the system calls.                                             *)
    wpc,             \* where the write() of an interface stands
    left,            \* fragments it still has to copy
    chain,           \* buffers it holds, linked by bd.next
    asleep,          \* the interfaces with a poll() asleep for POLLOUT
    copied,          \* fragments copied from user space so far
    writes,          \* calls of write() so far
    (* History.                                                            *)
    queued,          \* the fragments put on the write list, lost ones left out
    delivered,       \* the fragments the device has taken
    mapErrors        \* failures of dma_map_single() so far

device  == <<up, regHead, regTail, td, doorbell, msi>>
lists   == <<txPool, writeList, ddr, data>>
work    == <<txPending, dbPending>>
handler == <<pc, old, hHead, hTail, freed>>
calls   == <<wpc, left, chain, asleep, copied, writes>>
history == <<queued, delivered, mapErrors>>
vars    == <<device, lists, work, handler, calls, history>>

Slots == 0 .. NDesc - 1

(* What a buffer holds: a fragment, with the interface that wrote it and   *)
(* its number in the order of copying, or whatever was there before.       *)
Junk  == [interface |-> NoInterface, no |-> 0]
Frags == [interface : Interfaces, no : Nat] \cup {Junk}

(* MXLK_CIRCULAR_INC                                                       *)
Inc(i) == (i + 1) % NDesc

(* Slots to walk from a to b, and whether slot i is met on the way.        *)
Dist(a, b)      == IF a <= b THEN b - a ELSE NDesc - a + b
Within(i, a, b) == Dist(a, i) < Dist(a, b)

(* mxlk_txrx_init(): old starts at the tail the device published.          *)
Init ==
    /\ up = TRUE /\ doorbell = FALSE /\ msi = FALSE
    /\ regHead \in Slots /\ regTail = regHead
    /\ td = [i \in Slots |-> NULL]
    /\ txPool = Bufs /\ writeList = <<>>
    /\ ddr = [i \in Slots |-> NULL]
    /\ data = [b \in Bufs |-> Junk]
    /\ txPending = FALSE /\ dbPending = FALSE
    /\ pc = "idle" /\ old = regTail /\ hHead = regTail /\ hTail = regTail
    /\ freed = FALSE
    /\ wpc = [i \in Interfaces |-> "idle"]
    /\ left = [i \in Interfaces |-> 0]
    /\ chain = [i \in Interfaces |-> <<>>]
    /\ asleep = {} /\ copied = 0 /\ writes = 0
    /\ queued = <<>> /\ delivered = <<>> /\ mapErrors = 0

-----------------------------------------------------------------------------
(* mxlk_list_put(): the whole chain goes to the end of the list.           *)
Bug_ListPutFront(list, bds) == bds \o list
ListPut(list, bds) == list \o bds

(* mxlk_alloc_tx_bd() and mxlk_free_tx_bd(), which ignores NULL            *)
Bug_PeekTxBd(b) == UNCHANGED txPool /\ data' = [data EXCEPT ![b] = Junk]
AllocTxBd(b) == txPool' = txPool \ {b} /\ data' = [data EXCEPT ![b] = Junk]

FreeTxBd(b) == txPool' = txPool \cup ({b} \ {NULL})

(* mxlk_start_tx(): queueing a work item that is queued changes nothing.   *)
Bug_StartTxIfIdle == txPending' = (txPending \/ pc = "idle")
StartTx == txPending' = TRUE

(* The fragments a sequence of buffers holds.                              *)
Contents(bds) == [k \in DOMAIN bds |-> data[bds[k]]]

-----------------------------------------------------------------------------
(* mxlk_core_write(): under the interface's wlock from Write to WriteStart.*)

Write(i, n) ==
    /\ wpc[i] = "idle" /\ writes < MaxWrites
    /\ wpc' = [wpc EXCEPT ![i] = "alloc"]
    /\ left' = [left EXCEPT ![i] = n]
    /\ writes' = writes + 1
    /\ UNCHANGED <<device, lists, work, handler, chain, asleep, copied, history>>

(* A buffer for the next fragment; an empty pool ends the write short.     *)
WriteAlloc(i) ==
    /\ wpc[i] = "alloc"
    /\ \/ /\ txPool = {}
          /\ wpc' = [wpc EXCEPT ![i] = "put"]
          /\ UNCHANGED <<txPool, data, chain>>
       \/ \E b \in txPool :
          /\ AllocTxBd(b)
          /\ chain' = [chain EXCEPT ![i] = Append(@, b)]
          /\ wpc' = [wpc EXCEPT ![i] = "copy"]
    /\ UNCHANGED <<device, writeList, ddr, work, handler, left, asleep, copied,
                   writes, history>>

(* copy_from_user() into the last buffer of the chain.                     *)
WriteCopy(i) ==
    /\ wpc[i] = "copy" /\ left[i] > 0
    /\ copied' = copied + 1
    /\ data' = [data EXCEPT ![Last(chain[i])] =
                    [interface |-> i, no |-> copied + 1]]
    /\ left' = [left EXCEPT ![i] = @ - 1]
    /\ wpc' = [wpc EXCEPT ![i] = IF left[i] > 1 THEN "alloc" ELSE "put"]
    /\ UNCHANGED <<device, txPool, writeList, ddr, work, handler, chain, asleep,
                   writes, history>>

(* Nothing to copy (a write of no bytes) or a bad user address: the buffer *)
(* stays in the chain as it came from the pool.                            *)
WriteStop(i) ==
    /\ wpc[i] = "copy"
    /\ wpc' = [wpc EXCEPT ![i] = "put"]
    /\ UNCHANGED <<device, lists, work, handler, left, chain, asleep, copied,
                   writes, history>>

(* The chain goes onto the write list, if there is one.                    *)
WritePut(i) ==
    /\ wpc[i] = "put"
    /\ wpc' = [wpc EXCEPT ![i] = IF chain[i] = <<>> THEN "idle" ELSE "start"]
    /\ writeList' = ListPut(writeList, chain[i])
    /\ queued' = queued \o Contents(chain[i])
    /\ chain' = [chain EXCEPT ![i] = <<>>]
    /\ left' = [left EXCEPT ![i] = 0]
    /\ UNCHANGED <<device, txPool, ddr, data, work, handler, asleep, copied,
                   writes, delivered, mapErrors>>

WriteStart(i) ==
    /\ wpc[i] = "start"
    /\ wpc' = [wpc EXCEPT ![i] = "idle"]
    /\ StartTx
    /\ UNCHANGED <<device, lists, dbPending, handler, left, chain, asleep, copied,
                   writes, history>>

(* mxlk_dev_poll() for POLLOUT: the caller joins wr_waitq first, so a wake *)
(* that comes before it sleeps makes it look again; joining, looking and   *)
(* falling asleep are one step.  Once woken it polls again.                *)
PollSleep(i) ==
    /\ txPool = {}
    /\ asleep' = asleep \cup {i}
    /\ UNCHANGED <<device, lists, work, handler, wpc, left, chain, copied, writes,
                   history>>

-----------------------------------------------------------------------------
(* mxlk_tx_event_handler()                                                 *)

(* Read both ends of the ring, or give up because the device is down.      *)
Bug_ReadEndsSwapped == hHead' = regTail /\ hTail' = regHead
ReadEnds == hHead' = regHead /\ hTail' = regTail

TxBegin ==
    /\ pc = "idle" /\ txPending
    /\ txPending' = FALSE
    /\ \/ up /\ pc' = "run" /\ ReadEnds
       \/ ~up /\ UNCHANGED <<pc, hHead, hTail>>
    /\ UNCHANGED <<device, lists, dbPending, old, freed, calls, history>>

(* The first loop: give back the buffer of the oldest slot the device is   *)
(* done with.                                                              *)
Bug_KeepSlot(i) == UNCHANGED ddr
ClearSlot(i) == ddr' = [ddr EXCEPT ![i] = NULL]

TxClean ==
    /\ pc = "run" /\ old # hHead
    /\ FreeTxBd(ddr[old])
    /\ ClearSlot(old)
    /\ old' = Inc(old)
    /\ freed' = TRUE
    /\ UNCHANGED <<device, writeList, data, work, pc, hHead, hTail, calls, history>>

(* The second loop, once the first has ended.  One slot stays empty, so    *)
(* that a full ring differs from an empty one.                             *)
Bug_RingAlwaysHasRoom == TRUE
RingHasRoom == Inc(hTail) # hHead
CanFill     == pc = "run" /\ old = hHead /\ RingHasRoom /\ writeList # <<>>

(* A descriptor written while the device is down is lost.                  *)
Bug_SkipTd(i, b) == UNCHANGED td
SetTd(i, b) == td' = IF up THEN [td EXCEPT ![i] = b] ELSE td

TxFill ==
    /\ CanFill
    /\ writeList' = Tail(writeList)
    /\ ddr' = [ddr EXCEPT ![hTail] = Head(writeList)]
    /\ SetTd(hTail, Head(writeList))
    /\ hTail' = Inc(hTail)
    /\ UNCHANGED <<up, regHead, regTail, doorbell, msi, txPool, data, work, pc,
                   old, hHead, freed, calls, history>>

(* dma_map_single() fails: the buffer is left in the slot the next fill    *)
(* overwrites, what it holds is never sent, and the loop ends.             *)
TxMapError ==
    /\ CanFill /\ mapErrors < MaxMapErrors
    /\ mapErrors' = mapErrors + 1
    /\ writeList' = Tail(writeList)
    /\ ddr' = [ddr EXCEPT ![hTail] = Head(writeList)]
    /\ queued' = RemoveAt(queued, Len(delivered) + Dist(regHead, hTail) + 1)
    /\ pc' = "publish"
    /\ UNCHANGED <<device, txPool, data, work, old, hHead, hTail, freed, calls,
                   delivered>>

TxFillDone ==
    /\ pc = "run" /\ old = hHead /\ ~CanFill
    /\ pc' = "publish"
    /\ UNCHANGED <<device, lists, work, old, hHead, hTail, freed, calls, history>>

(* Publish the tail if it moved, then ring; reading the register of a      *)
(* device that is down gives 0xFFFFFFFF, which no tail equals.             *)
Bug_TailMovedIfNoneFreed == regTail # hTail /\ ~freed
TailMoved == ~up \/ regTail # hTail

TxPublish ==
    /\ pc = "publish"
    /\ regTail' = IF up THEN hTail ELSE regTail
    /\ pc' = IF TailMoved THEN "bell" ELSE "wake"
    /\ UNCHANGED <<up, regHead, td, doorbell, msi, lists, work, old, hHead, hTail,
                   freed, calls, history>>

(* mxlk_send_doorbell()                                                    *)
TxBell ==
    /\ pc = "bell"
    /\ dbPending' = TRUE
    /\ pc' = "wake"
    /\ UNCHANGED <<device, lists, txPending, old, hHead, hTail, freed, calls, history>>

(* wake_up(&mxlk->wr_waitq) if buffers went back to the pool.              *)
Bug_WakeIfDrained == asleep' = IF freed /\ writeList = <<>> THEN {} ELSE asleep
WakeWriters == asleep' = IF freed THEN {} ELSE asleep

TxWake ==
    /\ pc = "wake"
    /\ WakeWriters
    /\ pc' = "idle" /\ freed' = FALSE
    /\ UNCHANGED <<device, lists, work, old, hHead, hTail, wpc, left, chain, copied,
                   writes, history>>

(* mxlk_send_doorbell_handler(); a device that is down does not hear it.   *)
SendDoorbell ==
    /\ dbPending
    /\ dbPending' = FALSE
    /\ doorbell' = (doorbell \/ up)
    /\ UNCHANGED <<up, regHead, regTail, td, msi, lists, txPending, handler, calls,
                   history>>

(* mxlk_interrupt() starts work only in application mode, as read from the *)
(* device.                                                                 *)
AppMode == up

Interrupt ==
    /\ msi
    /\ msi' = FALSE
    /\ \/ AppMode /\ StartTx
       \/ ~AppMode /\ UNCHANGED txPending
    /\ UNCHANGED <<up, regHead, regTail, td, doorbell, lists, dbPending, handler,
                   calls, history>>

(* The receive path shares the work item that rings the doorbell and the   *)
(* interrupt with this one (MxlkLink): its handler queues the one, and the *)
(* device raises the other for what it sends.                              *)
OtherDirection ==
    /\ BothWays
    /\ \/ ~dbPending /\ dbPending' = TRUE /\ UNCHANGED msi
       \/ up /\ ~msi /\ msi' = TRUE /\ UNCHANGED dbPending
    /\ UNCHANGED <<up, regHead, regTail, td, doorbell, lists, txPending, handler, calls,
                   history>>

-----------------------------------------------------------------------------
(* The device, as the driver relies on it: woken by a doorbell, it works   *)
(* the ring off up to the tail, raises interrupts as it goes and one at    *)
(* the end, and may fall silent for good.                                  *)

(* What DMA finds at the address in a descriptor.                          *)
DmaRead(b) == IF b \in Bufs THEN data[b] ELSE Junk

DeviceConsume ==
    /\ up /\ doorbell /\ regHead # regTail
    /\ delivered' = Append(delivered, DmaRead(td[regHead]))
    /\ regHead' = Inc(regHead)
    /\ \E signal \in BOOLEAN : msi' = (msi \/ signal)
    /\ UNCHANGED <<up, regTail, td, doorbell, lists, work, handler, calls, queued,
                   mapErrors>>

DeviceDone ==
    /\ up /\ doorbell /\ regHead = regTail
    /\ doorbell' = FALSE /\ msi' = TRUE
    /\ UNCHANGED <<up, regHead, regTail, td, lists, work, handler, calls, history>>

DeviceDown ==
    /\ up /\ DeviceMayFail
    /\ up' = FALSE
    /\ UNCHANGED <<regHead, regTail, td, doorbell, msi, lists, work, handler, calls,
                   history>>

-----------------------------------------------------------------------------
TxHandler ==
    \/ TxBegin \/ TxClean \/ TxFill \/ TxMapError \/ TxFillDone
    \/ TxPublish \/ TxBell \/ TxWake

WriteCall(i) ==
    \/ WriteAlloc(i) \/ WriteCopy(i) \/ WriteStop(i) \/ WritePut(i) \/ WriteStart(i)

DeviceWork == DeviceConsume \/ DeviceDone

Next ==
    \/ TxHandler \/ SendDoorbell \/ Interrupt
    \/ \E i \in Interfaces :
        \/ \E n \in 0 .. MaxLen : Write(i, n)
        \/ WriteCall(i) \/ PollSleep(i)
    \/ DeviceWork \/ DeviceDown \/ OtherDirection

Spec == Init /\ [][Next]_vars

(* Queued work items run and work items in progress finish (the kernel's   *)
(* workqueue), a raised interrupt is handled, a system call in progress    *)
(* goes on, and the device answers its doorbell as long as it is up.       *)
Fairness ==
    /\ WF_vars(TxHandler) /\ WF_vars(SendDoorbell) /\ WF_vars(Interrupt)
    /\ WF_vars(DeviceWork)
    /\ \A i \in Interfaces : WF_vars(WriteCall(i))

FairSpec == Spec /\ Fairness

-----------------------------------------------------------------------------
(* The ranges of the variables of the transmit path.  That of `queued`,    *)
(* from which a fragment may be removed, needs PipelineInOrder to hold.    *)
Ranges ==
    /\ up \in BOOLEAN /\ doorbell \in BOOLEAN /\ msi \in BOOLEAN
    /\ regHead \in Slots /\ regTail \in Slots
    /\ td \in [Slots -> Bufs \cup {NULL}]
    /\ txPool \subseteq Bufs /\ writeList \in Seq(Bufs)
    /\ ddr \in [Slots -> Bufs \cup {NULL}]
    /\ data \in [Bufs -> Frags]
    /\ txPending \in BOOLEAN /\ dbPending \in BOOLEAN /\ freed \in BOOLEAN
    /\ pc \in {"idle", "run", "publish", "bell", "wake"}
    /\ old \in Slots /\ hHead \in Slots /\ hTail \in Slots
    /\ wpc \in [Interfaces -> {"idle", "alloc", "copy", "put", "start"}]
    /\ left \in [Interfaces -> Nat]
    /\ chain \in [Interfaces -> Seq(Bufs)]
    /\ asleep \subseteq Interfaces
    /\ delivered \in Seq(Frags)
    /\ copied \in Nat /\ writes \in Nat /\ mapErrors \in Nat

TypeOK == Ranges /\ queued \in Seq(Frags)

RingBufs == {ddr[i] : i \in Slots} \ {NULL}
Held(i)  == ToSet(chain[i])

(* A buffer is in one place only: free, in a writer's chain, on the write  *)
(* list or in a slot of the ring, and in each of these once.  A list put   *)
(* or a free of a buffer that is already elsewhere would link two lists    *)
(* into each other or hand one buffer to two users.                        *)
OneOwner ==
    /\ IsInjective(writeList)
    /\ \A i \in Interfaces : IsInjective(chain[i])
    /\ \A i, j \in Slots : ddr[i] = ddr[j] => i = j \/ ddr[i] = NULL
    /\ txPool \cap RingBufs = {}
    /\ ToSet(writeList) \cap (txPool \cup RingBufs) = {}
    /\ \A i \in Interfaces :
        /\ Held(i) \cap (txPool \cup RingBufs \cup ToSet(writeList)) = {}
        /\ \A j \in Interfaces \ {i} : Held(i) \cap Held(j) = {}

(* What the device may read next, the slots from its head to the published *)
(* tail, is filled and mapped: the descriptor names the buffer the host    *)
(* keeps in that slot.                                                     *)
DeviceWindowFilled ==
    \A i \in Slots : Within(i, regHead, regTail) => ddr[i] \in Bufs /\ td[i] = ddr[i]

(* The marks go round the ring in one order and never lap each other: the  *)
(* oldest slot to recycle, the head as the handler last read it, the       *)
(* device's head, the published tail, the end of what has been filled.     *)
(* Every slot between the first and the last holds a buffer, so recycling  *)
(* never meets an empty one.                                               *)
RingInOrder ==
    /\ pc = "run" => Dist(old, hHead) <= Dist(old, regHead)
    /\ Dist(old, regHead) + Dist(regHead, regTail) + Dist(regTail, hTail) < NDesc
    /\ \A i \in Slots : Within(i, old, hTail) => ddr[i] # NULL

(* The buffers on their way, in order: those in the ring, then the list.   *)
InFlight ==
    [k \in 1 .. Dist(regHead, hTail) |-> ddr[(regHead + k - 1) % NDesc]] \o writeList

(* Nothing is lost, repeated, reordered or overwritten on the way: what    *)
(* was delivered, followed by what the buffers in flight hold, is what was *)
(* queued.                                                                 *)
PipelineInOrder == queued = delivered \o Contents(InFlight)

(* A buffer disappears only where a DMA mapping failed.                    *)
Leaked == Bufs \ (txPool \cup RingBufs \cup ToSet(writeList)
                     \cup UNION {Held(i) : i \in Interfaces})
LeakOnlyByMapError == Cardinality(Leaked) <= mapErrors

(* While the device has descriptors to consume, a doorbell is with it or   *)
(* on its way: the send_doorbell work item coalesces, but not into a run   *)
(* that rings too early.                                                   *)
DoorbellNotLost == up /\ regHead # regTail => doorbell \/ dbPending \/ pc = "bell"

(* Nobody sleeps for POLLOUT while tx_pool has buffers, unless the handler *)
(* that returned them is about to wake the queue.                          *)
SleeperWillBeWoken == asleep # {} /\ txPool # {} => pc # "idle" /\ freed

(* No step touches what the device may be reading: neither the descriptor, *)
(* nor the slot, nor the contents of the buffer.                           *)
DeviceWindowStable ==
    [][\A i \in Slots :
        Within(i, regHead, regTail) /\ Within(i, regHead', regTail') =>
            td'[i] = td[i] /\ ddr'[i] = ddr[i] /\ data'[ddr[i]] = data[ddr[i]]]_vars

(* The transmit path is a FIFO that gives up only unmappable fragments.    *)
Fifo   == INSTANCE MxlkFifo
IsFifo == Fifo!Spec

(* Unless the device falls silent, it takes every fragment a write queued, *)
(* however the work items, doorbells and interrupts that carry it are      *)
(* coalesced: as there are MaxWrites writes at most, the device catches up *)
(* with them.  A DMA mapping failure ends the loop of the handler, and     *)
(* leaves the rest of the list to the next write or interrupt.             *)
EveryFragmentDelivered == []<>(~up \/ mapErrors > 0 \/ delivered = queued)
=============================================================================
