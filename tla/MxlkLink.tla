------------------------------ MODULE MxlkLink ------------------------------
(***************************************************************************)
(* Both directions of the mxlk serial link at once: MxlkTx and MxlkRx,     *)
(* which share one device, the one work item that rings its doorbell, and  *)
(* one interrupt, which starts the handlers of both.  Each direction has   *)
(* its own ring, pool, lists and handler.                                  *)
(*                                                                         *)
(* What one direction does to the shared parts is the OtherDirection of    *)
(* the other's module.                                                     *)
(***************************************************************************)
EXTENDS Integers

CONSTANTS
    txBufs, rxBufs,          \* the buffer descriptors of tx_pool and rx_pool
    NULL,                    \* no buffer
    txNDesc, rxNDesc,        \* slots of the rings
    Interfaces,              \* the interfaces
    NoInterface,             \* the interface of a buffer nobody filled
    BadInterface,            \* an interface number the host does not have
    Headers,                 \* the descriptors the device may produce
    DeviceMayFail,           \* whether the device may fall silent
    PollWhileReading,        \* whether one thread polls while another reads
    MaxWrites, MaxLen,       \* bounds: writes, fragments of one
    MaxRead, MaxFrags,       \* bounds: bytes of a read, fragments that are sent
    txMaxMapErrors,          \* bound: failures to map a buffer that is sent...
    rxMaxMapErrors           \* ...or offered to the device

VARIABLES
    (* What the directions share.                                          *)
    up,                      \* the device answers
    dbPending,               \* send_doorbell is queued
    msi,                     \* an interrupt is on its way to the host
    (* The transmit path: the variables of MxlkTx, where both have one of  *)
    (* the name with the prefix of the pipe it belongs to.                 *)
    txHead, txTail, td, doorbell,
    txPool, writeList, txDdr, data,
    txPending, txPc, old, txHHead, txHTail, freed,
    wpc, left, chain, txAsleep, copied, writes,
    queued, delivered, txMapErrors,
    (* The receive path: those of MxlkRx.                                  *)
    rxHead, rxTail, tdAddr, tdHdr, stalled, owes,
    rxPool, rxDdr, bd, readList,
    rxPending, rxPc, rxHHead, rxHTail, restart,
    rpc, want, cur, partial, rxAsleep,
    sent, out, rxMapErrors

shared == <<up, dbPending, msi>>
txVars ==
    <<txHead, txTail, td, doorbell, txPool, writeList, txDdr, data, txPending, txPc, old,
      txHHead, txHTail, freed, wpc, left, chain, txAsleep, copied, writes, queued,
      delivered, txMapErrors>>
rxVars ==
    <<rxHead, rxTail, tdAddr, tdHdr, stalled, owes, rxPool, rxDdr, bd, readList, rxPending,
      rxPc, rxHHead, rxHTail, restart, rpc, want, cur, partial, rxAsleep, sent, out,
      rxMapErrors>>
linkVars == <<shared, txVars, rxVars>>

Tx == INSTANCE MxlkTxProofs WITH
    Bufs <- txBufs, NDesc <- txNDesc, MaxMapErrors <- txMaxMapErrors, BothWays <- TRUE,
    regHead <- txHead, regTail <- txTail, ddr <- txDdr, pc <- txPc, hHead <- txHHead,
    hTail <- txHTail, asleep <- txAsleep, mapErrors <- txMapErrors

Rx == INSTANCE MxlkRxProofs WITH
    Bufs <- rxBufs, NDesc <- rxNDesc, MaxMapErrors <- rxMaxMapErrors, BothWays <- TRUE,
    regHead <- rxHead, regTail <- rxTail, ddr <- rxDdr, pc <- rxPc, hHead <- rxHHead,
    hTail <- rxHTail, asleep <- rxAsleep, mapErrors <- rxMapErrors

(* What both assume of their constants.                                    *)
LinkAssumption == Tx!TxAssumption /\ Rx!RxAssumption

LinkInit == Tx!Init /\ Rx!Init

-----------------------------------------------------------------------------
(* tx_event, the calls of write() and of poll() for POLLOUT, and the       *)
(* device as it takes fragments.                                           *)
TxStep ==
    /\ \/ Tx!TxHandler \/ Tx!DeviceWork
       \/ \E i \in Interfaces :
            \/ \E n \in 0 .. MaxLen : Tx!Write(i, n)
            \/ Tx!WriteCall(i) \/ Tx!PollSleep(i)
    /\ UNCHANGED rxVars

(* rx_event, the calls of read() and of poll() for POLLIN, and the device  *)
(* as it sends them.                                                       *)
RxStep ==
    /\ \/ Rx!RxHandler \/ Rx!DeviceWork
       \/ \E i \in Interfaces :
            \/ \E n \in 0 .. MaxRead : Rx!Read(i, n)
            \/ Rx!ReadCall(i) \/ Rx!PollSleep(i)
    /\ UNCHANGED txVars

(* mxlk_send_doorbell_handler(): the device looks at both rings.           *)
SendDoorbell == Tx!SendDoorbell /\ Rx!SendDoorbell

(* mxlk_interrupt() starts both handlers.                                  *)
Interrupt == Tx!Interrupt /\ Rx!Interrupt

DeviceDown == Tx!DeviceDown /\ Rx!DeviceDown

LinkNext == TxStep \/ RxStep \/ SendDoorbell \/ Interrupt \/ DeviceDown

LinkSpec == LinkInit /\ [][LinkNext]_linkVars
=============================================================================
