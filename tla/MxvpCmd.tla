------------------------------- MODULE MxvpCmd -------------------------------
(***************************************************************************)
(* Commands to the VPU and their replies (vpu/mxvp/mxvp_bspec.c).  Each of *)
(* the two command lists is an array of entries, the free ones in a chain. *)
(* A send takes an entry, fills it in, and pushes the command with the     *)
(* entry's position in its id; the VPU answers with that id, the interrupt *)
(* queues a work item, and the work item finds the entry by position, puts *)
(* it back on the chain and calls the callback.  Preempting or resetting a *)
(* queue flushes the list: all its callbacks are called then.              *)
(*                                                                         *)
(* A queue is a sequence that refuses a push only when it is not empty,    *)
(* as MxvpQueue shows (IsFifo, RefusedOnlyWhenFull).  A reply that finds   *)
(* no memory is not modelled.                                              *)
(***************************************************************************)
EXTENDS Integers, Sequences

CONSTANTS
    Cmds,            \* commands
    ListOf,          \* "cmd" or "dma" for each, by mxvp_send_cmd and _dma
    N,               \* MXVP_CMD_LIST_ENTRIES and MXVP_DMA_LIST_ENTRIES
    Kinds,           \* the async commands in use
    Throughput,      \* sends of the throughput test, in its order: a command
                     \* it sends twice is two, for nothing compares commands
    Budget,          \* replies one run of a work item handles
    MaxSends,        \* bound: sends, other than by the throughput test itself
    MaxAsync,        \* bound: async commands sent
    MayClean,        \* whether the driver may be removed
    None             \* no command, no reply, no async command

Lists == {"cmd", "dma"}

(* mxvp_async_cmd, and the lists each flushes when it is done.             *)
FlushOf ==
    [cmdq_preempt |-> {"cmd"}, dmaq_preempt |-> {"dma"},
     cmdq_reset |-> {"cmd"},   dmaq_reset |-> {"dma"},
     dev_reset |-> Lists,      set_power |-> {}]

(* The tests of mxtf that send them, one kind each; a test is a work item, *)
(* so there is one call of a kind at a time.                               *)
async_tests ==
    [mxtf_test_async_cmdq_preempt |-> "cmdq_preempt",
     mxtf_test_async_dmaq_preempt |-> "dmaq_preempt",
     mxtf_test_async_cmdq_reset |-> "cmdq_reset",
     mxtf_test_async_dmaq_reset |-> "dmaq_reset",
     mxtf_test_async_dev_reset |-> "dev_reset",
     mxtf_test_async_set_power |-> "set_power"]

(* An id: a sequence number above, which the host never looks at and is    *)
(* left out, and in the lower 16 bits the position of the entry.           *)
IdBound == 2 ^ 16
GenerateId(position) == position % IdBound
IdToPosition(id) == id % IdBound

(* The commands whose callback sends them again.                           *)
Repeated == {Throughput[i] : i \in DOMAIN Throughput}

ASSUME CmdAssumption ==
    /\ ListOf \in [Cmds -> Lists] /\ N \in 1 .. IdBound /\ None \notin Cmds
    /\ Kinds \subseteq {async_tests[t] : t \in DOMAIN async_tests} /\ None \notin Kinds
    /\ Throughput \in Seq(Cmds) /\ \A c \in Repeated : ListOf[c] = "dma"
    /\ \A i, j \in DOMAIN Throughput : Throughput[i] = Throughput[j] => i = j
    /\ Budget \in Nat \ {0} /\ MaxSends \in Nat /\ MaxAsync \in Nat /\ MayClean \in BOOLEAN

VARIABLES
    lists,           \* cmd_list and dma_list: command, next and free
    pc, pos,         \* where each send stands and the entry it has
    nth, gaveUp,     \* the throughput test: commands sent; one was refused
    by, owing,       \* who sends one of its commands; who is to ring then
    inflight,        \* commands pushed whose callback is still to come
    calls,           \* parity of the callbacks of each so far
    subq, repq,      \* cmdq and dmaq, retq and dmrq
    bell, msi,       \* a doorbell with the VPU, an interrupt with the host
    pending,         \* MXVP_INTR_PENDING: lists with new replies
    isr,             \* what the interrupt handler read there
    late,            \* an interrupt was under way as they were disabled
    queued,          \* work items queued
    wpc, left, reply,\* where each stands, its budget, the reply it pulled
    request, done,   \* MXVP_ASYNC_REQUEST and MXVP_ASYNC_DONE
    doing,           \* async commands the VPU has accepted
    apc, todo,       \* where each async call stands, entries still to flush
    sends, asyncs,   \* how many there were so far
    life,            \* how far mxvp_bspec_init or mxvp_bspec_cleanup is
    flushed,         \* lists a flush was ever started on
    due              \* what a flush that is the first must still reach

thptVars  == <<nth, gaveUp, by, owing>>
sendVars  == <<pc, pos, sends, thptVars>>
userVars  == <<inflight, calls, due>>
queueVars == <<subq, repq>>
intrVars  == <<bell, msi, pending, isr, late>>
workVars  == <<queued, wpc, left, reply>>
asyncVars == <<request, done, doing, apc, asyncs>>
flushVars == <<todo, flushed>>
vars == <<lists, sendVars, userVars, queueVars, intrVars, workVars, asyncVars,
          flushVars, life>>

Positions == 0 .. N - 1
NULL == -1

(* An entry list that is yet to be made, and one that has been.            *)
CmdListZero == [command |-> [p \in Positions |-> None],
                next |-> [p \in Positions |-> NULL],
                free |-> NULL]

CmdListInit == [command |-> [p \in Positions |-> None],
                next |-> [p \in Positions |-> IF p = N - 1 THEN NULL ELSE p + 1],
                free |-> 0]

Init ==
    /\ lists = [l \in Lists |-> CmdListZero]
    /\ pc = [c \in Cmds |-> "idle"] /\ pos = [c \in Cmds |-> 0] /\ sends = 0
    /\ nth = 0 /\ gaveUp = FALSE /\ by = [c \in Cmds |-> None] /\ owing = {}
    /\ inflight = {} /\ calls = [c \in Cmds |-> FALSE]
    /\ subq = [l \in Lists |-> <<>>] /\ repq = [l \in Lists |-> <<>>]
    /\ bell = FALSE /\ msi = FALSE /\ pending = {}
    /\ queued = {} /\ wpc = [l \in Lists |-> "idle"]
    /\ left = [l \in Lists |-> 0] /\ reply = [l \in Lists |-> None]
    /\ request = None /\ done = {} /\ doing = {}
    /\ apc = [k \in Kinds |-> "off"] /\ asyncs = 0
    /\ todo = [k \in Kinds \union {"cleanup"} |-> <<>>]
    /\ flushed = {} /\ due = [k \in Kinds \union {"cleanup"} |-> {}]
    /\ life = "unloaded"
    /\ isr = None /\ late = FALSE

(* mxvp_cmd_list_remove, to which any position will do.                    *)
ListRemove(l, p) ==
    lists' = [lists EXCEPT ![l] = [command |-> [lists[l].command EXCEPT ![p] = None],
                                   next |-> [lists[l].next EXCEPT ![p] = lists[l].free],
                                   free |-> p]]

(* The callback of the entry at p, if there is a command in it.  That of   *)
(* the throughput test, mxtf_test_throughput_cb, sends the command again;  *)
(* that a flush meets it in the middle of a send is left out.              *)
Callback(a, l, p) ==
    LET c == lists[l].command[p]
        again == c \in Repeated /\ pc[c] = "idle"
    IN
    IF c = None THEN UNCHANGED <<pc, by, userVars>>
    ELSE /\ inflight' = inflight \ {c}
         /\ calls' = [calls EXCEPT ![c] = ~@]
         /\ due' = [k \in DOMAIN due |-> due[k] \ {c}]
         /\ pc' = IF again THEN [pc EXCEPT ![c] = "again"] ELSE pc
         /\ by' = IF again THEN [by EXCEPT ![c] = a] ELSE by

(* Whoever has called such a callback is in it until it has rung.          *)
Busy(a) == a \in owing \/ \E c \in Repeated : by[c] = a /\ pc[c] # "idle"

-----------------------------------------------------------------------------
(* mxvp_probe and mxvp_bspec_init.  A step that fails ends the probe, and  *)
(* nothing is taken back: registers stay mapped, the interrupt requested.  *)
ProbeStep(from, to) ==
    /\ life = from
    /\ life' \in {to, "dead"}
    /\ UNCHANGED <<sendVars, userVars, queueVars, intrVars, workVars, asyncVars, flushVars>>

(* mxvp_init_module: the work queue, and the driver is registered.         *)
ModuleInit == ProbeStep("unloaded", "off") /\ UNCHANGED lists

(* mxvp_pci_init.                                                          *)
PciInit == ProbeStep("off", "events") /\ UNCHANGED lists

(* mxvp_events_init: the interrupt is requested and enabled.               *)
EventsInit == ProbeStep("events", "check") /\ UNCHANGED lists

(* mxvp_bspec_startup_check: the VPU shows its magic string in one of the  *)
(* looks taken, and is told to reply in order; or it never does.           *)
StartupCheck == ProbeStep("check", "lists") /\ UNCHANGED lists

(* Memory manager, lists and the rest.                                     *)
ListsInit == ProbeStep("lists", "up") /\ lists' = [l \in Lists |-> CmdListInit]

Probe == ModuleInit \/ PciInit \/ EventsInit \/ StartupCheck \/ ListsInit
Probed == life \notin {"unloaded", "off", "events", "check", "lists", "dead"}

-----------------------------------------------------------------------------
(* mxvp_cmd_list_add, under the lock; without a free entry it is -ENOSPC.  *)
TakeEntry(c) ==
    LET l == ListOf[c] IN
    /\ Probed /\ lists[l].free # NULL
    /\ pos' = [pos EXCEPT ![c] = lists[l].free]
    /\ lists' = [lists EXCEPT ![l].free = lists[l].next[lists[l].free]]
    /\ pc' = [pc EXCEPT ![c] = "fill"]
    /\ UNCHANGED <<userVars, queueVars, intrVars, workVars, asyncVars, flushVars, life>>

Add(c) ==
    /\ pc[c] = "idle" /\ c \notin inflight \union Repeated
    /\ sends < MaxSends /\ sends' = sends + 1
    /\ TakeEntry(c)
    /\ UNCHANGED thptVars

(* The rest of it, without the lock.                                       *)
Fill(c) ==
    /\ pc[c] = "fill"
    /\ lists' = [lists EXCEPT ![ListOf[c]].command[pos[c]] = c]
    /\ pc' = [pc EXCEPT ![c] = "push"]
    /\ UNCHANGED <<pos, sends, thptVars, userVars, queueVars, intrVars, workVars, asyncVars, flushVars, life>>

Push(c) ==
    LET l == ListOf[c] IN
    /\ pc[c] = "push"
    /\ subq' = [subq EXCEPT ![l] = Append(@, [cmd |-> c, id |-> GenerateId(pos[c])])]
    /\ inflight' = inflight \union {c}
    /\ pc' = [pc EXCEPT ![c] = IF c \in Repeated THEN "idle" ELSE "ring"]
    /\ owing' = IF c \in Repeated THEN owing \union ({by[c]} \ {"test"}) ELSE owing
    /\ UNCHANGED <<lists, pos, sends, nth, gaveUp, by, calls, due, repq, intrVars, workVars, asyncVars, flushVars, life>>

Bug_PushRefused(c) ==
    LET l == ListOf[c] IN
    /\ pc[c] = "push" /\ subq[l] # <<>>
    /\ pc' = [pc EXCEPT ![c] = "idle"]
    /\ gaveUp' = (gaveUp \/ (c \in Repeated /\ by[c] = "test"))
    /\ UNCHANGED <<lists, pos, sends, nth, by, owing, userVars, queueVars, intrVars, workVars, asyncVars, flushVars, life>>

(* The queue is full: the entry goes back.                                 *)
PushRefused(c) ==
    LET l == ListOf[c] IN
    /\ pc[c] = "push" /\ subq[l] # <<>>
    /\ ListRemove(l, pos[c])
    /\ pc' = [pc EXCEPT ![c] = "idle"]
    /\ gaveUp' = (gaveUp \/ (c \in Repeated /\ by[c] = "test"))
    /\ UNCHANGED <<pos, sends, nth, by, owing, userVars, queueVars, intrVars, workVars, asyncVars, flushVars, life>>

(* mxvp_ring_doorbell, by the sender.                                      *)
Ring(c) ==
    /\ pc[c] = "ring"
    /\ bell' = TRUE
    /\ pc' = [pc EXCEPT ![c] = "idle"]
    /\ UNCHANGED <<lists, pos, sends, thptVars, userVars, queueVars, msi, pending, isr, late, workVars, asyncVars, flushVars, life>>

-----------------------------------------------------------------------------
(* mxtf_test_throughput sends its commands one after the other...          *)
TestSend ==
    /\ nth < Len(Throughput) /\ ~gaveUp /\ ~Busy("test")
    /\ TakeEntry(Throughput[nth + 1])
    /\ nth' = nth + 1 /\ by' = [by EXCEPT ![Throughput[nth + 1]] = "test"]
    /\ UNCHANGED <<sends, gaveUp, owing>>

(* ...and returns when one is refused, without a word to the VPU of those  *)
(* before it...                                                            *)
TestGivesUp ==
    /\ nth < Len(Throughput) /\ ~gaveUp /\ ~Busy("test")
    /\ Probed /\ lists[ListOf[Throughput[nth + 1]]].free = NULL
    /\ gaveUp' = TRUE
    /\ UNCHANGED <<lists, pc, pos, sends, nth, by, owing, userVars, queueVars, intrVars, workVars, asyncVars, flushVars, life>>

(* ...or rings at the end.                                                 *)
TestRing ==
    /\ nth = Len(Throughput) /\ nth > 0 /\ ~gaveUp /\ ~Busy("test")
    /\ bell' = TRUE
    /\ nth' = nth + 1
    /\ UNCHANGED <<lists, pc, pos, sends, gaveUp, by, owing, userVars, queueVars, msi, pending, isr, late, workVars, asyncVars, flushVars, life>>

Test == TestSend \/ TestGivesUp \/ TestRing

(* Its callback, mxtf_test_throughput_cb, within a handler or a flush.  It *)
(* is over if there is no entry, or (the bound) MaxSends is reached.       *)
Again(c) ==
    /\ pc[c] = "again"
    /\ sends < MaxSends /\ sends' = sends + 1
    /\ TakeEntry(c)
    /\ UNCHANGED thptVars

AgainFails(c) ==
    /\ pc[c] = "again" /\ (lists[ListOf[c]].free = NULL \/ sends = MaxSends)
    /\ pc' = [pc EXCEPT ![c] = "idle"]
    /\ UNCHANGED <<lists, pos, sends, thptVars, userVars, queueVars, intrVars, workVars, asyncVars, flushVars, life>>

RingAgain(a) ==
    /\ a \in owing
    /\ bell' = TRUE
    /\ owing' = owing \ {a}
    /\ UNCHANGED <<lists, pc, pos, sends, nth, gaveUp, by, userVars, queueVars, msi, pending, isr, late, workVars, asyncVars, flushVars, life>>

-----------------------------------------------------------------------------
(* mxvp_event_isr, from the time the interrupt is requested until it is    *)
(* freed.  What the VPU reports as it runs waits in MXVP_INTR_PENDING2 for *)
(* the next one...                                                         *)
IsrRead ==
    /\ msi /\ isr = None /\ life \in {"check", "lists", "up", "cancel", "irq"}
    /\ isr' = pending
    /\ pending' = {} /\ msi' = FALSE
    /\ UNCHANGED <<lists, sendVars, userVars, queueVars, bell, late, workVars, asyncVars, flushVars, life>>

(* ...which the VPU raises when it is told that all has been handled.      *)
IsrEnd ==
    /\ isr # None
    /\ queued' = queued \union isr
    /\ isr' = None
    /\ bell' = TRUE
    /\ UNCHANGED <<lists, sendVars, userVars, queueVars, msi, pending, late, wpc, left, reply, asyncVars, flushVars, life>>

(* mxvp_retq_update_handler and mxvp_dmrq_update_handler.                  *)
WorkStart(l) ==
    /\ l \in queued /\ wpc[l] = "idle"
    /\ queued' = queued \ {l}
    /\ wpc' = [wpc EXCEPT ![l] = "run"]
    /\ left' = [left EXCEPT ![l] = Budget]
    /\ UNCHANGED <<lists, sendVars, userVars, queueVars, intrVars, reply, asyncVars, flushVars, life>>

Bug_WorkPull(l) ==
    /\ wpc[l] = "run" /\ ~Busy(l) /\ left[l] > 0 /\ repq[l] # <<>>
    /\ reply' = [reply EXCEPT ![l] = Head(repq[l])]
    /\ left' = [left EXCEPT ![l] = @ - 1]
    /\ wpc' = [wpc EXCEPT ![l] = "reply"]
    /\ UNCHANGED <<repq, lists, sendVars, userVars, subq, intrVars, queued, asyncVars, flushVars, life>>

WorkPull(l) ==
    /\ wpc[l] = "run" /\ ~Busy(l) /\ left[l] > 0 /\ repq[l] # <<>>
    /\ reply' = [reply EXCEPT ![l] = Head(repq[l])]
    /\ repq' = [repq EXCEPT ![l] = Tail(@)]
    /\ left' = [left EXCEPT ![l] = @ - 1]
    /\ wpc' = [wpc EXCEPT ![l] = "reply"]
    /\ UNCHANGED <<lists, sendVars, userVars, subq, intrVars, queued, asyncVars, flushVars, life>>

(* mxvp_reply_to_command: the entry is the one at the position in the id.  *)
WorkReply(l) ==
    /\ wpc[l] = "reply"
    /\ ListRemove(l, IdToPosition(reply[l].id))
    /\ Callback(l, l, IdToPosition(reply[l].id))
    /\ reply' = [reply EXCEPT ![l] = None]
    /\ wpc' = [wpc EXCEPT ![l] = "run"]
    /\ UNCHANGED <<pos, sends, nth, gaveUp, owing, queueVars, intrVars, queued, left, asyncVars, flushVars, life>>

Bug_WorkEnd(l) ==
    /\ wpc[l] = "run" /\ ~Busy(l) /\ (left[l] = 0 \/ repq[l] = <<>>)
    /\ wpc' = [wpc EXCEPT ![l] = "idle"]
    /\ UNCHANGED <<queued, lists, sendVars, userVars, queueVars, intrVars, left, reply, asyncVars, flushVars, life>>

(* The budget is used up, so the work item queues itself, or all is done.  *)
WorkEnd(l) ==
    /\ wpc[l] = "run" /\ ~Busy(l) /\ (left[l] = 0 \/ repq[l] = <<>>)
    /\ queued' = IF left[l] = 0 THEN queued \union {l} ELSE queued
    /\ wpc' = [wpc EXCEPT ![l] = "idle"]
    /\ UNCHANGED <<lists, sendVars, userVars, queueVars, intrVars, left, reply, asyncVars, flushVars, life>>

-----------------------------------------------------------------------------
(* mxvp_send_async, which is -EBUSY if this command is under way: it takes *)
(* the lock, held by nobody who waits for a request to be cleared.         *)
AsyncRequest(k) ==
    /\ Probed /\ apc[k] = "off" /\ asyncs < MaxAsync
    /\ \A j \in Kinds : apc[j] # "accept"
    /\ request' = k
    /\ bell' = TRUE
    /\ apc' = [apc EXCEPT ![k] = "accept"]
    /\ asyncs' = asyncs + 1
    /\ UNCHANGED <<lists, sendVars, userVars, queueVars, msi, pending, isr, late, workVars, done, doing, flushVars, life>>

AsyncAccepted(k) ==
    /\ apc[k] = "accept" /\ request # k
    /\ apc' = [apc EXCEPT ![k] = "wait"]
    /\ UNCHANGED <<lists, sendVars, userVars, queueVars, intrVars, workVars, request, done, doing, asyncs, flushVars, life>>

Bug_FlushOrder(flush) ==
    LET EntriesOf(l) == IF l \in flush THEN [i \in 1 .. N - 1 |-> <<l, i>>] ELSE <<>>
    IN  EntriesOf("cmd") \o EntriesOf("dma")

(* mxvp_cmd_list_flush goes through all entries, used and free.            *)
FlushOrder(flush) ==
    LET EntriesOf(l) == IF l \in flush THEN [i \in 1 .. N |-> <<l, i - 1>>] ELSE <<>>
    IN  EntriesOf("cmd") \o EntriesOf("dma")

StartFlush(k, flush) ==
    /\ todo' = [todo EXCEPT ![k] = FlushOrder(flush)]
    /\ due' = [due EXCEPT ![k] = {c \in inflight : ListOf[c] \in flush \ flushed}]
    /\ flushed' = flushed \union flush

AsyncDone(k) ==
    /\ apc[k] = "wait" /\ k \in done
    /\ StartFlush(k, FlushOf[k])
    /\ apc' = [apc EXCEPT ![k] = "flush"]
    /\ UNCHANGED <<lists, sendVars, inflight, calls, queueVars, intrVars, workVars, request, done, doing, asyncs, life>>

(* One entry of a flush, of an async command or of the cleanup.            *)
FlushEntry(k) ==
    /\ todo[k] # <<>> /\ ~Busy(k)
    /\ LET l == Head(todo[k])[1]
           p == Head(todo[k])[2]
       IN ListRemove(l, p) /\ Callback(k, l, p)
    /\ todo' = [todo EXCEPT ![k] = Tail(@)]
    /\ UNCHANGED <<pos, sends, nth, gaveUp, owing, queueVars, intrVars, workVars, asyncVars, flushed, life>>

AsyncEnd(k) ==
    /\ apc[k] = "flush" /\ todo[k] = <<>> /\ ~Busy(k)
    /\ apc' = [apc EXCEPT ![k] = "off"]
    /\ UNCHANGED <<lists, sendVars, userVars, queueVars, intrVars, workVars, request, done, doing, asyncs, flushVars, life>>

-----------------------------------------------------------------------------
(* mxvp_bspec_cleanup.  Interrupts are disabled, the work items cancelled, *)
(* the interrupt freed once no handler runs, both lists flushed and then   *)
(* freed.  What the VPU has reported by then stays in MXVP_INTR_PENDING.   *)
CleanIntr ==
    /\ MayClean /\ life = "up"
    /\ life' = "cancel"
    /\ late' = (msi \/ isr # None)
    /\ UNCHANGED <<lists, sendVars, userVars, queueVars, bell, msi, pending, isr, workVars, asyncVars, flushVars>>

Bug_CleanWork ==
    /\ life = "cancel" /\ \A l \in Lists : wpc[l] = "idle"
    /\ life' = "irq"
    /\ UNCHANGED <<lists, sendVars, userVars, queueVars, intrVars, workVars, asyncVars, flushVars>>

CleanWork ==
    /\ life = "cancel" /\ \A l \in Lists : wpc[l] = "idle"
    /\ life' = "irq"
    /\ queued' = {}
    /\ UNCHANGED <<lists, sendVars, userVars, queueVars, intrVars, wpc, left, reply, asyncVars, flushVars>>

CleanIrq ==
    /\ life = "irq" /\ isr = None
    /\ life' = "flush"
    /\ msi' = FALSE
    /\ StartFlush("cleanup", Lists)
    /\ UNCHANGED <<lists, sendVars, inflight, calls, queueVars, bell, pending, isr, late, workVars, asyncVars>>

CleanEnd ==
    /\ life = "flush" /\ todo["cleanup"] = <<>> /\ ~Busy("cleanup")
    /\ life' = "gone"
    /\ UNCHANGED <<lists, sendVars, userVars, queueVars, intrVars, workVars, asyncVars, flushVars>>

-----------------------------------------------------------------------------
(* The VPU, once it has heard the doorbell: it answers in order (MXVP_RO_  *)
(* IN_ORDER), and raises its interrupt while that is enabled.              *)
DeviceReply(l) ==
    /\ bell /\ subq[l] # <<>>
    /\ subq' = [subq EXCEPT ![l] = Tail(@)]
    /\ repq' = [repq EXCEPT ![l] = Append(@, Head(subq[l]))]
    /\ IF life = "up" THEN pending' = pending \union {l} /\ msi' = TRUE
                       ELSE UNCHANGED <<pending, msi>>
    /\ UNCHANGED <<lists, sendVars, userVars, bell, isr, late, workVars, asyncVars, flushVars, life>>

DeviceIdle ==
    /\ bell /\ request = None /\ \A l \in Lists : subq[l] = <<>>
    /\ bell' = FALSE
    /\ UNCHANGED <<lists, sendVars, userVars, queueVars, msi, pending, isr, late, workVars, asyncVars, flushVars, life>>

(* It clears the request, and the done bit of the time before with it.     *)
DeviceAccept ==
    /\ bell /\ request # None
    /\ request' = None
    /\ done' = done \ {request}
    /\ doing' = doing \union {request}
    /\ UNCHANGED <<lists, sendVars, userVars, queueVars, intrVars, workVars, apc, asyncs, flushVars, life>>

(* A preempted or reset queue loses what the VPU has not yet answered.     *)
DeviceDone(k) ==
    /\ k \in doing
    /\ subq' = [l \in Lists |-> IF l \in FlushOf[k] THEN <<>> ELSE subq[l]]
    /\ doing' = doing \ {k}
    /\ done' = done \union {k}
    /\ UNCHANGED <<lists, sendVars, userVars, repq, intrVars, workVars, request, apc, asyncs, flushVars, life>>

-----------------------------------------------------------------------------
Send(c) ==
    \/ Add(c) \/ Fill(c) \/ Push(c) \/ PushRefused(c) \/ Ring(c)
    \/ Again(c) \/ AgainFails(c)
Actors == Lists \union Kinds \union {"cleanup"}
SendOn(c) == Fill(c) \/ Push(c) \/ Ring(c) \/ Again(c) \/ AgainFails(c)
Work(l) == WorkStart(l) \/ WorkPull(l) \/ WorkReply(l) \/ WorkEnd(l)
Async(k) == AsyncRequest(k) \/ AsyncAccepted(k) \/ AsyncDone(k) \/ AsyncEnd(k)
AsyncOn(k) == AsyncAccepted(k) \/ AsyncDone(k) \/ AsyncEnd(k)
CleanOn == CleanWork \/ CleanIrq \/ CleanEnd
Cleanup == CleanIntr \/ CleanWork \/ CleanIrq \/ CleanEnd
Device == DeviceIdle \/ DeviceAccept \/ (\E l \in Lists : DeviceReply(l)) \/ \E k \in Kinds : DeviceDone(k)

(* What runs on when the lists have been freed is not modelled.            *)
Next ==
    /\ life \notin {"dead", "gone"}
    /\ \/ Probe
       \/ \E c \in Cmds : Send(c)
       \/ Test
       \/ \E a \in Actors : RingAgain(a)
       \/ IsrRead \/ IsrEnd
       \/ \E l \in Lists : Work(l)
       \/ \E k \in Kinds : Async(k)
       \/ \E k \in Kinds \union {"cleanup"} : FlushEntry(k)
       \/ Cleanup
       \/ Device

(* A sender, and the throughput test once it has begun, goes on and rings, *)
(* an async call or the cleanup goes on once what it waits for has         *)
(* happened, the kernel runs interrupts and work items, and the VPU        *)
(* answers; it need not ever do an async command.                          *)
Fairness ==
    /\ \A c \in Cmds : WF_vars(SendOn(c))
    /\ WF_vars(nth > 0 /\ Test) /\ \A a \in Actors : WF_vars(RingAgain(a))
    /\ \A k \in Kinds : WF_vars(AsyncOn(k))
    /\ \A k \in Kinds \union {"cleanup"} : WF_vars(FlushEntry(k))
    /\ WF_vars(CleanOn)
    /\ WF_vars(IsrRead) /\ WF_vars(IsrEnd)
    /\ \A l \in Lists : WF_vars(Work(l)) /\ WF_vars(DeviceReply(l))

Spec == Init /\ [][Next]_vars
FairSpec == Spec /\ Fairness

-----------------------------------------------------------------------------
(* The free entries: those in every set that has the first free entry and, *)
(* with an entry, the next.                                                *)
FreeEntries(l) ==
    {p \in Positions :
        \A S \in SUBSET Positions :
            /\ lists[l].free \in S \union {NULL}
            /\ \A q \in S : lists[l].next[q] \in S \union {NULL}
            => p \in S}

(* The commands that have an entry, and those whose entry is filled in.    *)
Holding(l) == {c \in Cmds : ListOf[c] = l /\ (pc[c] \in {"fill", "push"} \/ c \in inflight)}
Filled(l) == {c \in Holding(l) : pc[c] # "fill"}

(* An entry belongs to one command, is not free while it does, and no      *)
(* entry gets lost: until the first flush, which puts free entries on the  *)
(* chain again (mxvp_cmd_list_flush).                                      *)
OneEntryEach ==
    Probed => \A l \in Lists \ flushed :
        /\ \A c, d \in Holding(l) : pos[c] = pos[d] => c = d
        /\ FreeEntries(l) = Positions \ {pos[c] : c \in Holding(l)}
        /\ \A p \in Positions :
              lists[l].command[p] = IF \E c \in Filled(l) : pos[c] = p
                                    THEN CHOOSE c \in Filled(l) : pos[c] = p ELSE None

(* The handlers run only between the making of the lists and the moment   *)
(* they are cancelled, and none is left to run when the lists are freed:   *)
(* unless an interrupt was under way as they were disabled, for that is    *)
(* freed after the work items it queues have been cancelled.               *)
HandlersMeetLists ==
    /\ \A l \in Lists : wpc[l] # "idle" => life \in {"up", "cancel"} \/ late
    /\ life \in {"dead", "gone"} => queued = {} \/ late

(* Every command accepted gets its callback once, and nobody else does     *)
(* (mxvp_bspec.h), as long as no flush has begun.                          *)
Channel == INSTANCE MxvpChannel WITH Cmds <- Cmds, inflight <- inflight, calls <- calls
IsChannel == Channel!Init /\ [][Channel!Next \/ flushed # {}]_<<inflight, calls>>

(* The first flush of a list reaches every command that was in flight: by  *)
(* the time it is over all their callbacks have been called, whether by    *)
(* the flush or by a reply that came in the middle of it.  This is what    *)
(* callers of the cleanup, too, rely on to free their commands.            *)
FirstFlushReachesAll == \A k \in DOMAIN todo : todo[k] = <<>> => due[k] = {}

(* The callback of every command that was accepted before the first flush, *)
(* and before the driver went away, is called in the end: the handlers     *)
(* queue themselves when their budget is used up, callbacks that send the  *)
(* command again ring for it, and what the VPU has not answered by then is *)
(* flushed.  Only the throughput test, when it gives up, leaves commands   *)
(* for which nobody may ring.                                              *)
EveryCommandAnswered ==
    \A c \in Cmds :
        c \in inflight /\ flushed = {} /\ life = "up" ~>
            c \notin inflight \/ (gaveUp /\ c \in Repeated)
=============================================================================
