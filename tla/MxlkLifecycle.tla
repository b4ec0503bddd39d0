--------------------------- MODULE MxlkLifecycle ----------------------------
(***************************************************************************)
(* The mxlk driver from probe to remove (serial/mxlk/mxlk_core.c): the     *)
(* reset and boot ioctls, which any user may call at any time and which no *)
(* lock keeps apart, take communications and events down and up again,     *)
(* while interrupts, work items and write() go on.                         *)
(*                                                                         *)
(* Communications are the rings, buffers and lists that MxlkTx and MxlkRx  *)
(* are about; here they only live or not.  Events are the interrupt and    *)
(* the three work items.  MxBoot says what loading an image does.          *)
(***************************************************************************)
EXTENDS FiniteSets, Integers

CONSTANTS
    Users,           \* threads that call ioctl() or write(), or remove
    MaxOps,          \* bound: resets and boots
    OpsMayFail,      \* whether a step of one may fail
    DeviceMayFault   \* whether the device may reset itself

ASSUME LifecycleAssumption ==
    MaxOps \in Nat /\ OpsMayFail \in BOOLEAN /\ DeviceMayFault \in BOOLEAN

VARIABLES
    mode,            \* the device: see mx_get_opmode
    booting,         \* it has an image that it is yet to boot
    missed,          \* it came to its application after the call that loaded it
                     \* had looked for that; nothing starts communications
    rings,           \* tx.ddr and rx.ddr: NULL, allocated, or freed and kept
    run,             \* the host status the device sees is RUN
    irq, msi,        \* the interrupt is requested, and on its way
    update,          \* MX_INT_ENABLE: a status update interrupts
    queued, running, \* work items
    pc, op,          \* where each call stands, and what it is
    writing,         \* write() has buffers and is yet to start tx_event
    ops, removed,    \* calls so far; the driver is gone
    (* What happened, for the properties.                                  *)
    twice,           \* rings or interrupt were freed although not there
    astray,          \* tx_event or rx_event met freed rings with no call
                     \* between the freeing of the rings and its cancelling
    struck,          \* work items initialised while queued or running
    met, failed, other, overtaken,  \* see the properties
    late             \* a device that booted interrupted the driver

deviceVars == <<mode, booting, missed>>
intVars  == <<irq, msi, update>>
ringVars == <<rings, run>>
workVars == <<queued, running>>
callVars == <<pc, op, ops, removed>>
noteVars == <<twice, astray, struck, met, failed, other, overtaken, late>>
vars == <<deviceVars, ringVars, intVars, workVars, callVars, writing, noteVars>>

Items == {"db", "rx", "tx"}
Modes == {"boot", "loader", "vpual", "vpulink", "unknown"}
Apps  == {"vpual", "vpulink"}      \* MX_IS_OPMODE_APP

Active == {u \in Users : pc[u] # "idle"}

(* A call has freed the rings, or is about to, and has not cancelled all.  *)
TearingDown == \E u \in Users : pc[u] \in {"irq", "db", "rx", "tx"}

(* After a probe: mxlk_core_init takes a device in any mode.               *)
Init ==
    /\ mode \in Modes /\ booting = FALSE /\ missed = FALSE
    /\ rings = (IF mode = "vpulink" THEN "live" ELSE "none")
    /\ run = (mode = "vpulink")
    /\ irq = TRUE /\ msi = FALSE /\ update = (mode = "boot")
    /\ queued = {} /\ running = {}
    /\ pc = [u \in Users |-> "idle"] /\ op = [u \in Users |-> "none"]
    /\ writing = {} /\ ops = 0 /\ removed = FALSE
    /\ twice = FALSE /\ astray = FALSE /\ struck = {}
    /\ met = FALSE /\ failed = FALSE /\ other = FALSE /\ overtaken = FALSE
    /\ late = FALSE

Goto(u, to) == pc' = [pc EXCEPT ![u] = to]

Begin(u, what, at) ==
    /\ pc[u] = "idle" /\ u \notin writing /\ ~removed
    /\ op' = [op EXCEPT ![u] = what]
    /\ Goto(u, at)
    /\ met' = (met \/ Active # {})
    /\ overtaken' = (overtaken \/ writing # {})

Ioctl == ops < MaxOps /\ ops' = ops + 1

(* The device has been reset, with its registers and what it had to boot.  *)
IsReset ==
    mode' = "boot" /\ booting' = FALSE /\ missed' = FALSE /\ update' = FALSE

(* mxlk_core_reset_dev.  In boot mode there is nothing to do, in loader    *)
(* mode it is -EPERM; a device that is lost may be there after a restore.  *)
ResetApp(u) ==
    /\ Ioctl /\ mode \in Apps
    /\ Begin(u, "reset", "comms")
    /\ UNCHANGED <<deviceVars, ringVars, intVars, workVars, writing, removed, twice,
                   astray, struck, failed, other, late>>

ResetLost(u) ==
    /\ Ioctl /\ mode = "unknown"
    /\ Begin(u, "restore", "comms")
    /\ IsReset
    /\ UNCHANGED <<ringVars, irq, msi, workVars, writing, removed, twice, astray, struck,
                   failed, other, late>>

(* mxlk_core_boot_dev, -EPERM in any mode but boot.                        *)
Boot(u) ==
    /\ Ioctl /\ mode = "boot"
    /\ Begin(u, "boot", "irq")
    /\ UNCHANGED <<deviceVars, ringVars, intVars, workVars, writing, removed, twice,
                   astray, struck, failed, other, late>>

(* mxlk_core_cleanup leaves communications alone in all modes but one.     *)
Remove(u) ==
    /\ Begin(u, "remove", IF mode = "vpulink" THEN "comms" ELSE "irq")
    /\ UNCHANGED <<deviceVars, ringVars, intVars, workVars, ops, writing, removed, twice,
                   astray, struck, failed, other, late>>

(* mxlk_comms_cleanup: the pointers to the rings keep their values.        *)
CommsCleanup(u) ==
    /\ pc[u] = "comms"
    /\ twice' = (twice \/ rings = "freed")
    /\ rings' = IF rings = "none" THEN rings ELSE "freed"
    /\ run' = FALSE
    /\ Goto(u, "irq")
    /\ UNCHANGED <<deviceVars, intVars, workVars, op, ops, removed, writing, astray,
                   struck, met, failed, other, overtaken, late>>

(* mxlk_events_cleanup frees the interrupt, then cancels the work items    *)
(* one after the other, each once it does not run.                         *)
FreeIrq(u) ==
    /\ pc[u] = "irq"
    /\ twice' = (twice \/ ~irq)
    /\ irq' = FALSE /\ msi' = FALSE /\ update' = (update /\ mode # "boot")
    /\ Goto(u, "db")
    /\ UNCHANGED <<deviceVars, ringVars, workVars, op, ops, removed, writing, astray,
                   struck, met, failed, other, overtaken, late>>

AfterEvents(u) ==
    CASE op[u] = "reset" -> "reset"
      [] op[u] = "restore" -> "events"
      [] op[u] = "boot" -> "load"
      [] OTHER -> "gone"

Bug_AfterCancel(u) == IF pc[u] = "db" THEN "rx" ELSE AfterEvents(u)

AfterCancel(u) ==
    CASE pc[u] = "db" -> "rx"
      [] pc[u] = "rx" -> "tx"
      [] OTHER -> AfterEvents(u)

Cancel(u) ==
    /\ pc[u] \in Items \ running
    /\ queued' = queued \ {pc[u]}
    /\ Goto(u, AfterCancel(u))
    /\ UNCHANGED <<deviceVars, ringVars, intVars, running, op, ops, removed, writing, noteVars>>

(* The device goes on to a mode, of which it tells if it was asked to.     *)
GoesTo(m) ==
    /\ mode' = m
    /\ msi' \in {msi, msi \/ (update /\ irq /\ m # mode)}

(* What mx_boot_load_image leaves behind, even when it succeeds: a device  *)
(* in any mode, as it returns when the last chunk is transferred and does  *)
(* not wait for the application.                                           *)
LoadsImage ==
    /\ missed' = (missed /\ mode \notin {"boot", "loader"})
    /\ \/ /\ mode \in {"boot", "loader"}
          /\ \E m \in Modes : GoesTo(m) /\ booting' = (m \notin Apps)
       \/ /\ mode \notin {"boot", "loader"}
          /\ UNCHANGED <<mode, msi, booting>>

(* The kernel has the PCI device locked throughout a removal.              *)
PciLocked == \E u \in Active : op[u] = "remove"

(* An error leaves everything as it is then; mxlk_txrx_init frees what it  *)
(* had allocated, and keeps the pointers.                                  *)
Fail(u) ==
    /\ OpsMayFail /\ pc[u] \in {"reset", "load", "events", "start"}
    /\ pc[u] = "reset" => ~PciLocked
    /\ IF pc[u] = "start" THEN rings' \in {rings, "freed"} ELSE UNCHANGED rings
    /\ CASE pc[u] = "load" -> LoadsImage
         [] pc[u] = "reset" ->
              mode' \in {mode, "unknown"} /\ missed' = FALSE /\ UNCHANGED <<booting, msi>>
         [] OTHER -> UNCHANGED <<deviceVars, msi>>
    /\ failed' = TRUE
    /\ Goto(u, "idle")
    /\ UNCHANGED <<run, irq, update, workVars, op, ops, removed, writing, twice, astray,
                   struck, met, other, overtaken, late>>

Bug_Reset(u) ==
    /\ pc[u] = "reset"
    /\ IsReset
    /\ Goto(u, "idle")
    /\ UNCHANGED <<ringVars, irq, msi, workVars, op, ops, removed, writing, noteVars>>

(* mx_reset_device, under the lock of the PCI device.                      *)
Reset(u) ==
    /\ pc[u] = "reset" /\ ~PciLocked
    /\ IsReset
    /\ Goto(u, "events")
    /\ UNCHANGED <<ringVars, irq, msi, workVars, op, ops, removed, writing, noteVars>>

(* mx_boot_load_image succeeds.                                            *)
Load(u) ==
    /\ pc[u] = "load"
    /\ LoadsImage
    /\ Goto(u, "events")
    /\ UNCHANGED <<ringVars, irq, update, workVars, op, ops, removed, writing, noteVars>>

(* mxlk_events_init makes the work items new, queued or not, and in boot   *)
(* mode asks for status updates.                                           *)
EventsInit(u) ==
    /\ pc[u] = "events"
    /\ struck' = struck \union queued \union running
    /\ queued' = {}
    /\ irq' = TRUE /\ update' = (update \/ mode = "boot")
    /\ Goto(u, IF op[u] = "boot" THEN "mode" ELSE "idle")
    /\ UNCHANGED <<deviceVars, ringVars, msi, running, op, ops, removed, writing, twice,
                   astray, met, failed, other, overtaken, late>>

Bug_CheckMode(u) ==
    /\ pc[u] = "mode"
    /\ Goto(u, "idle")
    /\ UNCHANGED <<deviceVars, ringVars, intVars, workVars, op, ops, removed, writing, noteVars>>

(* After a boot, mxlk_comms_init if the device is in the mode for it;      *)
(* otherwise the boot is over, with a message.                             *)
CheckMode(u) ==
    /\ pc[u] = "mode"
    /\ Goto(u, IF mode = "vpulink" THEN "start" ELSE "idle")
    /\ other' = (other \/ mode # "vpulink")
    /\ UNCHANGED <<deviceVars, ringVars, intVars, workVars, op, ops, removed, writing,
                   twice, astray, struck, met, failed, overtaken, late>>

CommsInit(u) ==
    /\ pc[u] = "start"
    /\ rings' = "live" /\ run' = TRUE
    /\ Goto(u, "idle")
    /\ UNCHANGED <<deviceVars, intVars, workVars, op, ops, removed, writing, noteVars>>

Gone(u) ==
    /\ pc[u] = "gone"
    /\ removed' = TRUE
    /\ Goto(u, "idle")
    /\ UNCHANGED <<deviceVars, ringVars, intVars, workVars, op, ops, writing, noteVars>>

-----------------------------------------------------------------------------
(* The device interrupts once the host is up; it may reset itself; and it  *)
(* boots the image it was given, at a time of its own.                     *)
DeviceMsi ==
    /\ mode = "vpulink" /\ run /\ ~msi
    /\ msi' = TRUE
    /\ UNCHANGED <<deviceVars, ringVars, irq, update, workVars, callVars, writing, noteVars>>

DeviceFault ==
    /\ DeviceMayFault /\ mode \in Apps
    /\ mode' = "unknown" /\ missed' = FALSE
    /\ UNCHANGED <<booting, ringVars, intVars, workVars, callVars, writing, noteVars>>

(* Of all calls only a boot that is yet to look at the mode takes notice.  *)
WillLook(u) ==
    op[u] = "boot" /\ pc[u] \in {"irq", "db", "rx", "tx", "load", "events", "mode"}

DeviceBoots ==
    /\ booting /\ booting' = FALSE
    /\ \E m \in Apps : GoesTo(m)
    /\ missed' = (mode' = "vpulink" /\ ~\E u \in Users : WillLook(u))
    /\ late' = (late \/ msi')
    /\ UNCHANGED <<ringVars, irq, update, workVars, callVars, writing, twice, astray,
                   struck, met, failed, other, overtaken>>

(* mxlk_interrupt.                                                         *)
Interrupt ==
    /\ irq /\ msi
    /\ msi' = FALSE
    /\ queued' = IF mode = "vpulink" THEN queued \union {"tx", "rx"} ELSE queued
    /\ UNCHANGED <<deviceVars, ringVars, irq, update, running, callVars, writing, noteVars>>

(* A write() that has taken its buffers; when it has copied, the handler   *)
(* is started.                                                             *)
Write(u) ==
    /\ pc[u] = "idle" /\ u \notin writing /\ rings = "live" /\ ~removed
    /\ writing' = writing \union {u}
    /\ overtaken' = (overtaken \/ Active # {})
    /\ UNCHANGED <<deviceVars, ringVars, intVars, workVars, callVars, twice, astray,
                   struck, met, failed, other, late>>

WriteEnd(u) ==
    /\ u \in writing
    /\ writing' = writing \ {u}
    /\ queued' = queued \union {"tx"}
    /\ UNCHANGED <<deviceVars, ringVars, intVars, running, callVars, noteVars>>

(* A work item runs; the handlers look at the rings from start to end, and *)
(* queue the doorbell.                                                     *)
WorkStart(w) ==
    /\ w \in queued \ running
    /\ queued' = queued \ {w} /\ running' = running \union {w}
    /\ astray' = (astray \/ (w # "db" /\ rings # "live" /\ ~TearingDown))
    /\ UNCHANGED <<deviceVars, ringVars, intVars, callVars, writing, twice, struck, met,
                   failed, other, overtaken, late>>

WorkEnd(w) ==
    /\ w \in running
    /\ running' = running \ {w}
    /\ queued' = IF w = "db" THEN queued ELSE queued \union {"db"}
    /\ astray' = (astray \/ (w # "db" /\ rings # "live" /\ ~TearingDown))
    /\ UNCHANGED <<deviceVars, ringVars, intVars, callVars, writing, twice, struck, met,
                   failed, other, overtaken, late>>

Op(u) ==
    \/ ResetApp(u) \/ ResetLost(u) \/ Boot(u) \/ Remove(u)
    \/ CommsCleanup(u) \/ FreeIrq(u) \/ Cancel(u) \/ Fail(u)
    \/ Reset(u) \/ Load(u) \/ EventsInit(u) \/ CheckMode(u) \/ CommsInit(u) \/ Gone(u)

(* What runs on when the driver is gone is not modelled.                   *)
Next ==
    /\ ~removed
    /\ \/ \E u \in Users : Op(u) \/ Write(u) \/ WriteEnd(u)
       \/ DeviceMsi \/ DeviceFault \/ DeviceBoots \/ Interrupt
       \/ \E w \in Items : WorkStart(w) \/ WorkEnd(w)

Spec == Init /\ [][Next]_vars

-----------------------------------------------------------------------------
(* Unless two calls met, one failed midway, or a boot ended with no        *)
(* communications to start, nothing is freed twice.                        *)
FreedOnce == twice => met \/ failed \/ other

(* Unless calls met or failed, the driver is up when no call is under way: *)
(* it has its interrupt, and communications if the device runs their       *)
(* application and did so by the time the boot looked; the device never    *)
(* sees a host that runs without them.                                     *)
UpWhenIdle ==
    ~met /\ ~failed /\ Active = {} /\ ~removed =>
        /\ irq
        /\ mode = "vpulink" => (rings = "live" /\ run) \/ missed
        /\ run <=> rings = "live"

(* The handlers meet freed rings only while the call that freed them has   *)
(* not yet cancelled them (mxlk_core_reset_dev does that last), and only   *)
(* send_doorbell, which is cancelled first, may be queued as the work      *)
(* items are made new: unless calls met, one failed, or a write() went on. *)
(* And the status update of a device that boots when the interrupt is      *)
(* there again may start the handlers although there are no rings.         *)
WorkCancelled ==
    ~met /\ ~failed /\ ~overtaken =>
        /\ late \/ ~astray
        /\ struck \subseteq {"db"}
=============================================================================
