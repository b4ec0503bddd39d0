-------------------------------- MODULE Mxbl --------------------------------
(***************************************************************************)
(* The boot loader driver (boot/mxbl), built without an embedded image.    *)
(* For each device in boot mode it adds a character device, into which a   *)
(* user writes the image to boot: at the end of the probe, or when a       *)
(* status update interrupt makes the work item look at the mode.  Nothing  *)
(* keeps these two, or the removal of the device, apart.                   *)
(*                                                                         *)
(* MxBoot says what loading an image does.  Here a write() is a step.      *)
(***************************************************************************)
EXTENDS Integers

CONSTANTS
    Devices,         \* devices on the bus
    MaxDevices,      \* MXBL_MAX_DEVICES
    MaxProbes,       \* bound: probes of all devices
    MaxChanges,      \* bound: changes of mode the driver does not make
    StepsMayFail     \* whether the kernel may refuse what it is asked for

ASSUME MxblAssumption ==
    /\ MaxDevices \in Nat /\ MaxProbes \in Nat /\ MaxChanges \in Nat
    /\ StepsMayFail \in BOOLEAN

VARIABLES
    (* The module: its state, its class and its device numbers.            *)
    module, class, region,
    (* The device: its mode, MX_INT_ENABLE, MX_INT_IDENTITY, its MSI.      *)
    mode, enabled, identity, msi,
    (* The driver's structure and what it holds.                           *)
    mapped, irq,     \* registers mapped, interrupt requested
    bus,             \* the device is bus master: it may use DMA and MSIs
    unit, added,     \* unit and chrdev_added
    chrdev, cdev,    \* minors of the two objects, None or ErrPtr
    queued,          \* the work item is queued
    (* The kernel: class devices, character devices and open files.        *)
    nodes, cdevs, opened,
    units,           \* units_found
    thread, work,    \* where probe or remove stands, and the work item
    devno,           \* the device number each of them adds
    op, isr,         \* what events are cleaned up for; the interrupt runs
    probes, changes, \* how many there were
    (* What happened, for the properties.                                  *)
    used, undone,    \* who met what was released; what was undone twice
    (* Why a property may fail: see there.                                 *)
    crossed, yanked, limited, half, lost, refused, wiped

moduleVars == <<module, class, region>>
deviceVars == <<mode, enabled, identity, msi, changes>>
pciVars    == <<mapped, bus>>
chrdevVars == <<added, chrdev, cdev, nodes, cdevs>>
threadVars == <<op, probes>>
pc         == <<thread, work>>
noteVars   == <<used, undone, crossed, yanked, limited, half, lost, refused, wiped>>
vars == <<moduleVars, deviceVars, pciVars, irq, unit, chrdevVars, queued, opened, units,
          pc, devno, threadVars, isr, noteVars>>

Modes == {"boot", "app", "unknown"}
Actors == {"thread", "work"}
None == -1
ErrPtr == -2

Init ==
    /\ module = "out" /\ class = FALSE /\ region = FALSE
    /\ mode \in [Devices -> Modes]
    /\ identity \in [Devices -> BOOLEAN]
    /\ enabled = [d \in Devices |-> FALSE] /\ msi = [d \in Devices |-> FALSE]
    /\ mapped = [d \in Devices |-> FALSE] /\ irq = [d \in Devices |-> FALSE]
    /\ bus = [d \in Devices |-> FALSE]
    /\ unit = [d \in Devices |-> 0] /\ added = [d \in Devices |-> FALSE]
    /\ chrdev = [d \in Devices |-> None] /\ cdev = [d \in Devices |-> None]
    /\ queued = {} /\ nodes = {} /\ cdevs = {} /\ opened = {} /\ units = 0
    /\ thread = [d \in Devices |-> "absent"] /\ work = [d \in Devices |-> "idle"]
    /\ devno = [d \in Devices |-> [a \in Actors |-> None]]
    /\ op = [d \in Devices |-> "none"] /\ isr = {} /\ probes = 0 /\ changes = 0
    /\ used = {} /\ undone = {} /\ yanked = FALSE /\ limited = FALSE
    /\ half = FALSE /\ lost = FALSE /\ crossed = FALSE /\ wiped = FALSE /\ refused = FALSE

(* mx_pci_dev_disable; mx_pci_dev_ctx_restore and mx_pci_dev_enable, after *)
(* which the device may send MSIs again.                                   *)
BusOff(d) == bus' = [bus EXCEPT ![d] = FALSE]
RestoreContext(d) == bus' = [bus EXCEPT ![d] = TRUE]

At(d, a, place) == place = IF a = "thread" THEN thread[d] ELSE work[d]
Goto(d, a, place) ==
    IF a = "thread"
    THEN thread' = [thread EXCEPT ![d] = place] /\ UNCHANGED work
    ELSE work' = [work EXCEPT ![d] = place] /\ UNCHANGED thread

(* The status update of d is being dealt with, or soon will be.            *)
Updating(d) == msi[d] \/ d \in queued \/ d \in isr \/ ~At(d, "work", "idle")

-----------------------------------------------------------------------------
(* mxbl_init_module.  It ignores that mxbl_chrdev_init has failed, and if  *)
(* the driver cannot be registered it leaves class and numbers behind.     *)
ModuleInit ==
    /\ module = "out"
    /\ class' \in {TRUE, ~StepsMayFail} /\ region' \in {class', class' /\ ~StepsMayFail}
    /\ module' \in {"in"} \union (IF StepsMayFail THEN {"refused"} ELSE {})
    /\ UNCHANGED <<deviceVars, pciVars, irq, unit, chrdevVars, queued, opened, units, pc, devno,
                   threadVars, isr, noteVars>>

(* mxbl_exit_module, while no file is open: the devices are removed...     *)
ModuleExit ==
    /\ module = "in" /\ opened = {}
    /\ module' = "leaving"
    /\ UNCHANGED <<class, region, deviceVars, pciVars, irq, unit, chrdevVars, queued, opened,
                   units, pc, devno, threadVars, isr, noteVars>>

(* ...destroy_workqueue runs what is queued, and mxbl_chrdev_exit.         *)
ModuleGone ==
    /\ module = "leaving" /\ queued = {}
    /\ \A d \in Devices : At(d, "thread", "absent") /\ At(d, "work", "idle")
    /\ module' = "gone" /\ class' = FALSE /\ region' = FALSE
    /\ UNCHANGED <<deviceVars, pciVars, irq, unit, chrdevVars, queued, opened, units, pc, devno,
                   threadVars, isr, noteVars>>

-----------------------------------------------------------------------------
(* mxbl_probe, with a structure that is all zero.                          *)
Probe(d) ==
    /\ At(d, "thread", "absent") /\ ~Updating(d) /\ d \notin opened
    /\ module = "in" /\ probes < MaxProbes
    /\ probes' = probes + 1
    /\ unit' = [unit EXCEPT ![d] = 0] /\ added' = [added EXCEPT ![d] = FALSE]
    /\ chrdev' = [chrdev EXCEPT ![d] = None] /\ cdev' = [cdev EXCEPT ![d] = None]
    /\ op' = [op EXCEPT ![d] = "none"]
    /\ Goto(d, "thread", "pci")
    /\ UNCHANGED <<deviceVars, pciVars, irq, queued, nodes, cdevs, opened, units, devno, isr,
                   noteVars>>

(* mx_pci_init.  If it fails it takes back what it did; if the last step   *)
(* fails it unmaps a wrong address, and nobody uses the right one.         *)
PciInit(d) ==
    /\ At(d, "thread", "pci")
    /\ \/ /\ mapped' = [mapped EXCEPT ![d] = TRUE] /\ bus' = [bus EXCEPT ![d] = TRUE]
          /\ Goto(d, "thread", "events")
       \/ StepsMayFail /\ UNCHANGED pciVars /\ Goto(d, "thread", "absent")
    /\ UNCHANGED <<deviceVars, irq, unit, chrdevVars, queued, opened, units, devno, threadVars,
                   isr, noteVars>>

(* mxbl_events_init: a new work item and the interrupt...                  *)
IrqInit(d) ==
    /\ thread[d] \in {"events", "again"}
    /\ queued' = queued \ {d}
    /\ irq' = [irq EXCEPT ![d] = TRUE]
    /\ Goto(d, "thread", IF At(d, "thread", "events") THEN "enable" ELSE "enable again")
    /\ UNCHANGED <<deviceVars, pciVars, unit, chrdevVars, opened, units, devno, threadVars, isr,
                   noteVars>>

(* ...whose lack is an error the first time; after a reset nobody looks... *)
IrqInitFails(d) ==
    /\ StepsMayFail /\ thread[d] \in {"events", "again"}
    /\ queued' = queued \ {d}
    /\ half' = (half \/ At(d, "thread", "again"))
    /\ Goto(d, "thread", IF At(d, "thread", "events") THEN "unmap" ELSE "boot")
    /\ UNCHANGED <<deviceVars, pciVars, irq, unit, chrdevVars, opened, units, devno, threadVars,
                   isr, used, undone, yanked, limited, lost, crossed, wiped, refused>>

(* ...and mx_boot_status_update_int_enable.                                *)
IntEnable(d) ==
    /\ thread[d] \in {"enable", "enable again"}
    /\ enabled' = [enabled EXCEPT ![d] = TRUE]
    /\ Goto(d, "thread", IF At(d, "thread", "enable") THEN "opmode" ELSE "boot")
    /\ UNCHANGED <<mode, identity, msi, changes, pciVars, irq, unit, chrdevVars, queued, opened,
                   units, devno, threadVars, isr, noteVars>>

(* A device that is not in boot mode is reset, without events meanwhile.   *)
Opmode(d) ==
    /\ At(d, "thread", "opmode")
    /\ IF mode[d] = "boot"
       THEN Goto(d, "thread", "boot") /\ UNCHANGED op
       ELSE Goto(d, "thread", "disable") /\ op' = [op EXCEPT ![d] = "reset"]
    /\ UNCHANGED <<deviceVars, pciVars, irq, unit, chrdevVars, queued, opened, units, devno,
                   probes, isr, noteVars>>

(* mx_reset_device: off the bus, the device starts anew, in boot mode if   *)
(* it is back in time.                                                     *)
ResetDevice(d) ==
    /\ At(d, "thread", "reset")
    /\ BusOff(d)
    /\ \E m \in {"boot"} \union (IF StepsMayFail THEN {"unknown"} ELSE {}) :
           mode' = [mode EXCEPT ![d] = m]
    /\ enabled' = [enabled EXCEPT ![d] = FALSE] /\ identity' = [identity EXCEPT ![d] = FALSE]
    /\ Goto(d, "thread", "restore")
    /\ UNCHANGED <<msi, changes, mapped, irq, unit, chrdevVars, queued, opened, units, devno,
                   threadVars, isr, noteVars>>

(* What the driver saved is put back if the device has an id; if it is not *)
(* in boot mode the probe ends with an error, as it does without an id.    *)
ResetRestore(d) ==
    /\ At(d, "thread", "restore")
    /\ RestoreContext(d)
    /\ Goto(d, "thread", IF mode[d] = "boot" THEN "again" ELSE "unmap")
    /\ lost' = (lost \/ mode[d] # "boot")
    /\ UNCHANGED <<deviceVars, mapped, irq, unit, chrdevVars, queued, opened, units, devno,
                   threadVars, isr, used, undone, yanked, limited, half, crossed, wiped, refused>>

ResetFails(d) ==
    /\ At(d, "thread", "restore") /\ mode[d] = "unknown"
    /\ lost' = TRUE
    /\ Goto(d, "thread", "unmap")
    /\ UNCHANGED <<deviceVars, pciVars, irq, unit, chrdevVars, queued, opened, units, devno,
                   threadVars, isr, used, undone, yanked, limited, half, crossed, wiped, refused>>

Bug_BootCheck(d) ==
    /\ At(d, "thread", "boot")
    /\ Goto(d, "thread", "unit")
    /\ UNCHANGED <<deviceVars, pciVars, irq, unit, chrdevVars, queued, opened, units, devno,
                   threadVars, isr, noteVars>>

(* An interrupt may not come, so the probe itself looks at the mode.       *)
BootCheck(d) ==
    /\ At(d, "thread", "boot")
    /\ Goto(d, "thread", IF mode[d] = "boot" /\ ~added[d] THEN "create" ELSE "unit")
    /\ UNCHANGED <<deviceVars, pciVars, irq, unit, chrdevVars, queued, opened, units, devno,
                   threadVars, isr, noteVars>>

(* The unit number; a device too many is torn down again, and the probe    *)
(* returns 0 all the same.                                                 *)
TakeUnit(d) ==
    /\ At(d, "thread", "unit")
    /\ unit' = [unit EXCEPT ![d] = units] /\ units' = units + 1
    /\ IF units < MaxDevices
       THEN Goto(d, "thread", "bound") /\ UNCHANGED <<op, limited>>
       ELSE /\ Goto(d, "thread", "disable")
            /\ op' = [op EXCEPT ![d] = "limit"] /\ limited' = TRUE
    /\ UNCHANGED <<deviceVars, pciVars, irq, chrdevVars, queued, opened, devno, probes, isr,
                   used, undone, yanked, half, lost, crossed, wiped, refused>>

-----------------------------------------------------------------------------
(* mxbl_chrdev_add, by the probe or by the work item.                      *)
ReturnTo(a) == IF a = "thread" THEN "unit" ELSE "idle"

MinorFree(d) == \A n \in nodes : n[1] # d /\ n[2] # unit[d]

Create(d, a) ==
    /\ At(d, a, "create") /\ class /\ MinorFree(d)
    /\ nodes' = nodes \union {<<d, unit[d]>>}
    /\ chrdev' = [chrdev EXCEPT ![d] = unit[d]] /\ cdev' = [cdev EXCEPT ![d] = None]
    /\ devno' = [devno EXCEPT ![d][a] = unit[d]]
    /\ Goto(d, a, "add")
    /\ UNCHANGED <<deviceVars, pciVars, irq, unit, added, cdevs, queued, opened, units,
                   threadVars, isr, noteVars>>

(* The kernel refuses a name or a minor it has, and a class that is none;  *)
(* the error is left in mxbl->chrdev.                                      *)
CreateFails(d, a) ==
    /\ At(d, a, "create") /\ (StepsMayFail \/ ~class \/ ~MinorFree(d))
    /\ chrdev' = [chrdev EXCEPT ![d] = ErrPtr] /\ cdev' = [cdev EXCEPT ![d] = None]
    /\ refused' = TRUE
    /\ Goto(d, a, ReturnTo(a))
    /\ UNCHANGED <<deviceVars, pciVars, irq, unit, added, nodes, cdevs, queued, opened, units,
                   devno, threadVars, isr, used, undone, yanked, limited, half, lost, crossed, wiped>>

CdevAdd(d, a) ==
    /\ At(d, a, "add")
    /\ cdevs' = cdevs \union {<<d, devno[d][a]>>}
    /\ cdev' = [cdev EXCEPT ![d] = devno[d][a]]
    /\ Goto(d, a, "flag")
    /\ UNCHANGED <<deviceVars, pciVars, irq, unit, added, chrdev, nodes, queued, opened, units,
                   devno, threadVars, isr, noteVars>>

(* device_destroy(mxbl_class, mxbl->chrdev->devt).                         *)
Destroy(d, a, next) ==
    IF chrdev[d] \in {ErrPtr, None}
    THEN Goto(d, a, "oops") /\ used' = used \union {a} /\ UNCHANGED nodes
    ELSE Goto(d, a, next) /\ nodes' = nodes \ {<<d, chrdev[d]>>} /\ UNCHANGED used

CdevAddFails(d, a) ==
    /\ StepsMayFail /\ At(d, a, "add")
    /\ Destroy(d, a, ReturnTo(a))
    /\ refused' = TRUE
    /\ UNCHANGED <<deviceVars, pciVars, irq, unit, added, chrdev, cdev, cdevs, queued, opened,
                   units, devno, threadVars, isr, undone, yanked, limited, half, lost, crossed, wiped>>

SetAdded(d, a) ==
    /\ At(d, a, "flag")
    /\ added' = [added EXCEPT ![d] = TRUE]
    /\ Goto(d, a, ReturnTo(a))
    /\ UNCHANGED <<deviceVars, pciVars, irq, unit, chrdev, cdev, nodes, cdevs, queued, opened,
                   units, devno, threadVars, isr, noteVars>>

-----------------------------------------------------------------------------
(* mxbl_core_cleanup begins.                                               *)
Remove(d) ==
    /\ At(d, "thread", "bound")
    /\ op' = [op EXCEPT ![d] = "remove"]
    /\ Goto(d, "thread", "unflag")
    /\ UNCHANGED <<deviceVars, pciVars, irq, unit, chrdevVars, queued, opened, units, devno,
                   probes, isr, noteVars>>

AfterChrdev(d) == IF op[d] = "limit" THEN "unmap" ELSE "disable"

(* mxbl_chrdev_remove: the flag first.                                     *)
ClearAdded(d) ==
    /\ At(d, "thread", "unflag")
    /\ added' = [added EXCEPT ![d] = FALSE]
    /\ crossed' = (crossed \/ ~At(d, "work", "idle"))
    /\ Goto(d, "thread", IF added[d] THEN "destroy" ELSE AfterChrdev(d))
    /\ UNCHANGED <<deviceVars, pciVars, irq, unit, chrdev, cdev, nodes, cdevs, queued, opened,
                   units, devno, threadVars, isr, used, undone, yanked, limited, half,
                   lost, wiped, refused>>

Bug_RemoveChrdev(d) ==
    /\ At(d, "thread", "destroy")
    /\ Destroy(d, "thread", AfterChrdev(d))
    /\ yanked' = (yanked \/ d \in opened)
    /\ UNCHANGED <<deviceVars, pciVars, irq, unit, added, chrdev, cdev, cdevs, queued, opened,
                   units, devno, threadVars, isr, undone, limited, half, lost, crossed,
                   wiped, refused>>

RemoveChrdev(d) ==
    /\ At(d, "thread", "destroy")
    /\ Destroy(d, "thread", AfterChrdev(d))
    /\ cdevs' = cdevs \ {<<d, cdev[d]>>}
    /\ yanked' = (yanked \/ d \in opened)
    /\ UNCHANGED <<deviceVars, pciVars, irq, unit, added, chrdev, cdev, queued, opened, units,
                   devno, threadVars, isr, undone, limited, half, lost, crossed,
                   wiped, refused>>

(* mxbl_events_cleanup: MX_INT_ENABLE, if the mode can be read...          *)
Disable(d) ==
    /\ At(d, "thread", "disable")
    /\ IF mapped[d]
       THEN Goto(d, "thread", "cancel") /\ UNCHANGED used
       ELSE Goto(d, "thread", "oops") /\ used' = used \union {"thread"}
    /\ enabled' = [enabled EXCEPT ![d] = @ /\ mode[d] # "boot"]
    /\ UNCHANGED <<mode, identity, msi, changes, pciVars, irq, unit, chrdevVars, queued, opened,
                   units, devno, threadVars, isr, undone, yanked, limited, half, lost, crossed,
                   wiped, refused>>

Bug_Cancel(d) ==
    /\ At(d, "thread", "cancel") /\ At(d, "work", "idle")
    /\ Goto(d, "thread", "irq")
    /\ UNCHANGED <<deviceVars, pciVars, irq, unit, chrdevVars, queued, opened, units, devno,
                   threadVars, isr, noteVars>>

(* ...cancel_work_sync, once the work item does not run...                 *)
Cancel(d) ==
    /\ At(d, "thread", "cancel") /\ At(d, "work", "idle")
    /\ queued' = queued \ {d}
    /\ Goto(d, "thread", "irq")
    /\ UNCHANGED <<deviceVars, pciVars, irq, unit, chrdevVars, opened, units, devno, threadVars,
                   isr, noteVars>>

AfterEvents(d) ==
    CASE op[d] = "reset" -> "reset" [] op[d] = "limit" -> "unflag" [] OTHER -> "unmap"

(* ...and the interrupt, once its handler does not run.                    *)
FreeIrq(d) ==
    /\ At(d, "thread", "irq") /\ d \notin isr
    /\ undone' = IF irq[d] THEN undone ELSE undone \union {"irq"}
    /\ irq' = [irq EXCEPT ![d] = FALSE] /\ msi' = [msi EXCEPT ![d] = FALSE]
    /\ Goto(d, "thread", AfterEvents(d))
    /\ UNCHANGED <<mode, enabled, identity, changes, pciVars, unit, chrdevVars, queued, opened,
                   units, devno, threadVars, isr, used, yanked, limited, half, lost, crossed,
                   wiped, refused>>

(* mx_pci_cleanup; then the probe returns, or the structure is freed.      *)
Unmap(d) ==
    /\ At(d, "thread", "unmap")
    /\ undone' = IF mapped[d] THEN undone ELSE undone \union {"pci"}
    /\ mapped' = [mapped EXCEPT ![d] = FALSE] /\ BusOff(d)
    /\ Goto(d, "thread", IF op[d] = "limit" THEN "bound" ELSE "absent")
    /\ UNCHANGED <<deviceVars, irq, unit, chrdevVars, queued, opened, units, devno, threadVars,
                   isr, used, yanked, limited, half, lost, crossed, wiped, refused>>

-----------------------------------------------------------------------------
(* mxbl_event_isr reads what there is, queues the work item...             *)
IsrRead(d) ==
    /\ irq[d] /\ msi[d] /\ d \notin isr
    /\ msi' = [msi EXCEPT ![d] = FALSE]
    /\ queued' = IF identity[d] THEN queued \union {d} ELSE queued
    /\ isr' = isr \union {d}
    /\ crossed' = (crossed \/ (identity[d] /\ At(d, "thread", "irq")))
    /\ UNCHANGED <<mode, enabled, identity, changes, pciVars, irq, unit, chrdevVars, opened, units, pc,
                   devno, threadVars, used, undone, yanked, limited, half, lost, wiped, refused>>

(* ...and reports all events handled, those that came meanwhile included.  *)
IsrClear(d) ==
    /\ d \in isr
    /\ identity' = [identity EXCEPT ![d] = FALSE]
    /\ isr' = isr \ {d}
    /\ UNCHANGED <<mode, enabled, msi, changes, pciVars, irq, unit, chrdevVars, queued, opened,
                   units, pc, devno, threadVars, noteVars>>

(* Where the thread is from the start of a cleanup until it cancels.       *)
Withdrawing == {"unflag", "destroy", "disable", "cancel"}

(* mxbl_status_update_handler.                                             *)
Work(d) ==
    /\ d \in queued /\ At(d, "work", "idle")
    /\ queued' = queued \ {d}
    /\ used' = IF mapped[d] THEN used ELSE used \union {"work"}
    /\ crossed' = (crossed \/ thread[d] \in Withdrawing)
    /\ Goto(d, "work", IF mapped[d] /\ mode[d] = "boot" /\ ~added[d] THEN "create" ELSE "idle")
    /\ UNCHANGED <<deviceVars, pciVars, irq, unit, chrdevVars, opened, units, devno, threadVars,
                   isr, undone, yanked, limited, half, lost, wiped, refused>>

-----------------------------------------------------------------------------
(* The device reports each change of its mode.                             *)
ChangeMode(d, m) ==
    /\ mode' = [mode EXCEPT ![d] = m]
    /\ identity' = [identity EXCEPT ![d] = TRUE]
    /\ msi' = [msi EXCEPT ![d] = @ \/ (enabled[d] /\ irq[d] /\ bus[d])]
    /\ wiped' = (wiped \/ d \in isr)

DeviceChange(d) ==
    /\ changes < MaxChanges /\ changes' = changes + 1
    /\ \E m \in Modes \ {mode[d]} : ChangeMode(d, m)
    /\ UNCHANGED <<enabled, pciVars, irq, unit, chrdevVars, queued, opened, units, pc, devno,
                   threadVars, isr, used, undone, yanked, limited, half, lost, crossed, refused>>

(* mxbl_dev_open, mxbl_dev_read, mxbl_dev_write, mxbl_dev_release.         *)
Open(d) ==
    /\ module = "in" /\ d \notin opened /\ region /\ \E c \in cdevs : c[1] = d
    /\ opened' = opened \union {d}
    /\ UNCHANGED <<deviceVars, pciVars, irq, unit, chrdevVars, queued, units, pc, devno,
                   threadVars, isr, noteVars>>

Read(d) ==
    /\ d \in opened
    /\ used' = IF mapped[d] THEN used ELSE used \union {"user"}
    /\ UNCHANGED <<deviceVars, pciVars, irq, unit, chrdevVars, queued, opened, units, pc, devno,
                   threadVars, isr, undone, yanked, limited, half, lost, crossed, wiped, refused>>

Write(d) ==
    /\ d \in opened
    /\ \/ /\ mapped[d] /\ mode[d] = "boot"
          /\ ChangeMode(d, "app") /\ UNCHANGED used
       \/ ~mapped[d] /\ used' = used \union {"user"} /\ UNCHANGED <<mode, identity, msi, wiped>>
    /\ UNCHANGED <<enabled, changes, pciVars, irq, unit, chrdevVars, queued, opened, units, pc,
                   devno, threadVars, isr, undone, yanked, limited, half, lost, crossed, refused>>

Release(d) ==
    /\ d \in opened
    /\ opened' = opened \ {d}
    /\ UNCHANGED <<deviceVars, pciVars, irq, unit, chrdevVars, queued, units, pc, devno,
                   threadVars, isr, noteVars>>

-----------------------------------------------------------------------------
ProbeStep(d) ==
    \/ Probe(d) \/ PciInit(d) \/ IrqInit(d) \/ IrqInitFails(d) \/ IntEnable(d) \/ Opmode(d)
    \/ ResetDevice(d) \/ ResetRestore(d) \/ ResetFails(d) \/ BootCheck(d) \/ TakeUnit(d)

AddStep(d, a) ==
    \/ Create(d, a) \/ CreateFails(d, a) \/ CdevAdd(d, a) \/ CdevAddFails(d, a)
    \/ SetAdded(d, a)

RemoveStep(d) ==
    \/ Remove(d) \/ ClearAdded(d) \/ RemoveChrdev(d)
    \/ Disable(d) \/ Cancel(d) \/ FreeIrq(d) \/ Unmap(d)

DeviceStep(d) ==
    \/ ProbeStep(d) \/ RemoveStep(d)
    \/ \E a \in Actors : AddStep(d, a)
    \/ IsrRead(d) \/ IsrClear(d) \/ Work(d)
    \/ DeviceChange(d) \/ Open(d) \/ Read(d) \/ Write(d) \/ Release(d)

ModuleStep == ModuleInit \/ ModuleExit \/ ModuleGone

Next ==
    \/ ModuleStep
    \/ (\E d \in Devices : DeviceStep(d)) /\ UNCHANGED moduleVars

Spec == Init /\ [][Next]_vars

-----------------------------------------------------------------------------
Bound(d) == At(d, "thread", "bound")

(* What is released is not used any more: by the work item, unless it ran  *)
(* as the driver cleaned up or an error was taken for a device; by a user, *)
(* unless the device was removed as it was open, or the driver had left it *)
(* behind; by the driver, unless it was one device too many.  Nor is it    *)
(* released again, unless the request for the interrupt failed after a     *)
(* reset.                                                                  *)
ReleasedIsNotUsed ==
    /\ "work" \in used => crossed \/ refused
    /\ "user" \in used => crossed \/ yanked \/ lost
    /\ "thread" \in used => limited \/ refused
    /\ undone # {} => half

(* A device the driver is not bound to is not left as bus master, and has  *)
(* no interrupt, no work item on the way and no character device, unless   *)
(* one of the causes above, or a failed reset, which does not remove what  *)
(* a work item had added.  A module that is gone leaves no class for such  *)
(* a device to be in.                                                      *)
AbsentLeavesNothing ==
    /\ module = "gone" => ~class /\ ~region /\ \A d \in Devices : ~mapped[d] /\ ~irq[d]
    /\ \A d \in Devices : At(d, "thread", "absent") => ~bus[d]
    /\ \A d \in Devices :
           At(d, "thread", "absent") /\ ~crossed /\ ~refused /\ ~lost =>
               d \notin queued /\ ~irq[d] /\ \A n \in nodes \union cdevs : n[1] # d

(* "In case the driver is unloaded and loaded again, the interrupt will    *)
(* not be triggered, in such cases the loop below will kick in": a device  *)
(* in boot mode has its character device or is about to get it, and is on  *)
(* the bus again, unless the interrupt handler wiped out a report that     *)
(* came as it ran.                                                         *)
BootModeIsServed ==
    \A d \in Devices :
        Bound(d) /\ mode[d] = "boot" /\ ~limited /\ ~half /\ ~refused /\ ~wiped =>
            (added[d] \/ Updating(d)) /\ bus[d]
=============================================================================
