----------------------------- MODULE MxlkDriver -----------------------------
(***************************************************************************)
(* The mxlk driver with its character device: from the loading of the      *)
(* module and the probe to the end of the removal, with processes that     *)
(* open the interface and use it.  Composes MxlkLifecycle, the calls that  *)
(* take the driver down and up, with the probe, the character device, the  *)
(* `opened` flag, and the capability list that communications start from.  *)
(*                                                                         *)
(* The probe is a call like the others: one of the Users makes it, and     *)
(* MxlkLifecycle notes when another call meets it.  It is taken back by    *)
(* the steps of a removal.  There is one interface, MXLK_NUM_INTERFACES.   *)
(***************************************************************************)
EXTENDS MxlkLifecycle

CONSTANTS
    Layouts,         \* versions and capability lists a device may have
    MXLK_CAP_TTL,
    None             \* no file

Status == {"uninit", "boot", "run", "error"}

(* A list starts at `first`; each header has an id and says where the next *)
(* one is. Device memory has room for finitely many.                       *)
ASSUME DriverAssumption ==
    /\ MXLK_CAP_TTL \in Nat
    /\ \A l \in Layouts :
          /\ IsFiniteSet(DOMAIN l.id)
          /\ l.first \in DOMAIN l.id /\ l.next \in [DOMAIN l.id -> DOMAIN l.id]
          /\ l.status \in Status /\ {"major", "minor", "build"} = DOMAIN l.version
    /\ None \notin Users

VARIABLES
    layout,          \* what struct mxlk_mmio says of the device
    class, region,   \* mxlk_class is one, and device numbers are reserved
    mapped,          \* registers mapped (mx_pci_init)
    chrdev,          \* the interface has its device
    opened,          \* inf->opened
    opening,         \* open() has found `opened` clear
    files,           \* the file each process has: who opened it
    (* What happened, for the properties.                                  *)
    raced,           \* two open() met
    renewed,         \* `opened` was cleared under an open file
    bound,           \* the probe is to return 1, or did: the driver is bound
                     \* to the device although it was taken down
    astrayRemoval    \* the driver was removed from a device not in its mode

moduleVars == <<class, region>>
openVars   == <<opened, opening, files>>
causeVars  == <<raced, renewed, bound, astrayRemoval>>
driverVars == <<layout, moduleVars, mapped, chrdev, openVars, causeVars>>
allVars    == <<vars, driverVars>>

(* Any device; one of the Users loads the module, which probes it.         *)
DriverInit ==
    /\ mode \in Modes /\ booting = FALSE /\ missed = FALSE
    /\ rings = "none" /\ run = FALSE
    /\ irq = FALSE /\ msi = FALSE /\ update = FALSE /\ queued = {} /\ running = {}
    /\ \E k \in Users :
          /\ pc = [u \in Users |-> IF u = k THEN "load module" ELSE "idle"]
          /\ op = [u \in Users |-> IF u = k THEN "probe" ELSE "none"]
    /\ writing = {} /\ ops = 0 /\ removed = FALSE
    /\ twice = FALSE /\ astray = FALSE /\ struck = {}
    /\ met = FALSE /\ failed = FALSE /\ other = FALSE /\ overtaken = FALSE
    /\ late = FALSE /\ bound = FALSE
    /\ layout \in Layouts /\ class = FALSE /\ region = FALSE
    /\ mapped = FALSE /\ chrdev = FALSE
    /\ opened = FALSE /\ opening = {} /\ files = [u \in Users |-> None]
    /\ raced = FALSE /\ renewed = FALSE /\ astrayRemoval = FALSE

-----------------------------------------------------------------------------
(* mxlk_cap_find: the header looked at after n steps, and whether one with *)
(* the id is met before the end of the list and before the time is up.     *)
Header[n \in Nat] == IF n = 0 THEN layout.first ELSE layout.next[Header[n - 1]]
IdAt(n) == layout.id[Header[n]]

Bug_CapFind(id) ==
    \E n \in 0 .. MXLK_CAP_TTL - 2 : IdAt(n) = id /\ \A m \in 0 .. n - 1 : IdAt(m) # "null"

CapFind(id) ==
    \E n \in 0 .. MXLK_CAP_TTL - 1 : IdAt(n) = id /\ \A m \in 0 .. n - 1 : IdAt(m) # "null"

MXLK_VERSION_MAJOR == 1
MXLK_VERSION_MINOR == 3

(* mxlk_version_check: the build may be another.                           *)
VersionCheck ==
    layout.version.major = MXLK_VERSION_MAJOR /\ layout.version.minor = MXLK_VERSION_MINOR

(* What mxlk_comms_init asks of the device.                                *)
Compatible == layout.status = "run" /\ VersionCheck /\ CapFind("txrx")

(* mxlk_interface_init and mxlk_interface_cleanup.                         *)
ClearOpened ==
    /\ opened' = FALSE
    /\ renewed' = (renewed \/ opening # {} \/ \E u \in Users : files[u] # None)

-----------------------------------------------------------------------------
(* What a step of the probe leaves alone, but for pc.                      *)
ProbeKeeps ==
    UNCHANGED <<deviceVars, run, msi, workVars, op, ops, removed, writing, noteVars, layout>>

(* mxlk_init_module goes on although mxlk_chrdev_init has failed, without  *)
(* a class or with one and without device numbers.                         *)
ModuleInit(u) ==
    /\ pc[u] = "load module"
    /\ class' \in {TRUE, ~OpsMayFail} /\ region' \in {class', class' /\ ~OpsMayFail}
    /\ Goto(u, "pci")
    /\ ProbeKeeps /\ UNCHANGED <<rings, irq, update, mapped, chrdev, openVars, causeVars>>

(* mxlk_core_init.  One device too many, or without registers: it ends...  *)
PciInit(u) ==
    /\ pc[u] = "pci"
    /\ \/ mapped' = TRUE /\ Goto(u, "probe events")
       \/ OpsMayFail /\ UNCHANGED mapped /\ Goto(u, "gone")
    /\ ProbeKeeps /\ UNCHANGED <<rings, irq, update, moduleVars, chrdev, openVars, causeVars>>

(* ...without events it unmaps them.                                       *)
ProbeEvents(u) ==
    /\ pc[u] = "probe events"
    /\ \/ irq' = TRUE /\ update' = (mode = "boot") /\ Goto(u, "chrdev") /\ UNCHANGED mapped
       \/ OpsMayFail /\ mapped' = FALSE /\ Goto(u, "gone") /\ UNCHANGED <<irq, update>>
    /\ ProbeKeeps /\ UNCHANGED <<rings, moduleVars, chrdev, openVars, causeVars>>

(* mxlk_all_chrdev_init: a user may open the interface from now on.        *)
ChrdevAdd(u) ==
    /\ pc[u] = "chrdev" /\ class
    /\ chrdev' = TRUE
    /\ Goto(u, IF mode = "vpulink" THEN "probe start" ELSE "idle")
    /\ ProbeKeeps /\ UNCHANGED <<rings, irq, update, moduleVars, mapped, openVars, causeVars>>

(* mxlk_chrdev_add takes back what it did: -1 when cdev_add() fails...     *)
CdevAddFails(u) ==
    /\ pc[u] = "chrdev" /\ class /\ OpsMayFail
    /\ Goto(u, "irq")
    /\ ProbeKeeps /\ UNCHANGED <<rings, irq, update, moduleVars, mapped, chrdev, openVars,
                                 causeVars>>

(* ...but IS_ERR(), which is 1, when device_create() does.                 *)
DeviceCreateFails(u) ==
    /\ pc[u] = "chrdev" /\ (OpsMayFail \/ ~class)
    /\ bound' = TRUE
    /\ Goto(u, "irq")
    /\ ProbeKeeps /\ UNCHANGED <<rings, irq, update, moduleVars, mapped, chrdev, openVars>>
    /\ UNCHANGED <<raced, renewed, astrayRemoval>>

(* mxlk_probe frees the driver's structure, and returns the 1.  The kernel *)
(* takes that for success.                                                 *)
ProbeReturnsOne(u) ==
    /\ pc[u] = "gone" /\ op[u] = "probe" /\ bound
    /\ mapped' = FALSE
    /\ Goto(u, "idle")
    /\ ProbeKeeps /\ UNCHANGED <<rings, irq, update, moduleVars, chrdev, openVars, causeVars>>

(* mxlk_comms_init.                                                        *)
ProbeStart(u) ==
    /\ pc[u] = "probe start" /\ Compatible
    /\ rings' = "live" /\ run' = TRUE
    /\ Goto(u, "idle")
    /\ ClearOpened
    /\ UNCHANGED <<deviceVars, intVars, workVars, op, ops, removed, writing, noteVars>>
    /\ UNCHANGED <<layout, moduleVars, mapped, chrdev, opening, files, raced, bound,
                   astrayRemoval>>

(* Or not, or there is no memory: the character device is removed.         *)
ProbeStartFails(u) ==
    /\ pc[u] = "probe start" /\ (OpsMayFail \/ ~Compatible)
    /\ rings' \in {rings, "freed"}
    /\ chrdev' = FALSE
    /\ Goto(u, "irq")
    /\ ProbeKeeps /\ UNCHANGED <<irq, update, moduleVars, mapped, openVars, causeVars>>

Probe(u) ==
    \/ ModuleInit(u) \/ PciInit(u) \/ ProbeEvents(u) \/ ChrdevAdd(u) \/ CdevAddFails(u)
    \/ DeviceCreateFails(u) \/ ProbeReturnsOne(u) \/ ProbeStart(u) \/ ProbeStartFails(u)

-----------------------------------------------------------------------------
CanOpen(u) == chrdev /\ region /\ pc[u] = "idle" /\ files[u] = None /\ u \notin opening

Bug_OpenTest(u) ==
    /\ CanOpen(u)
    /\ opening' = opening \union {u}
    /\ UNCHANGED <<vars, layout, moduleVars, mapped, chrdev, opened, files, causeVars>>

(* mxlk_core_open: -EACCES if `opened`...                                  *)
OpenTest(u) ==
    /\ CanOpen(u) /\ ~opened
    /\ opening' = opening \union {u}
    /\ UNCHANGED <<vars, layout, moduleVars, mapped, chrdev, opened, files, causeVars>>

(* ...which is set then.                                                   *)
OpenSet(u) ==
    /\ u \in opening
    /\ opened' = TRUE
    /\ opening' = opening \ {u}
    /\ files' = [files EXCEPT ![u] = u]
    /\ raced' = (raced \/ opening # {u})
    /\ UNCHANGED <<vars, layout, moduleVars, mapped, chrdev, renewed, bound, astrayRemoval>>

(* A process shares its file with another, as a fork() does.               *)
Share(u, v) ==
    /\ files[u] # None /\ files[v] = None /\ v \notin opening /\ pc[v] = "idle"
    /\ files' = [files EXCEPT ![v] = files[u]]
    /\ UNCHANGED <<vars, layout, moduleVars, mapped, chrdev, opened, opening, causeVars>>

(* close(); with the last one of a file, mxlk_core_close.                  *)
Close(u) ==
    /\ files[u] # None /\ pc[u] = "idle" /\ u \notin writing
    /\ files' = [files EXCEPT ![u] = None]
    /\ opened' = (opened /\ \E v \in Users \ {u} : files[v] = files[u])
    /\ UNCHANGED <<vars, layout, moduleVars, mapped, chrdev, opening, causeVars>>

(* ioctl() and write(), on an open file.                                   *)
Use(u) ==
    /\ files[u] # None
    /\ ResetApp(u) \/ ResetLost(u) \/ Boot(u) \/ Write(u)
    /\ UNCHANGED driverVars

-----------------------------------------------------------------------------
(* The steps of the calls, with what they do to the interface.  The kernel *)
(* keeps probe and removal apart.  A removal removes the character device  *)
(* between communications and events.  The structure of a driver that took *)
(* itself down is read although it was freed, as its probe left it.        *)
DriverRemove(u) ==
    /\ files[u] = None /\ u \notin opening
    /\ ~\E k \in Users : pc[k] # "idle" /\ op[k] \in {"probe", "remove"}
    /\ Remove(u)
    /\ astrayRemoval' = (mode # "vpulink")
    /\ UNCHANGED <<layout, moduleVars, mapped, chrdev, openVars, raced, renewed, bound>>

DriverCommsCleanup(u) ==
    /\ CommsCleanup(u) /\ ClearOpened
    /\ UNCHANGED <<layout, moduleVars, mapped, chrdev, opening, files, raced, bound,
                   astrayRemoval>>

Bug_DriverFreeIrq(u) ==
    /\ FreeIrq(u)
    /\ UNCHANGED driverVars

DriverFreeIrq(u) ==
    /\ FreeIrq(u)
    /\ chrdev' = (chrdev /\ op[u] # "remove")
    /\ UNCHANGED <<layout, moduleVars, mapped, openVars, causeVars>>

DriverCommsInit(u) ==
    /\ CommsInit(u) /\ Compatible /\ ClearOpened
    /\ UNCHANGED <<layout, moduleVars, mapped, chrdev, opening, files, raced, bound,
                   astrayRemoval>>

(* The application that was loaded may be another than the one before.     *)
DriverLoad(u) ==
    /\ Load(u) \/ (pc[u] = "load" /\ Fail(u))
    /\ layout' \in Layouts
    /\ UNCHANGED <<moduleVars, mapped, chrdev, openVars, causeVars>>

(* mx_pci_cleanup; the driver's structure is freed.                        *)
DriverGone(u) ==
    /\ Gone(u) /\ ~(op[u] = "probe" /\ bound)
    /\ mapped' = FALSE
    /\ UNCHANGED <<layout, moduleVars, chrdev, openVars, causeVars>>

Call(u) ==
    \/ Use(u) \/ DriverRemove(u) \/ DriverCommsCleanup(u) \/ DriverFreeIrq(u)
    \/ DriverCommsInit(u) \/ DriverLoad(u) \/ DriverGone(u)
    \/ /\ \/ Cancel(u) \/ (pc[u] # "load" /\ Fail(u)) \/ Reset(u) \/ EventsInit(u)
          \/ CheckMode(u) \/ WriteEnd(u)
       /\ UNCHANGED driverVars

(* Interrupts, work items and the device.                                  *)
Background ==
    /\ \/ DeviceMsi \/ DeviceFault \/ DeviceBoots \/ Interrupt
       \/ \E w \in Items : WorkStart(w) \/ WorkEnd(w)
    /\ UNCHANGED driverVars

(* mxlk_exit_module, which waits for open files.                           *)
ModuleExit ==
    /\ removed /\ class /\ opening = {} /\ \A u \in Users : files[u] = None
    /\ class' = FALSE /\ region' = FALSE
    /\ UNCHANGED <<vars, layout, mapped, chrdev, openVars, causeVars>>

DriverNext ==
    \/ /\ ~removed
       /\ \/ \E u \in Users : Probe(u) \/ Call(u) \/ OpenTest(u) \/ OpenSet(u) \/ Close(u)
          \/ \E u, v \in Users : Share(u, v)
          \/ Background
    \/ ModuleExit

DriverSpec == DriverInit /\ [][DriverNext]_allVars

-----------------------------------------------------------------------------
(* The interface has one open file at most, unless two open() met or a     *)
(* reset or boot cleared the flag under one; and when it is marked open it *)
(* has a file, so that nobody is kept out for good.                        *)
OneFile ==
    /\ ~raced /\ ~renewed =>
          \A u, v \in Users : files[u] # None /\ files[v] # None => files[u] = files[v]
    /\ opened => \E u \in Users : files[u] # None

(* From the probe to the end of the removal nothing is freed twice but for *)
(* the reasons of MxlkLifecycle; and when a driver that took itself down   *)
(* in its probe, and is bound all the same, is removed.                    *)
ReleasedOnce == FreedOnce \/ (bound /\ \E u \in Users : op[u] = "remove")

(* A driver that is bound and did not take itself down is up whenever no   *)
(* call is under way, with the exceptions of MxlkLifecycle.                *)
UpAfterCalls == bound \/ UpWhenIdle

(* When the driver is gone, after a removal or a probe that failed, also   *)
(* one that is bound, it has left no interrupt, register, ring or          *)
(* character device behind, and no work item but the doorbell: unless      *)
(* calls met or one failed midway; a write() queued tx_event; or the       *)
(* device was in another mode, in which the removal leaves the rings alone.*)
GoneLeavesNothing ==
    (removed \/ (bound /\ Active = {})) /\ ~met /\ ~failed =>
        /\ ~irq /\ ~mapped /\ ~chrdev
        /\ astrayRemoval \/ rings # "live"
        /\ overtaken \/ queued \union running \subseteq {"db"}

(* The headers one can reach before the end of the list, in any number of  *)
(* steps.                                                                  *)
Reachable ==
    {h \in DOMAIN layout.id :
        \A S \in SUBSET DOMAIN layout.id :
            /\ layout.first \in S
            /\ \A g \in S : layout.id[g] = "null" \/ layout.next[g] \in S
            => h \in S}

(* Communications start just when the list has the capability, also in     *)
(* lists that go in circles and ones of MXLK_CAP_TTL headers.              *)
CapFindIsReachability ==
    Cardinality(DOMAIN layout.id) <= MXLK_CAP_TTL =>
        \A id \in {"txrx", "stats"} : CapFind(id) <=> \E h \in Reachable : layout.id[h] = id
=============================================================================
