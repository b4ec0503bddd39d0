----------------------------- MODULE MxblProofs -----------------------------
(***************************************************************************)
(* What the boot loader driver promises of the devices it serves: proofs   *)
(* about Mxbl.  Nearly everything the invariant says is about one device:  *)
(* DeviceInv is the conjunction of what holds of its structure, and a step *)
(* of another device leaves it alone (OtherState, OtherSets, Notes).  Each *)
(* part is preserved given the parts before it:                            *)
(*                                                                         *)
(*   OpOf, MappedOf   where the thread is says what it cleans up for, and  *)
(*                    whether the registers are mapped                     *)
(*   IrqOf, BusOf     there is an interrupt only while they are mapped;    *)
(*                    a device that is served may use the bus              *)
(*   WorkOf           without an interrupt no work item is on the way      *)
(*   ChrdevOf, NodeOf the character device is there exactly while it is    *)
(*                    added, flagged or removed, and one actor adds it     *)
(*   ServedOf         a device in boot mode has it, or an update is due    *)
(***************************************************************************)
EXTENDS Mxbl, TLAPS

(* Where the thread and the work item may be.                              *)
ThreadPlaces ==
    {"absent", "pci", "events", "enable", "opmode", "reset", "restore", "again", "enable again",
     "boot", "create", "add", "flag", "unit", "bound", "unflag", "destroy", "disable", "cancel",
     "irq", "unmap", "oops"}
WorkPlaces == {"idle", "create", "add", "flag", "oops"}

(* Every variable has its type.                                            *)
TypeInv ==
    /\ thread \in [Devices -> ThreadPlaces] /\ work \in [Devices -> WorkPlaces]
    /\ mode \in [Devices -> Modes]
    /\ op \in [Devices -> {"none", "reset", "limit", "remove"}]
    /\ unit \in [Devices -> Nat] /\ units \in Nat
    /\ devno \in [Devices -> [Actors -> Nat \union {None}]]
    /\ chrdev \in [Devices -> Nat \union {None, ErrPtr}]
    /\ cdev \in [Devices -> Nat \union {None}]
    /\ enabled \in [Devices -> BOOLEAN] /\ identity \in [Devices -> BOOLEAN]
    /\ msi \in [Devices -> BOOLEAN] /\ mapped \in [Devices -> BOOLEAN]
    /\ irq \in [Devices -> BOOLEAN] /\ bus \in [Devices -> BOOLEAN]
    /\ added \in [Devices -> BOOLEAN]
    /\ nodes \subseteq Devices \X Nat /\ cdevs \subseteq Devices \X (Nat \union {None})

(* A module that is gone has left nothing to be opened.                    *)
ModuleInv == module = "gone" => ~class /\ ~region /\ \A d \in Devices : thread[d] = "absent"

(* Probing a device, and removing it: where the driver has the registers   *)
(* mapped, the bus and the interrupt.                                      *)
Probing == {"events", "enable", "opmode", "again", "enable again", "boot", "create", "add", "flag",
            "unit"}
Serving == {"bound", "unflag", "destroy", "disable"}
Ending == {"cancel", "irq", "reset", "restore", "unmap"}

(* A device too many, from the interrupt's release on.                     *)
Undone(d) == op[d] = "limit" /\ thread[d] \in {"unflag", "destroy", "unmap"}

(* What the driver cleans up for.                                          *)
OpOf(d) ==
    /\ op[d] = "limit" =>
           limited /\ thread[d] \in Serving \union {"cancel", "irq", "unmap", "oops"}
    /\ thread[d] \in {"unflag", "destroy"} => op[d] \in {"limit", "remove"}
    /\ thread[d] \in {"disable", "cancel", "irq"} => op[d] # "none"

(* Where the thread relies on the interrupt it requested.                  *)
Requested ==
    (Probing \ {"events", "again"}) \union Serving \union {"cancel", "irq"}

(* The registers are mapped while there is something to do with them.      *)
MappedOf(d) ==
    /\ thread[d] \in {"absent", "pci"} => ~mapped[d]
    /\ thread[d] \in Probing \union Ending => mapped[d]
    /\ thread[d] \in Serving /\ ~mapped[d] => limited
    /\ op[d] = "limit" /\ thread[d] \in {"disable", "unflag", "destroy"} => mapped[d]

(* The interrupt is requested only while they are, and then unless it was  *)
(* refused after a reset.                                                  *)
IrqOf(d) ==
    /\ ~mapped[d] => ~irq[d]
    /\ thread[d] \in {"events", "again", "reset", "restore", "unmap"} \/ Undone(d) => ~irq[d]
    /\ mapped[d] /\ ~Undone(d) /\ thread[d] \in Requested => irq[d] \/ half

(* The device may use the bus while it is probed and served.               *)
BusOf(d) ==
    /\ thread[d] \in {"absent", "pci"} => ~bus[d]
    /\ thread[d] \in Probing \union Serving \union {"cancel", "irq", "reset"} => bus[d] \/ limited

(* Once the interrupt is freed, and as it is being freed, nothing queues   *)
(* the work item, nor does it run, unless the handler ran too late.        *)
Silent(d) == ~irq[d] \/ thread[d] = "irq"
WorkOf(d) ==
    ~crossed =>
        /\ Silent(d) => d \notin queued /\ work[d] = "idle"
        /\ thread[d] = "destroy" => work[d] = "idle"
        /\ op[d] = "remove" /\ thread[d] \in {"disable", "cancel"} => work[d] = "idle"

(* Neither the work item nor the driver meets what is released.            *)
UsedInv ==
    /\ "work" \in used => crossed \/ refused
    /\ "thread" \in used => limited \/ refused
    /\ undone # {} => half

(* Who adds the character device, the node of a device, its file.          *)
Adding(d, a) == At(d, a, "add") \/ At(d, a, "flag")
NodesOf(d) == {n \in nodes : n[1] = d}
CdevsOf(d) == {n \in cdevs : n[1] = d}
HasChrdev(d) == chrdev[d] \in Nat

(* The character device is there while somebody adds it, or has added it   *)
(* and does not yet remove it.                                             *)
Answers(d) == added[d] \/ thread[d] = "destroy" \/ \E a \in Actors : Adding(d, a)

(* Who relies on mxbl->chrdev finds a device there.                        *)
ChrdevOf(d) ==
    ~refused /\ Answers(d) => HasChrdev(d)

(* Where the removal of the character device is done with, or not needed.  *)
Removed(d) ==
    \/ ~mapped[d] \/ thread[d] \in {"events", "unmap", "destroy"}
    \/ op[d] = "remove" /\ thread[d] \in {"disable", "cancel", "irq"}

(* The kernel holds a node and a file for d just as the driver needs them. *)
Held(d) ==
    /\ CdevsOf(d) \subseteq NodesOf(d)
    /\ NodesOf(d) # {} =>
           Answers(d) \/ thread[d] = "oops" \/ work[d] = "oops"
    /\ \A a \in Actors : Adding(d, a) =>
           /\ NodesOf(d) = {<<d, devno[d][a]>>} /\ devno[d][a] \in Nat
           /\ At(d, a, "add") => CdevsOf(d) = {}
           /\ ~added[d] /\ \A b \in Actors \ {a} : ~Adding(d, b)
    /\ HasChrdev(d) =>
           NodesOf(d) \subseteq {<<d, chrdev[d]>>} /\ CdevsOf(d) \subseteq {<<d, cdev[d]>>}
    /\ added[d] \/ thread[d] = "destroy" => NodesOf(d) # {}
    /\ ~mapped[d] => NodesOf(d) = {}
    /\ Removed(d) => ~added[d]
    /\ d \in opened /\ ~yanked => CdevsOf(d) # {}

NodeOf(d) == ~crossed /\ ~lost => Held(d)

(* The status update of d will be dealt with.                              *)
Due(d) == msi[d] \/ d \in queued \/ work[d] # "idle"

(* A device in boot mode has its character device, or will get it.         *)
ServedOf(d) ==
    /\ ~half /\ thread[d] \in {"opmode", "boot", "create", "add", "flag", "unit", "bound"} =>
           enabled[d] \/ limited
    /\ ~wiped /\ msi[d] => identity[d] /\ d \notin isr /\ irq[d]
    /\ ~limited /\ ~half /\ ~refused /\ ~wiped
          /\ thread[d] \in {"unit", "bound"} /\ mode[d] = "boot" => added[d] \/ Due(d)

(* A user meets nothing that is released.                                  *)
UserInv == "user" \in used => crossed \/ yanked \/ lost
-----------------------------------------------------------------------------
(* The initial state is well typed.                                        *)
LEMMA TypeInit == Init => TypeInv
<1> SUFFICES ASSUME Init
             PROVE  TypeInv
  OBVIOUS
<1>1. /\ mapped \in [Devices -> BOOLEAN] /\ irq \in [Devices -> BOOLEAN]
      /\ bus \in [Devices -> BOOLEAN] /\ added \in [Devices -> BOOLEAN]
      /\ enabled \in [Devices -> BOOLEAN] /\ identity \in [Devices -> BOOLEAN]
      /\ msi \in [Devices -> BOOLEAN]
  BY DEF Init
<1>2. QED
  BY <1>1 DEF Init, TypeInv, Modes, Actors, None, ErrPtr, ThreadPlaces, WorkPlaces

(* Every step keeps the types.                                             *)
LEMMA TypeStep == TypeInv /\ [Next]_vars => TypeInv'
<1> SUFFICES ASSUME TypeInv, [Next]_vars
             PROVE  TypeInv'
  OBVIOUS
<1> USE DEF TypeInv, At, Goto, pc, ThreadPlaces, WorkPlaces, Modes, None, ErrPtr, 
            moduleVars, deviceVars, pciVars, chrdevVars, threadVars, noteVars
<1>1. CASE ModuleStep \/ UNCHANGED vars
  BY <1>1 DEF ModuleStep, ModuleInit, ModuleExit, ModuleGone, vars
<1>2. ASSUME NEW d \in Devices, DeviceStep(d)
      PROVE  TypeInv'
  <2>1. CASE Probe(d)
    BY <2>1 DEF Probe, Updating
  <2>2. CASE PciInit(d)
    BY <2>2 DEF PciInit
  <2>3. CASE IrqInit(d)
    BY <2>3 DEF IrqInit
  <2>4. CASE IrqInitFails(d)
    BY <2>4 DEF IrqInitFails
  <2>5. CASE IntEnable(d)
    BY <2>5 DEF IntEnable
  <2>6. CASE Opmode(d)
    BY <2>6 DEF Opmode
  <2>7. CASE ResetDevice(d)
    <3>1. mode' \in [Devices -> Modes] /\ thread' \in [Devices -> ThreadPlaces]
      <4>1. PICK m \in Modes : mode' = [mode EXCEPT ![d] = m]
        BY <2>7 DEF ResetDevice
      <4>2. mode' \in [Devices -> Modes]
        BY <4>1
      <4>3. thread' \in [Devices -> ThreadPlaces]
        BY <2>7 DEF ResetDevice
      <4>4. QED
        BY <4>2, <4>3
    <3>2. /\ enabled' \in [Devices -> BOOLEAN] /\ identity' \in [Devices -> BOOLEAN]
          /\ bus' \in [Devices -> BOOLEAN]
      BY <2>7 DEF ResetDevice, BusOff
    <3>3. UNCHANGED <<msi, mapped, irq, unit, chrdevVars, units, work, devno, op>>
      BY <2>7 DEF ResetDevice
    <3>4. QED
      BY <3>1, <3>2, <3>3
  <2>8. CASE ResetRestore(d)
    BY <2>8 DEF ResetRestore, RestoreContext
  <2>9. CASE ResetFails(d)
    BY <2>9 DEF ResetFails
  <2>10. CASE BootCheck(d)
    BY <2>10 DEF BootCheck
  <2>11. CASE TakeUnit(d)
    <3>1. thread' \in [Devices -> ThreadPlaces] /\ UNCHANGED work
      BY <2>11 DEF TakeUnit
    <3>2. op' \in [Devices -> {"none", "reset", "limit", "remove"}]
      BY <2>11 DEF TakeUnit
    <3>3. unit' \in [Devices -> Nat] /\ units' \in Nat
      <4>1. unit' = [unit EXCEPT ![d] = units] /\ units' = units + 1
        BY <2>11 DEF TakeUnit
      <4>2. unit \in [Devices -> Nat] /\ units \in Nat
        OBVIOUS
      <4> HIDE DEF TypeInv
      <4>3. QED
        BY <4>1, <4>2
    <3>4. UNCHANGED <<deviceVars, pciVars, irq, chrdevVars, devno>>
      BY <2>11 DEF TakeUnit
    <3>5. QED
      BY <3>1, <3>2, <3>3, <3>4
  <2>12. CASE Remove(d)
    BY <2>12 DEF Remove
  <2>13. CASE ClearAdded(d)
    BY <2>13 DEF ClearAdded, AfterChrdev
  <2>14. CASE RemoveChrdev(d)
    BY <2>14 DEF RemoveChrdev, Destroy, AfterChrdev
  <2>15. CASE Disable(d)
    BY <2>15 DEF Disable
  <2>16. CASE Cancel(d)
    BY <2>16 DEF Cancel
  <2>17. CASE FreeIrq(d)
    BY <2>17 DEF FreeIrq, AfterEvents
  <2>18. CASE Unmap(d)
    BY <2>18 DEF Unmap, BusOff
  <2>19. ASSUME NEW a \in Actors, Create(d, a)
         PROVE  TypeInv'
    <3>1. devno' \in [Devices -> [Actors -> Nat \union {None}]]
      BY <2>19 DEF Create
    <3>2. thread' \in [Devices -> ThreadPlaces] /\ work' \in [Devices -> WorkPlaces]
      BY <2>19 DEF Create
    <3>3. /\ chrdev' \in [Devices -> Nat \union {None, ErrPtr}]
          /\ cdev' \in [Devices -> Nat \union {None}]
      BY <2>19 DEF Create
    <3>4. nodes' \subseteq Devices \X Nat
      <4>1. nodes' = nodes \union {<<d, unit[d]>>} /\ nodes \subseteq Devices \X Nat
        BY <2>19 DEF Create
      <4>2. unit[d] \in Nat
        OBVIOUS
      <4> HIDE DEF TypeInv
      <4>3. QED
        BY <4>1, <4>2
    <3>5. UNCHANGED <<deviceVars, pciVars, irq, unit, added, cdevs, op, units>>
      BY <2>19 DEF Create
    <3>6. QED
      BY <3>1, <3>2, <3>3, <3>4, <3>5
  <2>20. ASSUME NEW a \in Actors, CreateFails(d, a)
         PROVE  TypeInv'
    BY <2>20 DEF CreateFails, ReturnTo, MinorFree
  <2>21. ASSUME NEW a \in Actors, CdevAdd(d, a)
         PROVE  TypeInv'
    <3>1. devno[d][a] \in Nat \union {None}
      OBVIOUS
    <3>2. cdevs' \subseteq Devices \X (Nat \union {None})
      <4>1. /\ cdevs' = cdevs \union {<<d, devno[d][a]>>}
            /\ cdevs \subseteq Devices \X (Nat \union {None})
        BY <2>21 DEF CdevAdd
      <4> HIDE DEF TypeInv
      <4>2. QED
        BY <3>1, <4>1
    <3>3. cdev' \in [Devices -> Nat \union {None}]
      BY <2>21, <3>1 DEF CdevAdd
    <3>4. thread' \in [Devices -> ThreadPlaces] /\ work' \in [Devices -> WorkPlaces]
      BY <2>21 DEF CdevAdd
    <3>5. UNCHANGED <<deviceVars, pciVars, irq, unit, added, chrdev, nodes, units, devno, op>>
      BY <2>21 DEF CdevAdd
    <3>6. QED
      BY <3>2, <3>3, <3>4, <3>5
  <2>22. ASSUME NEW a \in Actors, CdevAddFails(d, a)
         PROVE  TypeInv'
    BY <2>22 DEF CdevAddFails, Destroy, ReturnTo
  <2>23. ASSUME NEW a \in Actors, SetAdded(d, a)
         PROVE  TypeInv'
    BY <2>23 DEF SetAdded, ReturnTo
  <2>24. CASE IsrRead(d)
    BY <2>24 DEF IsrRead
  <2>25. CASE IsrClear(d)
    BY <2>25 DEF IsrClear
  <2>26. CASE Work(d)
    BY <2>26 DEF Work, Withdrawing
  <2>27. CASE DeviceChange(d)
    <3>1. PICK m \in Modes : ChangeMode(d, m)
      BY <2>27 DEF DeviceChange
    <3>2. mode' \in [Devices -> Modes]
      BY <3>1 DEF ChangeMode
    <3>3. identity' \in [Devices -> BOOLEAN] /\ msi' \in [Devices -> BOOLEAN]
      BY <3>1 DEF ChangeMode
    <3>4. UNCHANGED <<enabled, pciVars, irq, unit, chrdevVars, units, pc, devno, op>>
      BY <2>27 DEF DeviceChange
    <3>5. QED
      BY <3>2, <3>3, <3>4
  <2>28. CASE Open(d)
    BY <2>28 DEF Open
  <2>29. CASE Read(d)
    BY <2>29 DEF Read
  <2>30. CASE Write(d)
    BY <2>30 DEF Write, ChangeMode
  <2>31. CASE Release(d)
    BY <2>31 DEF Release
  <2> HIDE DEF TypeInv, At, Goto
  <2>32. QED
    BY <1>2, <2>1, <2>2, <2>3, <2>4, <2>5, <2>6, <2>7, <2>8, <2>9, <2>10, <2>11,
       <2>12, <2>13, <2>14, <2>15, <2>16, <2>17, <2>18, <2>19, <2>20, <2>21,
       <2>22, <2>23, <2>24, <2>25, <2>26, <2>27, <2>28, <2>29, <2>30, <2>31
       DEF DeviceStep, ProbeStep, AddStep, RemoveStep
<1>3. QED
  BY <1>1, <1>2 DEF Next

-----------------------------------------------------------------------------
(* A step leaves what belongs to another device d alone, and the notes of  *)
(* why a property may fail are never taken back.                           *)
SameState(d) ==
    /\ thread'[d] = thread[d] /\ work'[d] = work[d] /\ devno'[d] = devno[d]
    /\ mode'[d] = mode[d] /\ op'[d] = op[d] /\ mapped'[d] = mapped[d] /\ irq'[d] = irq[d]
    /\ bus'[d] = bus[d] /\ added'[d] = added[d] /\ chrdev'[d] = chrdev[d]
    /\ cdev'[d] = cdev[d] /\ enabled'[d] = enabled[d] /\ identity'[d] = identity[d]
    /\ msi'[d] = msi[d]

SameSets(d) ==
    /\ d \in queued' <=> d \in queued
    /\ d \in isr' <=> d \in isr
    /\ d \in opened' <=> d \in opened
    /\ NodesOf(d)' = NodesOf(d) /\ CdevsOf(d)' = CdevsOf(d)

NotesKept ==
    /\ crossed => crossed'
    /\ yanked => yanked'
    /\ limited => limited'
    /\ half => half'
    /\ lost => lost'
    /\ refused => refused'
    /\ wiped => wiped'

(* A step of e leaves the state of another device d alone...               *)
LEMMA OtherState ==
    ASSUME TypeInv, NEW d \in Devices, NEW e \in Devices, e # d, DeviceStep(e)
    PROVE  SameState(d)
<1> USE DEF TypeInv, At, Goto, SameState, moduleVars, deviceVars, pciVars, chrdevVars,
            threadVars, noteVars, pc
<1>1. CASE Probe(e)
  BY <1>1 DEF Probe, Updating
<1>2. CASE PciInit(e)
  BY <1>2 DEF PciInit
<1>3. CASE IrqInit(e)
  BY <1>3 DEF IrqInit
<1>4. CASE IrqInitFails(e)
  BY <1>4 DEF IrqInitFails
<1>5. CASE IntEnable(e)
  BY <1>5 DEF IntEnable
<1>6. CASE Opmode(e)
  BY <1>6 DEF Opmode
<1>7. CASE ResetDevice(e)
  BY <1>7 DEF ResetDevice, BusOff
<1>8. CASE ResetRestore(e)
  BY <1>8 DEF ResetRestore, RestoreContext
<1>9. CASE ResetFails(e)
  BY <1>9 DEF ResetFails
<1>10. CASE BootCheck(e)
  BY <1>10 DEF BootCheck
<1>11. CASE TakeUnit(e)
  BY <1>11 DEF TakeUnit
<1>12. CASE Remove(e)
  BY <1>12 DEF Remove
<1>13. CASE ClearAdded(e)
  BY <1>13 DEF ClearAdded, AfterChrdev
<1>14. CASE RemoveChrdev(e)
  BY <1>14 DEF RemoveChrdev, Destroy, AfterChrdev
<1>15. CASE Disable(e)
  BY <1>15 DEF Disable
<1>16. CASE Cancel(e)
  BY <1>16 DEF Cancel
<1>17. CASE FreeIrq(e)
  BY <1>17 DEF FreeIrq, AfterEvents
<1>18. CASE Unmap(e)
  BY <1>18 DEF Unmap, BusOff
<1>19. ASSUME NEW a \in Actors, Create(e, a)
       PROVE  SameState(d)
  BY <1>19 DEF Create, MinorFree
<1>20. ASSUME NEW a \in Actors, CreateFails(e, a)
       PROVE  SameState(d)
  BY <1>20 DEF CreateFails, ReturnTo, MinorFree
<1>21. ASSUME NEW a \in Actors, CdevAdd(e, a)
       PROVE  SameState(d)
  BY <1>21 DEF CdevAdd
<1>22. ASSUME NEW a \in Actors, CdevAddFails(e, a)
       PROVE  SameState(d)
  BY <1>22 DEF CdevAddFails, Destroy, ReturnTo
<1>23. ASSUME NEW a \in Actors, SetAdded(e, a)
       PROVE  SameState(d)
  BY <1>23 DEF SetAdded, ReturnTo
<1>24. CASE IsrRead(e)
  BY <1>24 DEF IsrRead
<1>25. CASE IsrClear(e)
  BY <1>25 DEF IsrClear
<1>26. CASE Work(e)
  BY <1>26 DEF Work, Withdrawing
<1>27. CASE DeviceChange(e)
  BY <1>27 DEF DeviceChange, ChangeMode
<1>28. CASE Open(e)
  BY <1>28 DEF Open
<1>29. CASE Read(e)
  BY <1>29 DEF Read
<1>30. CASE Write(e)
  BY <1>30 DEF Write, ChangeMode
<1>31. CASE Release(e)
  BY <1>31 DEF Release
<1>32. QED
  BY <1>1, <1>2, <1>3, <1>4, <1>5, <1>6, <1>7, <1>8, <1>9, <1>10, <1>11,
     <1>12, <1>13, <1>14, <1>15, <1>16, <1>17, <1>18, <1>19, <1>20, <1>21,
     <1>22, <1>23, <1>24, <1>25, <1>26, <1>27, <1>28, <1>29, <1>30, <1>31
     DEF DeviceStep, ProbeStep, AddStep, RemoveStep

(* ...and its place in the sets,                                           *)
LEMMA OtherSets ==
    ASSUME TypeInv, NEW d \in Devices, NEW e \in Devices, e # d, DeviceStep(e)
    PROVE  SameSets(d)
<1> USE DEF SameSets, NodesOf, CdevsOf, moduleVars, deviceVars, pciVars, chrdevVars,
            threadVars, noteVars, pc
<1>1. CASE Probe(e)
  BY <1>1 DEF Probe, Updating
<1>2. CASE PciInit(e)
  BY <1>2 DEF PciInit
<1>3. CASE IrqInit(e)
  BY <1>3 DEF IrqInit
<1>4. CASE IrqInitFails(e)
  BY <1>4 DEF IrqInitFails
<1>5. CASE IntEnable(e)
  BY <1>5 DEF IntEnable
<1>6. CASE Opmode(e)
  BY <1>6 DEF Opmode
<1>7. CASE ResetDevice(e)
  BY <1>7 DEF ResetDevice, BusOff
<1>8. CASE ResetRestore(e)
  BY <1>8 DEF ResetRestore, RestoreContext
<1>9. CASE ResetFails(e)
  BY <1>9 DEF ResetFails
<1>10. CASE BootCheck(e)
  BY <1>10 DEF BootCheck
<1>11. CASE TakeUnit(e)
  BY <1>11 DEF TakeUnit
<1>12. CASE Remove(e)
  BY <1>12 DEF Remove
<1>13. CASE ClearAdded(e)
  BY <1>13 DEF ClearAdded, AfterChrdev
<1>14. CASE RemoveChrdev(e)
  BY <1>14 DEF RemoveChrdev, Destroy, AfterChrdev
<1>15. CASE Disable(e)
  BY <1>15 DEF Disable
<1>16. CASE Cancel(e)
  BY <1>16 DEF Cancel
<1>17. CASE FreeIrq(e)
  BY <1>17 DEF FreeIrq, AfterEvents
<1>18. CASE Unmap(e)
  BY <1>18 DEF Unmap, BusOff
<1>19. ASSUME NEW a \in Actors, Create(e, a)
       PROVE  SameSets(d)
  BY <1>19 DEF Create, MinorFree
<1>20. ASSUME NEW a \in Actors, CreateFails(e, a)
       PROVE  SameSets(d)
  BY <1>20 DEF CreateFails, ReturnTo, MinorFree
<1>21. ASSUME NEW a \in Actors, CdevAdd(e, a)
       PROVE  SameSets(d)
  BY <1>21 DEF CdevAdd
<1>22. ASSUME NEW a \in Actors, CdevAddFails(e, a)
       PROVE  SameSets(d)
  BY <1>22 DEF CdevAddFails, Destroy, ReturnTo
<1>23. ASSUME NEW a \in Actors, SetAdded(e, a)
       PROVE  SameSets(d)
  BY <1>23 DEF SetAdded, ReturnTo
<1>24. CASE IsrRead(e)
  BY <1>24 DEF IsrRead
<1>25. CASE IsrClear(e)
  BY <1>25 DEF IsrClear
<1>26. CASE Work(e)
  BY <1>26 DEF Work, Withdrawing
<1>27. CASE DeviceChange(e)
  BY <1>27 DEF DeviceChange, ChangeMode
<1>28. CASE Open(e)
  BY <1>28 DEF Open
<1>29. CASE Read(e)
  BY <1>29 DEF Read
<1>30. CASE Write(e)
  BY <1>30 DEF Write, ChangeMode
<1>31. CASE Release(e)
  BY <1>31 DEF Release
<1>32. QED
  BY <1>1, <1>2, <1>3, <1>4, <1>5, <1>6, <1>7, <1>8, <1>9, <1>10, <1>11,
     <1>12, <1>13, <1>14, <1>15, <1>16, <1>17, <1>18, <1>19, <1>20, <1>21,
     <1>22, <1>23, <1>24, <1>25, <1>26, <1>27, <1>28, <1>29, <1>30, <1>31
     DEF DeviceStep, ProbeStep, AddStep, RemoveStep

(* and no step takes a note back.                                          *)
LEMMA Notes ==
    ASSUME NEW d \in Devices, DeviceStep(d)
    PROVE  NotesKept
<1> USE DEF NotesKept, noteVars
<1>1. CASE Probe(d)
  BY <1>1 DEF Probe, Updating
<1>2. CASE PciInit(d)
  BY <1>2 DEF PciInit
<1>3. CASE IrqInit(d)
  BY <1>3 DEF IrqInit
<1>4. CASE IrqInitFails(d)
  BY <1>4 DEF IrqInitFails
<1>5. CASE IntEnable(d)
  BY <1>5 DEF IntEnable
<1>6. CASE Opmode(d)
  BY <1>6 DEF Opmode
<1>7. CASE ResetDevice(d)
  BY <1>7 DEF ResetDevice, BusOff
<1>8. CASE ResetRestore(d)
  BY <1>8 DEF ResetRestore, RestoreContext
<1>9. CASE ResetFails(d)
  BY <1>9 DEF ResetFails
<1>10. CASE BootCheck(d)
  BY <1>10 DEF BootCheck
<1>11. CASE TakeUnit(d)
  BY <1>11 DEF TakeUnit
<1>12. CASE Remove(d)
  BY <1>12 DEF Remove
<1>13. CASE ClearAdded(d)
  BY <1>13 DEF ClearAdded, AfterChrdev
<1>14. CASE RemoveChrdev(d)
  BY <1>14 DEF RemoveChrdev, Destroy, AfterChrdev
<1>15. CASE Disable(d)
  BY <1>15 DEF Disable
<1>16. CASE Cancel(d)
  BY <1>16 DEF Cancel
<1>17. CASE FreeIrq(d)
  BY <1>17 DEF FreeIrq, AfterEvents
<1>18. CASE Unmap(d)
  BY <1>18 DEF Unmap, BusOff
<1>19. ASSUME NEW a \in Actors, Create(d, a)
       PROVE  NotesKept
  BY <1>19 DEF Create, MinorFree
<1>20. ASSUME NEW a \in Actors, CreateFails(d, a)
       PROVE  NotesKept
  BY <1>20 DEF CreateFails, ReturnTo, MinorFree
<1>21. ASSUME NEW a \in Actors, CdevAdd(d, a)
       PROVE  NotesKept
  BY <1>21 DEF CdevAdd
<1>22. ASSUME NEW a \in Actors, CdevAddFails(d, a)
       PROVE  NotesKept
  BY <1>22 DEF CdevAddFails, Destroy, ReturnTo
<1>23. ASSUME NEW a \in Actors, SetAdded(d, a)
       PROVE  NotesKept
  BY <1>23 DEF SetAdded, ReturnTo
<1>24. CASE IsrRead(d)
  BY <1>24 DEF IsrRead
<1>25. CASE IsrClear(d)
  BY <1>25 DEF IsrClear
<1>26. CASE Work(d)
  BY <1>26 DEF Work, Withdrawing
<1>27. CASE DeviceChange(d)
  BY <1>27 DEF DeviceChange, ChangeMode
<1>28. CASE Open(d)
  BY <1>28 DEF Open
<1>29. CASE Read(d)
  BY <1>29 DEF Read
<1>30. CASE Write(d)
  <2>1. wiped => wiped'
    <3>1. CASE UNCHANGED wiped
      BY <3>1
    <3>2. CASE ChangeMode(d, "app")
      BY <3>2 DEF ChangeMode
    <3>3. QED
      BY <1>30, <3>1, <3>2 DEF Write
  <2>2. UNCHANGED <<yanked, limited, half, lost, crossed, refused>>
    BY <1>30 DEF Write
  <2>3. QED
    BY <2>1, <2>2
<1>31. CASE Release(d)
  BY <1>31 DEF Release
<1>32. QED
  BY <1>1, <1>2, <1>3, <1>4, <1>5, <1>6, <1>7, <1>8, <1>9, <1>10, <1>11,
     <1>12, <1>13, <1>14, <1>15, <1>16, <1>17, <1>18, <1>19, <1>20, <1>21,
     <1>22, <1>23, <1>24, <1>25, <1>26, <1>27, <1>28, <1>29, <1>30, <1>31
     DEF DeviceStep, ProbeStep, AddStep, RemoveStep

(* What stands for "no device" and for an error is no minor.               *)
LEMMA NoMinor == \A x \in {ErrPtr, None} : x \notin Nat
BY DEF ErrPtr, None

(* What the driver cleans up for, step by step.                            *)
LEMMA OpStep ==
    ASSUME TypeInv, NEW d \in Devices, OpOf(d), DeviceStep(d)
    PROVE  OpOf(d)'
<1> USE DEF TypeInv, At, Goto, OpOf, Serving, moduleVars, deviceVars, pciVars, chrdevVars,
            threadVars, noteVars, pc
<1>1. CASE Probe(d)
  BY <1>1 DEF Probe, Updating
<1>2. CASE PciInit(d)
  BY <1>2 DEF PciInit
<1>3. CASE IrqInit(d)
  BY <1>3 DEF IrqInit
<1>4. CASE IrqInitFails(d)
  BY <1>4 DEF IrqInitFails
<1>5. CASE IntEnable(d)
  BY <1>5 DEF IntEnable
<1>6. CASE Opmode(d)
  <2>1. /\ thread[d] = "opmode"
        /\ \/ thread'[d] = "boot" /\ op'[d] = op[d]
           \/ thread'[d] = "disable" /\ op'[d] = "reset"
        /\ UNCHANGED limited
    BY <1>6 DEF Opmode
  <2>2. QED
    BY <1>6, <2>1
<1>7. CASE ResetDevice(d)
  BY <1>7 DEF ResetDevice, BusOff
<1>8. CASE ResetRestore(d)
  BY <1>8 DEF ResetRestore, RestoreContext
<1>9. CASE ResetFails(d)
  BY <1>9 DEF ResetFails
<1>10. CASE BootCheck(d)
  BY <1>10 DEF BootCheck
<1>11. CASE TakeUnit(d)
  BY <1>11 DEF TakeUnit
<1>12. CASE Remove(d)
  BY <1>12 DEF Remove
<1>13. CASE ClearAdded(d)
  BY <1>13 DEF ClearAdded, AfterChrdev
<1>14. CASE RemoveChrdev(d)
  BY <1>14 DEF RemoveChrdev, Destroy, AfterChrdev
<1>15. CASE Disable(d)
  BY <1>15 DEF Disable
<1>16. CASE Cancel(d)
  BY <1>16 DEF Cancel
<1>17. CASE FreeIrq(d)
  BY <1>17 DEF FreeIrq, AfterEvents
<1>18. CASE Unmap(d)
  BY <1>18 DEF Unmap, BusOff
<1>19. ASSUME NEW a \in Actors, Create(d, a)
       PROVE  OpOf(d)'
  BY <1>19 DEF Create, MinorFree
<1>20. ASSUME NEW a \in Actors, CreateFails(d, a)
       PROVE  OpOf(d)'
  BY <1>20 DEF CreateFails, ReturnTo, MinorFree
<1>21. ASSUME NEW a \in Actors, CdevAdd(d, a)
       PROVE  OpOf(d)'
  BY <1>21 DEF CdevAdd
<1>22. ASSUME NEW a \in Actors, CdevAddFails(d, a)
       PROVE  OpOf(d)'
  BY <1>22 DEF CdevAddFails, Destroy, ReturnTo
<1>23. ASSUME NEW a \in Actors, SetAdded(d, a)
       PROVE  OpOf(d)'
  BY <1>23 DEF SetAdded, ReturnTo
<1>24. CASE IsrRead(d)
  BY <1>24 DEF IsrRead
<1>25. CASE IsrClear(d)
  BY <1>25 DEF IsrClear
<1>26. CASE Work(d)
  BY <1>26 DEF Work, Withdrawing
<1>27. CASE DeviceChange(d)
  BY <1>27 DEF DeviceChange, ChangeMode
<1>28. CASE Open(d)
  BY <1>28 DEF Open
<1>29. CASE Read(d)
  BY <1>29 DEF Read
<1>30. CASE Write(d)
  BY <1>30 DEF Write, ChangeMode
<1>31. CASE Release(d)
  BY <1>31 DEF Release
<1>32. QED
  BY <1>1, <1>2, <1>3, <1>4, <1>5, <1>6, <1>7, <1>8, <1>9, <1>10, <1>11,
     <1>12, <1>13, <1>14, <1>15, <1>16, <1>17, <1>18, <1>19, <1>20, <1>21,
     <1>22, <1>23, <1>24, <1>25, <1>26, <1>27, <1>28, <1>29, <1>30, <1>31
     DEF DeviceStep, ProbeStep, AddStep, RemoveStep

(* The registers are mapped from mx_pci_init to mx_pci_cleanup.            *)
LEMMA MappedStep ==
    ASSUME TypeInv, NEW d \in Devices, OpOf(d), MappedOf(d), DeviceStep(d)
    PROVE  MappedOf(d)'
<1> USE DEF TypeInv, At, Goto, MappedOf, OpOf, Probing, Serving, Ending, moduleVars,
            deviceVars, pciVars, chrdevVars, threadVars, noteVars, pc
<1>1. CASE Probe(d)
  BY <1>1 DEF Probe, Updating
<1>2. CASE PciInit(d)
  BY <1>2, ZenonT(30) DEF PciInit
<1>3. CASE IrqInit(d)
  BY <1>3 DEF IrqInit
<1>4. CASE IrqInitFails(d)
  BY <1>4 DEF IrqInitFails
<1>5. CASE IntEnable(d)
  BY <1>5 DEF IntEnable
<1>6. CASE Opmode(d)
  BY <1>6 DEF Opmode
<1>7. CASE ResetDevice(d)
  BY <1>7 DEF ResetDevice, BusOff
<1>8. CASE ResetRestore(d)
  BY <1>8 DEF ResetRestore, RestoreContext
<1>9. CASE ResetFails(d)
  BY <1>9 DEF ResetFails
<1>10. CASE BootCheck(d)
  BY <1>10 DEF BootCheck
<1>11. CASE TakeUnit(d)
  BY <1>11 DEF TakeUnit
<1>12. CASE Remove(d)
  BY <1>12 DEF Remove
<1>13. CASE ClearAdded(d)
  BY <1>13, ZenonT(30) DEF ClearAdded, AfterChrdev
<1>14. CASE RemoveChrdev(d)
  BY <1>14 DEF RemoveChrdev, Destroy, AfterChrdev
<1>15. CASE Disable(d)
  BY <1>15 DEF Disable
<1>16. CASE Cancel(d)
  BY <1>16 DEF Cancel
<1>17. CASE FreeIrq(d)
  BY <1>17 DEF FreeIrq, AfterEvents
<1>18. CASE Unmap(d)
  <2>1. /\ thread[d] = "unmap" /\ ~mapped'[d]
        /\ thread'[d] = IF op[d] = "limit" THEN "bound" ELSE "absent"
        /\ UNCHANGED <<op, limited>>
    BY <1>18 DEF Unmap, BusOff
  <2>2. QED
    BY <1>18, <2>1
<1>19. ASSUME NEW a \in Actors, Create(d, a)
       PROVE  MappedOf(d)'
  BY <1>19 DEF Create, MinorFree
<1>20. ASSUME NEW a \in Actors, CreateFails(d, a)
       PROVE  MappedOf(d)'
  BY <1>20 DEF CreateFails, ReturnTo, MinorFree
<1>21. ASSUME NEW a \in Actors, CdevAdd(d, a)
       PROVE  MappedOf(d)'
  BY <1>21 DEF CdevAdd
<1>22. ASSUME NEW a \in Actors, CdevAddFails(d, a)
       PROVE  MappedOf(d)'
  BY <1>22 DEF CdevAddFails, Destroy, ReturnTo
<1>23. ASSUME NEW a \in Actors, SetAdded(d, a)
       PROVE  MappedOf(d)'
  BY <1>23 DEF SetAdded, ReturnTo
<1>24. CASE IsrRead(d)
  BY <1>24 DEF IsrRead
<1>25. CASE IsrClear(d)
  BY <1>25 DEF IsrClear
<1>26. CASE Work(d)
  BY <1>26 DEF Work, Withdrawing
<1>27. CASE DeviceChange(d)
  BY <1>27 DEF DeviceChange, ChangeMode
<1>28. CASE Open(d)
  BY <1>28 DEF Open
<1>29. CASE Read(d)
  BY <1>29 DEF Read
<1>30. CASE Write(d)
  BY <1>30 DEF Write, ChangeMode
<1>31. CASE Release(d)
  BY <1>31 DEF Release
<1>32. QED
  BY <1>1, <1>2, <1>3, <1>4, <1>5, <1>6, <1>7, <1>8, <1>9, <1>10, <1>11,
     <1>12, <1>13, <1>14, <1>15, <1>16, <1>17, <1>18, <1>19, <1>20, <1>21,
     <1>22, <1>23, <1>24, <1>25, <1>26, <1>27, <1>28, <1>29, <1>30, <1>31
     DEF DeviceStep, ProbeStep, AddStep, RemoveStep

(* The interrupt is requested only while they are.                         *)
LEMMA IrqStep ==
    ASSUME TypeInv, NEW d \in Devices, MappedOf(d), IrqOf(d), DeviceStep(d)
    PROVE  IrqOf(d)'
<1> USE DEF TypeInv, At, Goto, IrqOf, MappedOf, Undone, Requested, Probing, Serving, Ending,
            moduleVars, deviceVars, pciVars, chrdevVars, threadVars, noteVars, pc
<1>1. CASE Probe(d)
  BY <1>1 DEF Probe, Updating
<1>2. CASE PciInit(d)
  <2>1. /\ thread[d] = "pci" /\ thread'[d] \in {"events", "absent"}
        /\ UNCHANGED <<op, work, irq, queued, half, crossed, limited>>
    BY <1>2 DEF PciInit
  <2>2. QED
    BY <1>2, <2>1
<1>3. CASE IrqInit(d)
  BY <1>3 DEF IrqInit
<1>4. CASE IrqInitFails(d)
  BY <1>4, ZenonT(30) DEF IrqInitFails
<1>5. CASE IntEnable(d)
  BY <1>5 DEF IntEnable
<1>6. CASE Opmode(d)
  <2>1. /\ thread[d] = "opmode" /\ thread'[d] \in {"boot", "disable"}
        /\ UNCHANGED <<mapped, irq, half>>
    BY <1>6 DEF Opmode
  <2>2. QED
    BY <1>6, <2>1
<1>7. CASE ResetDevice(d)
  <2>1. /\ thread[d] = "reset" /\ thread'[d] = "restore"
        /\ UNCHANGED <<op, work, mapped, irq, queued, half, crossed, limited>>
    BY <1>7 DEF ResetDevice, BusOff
  <2>2. QED
    BY <1>7, <2>1
<1>8. CASE ResetRestore(d)
  <2>1. /\ thread[d] = "restore" /\ thread'[d] \in {"again", "unmap"}
        /\ UNCHANGED <<op, work, mapped, irq, queued, half, crossed, limited>>
    BY <1>8 DEF ResetRestore, RestoreContext
  <2>2. QED
    BY <1>8, <2>1
<1>9. CASE ResetFails(d)
  BY <1>9, ZenonT(30) DEF ResetFails
<1>10. CASE BootCheck(d)
  BY <1>10 DEF BootCheck
<1>11. CASE TakeUnit(d)
  <2>1. /\ thread[d] = "unit" /\ thread'[d] \in {"bound", "disable"}
        /\ UNCHANGED <<work, mapped, irq, queued, half, crossed>>
    BY <1>11 DEF TakeUnit
  <2>2. QED
    BY <1>11, <2>1
<1>12. CASE Remove(d)
  BY <1>12 DEF Remove
<1>13. CASE ClearAdded(d)
  BY <1>13 DEF ClearAdded, AfterChrdev
<1>14. CASE RemoveChrdev(d)
  BY <1>14, ZenonT(30) DEF RemoveChrdev, Destroy, AfterChrdev
<1>15. CASE Disable(d)
  BY <1>15 DEF Disable
<1>16. CASE Cancel(d)
  BY <1>16 DEF Cancel
<1>17. CASE FreeIrq(d)
  BY <1>17, ZenonT(30) DEF FreeIrq, AfterEvents
<1>18. CASE Unmap(d)
  BY <1>18 DEF Unmap, BusOff
<1>19. ASSUME NEW a \in Actors, Create(d, a)
       PROVE  IrqOf(d)'
  BY <1>19 DEF Create, MinorFree
<1>20. ASSUME NEW a \in Actors, CreateFails(d, a)
       PROVE  IrqOf(d)'
  BY <1>20 DEF CreateFails, ReturnTo, MinorFree
<1>21. ASSUME NEW a \in Actors, CdevAdd(d, a)
       PROVE  IrqOf(d)'
  BY <1>21 DEF CdevAdd
<1>22. ASSUME NEW a \in Actors, CdevAddFails(d, a)
       PROVE  IrqOf(d)'
  BY <1>22 DEF CdevAddFails, Destroy, ReturnTo
<1>23. ASSUME NEW a \in Actors, SetAdded(d, a)
       PROVE  IrqOf(d)'
  BY <1>23 DEF SetAdded, ReturnTo
<1>24. CASE IsrRead(d)
  BY <1>24 DEF IsrRead
<1>25. CASE IsrClear(d)
  BY <1>25 DEF IsrClear
<1>26. CASE Work(d)
  BY <1>26 DEF Work, Withdrawing
<1>27. CASE DeviceChange(d)
  BY <1>27 DEF DeviceChange, ChangeMode
<1>28. CASE Open(d)
  BY <1>28 DEF Open
<1>29. CASE Read(d)
  BY <1>29 DEF Read
<1>30. CASE Write(d)
  BY <1>30 DEF Write, ChangeMode
<1>31. CASE Release(d)
  BY <1>31 DEF Release
<1>32. QED
  BY <1>1, <1>2, <1>3, <1>4, <1>5, <1>6, <1>7, <1>8, <1>9, <1>10, <1>11,
     <1>12, <1>13, <1>14, <1>15, <1>16, <1>17, <1>18, <1>19, <1>20, <1>21,
     <1>22, <1>23, <1>24, <1>25, <1>26, <1>27, <1>28, <1>29, <1>30, <1>31
     DEF DeviceStep, ProbeStep, AddStep, RemoveStep

(* The device is on the bus while it is probed and served.                 *)
LEMMA BusStep ==
    ASSUME TypeInv, NEW d \in Devices, OpOf(d), MappedOf(d), BusOf(d), DeviceStep(d)
    PROVE  BusOf(d)'
<1> USE DEF TypeInv, At, Goto, BusOf, OpOf, MappedOf, Probing, Serving, Ending, moduleVars,
            deviceVars, pciVars, chrdevVars, threadVars, noteVars, pc
<1>1. CASE Probe(d)
  BY <1>1 DEF Probe, Updating
<1>2. CASE PciInit(d)
  BY <1>2, ZenonT(30) DEF PciInit
<1>3. CASE IrqInit(d)
  BY <1>3 DEF IrqInit
<1>4. CASE IrqInitFails(d)
  BY <1>4 DEF IrqInitFails
<1>5. CASE IntEnable(d)
  BY <1>5 DEF IntEnable
<1>6. CASE Opmode(d)
  BY <1>6 DEF Opmode
<1>7. CASE ResetDevice(d)
  <2>1. /\ thread[d] = "reset" /\ thread'[d] = "restore"
        /\ UNCHANGED <<op, work, mapped, irq, queued, half, crossed, limited>>
    BY <1>7 DEF ResetDevice, BusOff
  <2>2. QED
    BY <1>7, <2>1
<1>8. CASE ResetRestore(d)
  BY <1>8 DEF ResetRestore, RestoreContext
<1>9. CASE ResetFails(d)
  BY <1>9, ZenonT(30) DEF ResetFails
<1>10. CASE BootCheck(d)
  BY <1>10 DEF BootCheck
<1>11. CASE TakeUnit(d)
  BY <1>11 DEF TakeUnit
<1>12. CASE Remove(d)
  BY <1>12 DEF Remove
<1>13. CASE ClearAdded(d)
  BY <1>13 DEF ClearAdded, AfterChrdev
<1>14. CASE RemoveChrdev(d)
  BY <1>14 DEF RemoveChrdev, Destroy, AfterChrdev
<1>15. CASE Disable(d)
  BY <1>15 DEF Disable
<1>16. CASE Cancel(d)
  BY <1>16 DEF Cancel
<1>17. CASE FreeIrq(d)
  BY <1>17 DEF FreeIrq, AfterEvents
<1>18. CASE Unmap(d)
  BY <1>18, ZenonT(30) DEF Unmap, BusOff
<1>19. ASSUME NEW a \in Actors, Create(d, a)
       PROVE  BusOf(d)'
  BY <1>19 DEF Create, MinorFree
<1>20. ASSUME NEW a \in Actors, CreateFails(d, a)
       PROVE  BusOf(d)'
  BY <1>20 DEF CreateFails, ReturnTo, MinorFree
<1>21. ASSUME NEW a \in Actors, CdevAdd(d, a)
       PROVE  BusOf(d)'
  BY <1>21 DEF CdevAdd
<1>22. ASSUME NEW a \in Actors, CdevAddFails(d, a)
       PROVE  BusOf(d)'
  BY <1>22 DEF CdevAddFails, Destroy, ReturnTo
<1>23. ASSUME NEW a \in Actors, SetAdded(d, a)
       PROVE  BusOf(d)'
  BY <1>23 DEF SetAdded, ReturnTo
<1>24. CASE IsrRead(d)
  BY <1>24 DEF IsrRead
<1>25. CASE IsrClear(d)
  BY <1>25 DEF IsrClear
<1>26. CASE Work(d)
  BY <1>26 DEF Work, Withdrawing
<1>27. CASE DeviceChange(d)
  BY <1>27 DEF DeviceChange, ChangeMode
<1>28. CASE Open(d)
  BY <1>28 DEF Open
<1>29. CASE Read(d)
  BY <1>29 DEF Read
<1>30. CASE Write(d)
  BY <1>30 DEF Write, ChangeMode
<1>31. CASE Release(d)
  BY <1>31 DEF Release
<1>32. QED
  BY <1>1, <1>2, <1>3, <1>4, <1>5, <1>6, <1>7, <1>8, <1>9, <1>10, <1>11,
     <1>12, <1>13, <1>14, <1>15, <1>16, <1>17, <1>18, <1>19, <1>20, <1>21,
     <1>22, <1>23, <1>24, <1>25, <1>26, <1>27, <1>28, <1>29, <1>30, <1>31
     DEF DeviceStep, ProbeStep, AddStep, RemoveStep

(* Once the interrupt is freed nothing queues the work item.               *)
LEMMA WorkStep ==
    ASSUME TypeInv, NEW d \in Devices, MappedOf(d), IrqOf(d), WorkOf(d), DeviceStep(d)
    PROVE  WorkOf(d)'
<1> USE DEF TypeInv, At, Goto, WorkOf, MappedOf, IrqOf, Silent, Undone, Requested, Probing,
            Serving, Ending, moduleVars, deviceVars, pciVars, chrdevVars, threadVars,
            noteVars, pc
<1>1. CASE Probe(d)
  BY <1>1 DEF Probe, Updating
<1>2. CASE PciInit(d)
  BY <1>2 DEF PciInit
<1>3. CASE IrqInit(d)
  BY <1>3 DEF IrqInit
<1>4. CASE IrqInitFails(d)
  BY <1>4 DEF IrqInitFails
<1>5. CASE IntEnable(d)
  BY <1>5 DEF IntEnable
<1>6. CASE Opmode(d)
  BY <1>6 DEF Opmode
<1>7. CASE ResetDevice(d)
  BY <1>7 DEF ResetDevice, BusOff
<1>8. CASE ResetRestore(d)
  BY <1>8 DEF ResetRestore, RestoreContext
<1>9. CASE ResetFails(d)
  BY <1>9 DEF ResetFails
<1>10. CASE BootCheck(d)
  BY <1>10 DEF BootCheck
<1>11. CASE TakeUnit(d)
  BY <1>11, ZenonT(30) DEF TakeUnit
<1>12. CASE Remove(d)
  BY <1>12 DEF Remove
<1>13. CASE ClearAdded(d)
  BY <1>13 DEF ClearAdded, AfterChrdev
<1>14. CASE RemoveChrdev(d)
  BY <1>14 DEF RemoveChrdev, Destroy, AfterChrdev
<1>15. CASE Disable(d)
  BY <1>15 DEF Disable
<1>16. CASE Cancel(d)
  BY <1>16 DEF Cancel
<1>17. CASE FreeIrq(d)
  BY <1>17 DEF FreeIrq, AfterEvents
<1>18. CASE Unmap(d)
  BY <1>18 DEF Unmap, BusOff
<1>19. ASSUME NEW a \in Actors, Create(d, a)
       PROVE  WorkOf(d)'
  <2>1. CASE a = "thread"
    BY <1>19, <2>1 DEF Create, MinorFree
  <2>2. CASE a = "work"
    <3>1. work[d] # "idle" /\ UNCHANGED <<thread, irq, queued, op, crossed>>
      BY <1>19, <2>2 DEF Create, MinorFree, None
    <3>2. QED
      BY <3>1
  <2>3. QED
    BY <2>1, <2>2 DEF Actors
<1>20. ASSUME NEW a \in Actors, CreateFails(d, a)
       PROVE  WorkOf(d)'
  <2>1. CASE a = "thread"
    BY <1>20, <2>1 DEF CreateFails, ReturnTo, MinorFree
  <2>2. CASE a = "work"
    <3>1. work[d] # "idle" /\ UNCHANGED <<thread, irq, queued, op, crossed>>
      BY <1>20, <2>2 DEF CreateFails, ReturnTo, MinorFree, None
    <3>2. QED
      BY <3>1
  <2>3. QED
    BY <2>1, <2>2 DEF Actors
<1>21. ASSUME NEW a \in Actors, CdevAdd(d, a)
       PROVE  WorkOf(d)'
  <2>1. CASE a = "thread"
    BY <1>21, <2>1 DEF CdevAdd
  <2>2. CASE a = "work"
    <3>1. work[d] # "idle" /\ UNCHANGED <<thread, irq, queued, op, crossed>>
      BY <1>21, <2>2 DEF CdevAdd, None
    <3>2. QED
      BY <3>1
  <2>3. QED
    BY <2>1, <2>2 DEF Actors
<1>22. ASSUME NEW a \in Actors, CdevAddFails(d, a)
       PROVE  WorkOf(d)'
  <2>1. CASE a = "thread"
    BY <1>22, <2>1 DEF CdevAddFails, Destroy, ReturnTo
  <2>2. CASE a = "work"
    <3>1. work[d] # "idle" /\ UNCHANGED <<thread, irq, queued, op, crossed>>
      BY <1>22, <2>2 DEF CdevAddFails, Destroy, ReturnTo, None
    <3>2. QED
      BY <3>1
  <2>3. QED
    BY <2>1, <2>2 DEF Actors
<1>23. ASSUME NEW a \in Actors, SetAdded(d, a)
       PROVE  WorkOf(d)'
  <2>1. CASE a = "thread"
    BY <1>23, <2>1 DEF SetAdded, ReturnTo
  <2>2. CASE a = "work"
    <3>1. work[d] # "idle" /\ UNCHANGED <<thread, irq, queued, op, crossed>>
      BY <1>23, <2>2 DEF SetAdded, ReturnTo, None
    <3>2. QED
      BY <3>1
  <2>3. QED
    BY <2>1, <2>2 DEF Actors
<1>24. CASE IsrRead(d)
  BY <1>24 DEF IsrRead
<1>25. CASE IsrClear(d)
  BY <1>25 DEF IsrClear
<1>26. CASE Work(d)
  <2>1. CASE crossed'
    BY <2>1
  <2>2. CASE ~crossed'
    <3>1. /\ ~crossed /\ thread[d] \notin Withdrawing /\ d \in queued
          /\ UNCHANGED <<thread, irq, op>>
      BY <1>26, <2>2 DEF Work
    <3>2. QED
      BY <3>1 DEF Withdrawing
  <2>3. QED
    BY <2>1, <2>2
<1>27. CASE DeviceChange(d)
  BY <1>27 DEF DeviceChange, ChangeMode
<1>28. CASE Open(d)
  BY <1>28 DEF Open
<1>29. CASE Read(d)
  BY <1>29 DEF Read
<1>30. CASE Write(d)
  BY <1>30 DEF Write, ChangeMode
<1>31. CASE Release(d)
  BY <1>31 DEF Release
<1>32. QED
  BY <1>1, <1>2, <1>3, <1>4, <1>5, <1>6, <1>7, <1>8, <1>9, <1>10, <1>11,
     <1>12, <1>13, <1>14, <1>15, <1>16, <1>17, <1>18, <1>19, <1>20, <1>21,
     <1>22, <1>23, <1>24, <1>25, <1>26, <1>27, <1>28, <1>29, <1>30, <1>31
     DEF DeviceStep, ProbeStep, AddStep, RemoveStep

(* Who relies on mxbl->chrdev finds a device there.                        *)
LEMMA ChrdevStep ==
    ASSUME TypeInv, NEW d \in Devices, ChrdevOf(d), DeviceStep(d)
    PROVE  ChrdevOf(d)'
<1> USE DEF TypeInv, At, Goto, ChrdevOf, Answers, Adding, HasChrdev, Actors, None, ErrPtr,
            moduleVars, deviceVars, pciVars, chrdevVars, threadVars, noteVars, pc
<1>1. CASE Probe(d)
  BY <1>1 DEF Probe, Updating
<1>2. CASE PciInit(d)
  BY <1>2 DEF PciInit
<1>3. CASE IrqInit(d)
  BY <1>3 DEF IrqInit
<1>4. CASE IrqInitFails(d)
  BY <1>4 DEF IrqInitFails
<1>5. CASE IntEnable(d)
  BY <1>5 DEF IntEnable
<1>6. CASE Opmode(d)
  BY <1>6 DEF Opmode
<1>7. CASE ResetDevice(d)
  BY <1>7 DEF ResetDevice, BusOff
<1>8. CASE ResetRestore(d)
  BY <1>8 DEF ResetRestore, RestoreContext
<1>9. CASE ResetFails(d)
  BY <1>9 DEF ResetFails
<1>10. CASE BootCheck(d)
  BY <1>10 DEF BootCheck
<1>11. CASE TakeUnit(d)
  BY <1>11 DEF TakeUnit
<1>12. CASE Remove(d)
  BY <1>12 DEF Remove
<1>13. CASE ClearAdded(d)
  BY <1>13 DEF ClearAdded, AfterChrdev
<1>14. CASE RemoveChrdev(d)
  BY <1>14 DEF RemoveChrdev, Destroy, AfterChrdev
<1>15. CASE Disable(d)
  BY <1>15 DEF Disable
<1>16. CASE Cancel(d)
  BY <1>16 DEF Cancel
<1>17. CASE FreeIrq(d)
  BY <1>17 DEF FreeIrq, AfterEvents
<1>18. CASE Unmap(d)
  BY <1>18 DEF Unmap, BusOff
<1>19. ASSUME NEW a \in Actors, Create(d, a)
       PROVE  ChrdevOf(d)'
  <2>1. CASE a = "thread"
    BY <1>19, <2>1 DEF Create, MinorFree
  <2>2. CASE a = "work"
    BY <1>19, <2>2 DEF Create, MinorFree
  <2>3. QED
    BY <2>1, <2>2 DEF Actors
<1>20. ASSUME NEW a \in Actors, CreateFails(d, a)
       PROVE  ChrdevOf(d)'
  <2>1. CASE a = "thread"
    BY <1>20, <2>1 DEF CreateFails, ReturnTo, MinorFree
  <2>2. CASE a = "work"
    BY <1>20, <2>2 DEF CreateFails, ReturnTo, MinorFree
  <2>3. QED
    BY <2>1, <2>2 DEF Actors
<1>21. ASSUME NEW a \in Actors, CdevAdd(d, a)
       PROVE  ChrdevOf(d)'
  <2>1. CASE a = "thread"
    BY <1>21, <2>1 DEF CdevAdd
  <2>2. CASE a = "work"
    BY <1>21, <2>2 DEF CdevAdd
  <2>3. QED
    BY <2>1, <2>2 DEF Actors
<1>22. ASSUME NEW a \in Actors, CdevAddFails(d, a)
       PROVE  ChrdevOf(d)'
  <2>1. CASE a = "thread"
    BY <1>22, <2>1 DEF CdevAddFails, Destroy, ReturnTo
  <2>2. CASE a = "work"
    BY <1>22, <2>2 DEF CdevAddFails, Destroy, ReturnTo
  <2>3. QED
    BY <2>1, <2>2 DEF Actors
<1>23. ASSUME NEW a \in Actors, SetAdded(d, a)
       PROVE  ChrdevOf(d)'
  <2>1. CASE a = "thread"
    BY <1>23, <2>1 DEF SetAdded, ReturnTo
  <2>2. CASE a = "work"
    BY <1>23, <2>2 DEF SetAdded, ReturnTo
  <2>3. QED
    BY <2>1, <2>2 DEF Actors
<1>24. CASE IsrRead(d)
  BY <1>24 DEF IsrRead
<1>25. CASE IsrClear(d)
  BY <1>25 DEF IsrClear
<1>26. CASE Work(d)
  BY <1>26 DEF Work, Withdrawing
<1>27. CASE DeviceChange(d)
  BY <1>27 DEF DeviceChange, ChangeMode
<1>28. CASE Open(d)
  BY <1>28 DEF Open
<1>29. CASE Read(d)
  BY <1>29 DEF Read
<1>30. CASE Write(d)
  BY <1>30 DEF Write, ChangeMode
<1>31. CASE Release(d)
  BY <1>31 DEF Release
<1>32. QED
  BY <1>1, <1>2, <1>3, <1>4, <1>5, <1>6, <1>7, <1>8, <1>9, <1>10, <1>11,
     <1>12, <1>13, <1>14, <1>15, <1>16, <1>17, <1>18, <1>19, <1>20, <1>21,
     <1>22, <1>23, <1>24, <1>25, <1>26, <1>27, <1>28, <1>29, <1>30, <1>31
     DEF DeviceStep, ProbeStep, AddStep, RemoveStep

(* A status update that concerns the driver is not forgotten.              *)
LEMMA ServedStep ==
    ASSUME TypeInv, NEW d \in Devices, OpOf(d), MappedOf(d), IrqOf(d), BusOf(d), ServedOf(d),
           DeviceStep(d)
    PROVE  ServedOf(d)'
<1> USE DEF TypeInv, At, Goto, ServedOf, OpOf, MappedOf, IrqOf, BusOf, Due, Undone,
            Requested, Probing, Serving, Ending, moduleVars, deviceVars, pciVars,
            chrdevVars, threadVars, noteVars, pc
<1>1. CASE Probe(d)
  BY <1>1 DEF Probe, Updating
<1>2. CASE PciInit(d)
  <2>1. /\ thread[d] = "pci" /\ thread'[d] \in {"events", "absent"}
        /\ UNCHANGED <<mode, enabled, irq, work, queued, isr, msi, identity, added>>
        /\ UNCHANGED <<limited, half, refused, wiped>>
    BY <1>2 DEF PciInit
  <2>2. QED
    BY <1>2, <2>1
<1>3. CASE IrqInit(d)
  BY <1>3, ZenonT(30) DEF IrqInit
<1>4. CASE IrqInitFails(d)
  BY <1>4 DEF IrqInitFails
<1>5. CASE IntEnable(d)
  BY <1>5 DEF IntEnable
<1>6. CASE Opmode(d)
  BY <1>6 DEF Opmode
<1>7. CASE ResetDevice(d)
  BY <1>7, ZenonT(30) DEF ResetDevice, BusOff
<1>8. CASE ResetRestore(d)
  BY <1>8, ZenonT(30) DEF ResetRestore, RestoreContext
<1>9. CASE ResetFails(d)
  BY <1>9 DEF ResetFails
<1>10. CASE BootCheck(d)
  BY <1>10 DEF BootCheck
<1>11. CASE TakeUnit(d)
  BY <1>11 DEF TakeUnit
<1>12. CASE Remove(d)
  BY <1>12 DEF Remove
<1>13. CASE ClearAdded(d)
  BY <1>13 DEF ClearAdded, AfterChrdev
<1>14. CASE RemoveChrdev(d)
  BY <1>14 DEF RemoveChrdev, Destroy, AfterChrdev
<1>15. CASE Disable(d)
  BY <1>15 DEF Disable
<1>16. CASE Cancel(d)
  BY <1>16 DEF Cancel
<1>17. CASE FreeIrq(d)
  BY <1>17 DEF FreeIrq, AfterEvents
<1>18. CASE Unmap(d)
  BY <1>18 DEF Unmap, BusOff
<1>19. ASSUME NEW a \in Actors, Create(d, a)
       PROVE  ServedOf(d)'
  <2>1. CASE a = "thread"
    BY <1>19, <2>1 DEF Create, MinorFree
  <2>2. CASE a = "work"
    BY <1>19, <2>2 DEF Create, MinorFree
  <2>3. QED
    BY <2>1, <2>2 DEF Actors
<1>20. ASSUME NEW a \in Actors, CreateFails(d, a)
       PROVE  ServedOf(d)'
  <2>1. CASE a = "thread"
    BY <1>20, <2>1 DEF CreateFails, ReturnTo, MinorFree
  <2>2. CASE a = "work"
    BY <1>20, <2>2 DEF CreateFails, ReturnTo, MinorFree
  <2>3. QED
    BY <2>1, <2>2 DEF Actors
<1>21. ASSUME NEW a \in Actors, CdevAdd(d, a)
       PROVE  ServedOf(d)'
  <2>1. CASE a = "thread"
    BY <1>21, <2>1 DEF CdevAdd
  <2>2. CASE a = "work"
    BY <1>21, <2>2 DEF CdevAdd
  <2>3. QED
    BY <2>1, <2>2 DEF Actors
<1>22. ASSUME NEW a \in Actors, CdevAddFails(d, a)
       PROVE  ServedOf(d)'
  <2>1. CASE a = "thread"
    BY <1>22, <2>1 DEF CdevAddFails, Destroy, ReturnTo
  <2>2. CASE a = "work"
    BY <1>22, <2>2 DEF CdevAddFails, Destroy, ReturnTo
  <2>3. QED
    BY <2>1, <2>2 DEF Actors
<1>23. ASSUME NEW a \in Actors, SetAdded(d, a)
       PROVE  ServedOf(d)'
  <2>1. CASE a = "thread"
    BY <1>23, <2>1 DEF SetAdded, ReturnTo
  <2>2. CASE a = "work"
    BY <1>23, <2>2 DEF SetAdded, ReturnTo
  <2>3. QED
    BY <2>1, <2>2 DEF Actors
<1>24. CASE IsrRead(d)
  BY <1>24 DEF IsrRead
<1>25. CASE IsrClear(d)
  BY <1>25 DEF IsrClear
<1>26. CASE Work(d)
  BY <1>26 DEF Work, Withdrawing
<1>27. CASE DeviceChange(d)
  BY <1>27 DEF DeviceChange, ChangeMode
<1>28. CASE Open(d)
  BY <1>28 DEF Open
<1>29. CASE Read(d)
  BY <1>29 DEF Read
<1>30. CASE Write(d)
  <2>1. CASE mapped[d] /\ mode[d] = "boot" /\ ChangeMode(d, "app")
    <3>1. /\ mode'[d] = "app" /\ identity'[d] = TRUE
          /\ msi'[d] = (msi[d] \/ (enabled[d] /\ irq[d] /\ bus[d]))
          /\ wiped' = (wiped \/ d \in isr)
      BY <2>1 DEF ChangeMode
    <3>2. UNCHANGED <<enabled, irq, queued, pc, isr, limited, half, refused, added>>
      BY <1>30 DEF Write
    <3>3. QED
      BY <3>1, <3>2
  <2>2. CASE UNCHANGED <<mode, identity, msi, wiped>>
    <3>1. UNCHANGED <<enabled, irq, queued, pc, isr, limited, half, refused, added>>
      BY <1>30 DEF Write
    <3>2. QED
      BY <2>2, <3>1
  <2>3. QED
    BY <1>30, <2>1, <2>2 DEF Write
<1>31. CASE Release(d)
  BY <1>31 DEF Release
<1>32. QED
  BY <1>1, <1>2, <1>3, <1>4, <1>5, <1>6, <1>7, <1>8, <1>9, <1>10, <1>11,
     <1>12, <1>13, <1>14, <1>15, <1>16, <1>17, <1>18, <1>19, <1>20, <1>21,
     <1>22, <1>23, <1>24, <1>25, <1>26, <1>27, <1>28, <1>29, <1>30, <1>31
     DEF DeviceStep, ProbeStep, AddStep, RemoveStep

(* Neither the driver nor the work item meets what is released.            *)
LEMMA UsedStep ==
    ASSUME TypeInv, NEW d \in Devices, MappedOf(d), IrqOf(d), WorkOf(d), ChrdevOf(d), UsedInv,
           DeviceStep(d)
    PROVE  UsedInv'
<1> USE DEF TypeInv, At, Goto, UsedInv, MappedOf, IrqOf, WorkOf, ChrdevOf, Silent, Answers,
            HasChrdev, Undone, Requested, Probing, Serving, Ending, Actors, None, ErrPtr,
            moduleVars, deviceVars, pciVars, chrdevVars, threadVars, noteVars, pc
<1>1. CASE Probe(d)
  BY <1>1 DEF Probe, Updating
<1>2. CASE PciInit(d)
  BY <1>2 DEF PciInit
<1>3. CASE IrqInit(d)
  BY <1>3 DEF IrqInit
<1>4. CASE IrqInitFails(d)
  BY <1>4 DEF IrqInitFails
<1>5. CASE IntEnable(d)
  BY <1>5 DEF IntEnable
<1>6. CASE Opmode(d)
  BY <1>6 DEF Opmode
<1>7. CASE ResetDevice(d)
  BY <1>7 DEF ResetDevice, BusOff
<1>8. CASE ResetRestore(d)
  BY <1>8 DEF ResetRestore, RestoreContext
<1>9. CASE ResetFails(d)
  BY <1>9 DEF ResetFails
<1>10. CASE BootCheck(d)
  BY <1>10 DEF BootCheck
<1>11. CASE TakeUnit(d)
  BY <1>11 DEF TakeUnit
<1>12. CASE Remove(d)
  BY <1>12 DEF Remove
<1>13. CASE ClearAdded(d)
  BY <1>13 DEF ClearAdded, AfterChrdev
<1>14. CASE RemoveChrdev(d)
  <2>1. UNCHANGED <<crossed, limited, half, refused, undone>>
    BY <1>14 DEF RemoveChrdev
  <2>2. CASE used' = used
    BY <2>1, <2>2
  <2>3. CASE chrdev[d] \in {ErrPtr, None}
    <3>1. refused
      <4>1. thread[d] = "destroy"
        BY <1>14 DEF RemoveChrdev
      <4>2. ~(chrdev[d] \in Nat)
        BY <2>3, NoMinor
      <4>3. QED
        BY <4>1, <4>2
    <3>2. undone # {} => half
      OBVIOUS
    <3>3. QED
      BY <2>1, <3>1, <3>2
  <2>4. QED
    BY <1>14, <2>2, <2>3 DEF RemoveChrdev, Destroy
<1>15. CASE Disable(d)
  <2>1. UNCHANGED <<crossed, limited, half, refused, undone>>
    BY <1>15 DEF Disable
  <2>2. CASE used' = used
    BY <2>1, <2>2
  <2>3. CASE ~mapped[d] /\ used' = used \union {"thread"}
    <3>1. limited
      BY <1>15, <2>3 DEF Disable
    <3>2. /\ "work" \in used => crossed \/ refused
          /\ undone # {} => half
          /\ "work" \in used' => "work" \in used
      BY <2>3
    <3>3. QED
      BY <2>1, <3>1, <3>2
  <2>4. QED
    BY <1>15, <2>2, <2>3 DEF Disable
<1>16. CASE Cancel(d)
  BY <1>16 DEF Cancel
<1>17. CASE FreeIrq(d)
  BY <1>17 DEF FreeIrq, AfterEvents
<1>18. CASE Unmap(d)
  BY <1>18 DEF Unmap, BusOff
<1>19. ASSUME NEW a \in Actors, Create(d, a)
       PROVE  UsedInv'
  <2>1. CASE a = "thread"
    BY <1>19, <2>1 DEF Create, MinorFree
  <2>2. CASE a = "work"
    BY <1>19, <2>2 DEF Create, MinorFree
  <2>3. QED
    BY <2>1, <2>2 DEF Actors
<1>20. ASSUME NEW a \in Actors, CreateFails(d, a)
       PROVE  UsedInv'
  <2>1. CASE a = "thread"
    BY <1>20, <2>1 DEF CreateFails, ReturnTo, MinorFree
  <2>2. CASE a = "work"
    BY <1>20, <2>2 DEF CreateFails, ReturnTo, MinorFree
  <2>3. QED
    BY <2>1, <2>2 DEF Actors
<1>21. ASSUME NEW a \in Actors, CdevAdd(d, a)
       PROVE  UsedInv'
  <2>1. CASE a = "thread"
    BY <1>21, <2>1 DEF CdevAdd
  <2>2. CASE a = "work"
    BY <1>21, <2>2 DEF CdevAdd
  <2>3. QED
    BY <2>1, <2>2 DEF Actors
<1>22. ASSUME NEW a \in Actors, CdevAddFails(d, a)
       PROVE  UsedInv'
  <2>1. CASE a = "thread"
    BY <1>22, <2>1 DEF CdevAddFails, Destroy, ReturnTo
  <2>2. CASE a = "work"
    BY <1>22, <2>2 DEF CdevAddFails, Destroy, ReturnTo
  <2>3. QED
    BY <2>1, <2>2 DEF Actors
<1>23. ASSUME NEW a \in Actors, SetAdded(d, a)
       PROVE  UsedInv'
  <2>1. CASE a = "thread"
    BY <1>23, <2>1 DEF SetAdded, ReturnTo
  <2>2. CASE a = "work"
    BY <1>23, <2>2 DEF SetAdded, ReturnTo
  <2>3. QED
    BY <2>1, <2>2 DEF Actors
<1>24. CASE IsrRead(d)
  BY <1>24 DEF IsrRead
<1>25. CASE IsrClear(d)
  BY <1>25 DEF IsrClear
<1>26. CASE Work(d)
  BY <1>26 DEF Work, Withdrawing
<1>27. CASE DeviceChange(d)
  BY <1>27 DEF DeviceChange, ChangeMode
<1>28. CASE Open(d)
  BY <1>28 DEF Open
<1>29. CASE Read(d)
  BY <1>29 DEF Read
<1>30. CASE Write(d)
  BY <1>30 DEF Write, ChangeMode
<1>31. CASE Release(d)
  BY <1>31 DEF Release
<1>32. QED
  BY <1>1, <1>2, <1>3, <1>4, <1>5, <1>6, <1>7, <1>8, <1>9, <1>10, <1>11,
     <1>12, <1>13, <1>14, <1>15, <1>16, <1>17, <1>18, <1>19, <1>20, <1>21,
     <1>22, <1>23, <1>24, <1>25, <1>26, <1>27, <1>28, <1>29, <1>30, <1>31
     DEF DeviceStep, ProbeStep, AddStep, RemoveStep

(* A user neither.                                                         *)
LEMMA UserStep ==
    ASSUME TypeInv, NEW d \in Devices, NodeOf(d), UserInv, DeviceStep(d)
    PROVE  UserInv'
<1> USE DEF TypeInv, At, Goto, UserInv, NodeOf, Held, moduleVars, deviceVars, pciVars,
            chrdevVars, threadVars, noteVars, pc
<1>1. CASE Probe(d)
  BY <1>1 DEF Probe, Updating
<1>2. CASE PciInit(d)
  BY <1>2 DEF PciInit
<1>3. CASE IrqInit(d)
  BY <1>3 DEF IrqInit
<1>4. CASE IrqInitFails(d)
  BY <1>4 DEF IrqInitFails
<1>5. CASE IntEnable(d)
  BY <1>5 DEF IntEnable
<1>6. CASE Opmode(d)
  BY <1>6 DEF Opmode
<1>7. CASE ResetDevice(d)
  BY <1>7 DEF ResetDevice, BusOff
<1>8. CASE ResetRestore(d)
  BY <1>8 DEF ResetRestore, RestoreContext
<1>9. CASE ResetFails(d)
  BY <1>9 DEF ResetFails
<1>10. CASE BootCheck(d)
  BY <1>10 DEF BootCheck
<1>11. CASE TakeUnit(d)
  BY <1>11 DEF TakeUnit
<1>12. CASE Remove(d)
  BY <1>12 DEF Remove
<1>13. CASE ClearAdded(d)
  BY <1>13 DEF ClearAdded, AfterChrdev
<1>14. CASE RemoveChrdev(d)
  BY <1>14 DEF RemoveChrdev, Destroy, AfterChrdev
<1>15. CASE Disable(d)
  BY <1>15 DEF Disable
<1>16. CASE Cancel(d)
  BY <1>16 DEF Cancel
<1>17. CASE FreeIrq(d)
  BY <1>17 DEF FreeIrq, AfterEvents
<1>18. CASE Unmap(d)
  BY <1>18 DEF Unmap, BusOff
<1>19. ASSUME NEW a \in Actors, Create(d, a)
       PROVE  UserInv'
  <2>1. CASE a = "thread"
    BY <1>19, <2>1 DEF Create, MinorFree
  <2>2. CASE a = "work"
    BY <1>19, <2>2 DEF Create, MinorFree
  <2>3. QED
    BY <2>1, <2>2 DEF Actors
<1>20. ASSUME NEW a \in Actors, CreateFails(d, a)
       PROVE  UserInv'
  <2>1. CASE a = "thread"
    BY <1>20, <2>1 DEF CreateFails, ReturnTo, MinorFree
  <2>2. CASE a = "work"
    BY <1>20, <2>2 DEF CreateFails, ReturnTo, MinorFree
  <2>3. QED
    BY <2>1, <2>2 DEF Actors
<1>21. ASSUME NEW a \in Actors, CdevAdd(d, a)
       PROVE  UserInv'
  <2>1. CASE a = "thread"
    BY <1>21, <2>1 DEF CdevAdd
  <2>2. CASE a = "work"
    BY <1>21, <2>2 DEF CdevAdd
  <2>3. QED
    BY <2>1, <2>2 DEF Actors
<1>22. ASSUME NEW a \in Actors, CdevAddFails(d, a)
       PROVE  UserInv'
  <2>1. CASE a = "thread"
    BY <1>22, <2>1 DEF CdevAddFails, Destroy, ReturnTo
  <2>2. CASE a = "work"
    BY <1>22, <2>2 DEF CdevAddFails, Destroy, ReturnTo
  <2>3. QED
    BY <2>1, <2>2 DEF Actors
<1>23. ASSUME NEW a \in Actors, SetAdded(d, a)
       PROVE  UserInv'
  <2>1. CASE a = "thread"
    BY <1>23, <2>1 DEF SetAdded, ReturnTo
  <2>2. CASE a = "work"
    BY <1>23, <2>2 DEF SetAdded, ReturnTo
  <2>3. QED
    BY <2>1, <2>2 DEF Actors
<1>24. CASE IsrRead(d)
  BY <1>24 DEF IsrRead
<1>25. CASE IsrClear(d)
  BY <1>25 DEF IsrClear
<1>26. CASE Work(d)
  BY <1>26 DEF Work, Withdrawing
<1>27. CASE DeviceChange(d)
  BY <1>27 DEF DeviceChange, ChangeMode
<1>28. CASE Open(d)
  BY <1>28 DEF Open
<1>29. CASE Read(d)
  BY <1>29 DEF Read
<1>30. CASE Write(d)
  BY <1>30 DEF Write, ChangeMode
<1>31. CASE Release(d)
  BY <1>31 DEF Release
<1>32. QED
  BY <1>1, <1>2, <1>3, <1>4, <1>5, <1>6, <1>7, <1>8, <1>9, <1>10, <1>11,
     <1>12, <1>13, <1>14, <1>15, <1>16, <1>17, <1>18, <1>19, <1>20, <1>21,
     <1>22, <1>23, <1>24, <1>25, <1>26, <1>27, <1>28, <1>29, <1>30, <1>31
     DEF DeviceStep, ProbeStep, AddStep, RemoveStep

-----------------------------------------------------------------------------
(* The steps that leave the character device of d alone.                   *)
Elsewhere(d) ==
    \/ PciInit(d) \/ IrqInit(d) \/ IrqInitFails(d) \/ IntEnable(d) \/ Opmode(d)
    \/ ResetDevice(d) \/ ResetRestore(d) \/ ResetFails(d) \/ BootCheck(d) \/ TakeUnit(d)
    \/ Remove(d) \/ Disable(d) \/ Cancel(d) \/ FreeIrq(d) \/ Unmap(d)
    \/ IsrRead(d) \/ IsrClear(d) \/ Work(d)
    \/ DeviceChange(d) \/ Open(d) \/ Read(d) \/ Write(d) \/ Release(d)

SameChrdev == UNCHANGED <<added, chrdev, cdev, devno, nodes, cdevs>>

(* Nobody begins or stops to add it, or to remove it.                      *)
SamePart(d) ==
    /\ \A place \in {"add", "flag", "destroy"} :
           /\ thread'[d] = place <=> thread[d] = place
           /\ work'[d] = place <=> work[d] = place
    /\ thread[d] = "oops" => thread'[d] = "oops"
    /\ work[d] = "oops" => work'[d] = "oops"

(* Its removal, and a file, may not miss it.                               *)
SameNeed(d) ==
    /\ ~mapped'[d] => ~mapped[d] \/ NodesOf(d) = {}
    /\ Removed(d)' => Removed(d) \/ ~added[d]
    /\ d \in opened' /\ ~yanked' => (d \in opened /\ ~yanked) \/ CdevsOf(d) # {}

(* These steps leave the objects alone...                                  *)
LEMMA ElsewhereChrdev ==
    ASSUME NEW d \in Devices, Elsewhere(d)
    PROVE  SameChrdev
<1> USE DEF SameChrdev, chrdevVars
<1>1. CASE PciInit(d)
  BY <1>1 DEF PciInit
<1>2. CASE IrqInit(d)
  BY <1>2 DEF IrqInit
<1>3. CASE IrqInitFails(d)
  BY <1>3 DEF IrqInitFails
<1>4. CASE IntEnable(d)
  BY <1>4 DEF IntEnable
<1>5. CASE Opmode(d)
  BY <1>5 DEF Opmode
<1>6. CASE ResetDevice(d)
  BY <1>6 DEF ResetDevice, BusOff
<1>7. CASE ResetRestore(d)
  BY <1>7 DEF ResetRestore, RestoreContext
<1>8. CASE ResetFails(d)
  BY <1>8 DEF ResetFails
<1>9. CASE BootCheck(d)
  BY <1>9 DEF BootCheck
<1>10. CASE TakeUnit(d)
  BY <1>10 DEF TakeUnit
<1>11. CASE Remove(d)
  BY <1>11 DEF Remove
<1>12. CASE Disable(d)
  BY <1>12 DEF Disable
<1>13. CASE Cancel(d)
  BY <1>13 DEF Cancel
<1>14. CASE FreeIrq(d)
  BY <1>14 DEF FreeIrq, AfterEvents
<1>15. CASE Unmap(d)
  BY <1>15 DEF Unmap, BusOff
<1>16. CASE IsrRead(d)
  BY <1>16 DEF IsrRead
<1>17. CASE IsrClear(d)
  BY <1>17 DEF IsrClear
<1>18. CASE Work(d)
  BY <1>18 DEF Work, Withdrawing
<1>19. CASE DeviceChange(d)
  BY <1>19 DEF DeviceChange, ChangeMode
<1>20. CASE Open(d)
  BY <1>20 DEF Open
<1>21. CASE Read(d)
  BY <1>21 DEF Read
<1>22. CASE Write(d)
  BY <1>22 DEF Write, ChangeMode
<1>23. CASE Release(d)
  BY <1>23 DEF Release
<1>24. QED
  BY <1>1, <1>2, <1>3, <1>4, <1>5, <1>6, <1>7, <1>8, <1>9, <1>10, <1>11,
     <1>12, <1>13, <1>14, <1>15, <1>16, <1>17, <1>18, <1>19, <1>20, <1>21,
     <1>22, <1>23
     DEF Elsewhere

(* ...and nobody begins to add or to remove...                             *)
LEMMA ElsewherePart ==
    ASSUME TypeInv, NEW d \in Devices, Elsewhere(d)
    PROVE  SamePart(d)
<1> USE DEF SamePart, TypeInv, At, Goto, pc
<1>1. CASE PciInit(d)
  BY <1>1 DEF PciInit
<1>2. CASE IrqInit(d)
  BY <1>2 DEF IrqInit
<1>3. CASE IrqInitFails(d)
  BY <1>3 DEF IrqInitFails
<1>4. CASE IntEnable(d)
  BY <1>4 DEF IntEnable
<1>5. CASE Opmode(d)
  BY <1>5 DEF Opmode
<1>6. CASE ResetDevice(d)
  BY <1>6 DEF ResetDevice, BusOff
<1>7. CASE ResetRestore(d)
  BY <1>7 DEF ResetRestore, RestoreContext
<1>8. CASE ResetFails(d)
  BY <1>8 DEF ResetFails
<1>9. CASE BootCheck(d)
  BY <1>9 DEF BootCheck
<1>10. CASE TakeUnit(d)
  BY <1>10 DEF TakeUnit
<1>11. CASE Remove(d)
  BY <1>11 DEF Remove
<1>12. CASE Disable(d)
  BY <1>12 DEF Disable
<1>13. CASE Cancel(d)
  BY <1>13 DEF Cancel
<1>14. CASE FreeIrq(d)
  BY <1>14 DEF FreeIrq, AfterEvents
<1>15. CASE Unmap(d)
  BY <1>15 DEF Unmap, BusOff
<1>16. CASE IsrRead(d)
  BY <1>16 DEF IsrRead
<1>17. CASE IsrClear(d)
  BY <1>17 DEF IsrClear
<1>18. CASE Work(d)
  BY <1>18 DEF Work, Withdrawing
<1>19. CASE DeviceChange(d)
  BY <1>19 DEF DeviceChange, ChangeMode
<1>20. CASE Open(d)
  BY <1>20 DEF Open
<1>21. CASE Read(d)
  BY <1>21 DEF Read
<1>22. CASE Write(d)
  BY <1>22 DEF Write, ChangeMode
<1>23. CASE Release(d)
  BY <1>23 DEF Release
<1>24. QED
  BY <1>1, <1>2, <1>3, <1>4, <1>5, <1>6, <1>7, <1>8, <1>9, <1>10, <1>11,
     <1>12, <1>13, <1>14, <1>15, <1>16, <1>17, <1>18, <1>19, <1>20, <1>21,
     <1>22, <1>23
     DEF Elsewhere

(* ...and what needs the character device gone finds it gone.              *)
LEMMA ElsewhereNeed ==
    ASSUME TypeInv, NEW d \in Devices, Elsewhere(d), OpOf(d), MappedOf(d), IrqOf(d), WorkOf(d),
           Held(d), ~crossed, ~lost'
    PROVE  SameNeed(d)
<1> USE DEF SameNeed, Removed, TypeInv, At, Goto, pc, pciVars, threadVars
<1>1. CASE PciInit(d)
  <2>1. thread[d] = "pci"
    BY <1>1 DEF PciInit
  <2>2. ~mapped[d]
    BY <2>1 DEF MappedOf
  <2>3. UNCHANGED <<opened, yanked>>
    BY <1>1 DEF PciInit, noteVars
  <2>4. QED
    BY <2>2, <2>3
<1>2. CASE IrqInit(d)
  <2>1. /\ thread'[d] \in {"enable", "enable again"} /\ mapped'[d] = mapped[d]
        /\ op'[d] = op[d]
    BY <1>2 DEF IrqInit
  <2>2. UNCHANGED <<opened, yanked>>
    BY <1>2 DEF IrqInit, noteVars
  <2>3. QED
    BY <2>1, <2>2
<1>3. CASE IrqInitFails(d)
  BY <1>3 DEF IrqInitFails
<1>4. CASE IntEnable(d)
  <2>1. /\ thread'[d] \in {"opmode", "boot"} /\ mapped'[d] = mapped[d]
        /\ op'[d] = op[d]
    BY <1>4 DEF IntEnable
  <2>2. UNCHANGED <<opened, yanked>>
    BY <1>4 DEF IntEnable, noteVars
  <2>3. QED
    BY <2>1, <2>2
<1>5. CASE Opmode(d)
  <2>1. /\ thread'[d] \in {"boot", "disable"} /\ mapped'[d] = mapped[d]
        /\ thread'[d] = "disable" => op'[d] = "reset"
    BY <1>5 DEF Opmode
  <2>2. UNCHANGED <<opened, yanked>>
    BY <1>5 DEF Opmode, noteVars
  <2>3. QED
    BY <2>1, <2>2
<1>6. CASE ResetDevice(d)
  <2>1. /\ thread'[d] = "restore" /\ mapped'[d] = mapped[d]
        /\ op'[d] = op[d]
    BY <1>6 DEF ResetDevice, BusOff
  <2>2. UNCHANGED <<opened, yanked>>
    BY <1>6 DEF ResetDevice, BusOff, noteVars
  <2>3. QED
    BY <2>1, <2>2
<1>7. CASE ResetRestore(d)
  BY <1>7 DEF ResetRestore, RestoreContext
<1>8. CASE ResetFails(d)
  BY <1>8 DEF ResetFails
<1>9. CASE BootCheck(d)
  <2>1. /\ thread'[d] \in {"create", "unit"} /\ mapped'[d] = mapped[d]
        /\ op'[d] = op[d]
    BY <1>9 DEF BootCheck
  <2>2. UNCHANGED <<opened, yanked>>
    BY <1>9 DEF BootCheck, noteVars
  <2>3. QED
    BY <2>1, <2>2
<1>10. CASE TakeUnit(d)
  BY <1>10 DEF TakeUnit
<1>11. CASE Remove(d)
  <2>1. /\ thread'[d] = "unflag" /\ mapped'[d] = mapped[d]
        /\ op'[d] = "remove"
    BY <1>11 DEF Remove
  <2>2. UNCHANGED <<opened, yanked>>
    BY <1>11 DEF Remove, noteVars
  <2>3. QED
    BY <2>1, <2>2
<1>12. CASE Disable(d)
  BY <1>12 DEF Disable
<1>13. CASE Cancel(d)
  <2>1. /\ thread[d] = "cancel" /\ thread'[d] = "irq" /\ mapped'[d] = mapped[d]
        /\ op'[d] = op[d]
    BY <1>13 DEF Cancel
  <2>2. UNCHANGED <<opened, yanked>>
    BY <1>13 DEF Cancel, noteVars
  <2>3. QED
    BY <2>1, <2>2
<1>14. CASE FreeIrq(d)
  <2>1. /\ thread[d] = "irq" /\ op[d] # "none" /\ op'[d] = op[d] /\ mapped'[d] = mapped[d]
        /\ thread'[d] = IF op[d] = "reset" THEN "reset"
                        ELSE IF op[d] = "limit" THEN "unflag" ELSE "unmap"
        /\ opened' = opened /\ yanked' = yanked
    BY <1>14 DEF FreeIrq, AfterEvents, At, Goto, TypeInv, OpOf, pciVars, threadVars
  <2>2. op[d] \in {"reset", "limit", "remove"}
    BY <2>1 DEF TypeInv
  <2>3. QED
    BY <2>1, <2>2 DEF SameNeed, Removed
<1>15. CASE Unmap(d)
  <2>1. thread[d] = "unmap" /\ opened' = opened /\ yanked' = yanked
    BY <1>15 DEF Unmap, At
  <2>2. ~irq[d]
    BY <2>1 DEF IrqOf
  <2>3. work[d] = "idle"
    BY <2>2 DEF WorkOf, Silent
  <2>4. ~added[d]
    BY <2>1 DEF Held, Removed
  <2>5. NodesOf(d) = {}
    BY <2>1, <2>3, <2>4 DEF Held, Answers, Adding, At, Actors
  <2>6. QED
    BY <2>1, <2>4, <2>5 DEF SameNeed
<1>16. CASE IsrRead(d)
  BY <1>16 DEF IsrRead
<1>17. CASE IsrClear(d)
  <2>1. /\ thread'[d] = thread[d] /\ mapped'[d] = mapped[d]
        /\ op'[d] = op[d]
    BY <1>17 DEF IsrClear
  <2>2. UNCHANGED <<opened, yanked>>
    BY <1>17 DEF IsrClear, noteVars
  <2>3. QED
    BY <2>1, <2>2
<1>18. CASE Work(d)
  BY <1>18 DEF Work, Withdrawing
<1>19. CASE DeviceChange(d)
  BY <1>19 DEF DeviceChange, ChangeMode
<1>20. CASE Open(d)
  <2>1. CdevsOf(d) # {}
    BY <1>20 DEF Open, CdevsOf
  <2>2. UNCHANGED <<thread, op, mapped>>
    BY <1>20 DEF Open, pc, pciVars, threadVars
  <2>3. QED
    BY <2>1, <2>2 DEF SameNeed, Removed
<1>21. CASE Read(d)
  BY <1>21 DEF Read
<1>22. CASE Write(d)
  BY <1>22 DEF Write, ChangeMode
<1>23. CASE Release(d)
  BY <1>23 DEF Release
<1>24. QED
  BY <1>1, <1>2, <1>3, <1>4, <1>5, <1>6, <1>7, <1>8, <1>9, <1>10, <1>11,
     <1>12, <1>13, <1>14, <1>15, <1>16, <1>17, <1>18, <1>19, <1>20, <1>21,
     <1>22, <1>23
     DEF Elsewhere

(* So what Held says stays true.                                           *)
LEMMA HeldKept ==
    ASSUME NEW d \in Devices, Held(d), SameChrdev, SamePart(d), SameNeed(d)
    PROVE  Held(d)'
<1>1. NodesOf(d)' = NodesOf(d) /\ CdevsOf(d)' = CdevsOf(d) /\ HasChrdev(d)' = HasChrdev(d)
  BY DEF SameChrdev, NodesOf, CdevsOf, HasChrdev
<1>2. ASSUME NEW a \in Actors
      PROVE  /\ At(d, a, "add")' <=> At(d, a, "add")
             /\ Adding(d, a)' <=> Adding(d, a)
  BY DEF SamePart, At, Adding
<1>3. Answers(d)' <=> Answers(d)
  BY <1>2 DEF Answers, SameChrdev, SamePart
<1>4. /\ CdevsOf(d)' \subseteq NodesOf(d)'
      /\ NodesOf(d)' # {} => Answers(d)' \/ thread'[d] = "oops" \/ work'[d] = "oops"
  BY <1>1, <1>3 DEF Held, SamePart
<1>5. ASSUME NEW a \in Actors, Adding(d, a)'
      PROVE  /\ NodesOf(d)' = {<<d, devno'[d][a]>>} /\ devno'[d][a] \in Nat
             /\ At(d, a, "add")' => CdevsOf(d)' = {}
             /\ ~added'[d] /\ \A b \in Actors \ {a} : ~Adding(d, b)'
  <2>1. /\ Adding(d, a) /\ devno' = devno /\ added' = added
    BY <1>2, <1>5 DEF SameChrdev
  <2>2. /\ NodesOf(d) = {<<d, devno[d][a]>>} /\ devno[d][a] \in Nat
        /\ At(d, a, "add") => CdevsOf(d) = {}
        /\ ~added[d] /\ \A b \in Actors \ {a} : ~Adding(d, b)
    BY <2>1 DEF Held
  <2>3. QED
    BY <1>1, <1>2, <2>1, <2>2
<1>6. /\ HasChrdev(d)' =>
             /\ NodesOf(d)' \subseteq {<<d, chrdev'[d]>>}
             /\ CdevsOf(d)' \subseteq {<<d, cdev'[d]>>}
      /\ added'[d] \/ thread'[d] = "destroy" => NodesOf(d)' # {}
  BY <1>1 DEF Held, SameChrdev, SamePart
<1>7. /\ ~mapped'[d] => NodesOf(d)' = {}
      /\ Removed(d)' => ~added'[d]
      /\ d \in opened' /\ ~yanked' => CdevsOf(d)' # {}
  BY <1>1 DEF Held, SameChrdev, SameNeed
<1>8. QED
  BY <1>4, <1>5, <1>6, <1>7 DEF Held

(* Held is kept by the steps that are not about the character device,      *)
LEMMA ElsewhereStep ==
    ASSUME TypeInv, NEW d \in Devices, Elsewhere(d), OpOf(d), MappedOf(d), IrqOf(d), WorkOf(d),
           Held(d), ~crossed, ~lost'
    PROVE  Held(d)'
BY ElsewhereChrdev, ElsewherePart, ElsewhereNeed, HeldKept

(* Whoever adds the character device: the registers are mapped, and the    *)
(* driver does not clean up.                                               *)
LEMMA AddingIsMapped ==
    ASSUME TypeInv, NEW d \in Devices, NEW a \in Actors, ~crossed,
           MappedOf(d), IrqOf(d), WorkOf(d),
           At(d, a, "create") \/ Adding(d, a)
    PROVE  mapped[d] /\ ~Removed(d) /\ (a = "work" => thread[d] # "destroy")
<1>1. CASE a = "thread"
  BY <1>1 DEF At, Adding, MappedOf, Removed, Probing
<1>2. CASE a = "work"
  <2>1. work[d] # "idle"
    BY <1>2 DEF At, Adding
  <2>2. irq[d] /\ thread[d] # "irq" /\ thread[d] # "destroy"
        /\ ~(op[d] = "remove" /\ thread[d] \in {"disable", "cancel"})
    BY <2>1 DEF WorkOf, Silent
  <2>3. mapped[d] /\ thread[d] \notin {"events", "unmap"}
    BY <2>2 DEF IrqOf
  <2>4. QED
    BY <2>2, <2>3 DEF Removed
<1>3. QED
  BY <1>1, <1>2 DEF Actors

(* by a probe, whose structure is new,                                     *)
LEMMA ProbeHeld ==
    ASSUME TypeInv, NEW d \in Devices, Probe(d), MappedOf(d), Held(d)
    PROVE  Held(d)'
<1>1. /\ thread[d] = "absent" /\ work[d] = "idle" /\ d \notin opened
      /\ thread'[d] = "pci" /\ work'[d] = "idle" /\ opened' = opened
      /\ added'[d] = FALSE /\ chrdev'[d] = None
      /\ nodes' = nodes /\ cdevs' = cdevs
  BY DEF Probe, Updating, At, Goto, TypeInv
<1>2. NodesOf(d) = {} /\ CdevsOf(d) = {}
  BY <1>1 DEF MappedOf, Held
<1>3. NodesOf(d)' = {} /\ CdevsOf(d)' = {}
  BY <1>1, <1>2 DEF NodesOf, CdevsOf
<1>4. ~HasChrdev(d)'
  BY <1>1, NoMinor DEF HasChrdev
<1>5. \A a \in Actors : ~Adding(d, a)'
  BY <1>1 DEF Adding, At, Actors
<1>6. QED
  BY <1>1, <1>3, <1>4, <1>5 DEF Held

(* by device_create, which refuses a name or a minor in use,               *)
LEMMA CreateHeld ==
    ASSUME TypeInv, NEW d \in Devices, NEW a \in Actors, Create(d, a), ~crossed,
           MappedOf(d), IrqOf(d), WorkOf(d), Held(d)
    PROVE  Held(d)'
<1>1. /\ At(d, a, "create") /\ At(d, a, "add")'
      /\ MinorFree(d) /\ nodes' = nodes \union {<<d, unit[d]>>} /\ cdevs' = cdevs
      /\ added' = added /\ chrdev'[d] = unit[d]
      /\ mapped' = mapped /\ op' = op /\ opened' = opened /\ yanked' = yanked
  BY DEF Create, At, Goto, TypeInv, chrdevVars, pciVars, threadVars, noteVars
<1>2. devno'[d][a] = unit[d] /\ unit[d] \in Nat
  BY DEF Create, TypeInv
<1>3. NodesOf(d) = {}
  BY <1>1 DEF MinorFree, NodesOf
<1>4. CdevsOf(d) = {} /\ ~added[d] /\ thread[d] # "destroy" /\ \A b \in Actors : ~Adding(d, b)
  BY <1>3 DEF Held
<1>5. NodesOf(d)' = {<<d, unit[d]>>} /\ CdevsOf(d)' = {}
  BY <1>1, <1>3, <1>4 DEF NodesOf, CdevsOf
<1>6. /\ Adding(d, a)' /\ \A b \in Actors \ {a} : ~Adding(d, b)'
      /\ thread'[d] # "destroy"
  BY <1>1, <1>4 DEF Adding, At, Goto, Create, Actors, TypeInv
<1>7. mapped'[d] /\ ~added'[d]
  BY <1>1, <1>4, AddingIsMapped
<1>8. ~(d \in opened' /\ ~yanked')
  BY <1>1, <1>4 DEF Held
<1>9. Answers(d)'
  BY <1>6 DEF Answers
<1>10. HasChrdev(d)' => chrdev'[d] = unit[d]
  BY <1>1
<1>11. ASSUME NEW b \in Actors, Adding(d, b)'
       PROVE  b = a
  BY <1>6, <1>11
<1>12. QED
  BY <1>2, <1>5, <1>6, <1>7, <1>8, <1>9, <1>10, <1>11 DEF Held

(* also when it fails,                                                     *)
LEMMA CreateFailsHeld ==
    ASSUME TypeInv, NEW d \in Devices, NEW a \in Actors, CreateFails(d, a), Held(d)
    PROVE  Held(d)'
<1>1. /\ nodes' = nodes /\ cdevs' = cdevs /\ added' = added /\ devno' = devno
      /\ mapped' = mapped /\ op' = op /\ opened' = opened /\ yanked' = yanked
      /\ chrdev'[d] = ErrPtr
  BY DEF CreateFails, TypeInv, chrdevVars, pciVars, threadVars, noteVars
<1>2. NodesOf(d)' = NodesOf(d) /\ CdevsOf(d)' = CdevsOf(d)
  BY <1>1 DEF NodesOf, CdevsOf
<1>3. ~HasChrdev(d)'
  BY <1>1, NoMinor DEF HasChrdev
<1>4. /\ \A b \in Actors :
             (Adding(d, b)' <=> Adding(d, b)) /\ (At(d, b, "add")' <=> At(d, b, "add"))
      /\ thread'[d] = "destroy" <=> thread[d] = "destroy"
      /\ thread[d] = "oops" => thread'[d] = "oops"
      /\ work[d] = "oops" => work'[d] = "oops"
      /\ Removed(d)' => Removed(d)
  BY <1>1 DEF Adding, At, Goto, CreateFails, ReturnTo, Actors, Removed, TypeInv
<1>5. Answers(d)' <=> Answers(d)
  BY <1>1, <1>4 DEF Answers
<1>6. ASSUME NEW b \in Actors, Adding(d, b)'
      PROVE  /\ NodesOf(d)' = {<<d, devno'[d][b]>>} /\ devno'[d][b] \in Nat
             /\ At(d, b, "add")' => CdevsOf(d)' = {}
             /\ ~added'[d] /\ \A c \in Actors \ {b} : ~Adding(d, c)'
  <2>1. /\ NodesOf(d) = {<<d, devno[d][b]>>} /\ devno[d][b] \in Nat
        /\ At(d, b, "add") => CdevsOf(d) = {}
        /\ ~added[d] /\ \A c \in Actors \ {b} : ~Adding(d, c)
    BY <1>4, <1>6 DEF Held
  <2>2. QED
    BY <1>1, <1>2, <1>4, <2>1
<1>7. QED
  BY <1>1, <1>2, <1>3, <1>4, <1>5, <1>6 DEF Held

(* by cdev_add,                                                            *)
LEMMA CdevAddHeld ==
    ASSUME TypeInv, NEW d \in Devices, NEW a \in Actors, CdevAdd(d, a), ~crossed,
           MappedOf(d), IrqOf(d), WorkOf(d), Held(d)
    PROVE  Held(d)'
<1>1. /\ At(d, a, "add") /\ At(d, a, "flag")' /\ ~At(d, a, "add")'
      /\ cdevs' = cdevs \union {<<d, devno[d][a]>>} /\ nodes' = nodes
      /\ added' = added /\ chrdev' = chrdev /\ cdev'[d] = devno[d][a] /\ devno' = devno
      /\ mapped' = mapped
  BY DEF CdevAdd, At, Goto, TypeInv, pciVars
<1>2. Adding(d, a) /\ Adding(d, a)'
  BY <1>1 DEF Adding
<1>3. /\ NodesOf(d) = {<<d, devno[d][a]>>} /\ devno[d][a] \in Nat /\ CdevsOf(d) = {}
      /\ ~added[d] /\ \A b \in Actors \ {a} : ~Adding(d, b)
  BY <1>1, <1>2 DEF Held
<1>4. NodesOf(d)' = NodesOf(d) /\ CdevsOf(d)' = {<<d, devno[d][a]>>}
  BY <1>1, <1>3 DEF NodesOf, CdevsOf
<1>5. \A b \in Actors \ {a} : ~Adding(d, b)'
  BY <1>3 DEF Adding, At, Goto, CdevAdd, Actors, TypeInv
<1>6. ASSUME NEW b \in Actors, Adding(d, b)'
      PROVE  b = a
  BY <1>5, <1>6
<1>7. mapped'[d]
  BY <1>1, <1>2, AddingIsMapped
<1>8. Answers(d)'
  BY <1>2 DEF Answers
<1>9. HasChrdev(d)' => NodesOf(d)' \subseteq {<<d, chrdev'[d]>>}
  BY <1>1, <1>4 DEF Held, HasChrdev
<1>10. QED
  BY <1>1, <1>3, <1>4, <1>5, <1>6, <1>7, <1>8, <1>9 DEF Held

(* when that fails,                                                        *)
LEMMA CdevAddFailsHeld ==
    ASSUME TypeInv, NEW d \in Devices, NEW a \in Actors, CdevAddFails(d, a), ~crossed,
           MappedOf(d), IrqOf(d), WorkOf(d), Held(d)
    PROVE  Held(d)'
<1>1. /\ At(d, a, "add") /\ ~Adding(d, a)'
      /\ UNCHANGED <<added, chrdev, cdev, cdevs, opened, yanked>> /\ mapped' = mapped
  BY DEF CdevAddFails, Destroy, ReturnTo, Adding, At, Goto, TypeInv, pciVars
<1>2. /\ NodesOf(d) = {<<d, devno[d][a]>>} /\ CdevsOf(d) = {}
      /\ ~added[d] /\ \A b \in Actors \ {a} : ~Adding(d, b)
  BY <1>1 DEF Held, Adding
<1>3. \A b \in Actors : ~Adding(d, b)'
  <2>1. ASSUME NEW b \in Actors, b # a
        PROVE  Adding(d, b)' => Adding(d, b)
    BY <2>1 DEF Adding, At, Goto, CdevAddFails, Destroy, ReturnTo, Actors, TypeInv
  <2>2. QED
    BY <1>1, <1>2, <2>1
<1>4. thread[d] # "destroy" /\ thread'[d] # "destroy"
  BY <1>1, AddingIsMapped DEF Adding, At, Goto, CdevAddFails, Destroy, ReturnTo, Actors, TypeInv
<1>5. mapped'[d] /\ CdevsOf(d)' = {}
  <2>1. mapped[d]
    BY <1>1, AddingIsMapped DEF Adding
  <2>2. CdevsOf(d)' = CdevsOf(d)
    BY <1>1 DEF CdevsOf
  <2>3. QED
    BY <1>1, <1>2, <2>1, <2>2
<1>6. CASE chrdev[d] \in {ErrPtr, None}
  <2>1. NodesOf(d)' = NodesOf(d)
    BY <1>6 DEF CdevAddFails, Destroy, NodesOf
  <2>2. thread'[d] = "oops" \/ work'[d] = "oops"
    BY <1>6 DEF CdevAddFails, Destroy, Goto, TypeInv, Actors
  <2>3. ~HasChrdev(d)'
    BY <1>1, <1>6, NoMinor DEF HasChrdev
  <2>4. QED
    BY <1>1, <1>2, <1>3, <1>4, <1>5, <2>1, <2>2, <2>3 DEF Held
<1>7. CASE chrdev[d] \notin {ErrPtr, None}
  <2>1. chrdev[d] \in Nat
    BY <1>7 DEF TypeInv
  <2>2. NodesOf(d) \subseteq {<<d, chrdev[d]>>}
    BY <2>1 DEF Held, HasChrdev
  <2>3. nodes' = nodes \ {<<d, chrdev[d]>>}
    BY <1>7 DEF CdevAddFails, Destroy
  <2>4. NodesOf(d)' = {}
    BY <2>2, <2>3 DEF NodesOf
  <2>5. QED
    BY <1>1, <1>2, <1>3, <1>4, <1>5, <2>4 DEF Held
<1>8. QED
  BY <1>6, <1>7

(* by chrdev_added = 1,                                                    *)
LEMMA SetAddedHeld ==
    ASSUME TypeInv, NEW d \in Devices, NEW a \in Actors, SetAdded(d, a), ~crossed,
           MappedOf(d), IrqOf(d), WorkOf(d), Held(d)
    PROVE  Held(d)'
<1>1. /\ At(d, a, "flag") /\ ~Adding(d, a)' /\ added'[d] = TRUE
      /\ UNCHANGED <<chrdev, cdev, nodes, cdevs, opened, yanked, op>> /\ mapped' = mapped
  BY DEF SetAdded, ReturnTo, Adding, At, Goto, TypeInv, pciVars, threadVars, noteVars
<1>2. Adding(d, a)
  BY <1>1 DEF Adding
<1>3. NodesOf(d) = {<<d, devno[d][a]>>} /\ \A b \in Actors \ {a} : ~Adding(d, b)
  BY <1>2 DEF Held
<1>4. NodesOf(d)' = NodesOf(d) /\ CdevsOf(d)' = CdevsOf(d) /\ HasChrdev(d)' = HasChrdev(d)
  BY <1>1 DEF NodesOf, CdevsOf, HasChrdev
<1>5. \A b \in Actors : ~Adding(d, b)'
  <2>1. ASSUME NEW b \in Actors, b # a
        PROVE  Adding(d, b)' => Adding(d, b)
    BY <2>1 DEF Adding, At, Goto, SetAdded, ReturnTo, Actors, TypeInv
  <2>2. QED
    BY <1>1, <1>3, <2>1
<1>6. mapped[d] /\ ~Removed(d) /\ (a = "work" => thread[d] # "destroy")
  BY <1>2, AddingIsMapped
<1>7. mapped'[d] /\ ~Removed(d)'
  BY <1>1, <1>6 DEF Removed, At, Goto, SetAdded, ReturnTo, Actors, TypeInv
<1>8. Answers(d)'
  BY <1>1 DEF Answers
<1>9. /\ CdevsOf(d) \subseteq NodesOf(d)
      /\ HasChrdev(d) =>
             NodesOf(d) \subseteq {<<d, chrdev[d]>>} /\ CdevsOf(d) \subseteq {<<d, cdev[d]>>}
      /\ d \in opened /\ ~yanked => CdevsOf(d) # {}
  BY DEF Held
<1>10. QED
  BY <1>1, <1>3, <1>4, <1>5, <1>7, <1>8, <1>9 DEF Held

(* and when it is withdrawn,                                               *)
LEMMA ClearAddedHeld ==
    ASSUME TypeInv, NEW d \in Devices, ClearAdded(d), ~crossed', OpOf(d), Held(d)
    PROVE  Held(d)'
<1>1. /\ thread[d] = "unflag" /\ work[d] = "idle" /\ work' = work /\ added'[d] = FALSE
      /\ UNCHANGED <<chrdev, cdev, nodes, cdevs, opened, yanked>> /\ mapped' = mapped
      /\ thread'[d] = IF added[d] THEN "destroy" ELSE AfterChrdev(d)
  BY DEF ClearAdded, At, Goto, TypeInv, pciVars
<1>2. NodesOf(d)' = NodesOf(d) /\ CdevsOf(d)' = CdevsOf(d) /\ HasChrdev(d)' = HasChrdev(d)
  BY <1>1 DEF NodesOf, CdevsOf, HasChrdev
<1>3. \A b \in Actors : ~Adding(d, b) /\ ~Adding(d, b)'
  BY <1>1 DEF Adding, At, Actors, AfterChrdev
<1>4. NodesOf(d) = {} <=> ~added[d]
  BY <1>1, <1>3 DEF Held, Answers
<1>5. /\ thread'[d] = "destroy" <=> added[d]
      /\ thread'[d] = "destroy" => Answers(d)'
  BY <1>1 DEF AfterChrdev, Answers
<1>6. /\ CdevsOf(d) \subseteq NodesOf(d)
      /\ HasChrdev(d) =>
             NodesOf(d) \subseteq {<<d, chrdev[d]>>} /\ CdevsOf(d) \subseteq {<<d, cdev[d]>>}
      /\ ~mapped[d] => NodesOf(d) = {}
      /\ d \in opened /\ ~yanked => CdevsOf(d) # {}
  BY DEF Held
<1>7. QED
  BY <1>1, <1>2, <1>3, <1>4, <1>5, <1>6 DEF Held

(* and when what it stands for is destroyed.                               *)
LEMMA RemoveChrdevHeld ==
    ASSUME TypeInv, NEW d \in Devices, RemoveChrdev(d), ~crossed, WorkOf(d), Held(d)
    PROVE  Held(d)'
<1>1. /\ thread[d] = "destroy" /\ work' = work /\ cdevs' = cdevs \ {<<d, cdev[d]>>}
      /\ UNCHANGED <<added, chrdev, cdev, opened>> /\ mapped' = mapped
      /\ yanked' = (yanked \/ d \in opened)
      /\ thread'[d] # "destroy"
  BY DEF RemoveChrdev, Destroy, AfterChrdev, At, Goto, TypeInv, pciVars
<1>2. work[d] = "idle" /\ ~added[d]
  BY <1>1 DEF WorkOf, Held, Removed
<1>3. \A b \in Actors : ~Adding(d, b)'
  BY <1>1, <1>2 DEF Adding, At, Goto, RemoveChrdev, Destroy, AfterChrdev, Actors, TypeInv
<1>4. ~(d \in opened' /\ ~yanked')
  BY <1>1
<1>5. CASE chrdev[d] \in {ErrPtr, None}
  <2>1. NodesOf(d)' = NodesOf(d) /\ thread'[d] = "oops"
    BY <1>5 DEF RemoveChrdev, Destroy, Goto, NodesOf, TypeInv
  <2>2. CdevsOf(d)' \subseteq CdevsOf(d)
    BY <1>1 DEF CdevsOf
  <2>3. ~HasChrdev(d)'
    BY <1>1, <1>5, NoMinor DEF HasChrdev
  <2>4. CdevsOf(d) \subseteq NodesOf(d) /\ (~mapped[d] => NodesOf(d) = {})
    BY DEF Held
  <2>5. QED
    BY <1>1, <1>2, <1>3, <1>4, <2>1, <2>2, <2>3, <2>4 DEF Held
<1>6. CASE chrdev[d] \notin {ErrPtr, None}
  <2>1. chrdev[d] \in Nat
    BY <1>6 DEF TypeInv
  <2>2. NodesOf(d) \subseteq {<<d, chrdev[d]>>} /\ CdevsOf(d) \subseteq {<<d, cdev[d]>>}
    BY <2>1 DEF Held, HasChrdev
  <2>3. nodes' = nodes \ {<<d, chrdev[d]>>}
    BY <1>6 DEF RemoveChrdev, Destroy
  <2>4. NodesOf(d)' = {} /\ CdevsOf(d)' = {}
    BY <1>1, <2>2, <2>3 DEF NodesOf, CdevsOf
  <2>5. QED
    BY <1>1, <1>2, <1>3, <1>4, <2>4 DEF Held
<1>7. QED
  BY <1>5, <1>6

(* Taken together.                                                         *)
LEMMA NodeStep ==
    ASSUME TypeInv, NEW d \in Devices, OpOf(d), MappedOf(d), IrqOf(d), WorkOf(d), NodeOf(d),
           DeviceStep(d)
    PROVE  NodeOf(d)'
<1> SUFFICES ASSUME ~crossed', ~lost'
             PROVE  Held(d)'
  BY DEF NodeOf
<1>1. ~crossed /\ ~lost /\ Held(d)
  BY Notes DEF NotesKept, NodeOf
<1>2. CASE Elsewhere(d)
  BY <1>1, <1>2, ElsewhereStep
<1>3. CASE Probe(d) \/ ClearAdded(d) \/ RemoveChrdev(d)
  BY <1>1, <1>3, ProbeHeld, ClearAddedHeld, RemoveChrdevHeld
<1>4. CASE \E a \in Actors : AddStep(d, a)
  <2>1. PICK a \in Actors : AddStep(d, a)
    BY <1>4
  <2>2. CASE Create(d, a) \/ CreateFails(d, a)
    BY <1>1, <2>2, CreateHeld, CreateFailsHeld
  <2>3. CASE CdevAdd(d, a) \/ CdevAddFails(d, a) \/ SetAdded(d, a)
    BY <1>1, <2>3, CdevAddHeld, CdevAddFailsHeld, SetAddedHeld
  <2>4. QED
    BY <2>1, <2>2, <2>3 DEF AddStep
<1>5. QED
  BY <1>2, <1>3, <1>4 DEF DeviceStep, ProbeStep, RemoveStep, Elsewhere

-----------------------------------------------------------------------------
(* A module that is gone has no device, and gets none.                     *)
LEMMA ModuleKept ==
    ASSUME TypeInv, NEW d \in Devices, ModuleInv, UNCHANGED moduleVars, DeviceStep(d)
    PROVE  ModuleInv'
<1> SUFFICES ASSUME module = "gone"
             PROVE  thread' = thread
  BY DEF ModuleInv, moduleVars
<1>1. thread[d] = "absent"
  BY DEF ModuleInv
<1> USE <1>1 DEF TypeInv, At, Goto, pc
<1>2. CASE Probe(d)
  BY <1>2 DEF Probe, Updating
<1>3. CASE PciInit(d)
  BY <1>3 DEF PciInit
<1>4. CASE IrqInit(d)
  BY <1>4 DEF IrqInit
<1>5. CASE IrqInitFails(d)
  BY <1>5 DEF IrqInitFails
<1>6. CASE IntEnable(d)
  BY <1>6 DEF IntEnable
<1>7. CASE Opmode(d)
  BY <1>7 DEF Opmode
<1>8. CASE ResetDevice(d)
  BY <1>8 DEF ResetDevice, BusOff
<1>9. CASE ResetRestore(d)
  BY <1>9 DEF ResetRestore, RestoreContext
<1>10. CASE ResetFails(d)
  BY <1>10 DEF ResetFails
<1>11. CASE BootCheck(d)
  BY <1>11 DEF BootCheck
<1>12. CASE TakeUnit(d)
  BY <1>12 DEF TakeUnit
<1>13. CASE Remove(d)
  BY <1>13 DEF Remove
<1>14. CASE ClearAdded(d)
  BY <1>14 DEF ClearAdded, AfterChrdev
<1>15. CASE RemoveChrdev(d)
  BY <1>15 DEF RemoveChrdev, Destroy, AfterChrdev
<1>16. CASE Disable(d)
  BY <1>16 DEF Disable
<1>17. CASE Cancel(d)
  BY <1>17 DEF Cancel
<1>18. CASE FreeIrq(d)
  BY <1>18 DEF FreeIrq, AfterEvents
<1>19. CASE Unmap(d)
  BY <1>19 DEF Unmap, BusOff
<1>20. ASSUME NEW a \in Actors, Create(d, a)
       PROVE  thread' = thread
  <2>1. CASE a = "thread"
    BY <1>20, <2>1 DEF Create, MinorFree
  <2>2. CASE a = "work"
    BY <1>20, <2>2 DEF Create, MinorFree
  <2>3. QED
    BY <2>1, <2>2 DEF Actors
<1>21. ASSUME NEW a \in Actors, CreateFails(d, a)
       PROVE  thread' = thread
  <2>1. CASE a = "thread"
    BY <1>21, <2>1 DEF CreateFails, ReturnTo, MinorFree
  <2>2. CASE a = "work"
    BY <1>21, <2>2 DEF CreateFails, ReturnTo, MinorFree
  <2>3. QED
    BY <2>1, <2>2 DEF Actors
<1>22. ASSUME NEW a \in Actors, CdevAdd(d, a)
       PROVE  thread' = thread
  <2>1. CASE a = "thread"
    BY <1>22, <2>1 DEF CdevAdd
  <2>2. CASE a = "work"
    BY <1>22, <2>2 DEF CdevAdd
  <2>3. QED
    BY <2>1, <2>2 DEF Actors
<1>23. ASSUME NEW a \in Actors, CdevAddFails(d, a)
       PROVE  thread' = thread
  <2>1. CASE a = "thread"
    BY <1>23, <2>1 DEF CdevAddFails, Destroy, ReturnTo
  <2>2. CASE a = "work"
    BY <1>23, <2>2 DEF CdevAddFails, Destroy, ReturnTo
  <2>3. QED
    BY <2>1, <2>2 DEF Actors
<1>24. ASSUME NEW a \in Actors, SetAdded(d, a)
       PROVE  thread' = thread
  <2>1. CASE a = "thread"
    BY <1>24, <2>1 DEF SetAdded, ReturnTo
  <2>2. CASE a = "work"
    BY <1>24, <2>2 DEF SetAdded, ReturnTo
  <2>3. QED
    BY <2>1, <2>2 DEF Actors
<1>25. CASE IsrRead(d)
  BY <1>25 DEF IsrRead
<1>26. CASE IsrClear(d)
  BY <1>26 DEF IsrClear
<1>27. CASE Work(d)
  BY <1>27 DEF Work, Withdrawing
<1>28. CASE DeviceChange(d)
  BY <1>28 DEF DeviceChange, ChangeMode
<1>29. CASE Open(d)
  BY <1>29 DEF Open
<1>30. CASE Read(d)
  BY <1>30 DEF Read
<1>31. CASE Write(d)
  BY <1>31 DEF Write, ChangeMode
<1>32. CASE Release(d)
  BY <1>32 DEF Release
<1>33. QED
  BY <1>2, <1>3, <1>4, <1>5, <1>6, <1>7, <1>8, <1>9, <1>10, <1>11, <1>12,
     <1>13, <1>14, <1>15, <1>16, <1>17, <1>18, <1>19, <1>20, <1>21, <1>22,
     <1>23, <1>24, <1>25, <1>26, <1>27, <1>28, <1>29, <1>30, <1>31, <1>32
     DEF DeviceStep, ProbeStep, AddStep, RemoveStep

(* All of it, for a device and for the driver.                             *)
DeviceInv(d) ==
    /\ OpOf(d) /\ MappedOf(d) /\ IrqOf(d) /\ BusOf(d) /\ WorkOf(d)
    /\ ChrdevOf(d) /\ ServedOf(d) /\ NodeOf(d)

(* What holds of a device is kept by its own steps...                      *)
LEMMA DeviceInvStep ==
    ASSUME TypeInv, NEW d \in Devices, DeviceInv(d), DeviceStep(d)
    PROVE  DeviceInv(d)'
BY OpStep, MappedStep, IrqStep, BusStep, WorkStep, ChrdevStep, ServedStep, NodeStep DEF DeviceInv

(* ...and by steps that leave it alone.                                    *)
LEMMA DeviceInvKept ==
    ASSUME NEW d \in Devices, DeviceInv(d), SameState(d), SameSets(d), NotesKept
    PROVE  DeviceInv(d)'
<1>1. \A a \in Actors : (Adding(d, a)' <=> Adding(d, a)) /\ (At(d, a, "add")' <=> At(d, a, "add"))
  BY DEF SameState, Adding, At
<1>2. /\ Answers(d)' <=> Answers(d)
      /\ HasChrdev(d)' <=> HasChrdev(d)
      /\ Removed(d)' <=> Removed(d)
  BY <1>1 DEF SameState, Answers, HasChrdev, Removed
<1>3. OpOf(d)' /\ MappedOf(d)' /\ IrqOf(d)' /\ BusOf(d)' /\ WorkOf(d)'
  BY DEF DeviceInv, SameState, SameSets, NotesKept, OpOf, MappedOf, IrqOf, BusOf, WorkOf, Silent,
         Undone
<1>4. ChrdevOf(d)' /\ ServedOf(d)'
  BY <1>2 DEF DeviceInv, SameState, SameSets, NotesKept, ChrdevOf, ServedOf, Due
<1>5. ASSUME Held(d)
      PROVE  Held(d)'
  <2>1. ASSUME NEW a \in Actors, Adding(d, a)'
        PROVE  /\ NodesOf(d)' = {<<d, devno'[d][a]>>} /\ devno'[d][a] \in Nat
               /\ At(d, a, "add")' => CdevsOf(d)' = {}
               /\ ~added'[d] /\ \A b \in Actors \ {a} : ~Adding(d, b)'
    <3>1. /\ NodesOf(d) = {<<d, devno[d][a]>>} /\ devno[d][a] \in Nat
          /\ At(d, a, "add") => CdevsOf(d) = {}
          /\ ~added[d] /\ \A b \in Actors \ {a} : ~Adding(d, b)
      BY <1>1, <1>5, <2>1 DEF Held
    <3>2. QED
      BY <1>1, <3>1 DEF SameState, SameSets
  <2>2. QED
    BY <1>2, <1>5, <2>1 DEF Held, SameState, SameSets, NotesKept
<1>6. NodeOf(d)'
  BY <1>5 DEF DeviceInv, NodeOf, NotesKept
<1>7. QED
  BY <1>3, <1>4, <1>6 DEF DeviceInv

Inv == TypeInv /\ ModuleInv /\ UsedInv /\ UserInv /\ \A d \in Devices : DeviceInv(d)

(* The invariant holds initially...                                        *)
LEMMA InvInit == Init => Inv
<1> SUFFICES ASSUME Init
             PROVE  Inv
  OBVIOUS
<1>1. TypeInv /\ ModuleInv /\ UsedInv /\ UserInv
  BY TypeInit DEF Init, ModuleInv, UsedInv, UserInv
<1>2. ASSUME NEW d \in Devices
      PROVE  DeviceInv(d)
  <2>1. /\ thread[d] = "absent" /\ work[d] = "idle" /\ op[d] = "none" /\ chrdev[d] = None
        /\ ~mapped[d] /\ ~irq[d] /\ ~bus[d] /\ ~added[d] /\ ~msi[d]
        /\ NodesOf(d) = {} /\ CdevsOf(d) = {} /\ d \notin queued /\ d \notin opened
    BY DEF Init, NodesOf, CdevsOf
  <2>2. /\ OpOf(d) /\ MappedOf(d) /\ IrqOf(d) /\ BusOf(d) /\ WorkOf(d) /\ ServedOf(d)
    BY <2>1 DEF OpOf, MappedOf, IrqOf, BusOf, WorkOf, ServedOf, Probing, Serving, Ending,
                Requested, Undone
  <2>3. \A a \in Actors : ~Adding(d, a)
    BY <2>1 DEF Adding, At
  <2>4. ~HasChrdev(d)
    BY <2>1, NoMinor DEF HasChrdev
  <2>5. ChrdevOf(d) /\ NodeOf(d)
    BY <2>1, <2>3, <2>4 DEF ChrdevOf, NodeOf, Held, Answers
  <2>6. QED
    BY <2>2, <2>5 DEF DeviceInv
<1>3. QED
  BY <1>1, <1>2 DEF Inv

(* ...and every step keeps it...                                           *)
LEMMA InvStep == Inv /\ [Next]_vars => Inv'
<1> SUFFICES ASSUME Inv, [Next]_vars
             PROVE  Inv'
  OBVIOUS
<1>1. TypeInv /\ TypeInv'
  BY TypeStep DEF Inv
<1>2. CASE ModuleStep \/ UNCHANGED vars
  <2>1. UNCHANGED <<deviceVars, pciVars, irq, unit, chrdevVars, queued, opened, pc, devno,
                    threadVars, isr, noteVars>>
    BY <1>2 DEF ModuleStep, ModuleInit, ModuleExit, ModuleGone, vars
  <2>2. ASSUME NEW d \in Devices
        PROVE  SameState(d) /\ SameSets(d) /\ NotesKept
    BY <2>1 DEF SameState, SameSets, NotesKept, NodesOf, CdevsOf, deviceVars, pciVars, chrdevVars,
                threadVars, noteVars, pc
  <2>3. \A d \in Devices : DeviceInv(d)'
    BY <2>2, DeviceInvKept DEF Inv
  <2>4. ModuleInv'
    BY <1>2, <2>1 DEF Inv, ModuleInv, ModuleStep, ModuleInit, ModuleExit, ModuleGone, vars,
                      moduleVars, pc, At
  <2>5. UsedInv' /\ UserInv'
    BY <2>1 DEF Inv, UsedInv, UserInv, noteVars
  <2>6. QED
    BY <1>1, <2>3, <2>4, <2>5 DEF Inv
<1>3. ASSUME NEW d \in Devices, DeviceStep(d), UNCHANGED moduleVars
      PROVE  Inv'
  <2>1. ModuleInv'
    BY <1>1, <1>3, ModuleKept DEF Inv
  <2>2. UsedInv' /\ UserInv'
    BY <1>1, <1>3, UsedStep, UserStep DEF Inv, DeviceInv
  <2>3. ASSUME NEW e \in Devices
        PROVE  DeviceInv(e)'
    <3>1. CASE e = d
      BY <1>1, <1>3, <3>1, DeviceInvStep DEF Inv
    <3>2. CASE e # d
      BY <1>1, <1>3, <3>2, OtherState, OtherSets, Notes, DeviceInvKept DEF Inv
    <3>3. QED
      BY <3>1, <3>2
  <2>4. QED
    BY <1>1, <2>1, <2>2, <2>3 DEF Inv
<1>4. QED
  BY <1>2, <1>3 DEF Next

(* ...so it always holds.                                                  *)
LEMMA Invariance == Spec => []Inv
<1>1. Init => Inv
  BY InvInit
<1>2. Inv /\ [Next]_vars => Inv'
  BY InvStep
<1>3. QED
  BY <1>1, <1>2, PTL DEF Spec

(* Whatever the devices, the limit and what the kernel refuses: the work   *)
(* item, a user, the driver itself meet nothing that mxbl_core_cleanup     *)
(* has released, nor is anything released twice, but for the named         *)
(* causes. A work item needs the interrupt, the interrupt the registers;   *)
(* who has the file open has a cdev, which a device without registers has  *)
(* not.                                                                    *)
THEOREM NothingReleasedIsUsed == Spec => []ReleasedIsNotUsed
<1>1. Inv => ReleasedIsNotUsed
  BY DEF Inv, UsedInv, UserInv, ReleasedIsNotUsed
<1>2. QED
  BY <1>1, Invariance, PTL

(* A device that is not bound is off the bus, and but for the named        *)
(* causes it has no interrupt, no work item on the way, no class device    *)
(* and no character device; a module that is gone has no class, no         *)
(* numbers and no device mapped.                                           *)
THEOREM NothingIsLeftBehind == Spec => []AbsentLeavesNothing
<1>1. ASSUME Inv, NEW d \in Devices, thread[d] = "absent"
      PROVE  ~mapped[d] /\ ~irq[d] /\ ~bus[d]
  BY <1>1 DEF Inv, DeviceInv, MappedOf, IrqOf, BusOf
<1>2. ASSUME Inv, NEW d \in Devices, thread[d] = "absent", ~crossed, ~lost
      PROVE  d \notin queued /\ \A n \in nodes \union cdevs : n[1] # d
  <2>1. d \notin queued
    BY <1>1, <1>2 DEF Inv, DeviceInv, WorkOf, Silent
  <2>2. NodesOf(d) = {} /\ CdevsOf(d) = {}
    BY <1>1, <1>2 DEF Inv, DeviceInv, NodeOf, Held
  <2>3. QED
    BY <2>1, <2>2 DEF NodesOf, CdevsOf
<1>3. Inv => AbsentLeavesNothing
  <2> SUFFICES ASSUME Inv
               PROVE  AbsentLeavesNothing
    OBVIOUS
  <2>1. module = "gone" => ~class /\ ~region /\ \A d \in Devices : ~mapped[d] /\ ~irq[d]
    BY <1>1 DEF Inv, ModuleInv
  <2>2. QED
    BY <1>1, <1>2, <2>1 DEF AbsentLeavesNothing, At
<1>4. QED
  BY <1>3, Invariance, PTL

(* A bound device in boot mode is on the bus, and has its character        *)
(* device or a status update on the way, but for the named causes: the     *)
(* probe looks at the mode itself, and a change after that finds the       *)
(* interrupt enabled.                                                      *)
THEOREM BootModeGetsChrdev == Spec => []BootModeIsServed
<1>1. ASSUME Inv, NEW d \in Devices, Bound(d), mode[d] = "boot",
             ~limited, ~half, ~refused, ~wiped
      PROVE  (added[d] \/ Updating(d)) /\ bus[d]
  <2>1. thread[d] = "bound"
    BY <1>1 DEF Bound, At
  <2>2. added[d] \/ Due(d)
    BY <1>1, <2>1 DEF Inv, DeviceInv, ServedOf
  <2>3. bus[d]
    BY <1>1, <2>1 DEF Inv, DeviceInv, BusOf, Serving
  <2>4. QED
    BY <2>2, <2>3 DEF Due, Updating, At
<1>2. Inv => BootModeIsServed
  BY <1>1 DEF BootModeIsServed
<1>3. QED
  BY <1>2, Invariance, PTL
=============================================================================
