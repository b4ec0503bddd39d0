-------------------------- MODULE MxlkDriverProofs --------------------------
(***************************************************************************)
(* The driver is set up and taken down, for any set of users and any       *)
(* number of calls. First the calls that take it down and up again, from a *)
(* driver that is up (MxlkLifecycle): what they free is freed once, and    *)
(* nothing uses it then. Then the whole driver, from the loading of its    *)
(* module (MxlkDriver): its probe, its open files, and what it leaves      *)
(* behind.                                                                 *)
(*                                                                         *)
(* The properties make exceptions for calls that met or failed. So do the  *)
(* invariants: what they say of a call under way rests on its being alone. *)
(* Two more exceptions are states of their own: a device that comes to its *)
(* application after the boot looked for it (UpBetween), and a driver that *)
(* is bound although its probe took it down (BoundInv).                    *)
(***************************************************************************)
EXTENDS MxlkDriver, FiniteSetTheorems, WellFoundedInduction, TLAPS

(* No two calls ever met and none failed midway.                           *)
Calm == ~met /\ ~failed

(* Where a call may be; a probe has places of its own.                     *)
ProbePlaces == {"load module", "pci", "probe events", "chrdev", "probe start"}
Places ==
    {"idle", "comms", "irq", "db", "rx", "tx", "reset", "load", "events", "mode", "start", "gone"}
        \union ProbePlaces

(* The types of the variables of MxlkLifecycle, in MxlkDriver too.         *)
Types ==
    /\ mode \in Modes /\ booting \in BOOLEAN /\ missed \in BOOLEAN
    /\ rings \in {"none", "live", "freed"} /\ run \in BOOLEAN
    /\ irq \in BOOLEAN /\ msi \in BOOLEAN /\ update \in BOOLEAN
    /\ queued \subseteq Items /\ running \subseteq Items
    /\ pc \in [Users -> Places]
    /\ op \in [Users -> {"none", "probe", "reset", "restore", "boot", "remove"}]
    /\ writing \subseteq Users /\ removed \in BOOLEAN
    /\ twice \in BOOLEAN /\ astray \in BOOLEAN /\ struck \subseteq Items
    /\ met \in BOOLEAN /\ failed \in BOOLEAN /\ other \in BOOLEAN /\ overtaken \in BOOLEAN
    /\ late \in BOOLEAN

(* No two calls are under way.                                             *)
Alone == \A u, v \in Users : pc[u] # "idle" /\ pc[v] # "idle" => u = v

(* The driver between calls.  Freed rings are only kept in boot mode, in   *)
(* which no call frees them, and a device that is yet to boot left the     *)
(* boot that loaded it without communications.                             *)
UpBetween ==
    Active = {} /\ ~removed =>
        /\ irq
        /\ mode = "vpulink" => rings = "live" \/ missed
        /\ mode \in {"boot", "loader"} => rings # "live"
        /\ run <=> rings = "live"
        /\ ~other /\ rings = "freed" => mode = "boot"
        /\ booting => other

(* A call that is about to take communications down, or did.               *)
DownAt(u) ==
    /\ pc[u] = "comms" =>
          /\ op[u] # "boot"
          /\ irq
          /\ ~other => rings # "freed"
    /\ pc[u] = "irq" => irq
    /\ pc[u] \in {"irq", "db", "rx", "tx", "reset", "load", "events", "mode"} /\ op[u] # "remove" =>
          rings # "live"
    /\ pc[u] = "mode" => irq
    /\ pc[u] = "start" => rings # "live" /\ irq /\ mode \notin {"boot", "loader"} /\ ~booting
    /\ rings = "live" => pc[u] \in {"idle", "comms"} \/ op[u] = "remove"

(* How the place of a call, its kind and the mode of the device go         *)
(* together.                                                               *)
PlaceOf(u) ==
    /\ pc[u] = "reset" => op[u] = "reset"
    /\ pc[u] \in {"load", "mode", "start"} => op[u] = "boot"
    /\ pc[u] = "gone" => op[u] = "remove"
    /\ pc[u] = "events" => op[u] \in {"reset", "restore", "boot"}
    /\ pc[u] # "idle" => pc[u] \notin ProbePlaces /\ op[u] \notin {"none", "probe"}
    /\ pc[u] # "idle" /\ op[u] = "restore" => mode = "boot"
    /\ pc[u] = "events" /\ op[u] = "reset" => mode = "boot"
    /\ pc[u] # "idle" /\ op[u] \in {"reset", "restore"} => ~booting

(* A device that is yet to boot an image does not run an application.      *)
YetToBoot == booting => mode \notin Apps

DownInv ==
    Calm =>
        /\ Alone
        /\ UpBetween
        /\ run <=> rings = "live"
        /\ YetToBoot
        /\ \A u \in Users : DownAt(u) /\ PlaceOf(u)
        /\ ~other => ~twice

(* Work items that look at the rings, and what queues them.                *)
WorkAt(u) ==
    /\ pc[u] \in {"db", "rx", "tx", "reset", "load", "events", "gone"} => ~irq
    /\ pc[u] = "tx" => "rx" \notin queued \union running
    /\ pc[u] \in {"reset", "load", "events", "gone"} => queued \union running \subseteq {"db"}
    /\ pc[u] \in {"mode", "start"} => late \/ queued \union running \subseteq {"db"}

WorkInv ==
    Calm /\ ~overtaken =>
        /\ writing # {} => Active = {} /\ rings = "live"
        /\ rings # "live" /\ ~TearingDown => late \/ queued \union running \subseteq {"db"}
        /\ rings # "live" /\ (\A u \in Users : pc[u] # "irq") => late \/ ~msi
        /\ \A u \in Users : WorkAt(u)
        /\ (late \/ ~astray) /\ struck \subseteq {"db"}

LifecycleInv == Types /\ DownInv /\ WorkInv

-----------------------------------------------------------------------------
(* A driver that is up, in any mode of the device.                         *)
LEMMA InitInv == Init => LifecycleInv
<1>1. SUFFICES ASSUME Init PROVE LifecycleInv
  OBVIOUS
<1>2. Types
  BY <1>1 DEF Init, Types, Places, Modes, Items
<1>3. DownInv
  BY <1>1 DEF Init, DownInv, YetToBoot, Calm, Alone, UpBetween, DownAt, PlaceOf, Active, Places
<1>4. WorkInv
  BY <1>1 DEF Init, WorkInv, Calm, WorkAt, Active
<1>5. QED
  BY <1>2, <1>3, <1>4 DEF LifecycleInv

(* The steps that belong to no call leave the calls where they are.        *)
Aside ==
    \/ DeviceMsi \/ DeviceFault \/ DeviceBoots \/ Interrupt
    \/ \E u \in Users : Write(u) \/ WriteEnd(u)
    \/ \E w \in Items : WorkStart(w) \/ WorkEnd(w)

(* Every step keeps the types.                                             *)
LEMMA TypesNext == Types /\ [Next]_vars => Types'
<1>1. SUFFICES ASSUME Types, [Next]_vars PROVE Types'
  OBVIOUS
<1>2. ASSUME NEW u \in Users, Op(u)
      PROVE  Types'
  <2>1. CASE ResetApp(u)
    BY <1>1, <2>1 DEF Types, ResetApp, Ioctl, Begin, Goto, Items, Places, Modes,
       ringVars, deviceVars, intVars, workVars, callVars, noteVars
  <2>2. CASE ResetLost(u)
    BY <1>1, <2>2 DEF Types, ResetLost, IsReset, Ioctl, Begin, Goto, Items, Places, Modes,
       ringVars, deviceVars, intVars, workVars, callVars, noteVars
  <2>3. CASE Boot(u)
    BY <1>1, <2>3 DEF Types, Boot, Ioctl, Begin, Goto, Items, Places, Modes,
       ringVars, deviceVars, intVars, workVars, callVars, noteVars
  <2>4. CASE Remove(u)
    BY <1>1, <2>4 DEF Types, Remove, Begin, Goto, Items, Places, Modes,
       ringVars, deviceVars, intVars, workVars, callVars, noteVars
  <2>5. CASE CommsCleanup(u)
    <3>1. twice' \in BOOLEAN
      BY <1>1, <2>5 DEF Types, CommsCleanup
    <3>2. pc' \in [Users -> Places]
      BY <1>1, <2>5 DEF Types, CommsCleanup, Goto, Places
    <3>3. /\ rings' \in {"none", "live", "freed"} /\ run' = FALSE
          /\ UNCHANGED <<mode, booting, missed, irq, msi, update, queued, running, op, writing,
                    removed, astray, struck, met, failed, other, overtaken, late>>
      BY <1>1, <2>5 DEF Types, CommsCleanup, deviceVars, intVars, workVars
    <3>4. QED
      BY <1>1, <3>1, <3>2, <3>3 DEF Types
  <2>6. CASE FreeIrq(u)
    <3>1. twice' \in BOOLEAN /\ update' \in BOOLEAN
      BY <1>1, <2>6 DEF Types, FreeIrq
    <3>2. pc' \in [Users -> Places]
      BY <1>1, <2>6 DEF Types, FreeIrq, Goto, Places
    <3>3. QED
      BY <1>1, <2>6, <3>1, <3>2 DEF Types, FreeIrq, deviceVars, ringVars, workVars
  <2>7. CASE Cancel(u)
    BY <1>1, <2>7 DEF Types, Cancel, AfterCancel, AfterEvents, Goto, Items, Places, Modes,
       ringVars, deviceVars, intVars, workVars, callVars, noteVars
  <2>8. CASE Fail(u)
    <3>1. mode' \in Modes /\ booting' \in BOOLEAN /\ missed' \in BOOLEAN /\ msi' \in BOOLEAN
      BY <1>1, <2>8 DEF Types, Fail, LoadsImage, GoesTo, Modes, deviceVars
    <3>2. QED
      BY <1>1, <2>8, <3>1 DEF Types, Fail, Goto, Items, Places, Modes, workVars
  <2>9. CASE Reset(u)
    <3>1. mode' \in Modes /\ booting' \in BOOLEAN /\ missed' \in BOOLEAN /\ update' \in BOOLEAN
      BY <1>1, <2>9 DEF Types, Reset, IsReset, Modes
    <3>2. pc' \in [Users -> Places]
      BY <1>1, <2>9 DEF Types, Reset, Goto, Places
    <3>3. UNCHANGED <<rings, run, irq, msi, queued, running, op, writing, removed,
                    twice, astray, struck, met, failed, other, overtaken, late>>
      BY <2>9 DEF Reset, ringVars, workVars, noteVars
    <3>4. QED
      BY <1>1, <3>1, <3>2, <3>3 DEF Types
  <2>10. CASE Load(u)
    <3>1. mode' \in Modes /\ booting' \in BOOLEAN /\ missed' \in BOOLEAN /\ msi' \in BOOLEAN
      BY <1>1, <2>10 DEF Types, Load, LoadsImage, GoesTo, Modes
    <3>2. QED
      BY <1>1, <2>10, <3>1 DEF Types, Load, Goto, Items, Places, Modes, ringVars,
         workVars, noteVars
  <2>11. CASE EventsInit(u)
    BY <1>1, <2>11 DEF Types, EventsInit, Goto, Items, Places, Modes,
       ringVars, deviceVars, intVars, workVars, callVars, noteVars
  <2>12. CASE CheckMode(u)
    BY <1>1, <2>12 DEF Types, CheckMode, Goto, Items, Places, Modes,
       ringVars, deviceVars, intVars, workVars, callVars, noteVars
  <2>13. CASE CommsInit(u)
    BY <1>1, <2>13 DEF Types, CommsInit, Goto, Items, Places, Modes,
       ringVars, deviceVars, intVars, workVars, callVars, noteVars
  <2>14. CASE Gone(u)
    BY <1>1, <2>14 DEF Types, Gone, Goto, Items, Places, Modes,
       ringVars, deviceVars, intVars, workVars, callVars, noteVars
  <2>15. QED
    BY <1>2, <2>1, <2>2, <2>3, <2>4, <2>5, <2>6, <2>7, <2>8, <2>9, <2>10, <2>11, <2>12,
       <2>13, <2>14 DEF Op
<1>3. ASSUME Aside
      PROVE  Types'
  <2>1. ASSUME DeviceMsi PROVE Types'
    BY <1>1, <2>1 DEF Types, DeviceMsi, ringVars, deviceVars, workVars, callVars, noteVars
  <2>2. ASSUME DeviceFault PROVE Types'
    <3>1. mode' \in Modes /\ missed' \in BOOLEAN
      BY <2>2 DEF DeviceFault, Modes
    <3>2. UNCHANGED <<booting, rings, run, irq, msi, update, queued, running, pc, op, writing,
                    removed, twice, astray, struck, met, failed, other, overtaken, late>>
      BY <2>2 DEF DeviceFault, ringVars, intVars, workVars, callVars, noteVars
    <3>3. QED
      BY <1>1, <3>1, <3>2 DEF Types
  <2>3. ASSUME DeviceBoots PROVE Types'
    <3>1. mode' \in Modes /\ booting' \in BOOLEAN /\ missed' \in BOOLEAN
      BY <2>3 DEF DeviceBoots, GoesTo, Apps, Modes
    <3>2. msi' \in BOOLEAN
      BY <1>1, <2>3 DEF Types, DeviceBoots, GoesTo
    <3>3. late' \in BOOLEAN
      BY <1>1, <2>3, <3>2 DEF Types, DeviceBoots
    <3>4. UNCHANGED <<rings, run, irq, update, queued, running, pc, op, writing,
                    removed, twice, astray, struck, met, failed, other, overtaken>>
      BY <2>3 DEF DeviceBoots, ringVars, workVars, callVars
    <3>5. QED
      BY <1>1, <3>1, <3>2, <3>3, <3>4 DEF Types
  <2>4. ASSUME Interrupt PROVE Types'
    <3>1. msi' \in BOOLEAN /\ queued' \subseteq Items
      BY <1>1, <2>4 DEF Types, Interrupt, Items
    <3>2. UNCHANGED <<mode, booting, missed, rings, run, irq, update, running, pc, op, writing,
                    removed, twice, astray, struck, met, failed, other, overtaken, late>>
      BY <2>4 DEF Interrupt, deviceVars, ringVars, callVars, noteVars
    <3>3. QED
      BY <1>1, <3>1, <3>2 DEF Types
  <2>5. ASSUME NEW u \in Users, Write(u) PROVE Types'
    BY <1>1, <2>5 DEF Types, Write, Items, Modes, ringVars, deviceVars, intVars, workVars,
       callVars, noteVars
  <2>6. ASSUME NEW u \in Users, WriteEnd(u) PROVE Types'
    BY <1>1, <2>6 DEF Types, WriteEnd, Items, Modes, ringVars, deviceVars, intVars,
       workVars, callVars, noteVars
  <2>7. ASSUME NEW w \in Items, WorkStart(w) PROVE Types'
    BY <1>1, <2>7 DEF Types, WorkStart, Items, Modes, ringVars, deviceVars, intVars,
       workVars, callVars, noteVars
  <2>8. ASSUME NEW w \in Items, WorkEnd(w) PROVE Types'
    BY <1>1, <2>8 DEF Types, WorkEnd, Items, Modes, ringVars, deviceVars, intVars,
       workVars, callVars, noteVars
  <2>9. QED
    BY <1>3, <2>1, <2>2, <2>3, <2>4, <2>5, <2>6, <2>7, <2>8 DEF Aside
<1>4. CASE UNCHANGED vars
  BY <1>1, <1>4 DEF Types, vars, ringVars, deviceVars, intVars, workVars, callVars, noteVars
<1>5. QED
  BY <1>1, <1>2, <1>3, <1>4 DEF Next, Aside

(* A call begins only alone if no two ever met, and is alone from there.   *)
LEMMA DownBegin ==
  ASSUME Types, DownInv, Types', NEW u \in Users,
         ResetApp(u) \/ ResetLost(u) \/ Boot(u) \/ Remove(u)
  PROVE  DownInv'
<1>1. SUFFICES ASSUME Calm'
      PROVE  Alone' /\ UpBetween' /\ (run <=> rings = "live")' /\ (~other => ~twice)'
             /\ YetToBoot' /\ \A v \in Users : DownAt(v)' /\ PlaceOf(v)'
  BY DEF DownInv
<1>2. Calm /\ Active = {} /\ ~removed /\ pc[u] = "idle"
  BY <1>1 DEF Calm, Types, ResetApp, ResetLost, Boot, Remove, Begin
<1>3. /\ UpBetween /\ YetToBoot /\ (run <=> rings = "live") /\ (~other => ~twice)
      /\ \A v \in Users : pc[v] = "idle"
  BY <1>2 DEF DownInv, Active
<1>4. \A v \in Users \ {u} : pc'[v] = "idle"
  BY <1>3 DEF Types, ResetApp, ResetLost, Boot, Remove, Begin, Goto
<1>5. pc'[u] \in {"comms", "irq"}
  BY DEF Types, ResetApp, ResetLost, Boot, Remove, Begin, Goto
<1>6. Alone' /\ UpBetween'
  BY <1>4, <1>5 DEF Alone, UpBetween, Active
<1>7. UNCHANGED <<rings, run, irq, other, twice>>
  BY DEF ResetApp, ResetLost, Boot, Remove, Begin, ringVars, intVars
<1>8. DownAt(u)' /\ PlaceOf(u)'
  <2>1. /\ irq
        /\ (~other /\ rings = "freed" => mode = "boot")
        /\ (mode \in {"boot", "loader"} => rings # "live")
        /\ (mode \in Apps => ~booting)
    BY <1>2, <1>3 DEF UpBetween, YetToBoot
  <2>2. CASE ResetApp(u)
    BY <2>1, <1>5, <1>7, <2>2 DEF Types, DownAt, PlaceOf, ProbePlaces, ResetApp, Apps,
       Begin, Goto, deviceVars
  <2>3. CASE ResetLost(u)
    BY <2>1, <1>5, <1>7, <2>3 DEF Types, DownAt, PlaceOf, ProbePlaces, ResetLost, IsReset, Begin,
       Goto
  <2>4. CASE Boot(u)
    BY <2>1, <1>5, <1>7, <2>4 DEF Types, DownAt, PlaceOf, ProbePlaces, Boot, Begin, Goto,
       deviceVars
  <2>5. CASE Remove(u)
    BY <2>1, <1>5, <1>7, <2>5 DEF Types, DownAt, PlaceOf, ProbePlaces, Remove, Begin, Goto,
       deviceVars
  <2>6. QED
    BY <2>2, <2>3, <2>4, <2>5
<1>9. YetToBoot'
  BY <1>3 DEF YetToBoot, ResetApp, ResetLost, IsReset, Boot, Remove, deviceVars
<1>10. QED
  BY <1>3, <1>4, <1>6, <1>7, <1>8, <1>9 DEF DownAt, PlaceOf

(* The steps of a call that is alone.                                      *)
LEMMA DownStep ==
  ASSUME Types, DownInv, Types', NEW u \in Users, Op(u),
         ~(ResetApp(u) \/ ResetLost(u) \/ Boot(u) \/ Remove(u))
  PROVE  DownInv'
<1>1. SUFFICES ASSUME Calm'
      PROVE  Alone' /\ UpBetween' /\ (run <=> rings = "live")' /\ (~other => ~twice)'
             /\ YetToBoot' /\ \A v \in Users : DownAt(v)' /\ PlaceOf(v)'
  BY DEF DownInv
<1>2. \/ CommsCleanup(u) \/ FreeIrq(u) \/ Cancel(u) \/ Reset(u)
      \/ Load(u) \/ EventsInit(u) \/ CheckMode(u) \/ CommsInit(u) \/ Gone(u)
  BY <1>1 DEF Op, Calm, Fail
<1>3. Calm /\ pc[u] # "idle"
  BY <1>1, <1>2 DEF Calm, CommsCleanup, FreeIrq, Cancel, Reset, Load, EventsInit,
     CheckMode, CommsInit, Gone,
     Items, noteVars
<1>4. /\ run <=> rings = "live"
      /\ ~other => ~twice
      /\ YetToBoot
      /\ DownAt(u) /\ PlaceOf(u)
      /\ \A v \in Users \ {u} : pc[v] = "idle"
  BY <1>3 DEF DownInv, Alone
<1>5. \A v \in Users \ {u} : pc'[v] = "idle"
  BY <1>2, <1>4 DEF Types, CommsCleanup, FreeIrq, Cancel, Reset, Load, EventsInit,
     CheckMode, CommsInit, Gone,
     Goto
<1>6. Alone'
  BY <1>5 DEF Alone
<1>7. \A v \in Users \ {u} : DownAt(v)' /\ PlaceOf(v)'
  BY <1>5 DEF DownAt, PlaceOf
<1>8. Active' = IF pc'[u] = "idle" THEN {} ELSE {u}
  BY <1>5 DEF Active
<1>9. /\ UpBetween' /\ (run <=> rings = "live")' /\ (~other => ~twice)' /\ YetToBoot'
      /\ DownAt(u)' /\ PlaceOf(u)'
  <2>1. CASE CommsCleanup(u)
    BY <1>4, <1>8, <2>1 DEF Types, UpBetween, YetToBoot, DownAt, PlaceOf, ProbePlaces,
       CommsCleanup, Goto, Places, ringVars, deviceVars, intVars, workVars, callVars, noteVars
  <2>2. CASE FreeIrq(u)
    BY <1>4, <1>8, <2>2 DEF Types, UpBetween, YetToBoot, DownAt, PlaceOf, ProbePlaces,
       FreeIrq, Goto, Places, ringVars, deviceVars, intVars, workVars, callVars, noteVars
  <2>3. CASE Cancel(u)
    <3>1. /\ UNCHANGED <<mode, booting, rings, run, irq, op, removed, twice, other>>
          /\ pc[u] \in {"db", "rx", "tx"} /\ pc'[u] = AfterCancel(u)
      BY <2>3 DEF Types, Cancel, Goto, Items, deviceVars, ringVars, intVars, noteVars
    <3>2. \/ pc'[u] \in {"rx", "tx"}
          \/ pc'[u] = "reset" /\ op[u] = "reset"
          \/ pc'[u] = "events" /\ op[u] = "restore"
          \/ pc'[u] = "load" /\ op[u] = "boot"
          \/ pc'[u] = "gone" /\ op[u] = "remove"
      BY <1>4, <3>1 DEF Types, PlaceOf, AfterCancel, AfterEvents
    <3>3. DownAt(u)' /\ PlaceOf(u)'
      BY <1>4, <3>1, <3>2 DEF DownAt, PlaceOf, ProbePlaces
    <3>4. UpBetween'
      BY <1>8, <3>2 DEF UpBetween
    <3>5. QED
      BY <1>4, <3>1, <3>3, <3>4 DEF YetToBoot
  <2>4. CASE Reset(u)
    BY <1>4, <1>8, <2>4 DEF Types, UpBetween, YetToBoot, DownAt, PlaceOf, ProbePlaces,
       Reset, IsReset, Goto, Places,
       ringVars, deviceVars, intVars, workVars, callVars, noteVars
  <2>5. CASE Load(u)
    BY <1>4, <1>8, <2>5 DEF Types, UpBetween, YetToBoot, DownAt, PlaceOf, ProbePlaces,
       Load, LoadsImage, GoesTo, Goto, Places,
       ringVars, deviceVars, intVars, workVars, callVars, noteVars
  <2>6. CASE EventsInit(u)
    BY <1>4, <1>8, <2>6 DEF Types, UpBetween, YetToBoot, DownAt, PlaceOf, ProbePlaces,
       EventsInit, Goto, Places, ringVars, deviceVars, intVars, workVars, callVars, noteVars
  <2>7. CASE CheckMode(u)
    <3>1. /\ UNCHANGED <<deviceVars, rings, run, irq, op, removed, twice>>
          /\ pc[u] = "mode" /\ pc'[u] = IF mode = "vpulink" THEN "start" ELSE "idle"
          /\ other' = (other \/ mode # "vpulink")
      BY <2>7 DEF Types, CheckMode, Goto, ringVars, intVars
    <3>2. op[u] = "boot" /\ irq /\ rings # "live" /\ ~run
      BY <1>4, <3>1 DEF DownAt, PlaceOf
    <3>3. mode = "vpulink" => ~booting
      BY <1>4 DEF YetToBoot, Apps
    <3>4. QED
      BY <1>4, <1>8, <3>1, <3>2, <3>3 DEF UpBetween, YetToBoot, DownAt, PlaceOf, ProbePlaces,
         deviceVars
  <2>8. CASE CommsInit(u)
    BY <1>4, <1>8, <2>8 DEF Types, UpBetween, YetToBoot, DownAt, PlaceOf, ProbePlaces, CommsInit,
       Goto, Places, ringVars, deviceVars, intVars, workVars, callVars, noteVars
  <2>9. CASE Gone(u)
    BY <1>4, <1>8, <2>9 DEF Types, UpBetween, YetToBoot, DownAt, PlaceOf, ProbePlaces, Gone, Goto,
       Places, ringVars, deviceVars, intVars, workVars, callVars, noteVars
  <2>10. QED
    BY <1>2, <2>1, <2>2, <2>3, <2>4, <2>5, <2>6, <2>7, <2>8, <2>9
<1>10. QED
  BY <1>4, <1>6, <1>7, <1>9

(* What else happens changes no call and, at most, the mode: to "unknown", *)
(* or to that of an application as the device boots.                       *)
LEMMA AsideLeaves ==
  ASSUME Types, Aside \/ UNCHANGED vars
  PROVE  /\ UNCHANGED <<rings, run, irq, pc, op, removed, twice, met, failed, other>>
         /\ \/ UNCHANGED deviceVars
            \/ mode \in Apps /\ mode' = "unknown" /\ booting' = booting /\ DeviceFault
            \/ booting /\ mode' \in Apps /\ ~booting' /\ DeviceBoots
BY DEF Aside, DeviceMsi, DeviceFault, DeviceBoots, GoesTo, Interrupt, Write, WriteEnd, WorkStart,
   WorkEnd, vars, ringVars, deviceVars, intVars, workVars, callVars, noteVars

(* So they keep DownInv.                                                   *)
LEMMA DownAside ==
  ASSUME Types, DownInv, Aside \/ UNCHANGED vars
  PROVE  DownInv'
<1>1. /\ UNCHANGED <<rings, run, irq, pc, op, removed, twice, met, failed, other>>
      /\ \/ UNCHANGED deviceVars
         \/ mode \in Apps /\ mode' = "unknown" /\ booting' = booting /\ DeviceFault
         \/ booting /\ mode' \in Apps /\ ~booting' /\ DeviceBoots
  BY AsideLeaves
<1>2. SUFFICES ASSUME Calm'
      PROVE  Alone' /\ UpBetween' /\ (run <=> rings = "live")' /\ (~other => ~twice)'
             /\ YetToBoot' /\ \A v \in Users : DownAt(v)' /\ PlaceOf(v)'
  BY DEF DownInv
<1>3. /\ Alone /\ UpBetween /\ (run <=> rings = "live") /\ (~other => ~twice)
      /\ YetToBoot /\ \A v \in Users : DownAt(v) /\ PlaceOf(v)
  BY <1>1, <1>2 DEF DownInv, Calm
<1>4. Alone' /\ YetToBoot' /\ Active' = Active
  BY <1>1, <1>3 DEF Alone, YetToBoot, Apps, Active, deviceVars
<1>5. UpBetween'
  <2>1. CASE UNCHANGED deviceVars
    BY <1>1, <1>3, <1>4, <2>1 DEF UpBetween, deviceVars
  <2>2. CASE mode \in Apps /\ mode' = "unknown" /\ booting' = booting
    BY <1>1, <1>3, <1>4, <2>2 DEF UpBetween, Apps
  <2>3. CASE booting /\ mode' \in Apps /\ ~booting' /\ DeviceBoots
    <3>1. Active = {} /\ ~removed => other /\ (mode' = "vpulink" => missed')
      BY <1>3, <2>3 DEF UpBetween, DeviceBoots, WillLook, Active
    <3>2. QED
      BY <1>1, <1>3, <1>4, <2>3, <3>1 DEF UpBetween, Apps
  <2>4. QED
    BY <1>1, <2>1, <2>2, <2>3
<1>6. ASSUME NEW v \in Users
      PROVE  DownAt(v)' /\ PlaceOf(v)'
  BY <1>1, <1>3 DEF DownAt, PlaceOf, Apps, deviceVars
<1>7. QED
  BY <1>1, <1>3, <1>4, <1>5, <1>6

-----------------------------------------------------------------------------
(* A call that begins finds no work it would not cancel.                   *)
LEMMA WorkBegin ==
  ASSUME Types, DownInv, WorkInv, NEW u \in Users,
         ResetApp(u) \/ ResetLost(u) \/ Boot(u) \/ Remove(u)
  PROVE  WorkInv'
<1>1. SUFFICES ASSUME Calm', ~overtaken'
      PROVE  WorkInv'
  BY DEF WorkInv
<1>2. Calm /\ ~overtaken /\ writing = {} /\ Active = {} /\ pc[u] = "idle"
  BY <1>1 DEF Calm, Types, ResetApp, ResetLost, Boot, Remove, Begin
<1>3. /\ \A v \in Users : pc[v] = "idle"
      /\ ~TearingDown
  BY <1>2 DEF Active, TearingDown
<1>4. /\ rings # "live" => late \/ queued \union running \subseteq {"db"}
      /\ rings # "live" => late \/ ~msi
      /\ (late \/ ~astray) /\ struck \subseteq {"db"}
  BY <1>2, <1>3 DEF WorkInv
<1>5. UNCHANGED <<rings, msi, queued, running, writing, astray, struck, late>>
  BY DEF ResetApp, ResetLost, Boot, Remove, Begin, ringVars, intVars, workVars
<1>6. \A v \in Users : pc'[v] \in {"idle", "comms", "irq"}
  BY <1>3 DEF Types, ResetApp, ResetLost, Boot, Remove, Begin, Goto
<1>7. \A v \in Users : WorkAt(v)'
  BY <1>6 DEF WorkAt
<1>8. QED
  BY <1>2, <1>4, <1>5, <1>7 DEF WorkInv

(* A call frees the rings before the interrupt, and the interrupt before   *)
(* it cancels what the interrupt queues.                                   *)
LEMMA WorkStep ==
  ASSUME Types, DownInv, WorkInv, NEW u \in Users, Op(u),
         ~(ResetApp(u) \/ ResetLost(u) \/ Boot(u) \/ Remove(u))
  PROVE  WorkInv'
<1>1. SUFFICES ASSUME Calm', ~overtaken'
      PROVE  /\ (writing = {})'
             /\ (rings # "live" /\ ~TearingDown => late \/ queued \union running \subseteq {"db"})'
             /\ (rings # "live" /\ (\A v \in Users : pc[v] # "irq") => late \/ ~msi)'
             /\ \A v \in Users : WorkAt(v)'
             /\ ((late \/ ~astray) /\ struck \subseteq {"db"})'
  BY DEF WorkInv
<1>2. \/ CommsCleanup(u) \/ FreeIrq(u) \/ Cancel(u) \/ Reset(u)
      \/ Load(u) \/ EventsInit(u) \/ CheckMode(u) \/ CommsInit(u) \/ Gone(u)
  BY <1>1 DEF Op, Calm, Fail
<1>3. Calm /\ ~overtaken /\ pc[u] # "idle"
  BY <1>1, <1>2 DEF Calm, CommsCleanup, FreeIrq, Cancel, Reset, Load, EventsInit,
     CheckMode, CommsInit, Gone,
     Items, noteVars
<1>4. /\ DownAt(u) /\ PlaceOf(u)
      /\ \A v \in Users \ {u} : pc[v] = "idle"
  BY <1>3 DEF DownInv, Alone
<1>5. /\ writing = {}
      /\ rings # "live" /\ ~TearingDown => late \/ queued \union running \subseteq {"db"}
      /\ rings # "live" /\ (\A v \in Users : pc[v] # "irq") => late \/ ~msi
      /\ WorkAt(u)
      /\ (late \/ ~astray) /\ struck \subseteq {"db"}
  BY <1>3 DEF WorkInv, Active
<1>6. /\ TearingDown <=> pc[u] \in {"irq", "db", "rx", "tx"}
      /\ (\A v \in Users : pc[v] # "irq") <=> pc[u] # "irq"
  BY <1>4 DEF TearingDown
<1>7. \A v \in Users \ {u} : pc'[v] = "idle"
  BY <1>2, <1>4 DEF Types, CommsCleanup, FreeIrq, Cancel, Reset, Load, EventsInit,
     CheckMode, CommsInit, Gone,
     Goto
<1>8. /\ TearingDown' <=> pc'[u] \in {"irq", "db", "rx", "tx"}
      /\ (\A v \in Users : pc[v] # "irq")' <=> pc'[u] # "irq"
  BY <1>7 DEF TearingDown
<1>9. \A v \in Users \ {u} : WorkAt(v)'
  BY <1>7 DEF WorkAt
<1>10. /\ (writing = {})'
       /\ (rings # "live" /\ ~TearingDown => late \/ queued \union running \subseteq {"db"})'
       /\ (rings # "live" /\ pc[u] # "irq" => late \/ ~msi)'
       /\ WorkAt(u)'
       /\ ((late \/ ~astray) /\ struck \subseteq {"db"})'
  <2>1. CASE CommsCleanup(u)
    BY <1>4, <1>5, <1>6, <1>8, <2>1 DEF Types, DownAt, PlaceOf, WorkAt, CommsCleanup,
       Goto, Items,
       ringVars, deviceVars, intVars, workVars, callVars, noteVars
  <2>2. CASE FreeIrq(u)
    BY <1>4, <1>5, <1>6, <1>8, <2>2 DEF Types, DownAt, PlaceOf, WorkAt, FreeIrq, Goto,
       Items,
       ringVars, deviceVars, intVars, workVars, callVars, noteVars
  <2>3. CASE Cancel(u)
    BY <1>4, <1>5, <1>6, <1>8, <2>3 DEF Types, DownAt, PlaceOf, WorkAt, Cancel,
       AfterCancel, AfterEvents, Goto, Items,
       ringVars, deviceVars, intVars, workVars, callVars, noteVars
  <2>4. CASE Reset(u)
    BY <1>4, <1>5, <1>6, <1>8, <2>4 DEF Types, DownAt, PlaceOf, WorkAt, Reset, IsReset,
       Goto, Items, ringVars, deviceVars, intVars, workVars, callVars, noteVars
  <2>5. CASE Load(u)
    BY <1>4, <1>5, <1>6, <1>8, <2>5 DEF Types, DownAt, PlaceOf, WorkAt, Load, LoadsImage,
       GoesTo, Goto, Items, ringVars, deviceVars, intVars, workVars, callVars, noteVars
  <2>6. CASE EventsInit(u)
    BY <1>4, <1>5, <1>6, <1>8, <2>6 DEF Types, DownAt, PlaceOf, WorkAt, EventsInit, Goto,
       Items,
       ringVars, deviceVars, intVars, workVars, callVars, noteVars
  <2>7. CASE CheckMode(u)
    BY <1>4, <1>5, <1>6, <1>8, <2>7 DEF Types, DownAt, PlaceOf, WorkAt, CheckMode, Goto, Items,
       ringVars, deviceVars, intVars, workVars, callVars, noteVars
  <2>8. CASE CommsInit(u)
    BY <1>4, <1>5, <1>6, <1>8, <2>8 DEF Types, DownAt, PlaceOf, WorkAt, CommsInit, Goto, Items,
       ringVars, deviceVars, intVars, workVars, callVars, noteVars
  <2>9. CASE Gone(u)
    BY <1>4, <1>5, <1>6, <1>8, <2>9 DEF Types, DownAt, PlaceOf, WorkAt, Gone, Goto, Items,
       ringVars, deviceVars, intVars, workVars, callVars, noteVars
  <2>10. QED
    BY <1>2, <2>1, <2>2, <2>3, <2>4, <2>5, <2>6, <2>7, <2>8, <2>9
<1>11. QED
  BY <1>8, <1>9, <1>10

(* Handlers look at the rings only while there are any, or a call cancels  *)
(* them.                                                                   *)
LEMMA WorkAside ==
  ASSUME Types, DownInv, WorkInv, Aside \/ UNCHANGED vars
  PROVE  WorkInv'
<1>1. /\ UNCHANGED <<rings, run, irq, pc, op, removed, met, failed>>
      /\ TearingDown' <=> TearingDown
      /\ Active' = Active
  BY AsideLeaves DEF TearingDown, Active
<1>2. SUFFICES ASSUME Calm', ~overtaken'
      PROVE  /\ (writing # {} => Active = {} /\ rings = "live")'
             /\ (rings # "live" /\ ~TearingDown => late \/ queued \union running \subseteq {"db"})'
             /\ (rings # "live" /\ (\A v \in Users : pc[v] # "irq") => late \/ ~msi)'
             /\ \A v \in Users : WorkAt(v)'
             /\ ((late \/ ~astray) /\ struck \subseteq {"db"})'
  BY DEF WorkInv
<1>3. Calm /\ ~overtaken
  BY <1>1, <1>2 DEF Calm, Types, Aside, DeviceMsi, DeviceFault, DeviceBoots, Interrupt,
     Write, WriteEnd,
     WorkStart, WorkEnd, vars, noteVars
<1>4. /\ writing # {} => Active = {} /\ rings = "live"
      /\ rings # "live" /\ ~TearingDown => late \/ queued \union running \subseteq {"db"}
      /\ rings # "live" /\ (\A v \in Users : pc[v] # "irq") => late \/ ~msi
      /\ \A v \in Users : WorkAt(v)
      /\ (late \/ ~astray) /\ struck \subseteq {"db"}
      /\ run <=> rings = "live"
      /\ TearingDown <=> \E v \in Users : pc[v] \in {"irq", "db", "rx", "tx"}
      /\ Active = {} => \A v \in Users : pc[v] = "idle"
  BY <1>3 DEF WorkInv, DownInv, TearingDown, Active
<1>5. ASSUME DeviceMsi PROVE WorkInv'
  BY <1>1, <1>2, <1>4, <1>5 DEF WorkInv, Types, WorkAt, DeviceMsi, Items, ringVars,
     deviceVars, intVars, workVars, callVars, noteVars
<1>6. ASSUME DeviceFault PROVE WorkInv'
  BY <1>1, <1>2, <1>4, <1>6 DEF WorkInv, Types, WorkAt, DeviceFault, Items, ringVars,
     deviceVars, intVars, workVars, callVars, noteVars
<1>7. ASSUME DeviceBoots PROVE WorkInv'
  <2>1. /\ late' = (late \/ msi')
        /\ UNCHANGED <<queued, running, writing, astray, struck>>
    BY <1>7 DEF DeviceBoots, workVars
  <2>2. late => late'
    BY <2>1
  <2>3. \A v \in Users : WorkAt(v)'
    BY <1>1, <1>4, <2>1, <2>2 DEF WorkAt
  <2>4. QED
    BY <1>1, <1>2, <1>4, <2>1, <2>2, <2>3 DEF WorkInv
<1>8. ASSUME Interrupt PROVE WorkInv'
  <2>1. irq /\ msi
    BY <1>8 DEF Interrupt
  <2>2. ASSUME ~late, NEW v \in Users, pc[v] \in {"mode", "start"}
        PROVE  FALSE
    <3>1. rings # "live" /\ \A w \in Users : pc[w] # "irq"
      BY <1>3, <2>2 DEF DownInv, DownAt, PlaceOf, Alone
    <3>2. QED
      BY <1>4, <2>1, <2>2, <3>1
  <2>3. late \/ rings = "live" \/ TearingDown
    BY <1>4, <2>1
  <2>4. \A v \in Users : WorkAt(v)'
    <3>1. SUFFICES ASSUME NEW v \in Users PROVE WorkAt(v)'
      OBVIOUS
    <3>2. /\ pc' = pc /\ late' = late /\ UNCHANGED <<irq, running>>
          /\ WorkAt(v)
      BY <1>4, <1>8 DEF Interrupt, callVars, noteVars
    <3>3. pc[v] \notin {"db", "rx", "tx", "reset", "load", "events", "gone"}
      BY <2>1, <3>2 DEF WorkAt
    <3>4. pc[v] \in {"mode", "start"} => late
      BY <2>2
    <3>5. QED
      BY <3>2, <3>3, <3>4 DEF WorkAt
  <2>5. QED
    BY <1>1, <1>2, <1>4, <1>8, <2>3, <2>4 DEF WorkInv, Interrupt, noteVars
<1>9. ASSUME NEW u \in Users, Write(u) PROVE WorkInv'
  BY <1>1, <1>2, <1>4, <1>9 DEF WorkInv, Types, WorkAt, Write, Items, ringVars, deviceVars,
     intVars, workVars, callVars, noteVars
<1>10. ASSUME NEW u \in Users, WriteEnd(u) PROVE WorkInv'
  BY <1>1, <1>2, <1>4, <1>10 DEF WorkInv, Types, WorkAt, WriteEnd, Items, ringVars,
     deviceVars, intVars, workVars, callVars, noteVars
<1>11. ASSUME NEW w \in Items, WorkStart(w) PROVE WorkInv'
  BY <1>1, <1>2, <1>4, <1>11 DEF WorkInv, Types, WorkAt, WorkStart, Items, ringVars,
     deviceVars, intVars, workVars, callVars, noteVars
<1>12. ASSUME NEW w \in Items, WorkEnd(w) PROVE WorkInv'
  BY <1>1, <1>2, <1>4, <1>12 DEF WorkInv, Types, WorkAt, WorkEnd, Items, ringVars,
     deviceVars, intVars, workVars, callVars, noteVars
<1>13. ASSUME UNCHANGED vars PROVE WorkInv'
  BY <1>1, <1>4, <1>13 DEF WorkInv, WorkAt, vars, ringVars, deviceVars, intVars, workVars,
     callVars, noteVars
<1>14. WorkInv'
  BY <1>5, <1>6, <1>7, <1>8, <1>9, <1>10, <1>11, <1>12, <1>13 DEF Aside
<1>15. QED
  BY <1>2, <1>14 DEF WorkInv

-----------------------------------------------------------------------------
(* Every step keeps the invariant.                                         *)
LEMMA NextInv == LifecycleInv /\ [Next]_vars => LifecycleInv'
<1>1. SUFFICES ASSUME LifecycleInv, [Next]_vars PROVE LifecycleInv'
  OBVIOUS
<1>2. Types /\ DownInv /\ WorkInv /\ Types'
  BY <1>1, TypesNext DEF LifecycleInv
<1>3. ASSUME NEW u \in Users, Op(u)
      PROVE  DownInv' /\ WorkInv'
  BY <1>2, <1>3, DownBegin, DownStep, WorkBegin, WorkStep
<1>4. ASSUME Aside \/ UNCHANGED vars
      PROVE  DownInv' /\ WorkInv'
  BY <1>2, <1>4, DownAside, WorkAside
<1>5. (\E u \in Users : Op(u)) \/ Aside \/ UNCHANGED vars
  BY <1>1 DEF Next, Aside
<1>6. DownInv' /\ WorkInv'
  BY <1>3, <1>4, <1>5
<1>7. QED
  BY <1>2, <1>6 DEF LifecycleInv

(* The invariant of the calls that take the driver down and up.            *)
THEOREM LifecycleHolds == Spec => []LifecycleInv
BY InitInv, NextInv, PTL DEF Spec

(* Neither the rings nor the interrupt are freed twice, if no calls met,   *)
(* none failed and no boot ended without communications, as one does that  *)
(* looks at the mode before the device runs their application              *)
(* (mxlk_comms_cleanup, mxlk_events_cleanup, mxlk_core_boot_dev).          *)
THEOREM FreedAtMostOnce == Spec => []FreedOnce
<1>1. LifecycleInv => FreedOnce
  BY DEF LifecycleInv, Types, DownInv, Calm, FreedOnce
<1>2. QED
  BY <1>1, LifecycleHolds, PTL

(* With no call under way the driver has its interrupt, communications if  *)
(* and only if the device believes so, and has them if the device runs     *)
(* their application, unless it came to that after the call that loaded it *)
(* had looked (mxlk_core_reset_dev, mxlk_core_boot_dev).                   *)
THEOREM UpBetweenCalls == Spec => []UpWhenIdle
<1>1. LifecycleInv => UpWhenIdle
  BY DEF LifecycleInv, DownInv, Calm, UpBetween, UpWhenIdle
<1>2. QED
  BY <1>1, LifecycleHolds, PTL

(* No handler meets freed rings once the call that freed them has          *)
(* cancelled the work items, unless a device that boots late interrupted;  *)
(* and none that looks at the rings is queued when they are made new       *)
(* (mxlk_events_cleanup, mxlk_events_init, mxlk_interrupt).                *)
THEOREM HandlersAreCancelled == Spec => []WorkCancelled
<1>1. LifecycleInv => WorkCancelled
  BY DEF LifecycleInv, WorkInv, Calm, WorkCancelled
<1>2. QED
  BY <1>1, LifecycleHolds, PTL

-----------------------------------------------------------------------------
(* Nobody has the interface open.                                          *)
NoFiles == opening = {} /\ \A u \in Users : files[u] = None

(* A probe under way, alone: nothing works yet, and what there is depends  *)
(* on how far it is.                                                       *)
ProbeAt(u) ==
    /\ op[u] = "probe" /\ \A v \in Users : pc[v] # "idle" <=> v = u
    /\ pc[u] \in ProbePlaces \union {"irq", "db", "rx", "tx", "gone"}
    /\ ~run /\ ~msi /\ queued = {} /\ running = {} /\ writing = {}
    /\ ~twice /\ ~astray /\ struck = {} /\ ~other /\ ~removed /\ ~booting
    /\ rings # "live" /\ (pc[u] \in ProbePlaces => rings = "none")
    /\ pc[u] = "probe start" => mode \notin {"boot", "loader"}
    /\ irq <=> pc[u] \in {"chrdev", "probe start", "irq"}
    /\ chrdev <=> pc[u] = "probe start"
    /\ bound => pc[u] \notin ProbePlaces
    /\ bound \/ pc[u] \in ProbePlaces \ {"probe start"} => NoFiles

(* A removal has taken down what it has come by.                           *)
RemovalAt(u) ==
    op[u] = "remove" =>
        /\ pc[u] \in {"db", "rx", "tx", "gone"} => ~irq /\ ~chrdev
        /\ pc[u] \in {"irq", "db", "rx", "tx", "gone"} => astrayRemoval \/ rings # "live"

(* A driver that is gone.                                                  *)
GoneInv ==
    /\ ~irq /\ ~mapped /\ ~chrdev
    /\ astrayRemoval \/ rings # "live"
    /\ overtaken \/ queued \union running \subseteq {"db"}
    /\ ~other => ~twice \/ (bound /\ \E u \in Users : op[u] = "remove")
    /\ ~overtaken => (late \/ ~astray) /\ struck \subseteq {"db"}

(* A driver that took itself down in its probe, and is bound, is there for *)
(* nothing but its removal.                                                *)
BoundInv ==
    /\ bound /\ ~removed /\ NoFiles
    /\ ~irq /\ ~msi /\ ~mapped /\ ~chrdev /\ ~run /\ ~booting /\ rings # "live"
    /\ queued = {} /\ running = {} /\ writing = {} /\ ~astray /\ struck = {}
    /\ twice => \E u \in Users : op[u] = "remove"
    /\ Alone /\ \A u \in Users : pc[u] # "idle" =>
          op[u] = "remove" /\ pc[u] \in {"comms", "irq", "db", "rx", "tx", "gone"}

(* The driver is gone, or is being probed, or is bound though its probe    *)
(* failed, or is up or in a call as in MxlkLifecycle. Nothing is said of a *)
(* driver in which calls met or one failed, but its types.                 *)
DriverInv ==
    /\ Types /\ chrdev \in BOOLEAN
    /\ Calm =>
          \/ removed /\ GoneInv
          \/ \E u \in Users : ProbeAt(u)
          \/ BoundInv
          \/ ~removed /\ ~bound /\ DownInv /\ WorkInv /\ \A u \in Users : RemovalAt(u)

(* While no two open() met and no reset cleared the flag under a file,     *)
(* `opened` tells whether there is one, and nobody is between the test and *)
(* the setting of it with the flag set.                                    *)
OpenInv ==
    /\ opened \in BOOLEAN /\ opening \subseteq Users /\ files \in [Users -> Users \union {None}]
    /\ opened => \E u \in Users : files[u] # None
    /\ ~raced /\ ~renewed =>
          /\ \A u, v \in Users : files[u] # None /\ files[v] # None => files[u] = files[v]
          /\ (\E u \in Users : files[u] # None) => opened
          /\ opened => opening = {}

-----------------------------------------------------------------------------
(* Every step keeps it: a second open() cannot pass the test once the      *)
(* first has set the flag, and a third that passed before it is one that   *)
(* met it.                                                                 *)
LEMMA OpenStep == OpenInv /\ [DriverNext]_allVars => OpenInv'
<1>1. SUFFICES ASSUME OpenInv, [DriverNext]_allVars PROVE OpenInv'
  OBVIOUS
<1>2. CASE UNCHANGED <<openVars, raced, renewed>>
  BY <1>1, <1>2 DEF OpenInv, openVars
<1>3. ASSUME NEW u \in Users, OpenTest(u)
      PROVE  OpenInv'
  BY <1>1, <1>3 DEF OpenInv, OpenTest, CanOpen, causeVars
<1>4. ASSUME NEW u \in Users, OpenSet(u)
      PROVE  OpenInv'
  <2>1. /\ u \in opening /\ opened' = TRUE /\ opening' = opening \ {u}
        /\ files' = [files EXCEPT ![u] = u]
        /\ raced' = (raced \/ opening # {u}) /\ renewed' = renewed
    BY <1>4 DEF OpenSet
  <2>2. u # None
    BY DriverAssumption
  <2>3. /\ opened' \in BOOLEAN /\ opening' \subseteq Users
        /\ files' \in [Users -> Users \union {None}]
    BY <1>1, <2>1 DEF OpenInv
  <2>4. \E v \in Users : files'[v] # None
    BY <1>1, <2>1, <2>2 DEF OpenInv
  <2>5. ASSUME ~raced', ~renewed'
        PROVE  /\ opening' = {}
               /\ \A v \in Users : files'[v] # None => v = u
    <3>1. ~raced /\ ~renewed /\ opening = {u}
      BY <2>1, <2>5
    <3>2. ~opened /\ \A v \in Users : files[v] = None
      BY <1>1, <2>1, <3>1 DEF OpenInv
    <3>3. QED
      BY <1>1, <2>1, <3>1, <3>2 DEF OpenInv
  <2>6. QED
    BY <2>1, <2>3, <2>4, <2>5 DEF OpenInv
<1>5. ASSUME NEW u \in Users, NEW v \in Users, Share(u, v)
      PROVE  OpenInv'
  <2>1. /\ files[u] # None /\ files' = [files EXCEPT ![v] = files[u]]
        /\ opened' = opened /\ opening' = opening /\ raced' = raced /\ renewed' = renewed
    BY <1>5 DEF Share, causeVars
  <2>2. files' \in [Users -> Users \union {None}]
    BY <1>1, <2>1 DEF OpenInv
  <2>3. \A w \in Users : files'[w] = files[w] \/ files'[w] = files[u]
    BY <1>1, <2>1 DEF OpenInv
  <2>4. \E w \in Users : files'[w] # None
    BY <1>1, <2>1 DEF OpenInv
  <2>5. QED
    BY <1>1, <2>1, <2>2, <2>3, <2>4 DEF OpenInv
<1>6. ASSUME NEW u \in Users, Close(u)
      PROVE  OpenInv'
  <2>1. /\ files[u] # None /\ files' = [files EXCEPT ![u] = None]
        /\ opened' = (opened /\ \E v \in Users \ {u} : files[v] = files[u])
        /\ opening' = opening /\ raced' = raced /\ renewed' = renewed
    BY <1>6 DEF Close, causeVars
  <2>2. files' \in [Users -> Users \union {None}] /\ files'[u] = None
        /\ \A v \in Users \ {u} : files'[v] = files[v]
    BY <1>1, <2>1 DEF OpenInv
  <2>3. opened' => \E v \in Users : files'[v] # None
    BY <2>1, <2>2
  <2>4. ASSUME ~raced', ~renewed'
        PROVE  /\ \A v, w \in Users :
                     files'[v] # None /\ files'[w] # None => files'[v] = files'[w]
               /\ (\E v \in Users : files'[v] # None) => opened'
               /\ opened' => opening' = {}
    <3>1. /\ \A v, w \in Users : files[v] # None /\ files[w] # None => files[v] = files[w]
          /\ opened /\ opening = {}
      BY <1>1, <2>1, <2>4 DEF OpenInv
    <3>2. ASSUME NEW v \in Users, files'[v] # None
          PROVE  v # u /\ files[v] = files[u]
      BY <2>1, <2>2, <3>1, <3>2
    <3>3. QED
      BY <2>1, <2>2, <3>1, <3>2
  <2>5. opened' \in BOOLEAN
    BY <2>1
  <2>6. QED
    BY <1>1, <2>1, <2>2, <2>3, <2>4, <2>5 DEF OpenInv
<1>7. ASSUME ClearOpened, UNCHANGED <<opening, files, raced>>
      PROVE  OpenInv'
  <2>1. /\ opened' = FALSE
        /\ renewed' = (renewed \/ opening # {} \/ \E u \in Users : files[u] # None)
    BY <1>7 DEF ClearOpened
  <2>2. ~renewed' => opening' = {} /\ \A u \in Users : files'[u] = None
    BY <1>7, <2>1
  <2>3. QED
    BY <1>1, <1>7, <2>1, <2>2 DEF OpenInv
<1>8. ASSUME NEW u \in Users, Probe(u)
      PROVE  OpenInv'
  <2>1. CASE ProbeStart(u)
    BY <1>7, <2>1 DEF ProbeStart
  <2>2. CASE ~ProbeStart(u)
    BY <1>2, <1>8, <2>2 DEF Probe, ModuleInit, PciInit, ProbeEvents, ChrdevAdd, CdevAddFails,
       DeviceCreateFails, ProbeReturnsOne, ProbeStartFails, causeVars
  <2>3. QED
    BY <2>1, <2>2
<1>9. ASSUME NEW u \in Users, Call(u)
      PROVE  OpenInv'
  <2>1. CASE DriverCommsCleanup(u)
    BY <1>7, <2>1 DEF DriverCommsCleanup
  <2>2. CASE DriverCommsInit(u)
    BY <1>7, <2>2 DEF DriverCommsInit
  <2>3. CASE DriverRemove(u)
    BY <1>1, <2>3 DEF DriverRemove, OpenInv, openVars
  <2>4. CASE ~(DriverCommsCleanup(u) \/ DriverCommsInit(u) \/ DriverRemove(u))
    BY <1>2, <1>9, <2>4 DEF Call, Use, DriverFreeIrq, DriverLoad, DriverGone, driverVars,
       causeVars
  <2>5. QED
    BY <2>1, <2>2, <2>3, <2>4
<1>10. CASE Background \/ ModuleExit \/ UNCHANGED allVars
  BY <1>2, <1>10 DEF Background, ModuleExit, allVars, driverVars, causeVars
<1>11. QED
  BY <1>1, <1>3, <1>4, <1>5, <1>6, <1>8, <1>9, <1>10 DEF DriverNext

(* One file at most is open on the interface, unless two open() met        *)
(* between the test and the setting of `opened`, or mxlk_interface_init or *)
(* mxlk_interface_cleanup cleared it under one; and an interface marked as *)
(* open has a file (mxlk_core_open, mxlk_core_close).                      *)
THEOREM OneFileAtATime == DriverSpec => []OneFile
<1>1. DriverInit => OpenInv
  BY DEF DriverInit, OpenInv
<1>2. OpenInv => OneFile
  BY DEF OpenInv, OneFile
<1>3. QED
  BY <1>1, <1>2, OpenStep, PTL DEF DriverSpec

-----------------------------------------------------------------------------
(* What open(), close() and fork() do is the interface's own.              *)
Opens == \E u, v \in Users : OpenTest(u) \/ OpenSet(u) \/ Close(u) \/ Share(u, v)

(* They leave the rest alone.                                              *)
LEMMA OpensLeave ==
    ASSUME Opens
    PROVE  /\ UNCHANGED <<vars, mapped, chrdev, bound, astrayRemoval>>
           /\ ~chrdev /\ NoFiles => NoFiles'
<1>1. PICK u \in Users, v \in Users : OpenTest(u) \/ OpenSet(u) \/ Close(u) \/ Share(u, v)
  BY DEF Opens
<1>2. UNCHANGED <<vars, mapped, chrdev, bound, astrayRemoval>>
  BY <1>1 DEF OpenTest, OpenSet, Close, Share, causeVars
<1>3. ~chrdev => ~NoFiles
  BY <1>1 DEF OpenTest, CanOpen, OpenSet, Close, Share, NoFiles
<1>4. QED
  BY <1>2, <1>3

(* A call, and what goes on in the background, are steps of MxlkLifecycle. *)
LEMMA CallIsNext ==
    ASSUME ~removed, (\E u \in Users : Call(u)) \/ Background
    PROVE  Next
BY DEF Call, Use, DriverRemove, DriverCommsCleanup, DriverFreeIrq, DriverCommsInit,
   DriverLoad, DriverGone, Background, Next, Op

(* A probe keeps the types...                                              *)
LEMMA ProbeTypes ==
    ASSUME Types, chrdev \in BOOLEAN, NEW u \in Users, Probe(u)
    PROVE  Types' /\ chrdev' \in BOOLEAN
<1>1. PICK place \in Places : Goto(u, place)
  BY DEF Probe, ModuleInit, PciInit, ProbeEvents, ChrdevAdd, CdevAddFails, DeviceCreateFails,
     ProbeReturnsOne, ProbeStart, ProbeStartFails, Places, ProbePlaces
<1>2. pc' \in [Users -> Places]
  <2>1. pc \in [Users -> Places]
    BY DEF Types
  <2>2. QED
    BY <1>1, <2>1 DEF Goto
<1>3. ProbeKeeps \/ ProbeStart(u)
  BY DEF Probe, ModuleInit, PciInit, ProbeEvents, ChrdevAdd, CdevAddFails, DeviceCreateFails,
     ProbeReturnsOne, ProbeStartFails
<1>4. UNCHANGED <<mode, booting, missed, msi, queued, running, op, writing, removed>>
  BY <1>3 DEF ProbeKeeps, ProbeStart, deviceVars, intVars, workVars
<1>5. UNCHANGED <<twice, astray, struck, met, failed, other, overtaken, late>>
  BY <1>3 DEF ProbeKeeps, ProbeStart, noteVars
<1>6. run' \in BOOLEAN
  BY <1>3 DEF ProbeKeeps, ProbeStart, Types
<1>7. rings' \in {rings, "freed", "live"}
  BY DEF Probe, ModuleInit, PciInit, ProbeEvents, ChrdevAdd, CdevAddFails, DeviceCreateFails,
     ProbeReturnsOne, ProbeStart, ProbeStartFails
<1>8. irq' \in {irq, TRUE}
  BY DEF Probe, ModuleInit, PciInit, ProbeEvents, ChrdevAdd, CdevAddFails, DeviceCreateFails,
     ProbeReturnsOne, ProbeStart, ProbeStartFails, intVars
<1>9. chrdev' \in BOOLEAN /\ update' \in BOOLEAN
  BY DEF Probe, ModuleInit, PciInit, ProbeEvents, ChrdevAdd, CdevAddFails, DeviceCreateFails,
     ProbeReturnsOne, ProbeStart, ProbeStartFails,
     Types, intVars
<1>10. mode' \in Modes /\ booting' \in BOOLEAN /\ missed' \in BOOLEAN
       /\ rings' \in {"none", "live", "freed"} /\ msi' \in BOOLEAN
  BY <1>4, <1>7 DEF Types
<1>11. irq' \in BOOLEAN
  BY <1>8 DEF Types
<1>12. /\ queued' \subseteq Items /\ running' \subseteq Items
       /\ op' \in [Users -> {"none", "probe", "reset", "restore", "boot", "remove"}]
       /\ writing' \subseteq Users /\ removed' \in BOOLEAN
  BY <1>4 DEF Types
<1>13. /\ twice' \in BOOLEAN /\ astray' \in BOOLEAN /\ struck' \subseteq Items
       /\ met' \in BOOLEAN /\ failed' \in BOOLEAN
       /\ other' \in BOOLEAN /\ overtaken' \in BOOLEAN /\ late' \in BOOLEAN
  BY <1>5 DEF Types
<1>14. QED
  BY <1>2, <1>6, <1>9, <1>10, <1>11, <1>12, <1>13 DEF Types

(* ...and so does every step.                                              *)
LEMMA DriverTypes ==
    ASSUME Types, chrdev \in BOOLEAN, [DriverNext]_allVars
    PROVE  Types' /\ chrdev' \in BOOLEAN
<1>1. ASSUME NEW u \in Users, Probe(u)
      PROVE  Types' /\ chrdev' \in BOOLEAN
  BY <1>1, ProbeTypes
<1>2. CASE ~removed /\ ((\E u \in Users : Call(u)) \/ Background)
  <2>1. Types'
    BY <1>2, CallIsNext, TypesNext
  <2>2. chrdev' = chrdev \/ \E u \in Users : chrdev' = (chrdev /\ op[u] # "remove")
    BY <1>2 DEF Call, Use, DriverRemove, DriverCommsCleanup, DriverFreeIrq, DriverCommsInit,
       DriverLoad, DriverGone, Background, driverVars
  <2>3. chrdev' \in BOOLEAN
    BY <2>2
  <2>4. QED
    BY <2>1, <2>3
<1>3. CASE Opens \/ ModuleExit \/ UNCHANGED allVars
  <2>1. UNCHANGED <<vars, chrdev>>
    BY <1>3, OpensLeave DEF ModuleExit, allVars, driverVars
  <2>2. QED
    BY <2>1, TypesNext
<1>4. QED
  BY <1>1, <1>2, <1>3 DEF DriverNext, Opens

(* The driver is up, or in a call.                                         *)
Up == ~removed /\ ~bound /\ DownInv /\ WorkInv /\ \A u \in Users : RemovalAt(u)

(* The steps of a probe that is alone: the last one leaves a driver that   *)
(* is up.                                                                  *)
LEMMA ProbeSteps ==
    ASSUME Types, NEW u \in Users, ProbeAt(u), Probe(u)
    PROVE  ProbeAt(u)' \/ Up' \/ BoundInv'
<1>1. /\ op[u] = "probe" /\ \A v \in Users : pc[v] # "idle" <=> v = u
      /\ ~run /\ ~msi /\ queued = {} /\ running = {} /\ writing = {}
      /\ ~twice /\ ~astray /\ struck = {} /\ ~other /\ ~removed /\ ~booting
      /\ rings # "live" /\ (pc[u] \in ProbePlaces => rings = "none")
      /\ pc[u] = "probe start" => mode \notin {"boot", "loader"}
      /\ irq <=> pc[u] \in {"chrdev", "probe start", "irq"}
      /\ chrdev <=> pc[u] = "probe start"
      /\ bound => pc[u] \notin ProbePlaces
      /\ bound \/ pc[u] \in ProbePlaces \ {"probe start"} => NoFiles
  BY DEF ProbeAt
<1>2. /\ op' = op /\ msi' = msi /\ queued' = queued /\ running' = running /\ writing' = writing
      /\ twice' = twice /\ astray' = astray /\ struck' = struck /\ other' = other
      /\ removed' = removed /\ mode' = mode /\ booting' = booting
      /\ \A v \in Users \ {u} : pc'[v] = pc[v]
  <2>1. ProbeKeeps \/ ProbeStart(u)
    BY DEF Probe, ModuleInit, PciInit, ProbeEvents, ChrdevAdd, CdevAddFails,
       DeviceCreateFails, ProbeReturnsOne, ProbeStartFails
  <2>2. \E to : Goto(u, to)
    BY DEF Probe, ModuleInit, PciInit, ProbeEvents, ChrdevAdd, CdevAddFails,
       DeviceCreateFails, ProbeReturnsOne, ProbeStart, ProbeStartFails
  <2>3. \A v \in Users \ {u} : pc'[v] = pc[v]
    BY <2>2 DEF Types, Goto
  <2>4. QED
    BY <2>1, <2>3 DEF ProbeKeeps, ProbeStart, deviceVars, intVars, workVars, noteVars
<1>3. ASSUME pc'[u] = "idle", irq', ~removed', ~bound',
             (rings' = "live" /\ run' /\ mode \notin {"boot", "loader"})
               \/ (rings' = "none" /\ ~run' /\ mode # "vpulink")
      PROVE  Up'
  <2>1. \A v \in Users : pc'[v] = "idle"
    BY <1>1, <1>2, <1>3
  <2>2. Active' = {}
    BY <2>1 DEF Active
  <2>3. Alone' /\ UpBetween' /\ (run <=> rings = "live")'
    BY <1>1, <1>2, <1>3, <2>1 DEF Alone, UpBetween
  <2>4. \A v \in Users : DownAt(v)' /\ PlaceOf(v)' /\ WorkAt(v)' /\ RemovalAt(v)'
    BY <2>1 DEF DownAt, PlaceOf, WorkAt, RemovalAt
  <2>5. DownInv'
    BY <1>1, <1>2, <2>3, <2>4 DEF DownInv, YetToBoot
  <2>6. WorkInv'
    BY <1>1, <1>2, <2>4 DEF WorkInv
  <2>7. QED
    BY <1>3, <2>4, <2>5, <2>6 DEF Up
<1>4. ASSUME pc[u] \in ProbePlaces, UNCHANGED openVars,
             bound' => bound \/ (pc[u] = "chrdev" /\ pc'[u] = "irq"),
             pc'[u] \in ProbePlaces => pc[u] # "probe start",
             pc'[u] \in ProbePlaces \union {"irq", "gone"}, run' = run, rings' # "live",
             pc'[u] \in ProbePlaces => rings' = "none",
             pc'[u] = "probe start" => mode \notin {"boot", "loader"},
             irq' <=> pc'[u] \in {"chrdev", "probe start", "irq"},
             chrdev' <=> pc'[u] = "probe start"
      PROVE  ProbeAt(u)'
  <2>1. \A v \in Users : pc'[v] # "idle" <=> v = u
    BY <1>1, <1>2, <1>4 DEF ProbePlaces
  <2>2. NoFiles' = NoFiles
    BY <1>4 DEF NoFiles, openVars
  <2>3. /\ bound' => pc'[u] \notin ProbePlaces
        /\ bound' \/ pc'[u] \in ProbePlaces \ {"probe start"} => NoFiles'
    <3>1. ~bound /\ (pc[u] # "probe start" => NoFiles)
      BY <1>1, <1>4
    <3>2. bound' => pc[u] = "chrdev" /\ pc'[u] = "irq"
      BY <1>4, <3>1
    <3>3. QED
      BY <1>4, <2>2, <3>1, <3>2 DEF ProbePlaces
  <2>4. QED
    BY <1>1, <1>2, <1>4, <2>1, <2>3 DEF ProbeAt
<1>5. CASE ModuleInit(u)
  BY <1>1, <1>4, <1>5 DEF ModuleInit, Types, Goto, ProbeKeeps, ProbePlaces, causeVars
<1>6. CASE PciInit(u)
  BY <1>1, <1>4, <1>6 DEF PciInit, Types, Goto, ProbeKeeps, ProbePlaces, causeVars
<1>7. CASE ProbeEvents(u)
  BY <1>1, <1>4, <1>7 DEF ProbeEvents, Types, Goto, ProbeKeeps, ProbePlaces, causeVars
<1>8. CASE ChrdevAdd(u)
  <2>1. /\ pc[u] = "chrdev" /\ chrdev' = TRUE /\ rings' = rings /\ irq' = irq /\ run' = run
        /\ pc'[u] = IF mode = "vpulink" THEN "probe start" ELSE "idle"
        /\ bound' = bound /\ UNCHANGED openVars
    BY <1>8 DEF ChrdevAdd, Types, Goto, ProbeKeeps, causeVars
  <2>2. CASE mode = "vpulink"
    BY <1>1, <1>4, <2>1, <2>2 DEF ProbePlaces
  <2>3. CASE mode # "vpulink"
    BY <1>1, <1>2, <1>3, <2>1, <2>3 DEF ProbePlaces
  <2>4. QED
    BY <2>2, <2>3
<1>9. CASE CdevAddFails(u) \/ DeviceCreateFails(u)
  BY <1>1, <1>4, <1>9 DEF CdevAddFails, DeviceCreateFails, Types, Goto, ProbeKeeps, ProbePlaces,
     causeVars
<1>10. CASE ProbeStart(u)
  <2>1. /\ pc[u] = "probe start" /\ pc'[u] = "idle" /\ rings' = "live" /\ run' = TRUE
        /\ irq' = irq /\ bound' = bound
    BY <1>10 DEF ProbeStart, Types, Goto, intVars
  <2>2. irq /\ ~bound /\ mode \notin {"boot", "loader"}
    BY <1>1, <2>1 DEF ProbePlaces
  <2>3. QED
    BY <1>1, <1>2, <1>3, <2>1, <2>2
<1>11. CASE ProbeStartFails(u)
  BY <1>1, <1>4, <1>11 DEF ProbeStartFails, Types, Goto, ProbeKeeps, ProbePlaces, causeVars
<1>12. CASE ProbeReturnsOne(u)
  <2>1. /\ pc[u] = "gone" /\ pc'[u] = "idle" /\ bound /\ mapped' = FALSE
        /\ UNCHANGED <<rings, run, irq, chrdev, bound, openVars>>
    BY <1>12 DEF ProbeReturnsOne, Types, Goto, ProbeKeeps, causeVars
  <2>2. \A v \in Users : pc'[v] = "idle"
    BY <1>1, <1>2, <2>1
  <2>3. NoFiles'
    BY <1>1, <2>1 DEF NoFiles, openVars
  <2>4. QED
    BY <1>1, <1>2, <2>1, <2>2, <2>3 DEF BoundInv, Alone
<1>13. QED
  BY <1>5, <1>6, <1>7, <1>8, <1>9, <1>10, <1>11, <1>12 DEF Probe

(* Others can do nothing while it is, if no two calls ever meet.           *)
LEMMA ProbeMeets ==
    ASSUME Types, Calm', NEW u \in Users, ProbeAt(u), NEW v \in Users, Call(v)
    PROVE  v = u /\ (DriverFreeIrq(u) \/ (Cancel(u) /\ UNCHANGED driverVars) \/ DriverGone(u))
<1>1. pc[u] # "idle" /\ op[u] = "probe" /\ u \in Active
  BY DEF ProbeAt, Active, ProbePlaces
<1>2. ASSUME NEW what, NEW at, Begin(v, what, at)
      PROVE  FALSE
  <2>1. met'
    BY <1>1, <1>2 DEF Begin, Types
  <2>2. QED
    BY <2>1 DEF Calm
<1>3. ~(ResetApp(v) \/ ResetLost(v) \/ Boot(v) \/ Remove(v))
  BY <1>2 DEF ResetApp, ResetLost, Boot, Remove
<1>4. ~Write(v) /\ ~WriteEnd(v)
  BY DEF ProbeAt, Write, WriteEnd
<1>5. pc[v] # "idle" => v = u
  BY DEF ProbeAt
<1>6. pc[u] \notin {"comms", "start", "load", "reset", "events", "mode"}
  BY DEF ProbeAt, ProbePlaces
<1>7. ~Use(v) /\ ~DriverRemove(v)
  BY <1>3, <1>4 DEF Use, DriverRemove
<1>8. ~(\/ DriverCommsCleanup(v) \/ DriverCommsInit(v) \/ DriverLoad(v)
        \/ Fail(v) \/ Reset(v) \/ EventsInit(v) \/ CheckMode(v))
  BY <1>5, <1>6 DEF DriverCommsCleanup, CommsCleanup, DriverCommsInit, CommsInit, DriverLoad,
     Load, Fail, Reset, EventsInit, CheckMode
<1>9. DriverFreeIrq(v) \/ (Cancel(v) /\ UNCHANGED driverVars) \/ DriverGone(v)
  BY <1>4, <1>7, <1>8 DEF Call
<1>10. pc[v] # "idle"
  BY <1>9 DEF DriverFreeIrq, FreeIrq, Cancel, Items, DriverGone, Gone
<1>11. QED
  BY <1>5, <1>9, <1>10

(* No interrupt, no work item: the device may fail, and that is all.       *)
LEMMA ProbeBackground ==
    ASSUME Types, NEW u \in Users, ProbeAt(u), Background
    PROVE  ProbeAt(u)'
<1>1. DeviceFault
  BY DEF Background, ProbeAt, DeviceMsi, DeviceBoots, Interrupt, WorkStart, WorkEnd
<1>2. UNCHANGED <<chrdev, bound, opening, files>>
  BY DEF Background, driverVars, causeVars, openVars
<1>3. mode' = "unknown"
      /\ UNCHANGED <<booting, ringVars, intVars, workVars, callVars, writing, noteVars>>
  BY <1>1 DEF DeviceFault
<1>4. QED
  BY <1>2, <1>3 DEF ProbeAt, NoFiles, ringVars, intVars, workVars, callVars, noteVars

(* Steps that change neither the driver nor the interface.                 *)
LEMMA ProbeLeaves ==
    ASSUME Types, NEW u \in Users, ProbeAt(u), UNCHANGED <<vars, chrdev, bound>>,
           ~chrdev /\ NoFiles => NoFiles'
    PROVE  ProbeAt(u)'
BY DEF ProbeAt, vars, ringVars, deviceVars, intVars, workVars, callVars, noteVars

(* A probe that failed goes the way of a removal.                          *)
LEMMA ProbeUndone ==
    ASSUME Types, NEW u \in Users, ProbeAt(u),
           DriverFreeIrq(u) \/ (Cancel(u) /\ UNCHANGED driverVars) \/ DriverGone(u)
    PROVE  ProbeAt(u)' \/ (removed' /\ GoneInv')
<1>1. /\ op[u] = "probe" /\ \A v \in Users : pc[v] # "idle" <=> v = u
      /\ ~run /\ ~msi /\ queued = {} /\ running = {} /\ writing = {}
      /\ ~twice /\ ~astray /\ struck = {} /\ ~other /\ ~removed /\ ~booting
      /\ rings # "live"
      /\ irq <=> pc[u] \in {"chrdev", "probe start", "irq"}
      /\ chrdev <=> pc[u] = "probe start"
      /\ bound => NoFiles
  BY DEF ProbeAt
<1>2. CASE DriverFreeIrq(u)
  <2>1. /\ pc[u] = "irq" /\ pc'[u] = "db" /\ \A v \in Users \ {u} : pc'[v] = pc[v]
        /\ irq' = FALSE /\ msi' = FALSE /\ twice' = (twice \/ ~irq)
        /\ chrdev' = (chrdev /\ op[u] # "remove")
        /\ UNCHANGED <<booting, rings, run, queued, running, op, removed, writing,
                        astray, struck, other, bound, opening, files>>
    BY <1>2 DEF DriverFreeIrq, FreeIrq, Goto, Types, ringVars, deviceVars, workVars,
       causeVars, openVars
  <2>2. \A v \in Users : pc'[v] # "idle" <=> v = u
    BY <1>1, <2>1
  <2>3. ~twice' /\ ~chrdev' /\ ~irq' /\ ~msi'
    BY <1>1, <2>1
  <2>4. QED
    BY <1>1, <2>1, <2>2, <2>3 DEF ProbeAt, ProbePlaces, NoFiles
<1>3. CASE Cancel(u) /\ UNCHANGED driverVars
  <2>1. /\ pc[u] \in {"db", "rx", "tx"} /\ pc'[u] = AfterCancel(u)
        /\ \A v \in Users \ {u} : pc'[v] = pc[v]
        /\ queued' = queued \ {pc[u]} /\ chrdev' = chrdev
        /\ UNCHANGED <<rings, run, irq, msi, running, op, removed, writing,
                        booting, twice, astray, struck, other, bound, opening, files>>
    BY <1>3 DEF Cancel, Goto, Items, Types, deviceVars, ringVars, intVars, noteVars, driverVars,
       causeVars, openVars
  <2>2. pc'[u] \in {"rx", "tx", "gone"}
    BY <1>1, <2>1 DEF AfterCancel, AfterEvents
  <2>3. \A v \in Users : pc'[v] # "idle" <=> v = u
    BY <1>1, <2>1, <2>2
  <2>4. QED
    BY <1>1, <2>1, <2>2, <2>3 DEF ProbeAt, ProbePlaces, NoFiles
<1>4. CASE DriverGone(u)
  <2>1. /\ pc[u] = "gone" /\ removed' = TRUE /\ mapped' = FALSE /\ chrdev' = chrdev
        /\ UNCHANGED <<rings, irq, queued, running, twice, astray, struck, other, overtaken>>
    BY <1>4 DEF DriverGone, Gone, ringVars, intVars, workVars, noteVars
  <2>2. ~irq' /\ ~chrdev' /\ ~twice' /\ ~astray' /\ ~mapped'
    BY <1>1, <2>1
  <2>3. QED
    BY <1>1, <2>1, <2>2 DEF GoneInv
<1>5. QED
  BY <1>2, <1>3, <1>4

-----------------------------------------------------------------------------
(* What a call of a driver that is up does to RemovalAt.                   *)
LEMMA RemovalStep ==
    ASSUME Types, Up, Calm, Calm', NEW u \in Users, Call(u), ~DriverGone(u), NEW v \in Users
    PROVE  RemovalAt(v)'
<1>1. Alone /\ PlaceOf(u) /\ RemovalAt(v) /\ RemovalAt(u)
  BY DEF Up, DownInv
<1>2. CASE DriverRemove(u)
  <2>1. /\ pc[u] = "idle" /\ Active = {} /\ \A w \in Users \ {u} : pc'[w] = pc[w]
        /\ pc'[u] = (IF mode = "vpulink" THEN "comms" ELSE "irq")
        /\ astrayRemoval' = (mode # "vpulink")
    BY <1>2 DEF DriverRemove, Remove, Begin, Goto, Types, Calm
  <2>2. v # u => pc'[v] = "idle"
    BY <2>1 DEF Active
  <2>3. QED
    BY <2>1, <2>2 DEF RemovalAt
<1>3. CASE ResetApp(u) \/ ResetLost(u) \/ Boot(u)
  <2>1. /\ Active = {} /\ op'[u] \in {"reset", "restore", "boot"}
        /\ \A w \in Users \ {u} : pc'[w] = pc[w]
    BY <1>3 DEF ResetApp, ResetLost, Boot, Begin, Goto, Types, Calm
  <2>2. v # u => pc'[v] = "idle"
    BY <2>1 DEF Active
  <2>3. QED
    BY <2>1, <2>2 DEF RemovalAt
<1>4. CASE (Use(u) /\ Write(u)) \/ (WriteEnd(u) /\ UNCHANGED driverVars)
  BY <1>1, <1>4 DEF Use, Write, WriteEnd, RemovalAt, ringVars, intVars, callVars, driverVars,
     causeVars
<1>5. ASSUME DriverCommsCleanup(u) \/ DriverFreeIrq(u) \/ DriverCommsInit(u) \/ DriverLoad(u)
             \/ (UNCHANGED driverVars /\ (\/ Cancel(u) \/ Fail(u) \/ Reset(u) \/ EventsInit(u)
                                          \/ CheckMode(u)))
      PROVE  RemovalAt(v)'
  <2>1. pc[u] # "idle" /\ op' = op /\ \A w \in Users \ {u} : pc'[w] = pc[w]
    BY <1>5 DEF DriverCommsCleanup, CommsCleanup, DriverFreeIrq, FreeIrq, DriverCommsInit,
       CommsInit, DriverLoad, Load, Cancel, Fail, Reset, EventsInit, CheckMode, Goto, Types,
       Items
  <2>2. CASE v # u
    <3>1. pc'[v] = "idle"
      BY <1>1, <2>1, <2>2 DEF Alone
    <3>2. QED
      BY <3>1 DEF RemovalAt
  <2>3. SUFFICES ASSUME v = u, op[u] = "remove"
                 PROVE  RemovalAt(u)'
    BY <2>1, <2>2 DEF RemovalAt
  <2>4. pc[u] \notin {"reset", "load", "events", "mode", "start"}
    BY <1>1, <2>3 DEF PlaceOf
  <2>5. DriverCommsCleanup(u) \/ DriverFreeIrq(u) \/ (Cancel(u) /\ UNCHANGED driverVars)
    BY <1>5, <2>4 DEF DriverCommsInit, CommsInit, DriverLoad, Load, Fail, Reset, EventsInit,
       CheckMode
  <2>6. CASE DriverCommsCleanup(u)
    BY <2>6 DEF DriverCommsCleanup, CommsCleanup, Goto, Types, RemovalAt
  <2>7. CASE DriverFreeIrq(u)
    <3>1. /\ pc[u] = "irq" /\ pc'[u] = "db" /\ irq' = FALSE
          /\ chrdev' = (chrdev /\ op[u] # "remove")
          /\ rings' = rings /\ astrayRemoval' = astrayRemoval
      BY <2>7 DEF DriverFreeIrq, FreeIrq, Goto, Types, ringVars, causeVars
    <3>2. ~irq' /\ ~chrdev'
      BY <2>3, <3>1
    <3>3. QED
      BY <1>1, <2>1, <2>3, <3>1, <3>2 DEF RemovalAt
  <2>8. CASE Cancel(u) /\ UNCHANGED driverVars
    <3>1. /\ pc[u] \in {"db", "rx", "tx"} /\ UNCHANGED <<irq, chrdev, rings, astrayRemoval>>
      BY <2>8 DEF Cancel, Items, ringVars, intVars, driverVars, causeVars
    <3>2. QED
      BY <1>1, <2>1, <2>3, <3>1 DEF RemovalAt
  <2>9. QED
    BY <2>5, <2>6, <2>7, <2>8
<1>6. QED
  BY <1>2, <1>3, <1>4, <1>5 DEF Call, Use

(* A call leaves the driver up or in a call, or gone with nothing left.    *)
LEMMA UpCall ==
    ASSUME Types, Up, Calm, Calm', NEW u \in Users, Call(u)
    PROVE  Up' \/ (removed' /\ GoneInv')
<1>1. Next /\ LifecycleInv
  BY CallIsNext DEF Up, LifecycleInv
<1>2. DownInv' /\ WorkInv'
  BY <1>1, NextInv DEF LifecycleInv
<1>3. CASE DriverGone(u)
  <2>1. /\ pc[u] = "gone" /\ removed' = TRUE /\ mapped' = FALSE /\ chrdev' = chrdev
        /\ astrayRemoval' = astrayRemoval
        /\ UNCHANGED <<rings, irq, queued, running, twice, astray, struck, other,
                       overtaken, late>>
    BY <1>3 DEF DriverGone, Gone, ringVars, intVars, workVars, noteVars, causeVars
  <2>2. /\ op[u] = "remove" /\ (~other => ~twice)
        /\ ~irq /\ ~chrdev /\ (astrayRemoval \/ rings # "live")
    BY <2>1 DEF Up, DownInv, PlaceOf, RemovalAt
  <2>3. ~overtaken => /\ queued \union running \subseteq {"db"}
                      /\ (late \/ ~astray) /\ struck \subseteq {"db"}
    BY <2>1 DEF Up, WorkInv, WorkAt
  <2>4. ~irq' /\ ~chrdev' /\ ~mapped' /\ (~other' => ~twice')
    BY <2>1, <2>2
  <2>5. QED
    BY <2>1, <2>2, <2>3, <2>4 DEF GoneInv
<1>4. CASE ~DriverGone(u)
  <2>1. ~removed'
    BY <1>4 DEF Up, Call, Use, ResetApp, ResetLost, Boot, Write, DriverRemove, Remove,
       DriverCommsCleanup, CommsCleanup, DriverFreeIrq, FreeIrq, DriverCommsInit, CommsInit,
       DriverLoad, Load, Cancel, Fail, Reset, EventsInit, CheckMode, WriteEnd, callVars
  <2>2. ~bound'
    BY <1>4 DEF Up, Call, Use, DriverRemove, DriverCommsCleanup, DriverFreeIrq,
       DriverCommsInit, DriverLoad, driverVars, causeVars
  <2>3. QED
    BY <1>2, <1>4, <2>1, <2>2, RemovalStep DEF Up
<1>5. QED
  BY <1>3, <1>4

(* Nothing else takes it down.                                             *)
LEMMA UpElse ==
    ASSUME Types, Up, Background \/ UNCHANGED <<vars, chrdev, bound, astrayRemoval>>
    PROVE  Up'
<1>1. [Next]_vars /\ LifecycleInv
  BY CallIsNext DEF Up, LifecycleInv
<1>2. DownInv' /\ WorkInv'
  BY <1>1, NextInv DEF LifecycleInv
<1>3. Aside \/ UNCHANGED vars
  BY DEF Background, Aside
<1>4. UNCHANGED <<rings, irq, pc, op, removed, chrdev, bound, astrayRemoval>>
  BY <1>3, AsideLeaves DEF Background, driverVars, causeVars
<1>5. \A v \in Users : RemovalAt(v)'
  BY <1>4 DEF Up, RemovalAt
<1>6. QED
  BY <1>2, <1>4, <1>5 DEF Up

(* Nothing but a removal can be called of a driver that is bound though it *)
(* took itself down; it frees the interrupt again.                         *)
LEMMA BoundCall ==
    ASSUME Types, BoundInv, Calm', NEW u \in Users, Call(u)
    PROVE  BoundInv' \/ (removed' /\ GoneInv')
<1>1. /\ bound /\ ~removed /\ opening = {} /\ \A v \in Users : files[v] = None
      /\ ~irq /\ ~msi /\ ~mapped /\ ~chrdev /\ ~run /\ ~booting /\ rings # "live"
      /\ queued = {} /\ running = {} /\ writing = {} /\ ~astray /\ struck = {}
      /\ twice => \E v \in Users : op[v] = "remove"
      /\ Alone /\ \A v \in Users : pc[v] # "idle" =>
            op[v] = "remove" /\ pc[v] \in {"comms", "irq", "db", "rx", "tx", "gone"}
  BY DEF BoundInv, NoFiles
<1>2. \/ DriverRemove(u) \/ DriverCommsCleanup(u) \/ DriverFreeIrq(u) \/ DriverGone(u)
      \/ Cancel(u) /\ UNCHANGED driverVars
  <2>1. ~Use(u) /\ ~WriteEnd(u)
    BY <1>1 DEF Use, WriteEnd
  <2>2. ~(\/ DriverCommsInit(u) \/ DriverLoad(u) \/ Fail(u) \/ Reset(u)
          \/ EventsInit(u) \/ CheckMode(u))
    BY <1>1 DEF DriverCommsInit, CommsInit, DriverLoad, Load, Fail, Reset, EventsInit, CheckMode
  <2>3. QED
    BY <2>1, <2>2 DEF Call
<1>3. CASE DriverRemove(u)
  <2>1. /\ Active = {} /\ op'[u] = "remove" /\ pc'[u] \in {"comms", "irq"}
        /\ \A v \in Users \ {u} : pc'[v] = pc[v]
    BY <1>3 DEF DriverRemove, Remove, Begin, Goto, Types, Calm
  <2>2. \A v \in Users : pc'[v] # "idle" => v = u
    BY <2>1 DEF Active
  <2>3. UNCHANGED <<booting, irq, msi, mapped, chrdev, run, rings, queued, running, writing,
                    astray, struck, removed, bound, opening, files>>
    BY <1>3 DEF DriverRemove, Remove, deviceVars, ringVars, intVars, workVars, openVars
  <2>4. QED
    BY <1>1, <2>1, <2>2, <2>3 DEF BoundInv, NoFiles, Alone
<1>4. CASE DriverCommsCleanup(u)
  <2>1. /\ pc[u] = "comms" /\ pc'[u] = "irq" /\ \A v \in Users \ {u} : pc'[v] = pc[v]
        /\ rings' # "live" /\ run' = FALSE
    BY <1>1, <1>4 DEF DriverCommsCleanup, CommsCleanup, Goto, Types
  <2>2. UNCHANGED <<booting, irq, msi, mapped, chrdev, queued, running, writing,
                    astray, struck, removed, bound, opening, files, op>>
    BY <1>4 DEF DriverCommsCleanup, CommsCleanup, deviceVars, intVars, workVars
  <2>3. op[u] = "remove" /\ \A v \in Users : pc'[v] # "idle" => v = u
    BY <1>1, <2>1 DEF Alone
  <2>4. QED
    BY <1>1, <2>1, <2>2, <2>3 DEF BoundInv, NoFiles, Alone
<1>5. CASE DriverFreeIrq(u)
  <2>1. /\ pc[u] = "irq" /\ pc'[u] = "db" /\ \A v \in Users \ {u} : pc'[v] = pc[v]
        /\ irq' = FALSE /\ msi' = FALSE /\ chrdev' = (chrdev /\ op[u] # "remove")
    BY <1>5 DEF DriverFreeIrq, FreeIrq, Goto, Types
  <2>2. UNCHANGED <<booting, mapped, run, rings, queued, running, writing,
                    astray, struck, removed, bound, opening, files, op>>
    BY <1>5 DEF DriverFreeIrq, FreeIrq, deviceVars, ringVars, workVars, openVars, causeVars
  <2>3. op[u] = "remove" /\ \A v \in Users : pc'[v] # "idle" => v = u
    BY <1>1, <2>1 DEF Alone
  <2>4. ~chrdev'
    BY <1>1, <2>1
  <2>5. QED
    BY <1>1, <2>1, <2>2, <2>3, <2>4 DEF BoundInv, NoFiles, Alone
<1>6. CASE Cancel(u) /\ UNCHANGED driverVars
  <2>1. /\ pc[u] \in {"db", "rx", "tx"} /\ pc'[u] = AfterCancel(u)
        /\ \A v \in Users \ {u} : pc'[v] = pc[v]
        /\ queued' = queued \ {pc[u]}
    BY <1>6 DEF Cancel, Goto, Items, Types
  <2>2. UNCHANGED <<booting, irq, msi, mapped, chrdev, run, rings, running, writing,
                    twice, astray, struck, removed, bound, opening, files, op>>
    BY <1>6 DEF Cancel, deviceVars, ringVars, intVars, noteVars, driverVars, openVars, causeVars
  <2>3. op[u] = "remove" /\ \A v \in Users : pc'[v] # "idle" => v = u
    BY <1>1, <2>1 DEF Alone
  <2>4. pc'[u] \in {"rx", "tx", "gone"}
    BY <2>1, <2>3 DEF AfterCancel, AfterEvents
  <2>5. queued' = {}
    BY <1>1, <2>1
  <2>6. QED
    BY <1>1, <2>2, <2>3, <2>4, <2>5 DEF BoundInv, NoFiles, Alone
<1>7. CASE DriverGone(u)
  <2>1. /\ pc[u] = "gone" /\ removed' = TRUE /\ mapped' = FALSE
        /\ UNCHANGED <<irq, chrdev, rings, queued, running, twice, astray, struck, bound, op>>
    BY <1>7 DEF DriverGone, Gone, ringVars, intVars, workVars, noteVars, causeVars
  <2>2. QED
    BY <1>1, <2>1 DEF GoneInv
<1>8. QED
  BY <1>2, <1>3, <1>4, <1>5, <1>6, <1>7

(* And nothing else happens to it, but that its device may fail.           *)
LEMMA BoundElse ==
    ASSUME Types, BoundInv,
           \/ Background
           \/ /\ UNCHANGED <<vars, mapped, chrdev, bound>>
              /\ ~chrdev /\ NoFiles => NoFiles'
    PROVE  BoundInv'
<1>1. CASE UNCHANGED <<vars, mapped, chrdev, bound>> /\ (~chrdev /\ NoFiles => NoFiles')
  BY <1>1 DEF BoundInv, Alone, vars, deviceVars, ringVars, intVars, workVars, callVars, noteVars
<1>2. CASE Background
  <2>1. DeviceFault
    BY <1>2 DEF Background, BoundInv, DeviceMsi, DeviceBoots, Interrupt, WorkStart, WorkEnd
  <2>2. UNCHANGED <<chrdev, mapped, bound, opening, files>>
    BY <1>2 DEF Background, driverVars, causeVars, openVars
  <2>3. UNCHANGED <<booting, ringVars, intVars, workVars, callVars, writing, noteVars>>
    BY <2>1 DEF DeviceFault
  <2>4. QED
    BY <2>2, <2>3 DEF BoundInv, NoFiles, Alone, ringVars, intVars, workVars, callVars, noteVars
<1>3. QED
  BY <1>1, <1>2

(* Every step keeps the invariant.                                         *)
LEMMA DriverInvStep == DriverInv /\ [DriverNext]_allVars => DriverInv'
<1>1. SUFFICES ASSUME DriverInv, [DriverNext]_allVars PROVE DriverInv'
  OBVIOUS
<1>2. Types /\ chrdev \in BOOLEAN /\ Types' /\ chrdev' \in BOOLEAN
  BY <1>1, DriverTypes DEF DriverInv
<1>3. SUFFICES ASSUME Calm'
               PROVE  (removed' /\ GoneInv') \/ (\E u \in Users : ProbeAt(u)') \/ BoundInv' \/ Up'
  BY <1>2 DEF DriverInv, Up
<1> DEFINE Still == /\ UNCHANGED <<vars, mapped, chrdev, bound, astrayRemoval>>
                    /\ ~chrdev /\ NoFiles => NoFiles'
<1>4. \/ ModuleExit /\ removed
      \/ Still
      \/ ~removed /\ \E u \in Users : Probe(u)
      \/ ~removed /\ ((\E u \in Users : Call(u)) \/ Background)
  <2>1. CASE UNCHANGED allVars
    BY <2>1 DEF allVars, driverVars, causeVars, openVars, NoFiles
  <2>2. QED
    BY <1>1, <2>1, OpensLeave DEF DriverNext, Opens, ModuleExit
<1>5. Calm
  <2>1. CASE UNCHANGED <<met, failed>>
    BY <1>3, <2>1 DEF Calm
  <2>2. ASSUME NEW u \in Users, Probe(u)
        PROVE  UNCHANGED <<met, failed>>
    BY <2>2 DEF Probe, ModuleInit, PciInit, ProbeEvents, ChrdevAdd, CdevAddFails,
       DeviceCreateFails, ProbeReturnsOne, ProbeStart, ProbeStartFails, ProbeKeeps, noteVars
  <2>3. ASSUME ~removed, Next
        PROVE  Calm
    <3>1. ASSUME NEW u \in Users, Op(u)
          PROVE  Calm
      BY <1>2, <1>3, <3>1 DEF Types, Calm, Op, ResetApp, ResetLost, Boot, Remove, Begin,
         CommsCleanup, FreeIrq, Cancel, Fail, Reset, Load, EventsInit, CheckMode, CommsInit, Gone,
         noteVars
    <3>2. ASSUME Aside
          PROVE  UNCHANGED <<met, failed>>
      BY <1>2, <3>2, AsideLeaves
    <3>3. QED
      BY <2>1, <2>3, <3>1, <3>2 DEF Next, Aside
  <2>4. CASE UNCHANGED vars
    BY <2>1, <2>4 DEF vars, noteVars
  <2>5. QED
    BY <1>4, <2>2, <2>1, <2>3, <2>4, CallIsNext DEF ModuleExit
<1>6. (removed /\ GoneInv) \/ (\E u \in Users : ProbeAt(u)) \/ BoundInv \/ Up
  BY <1>1, <1>5 DEF DriverInv, Up
<1>7. CASE removed /\ GoneInv
  <2>1. ModuleExit \/ Still
    BY <1>4, <1>7
  <2>2. UNCHANGED <<removed, irq, mapped, chrdev, astrayRemoval, rings, overtaken, queued,
                    running, other, twice, astray, struck, late, bound, op>>
    BY <2>1 DEF ModuleExit, vars, ringVars, intVars, workVars, callVars, noteVars, causeVars
  <2>3. QED
    BY <1>7, <2>2 DEF GoneInv
<1>8. ASSUME NEW u \in Users, ProbeAt(u)
      PROVE  (removed' /\ GoneInv') \/ ProbeAt(u)' \/ BoundInv' \/ Up'
  <2>1. ~removed
    BY <1>8 DEF ProbeAt
  <2>2. ASSUME NEW v \in Users, Probe(v)
        PROVE  v = u
    <3>1. pc[v] # "idle"
      BY <2>2 DEF Probe, ModuleInit, PciInit, ProbeEvents, ChrdevAdd, CdevAddFails,
         DeviceCreateFails, ProbeReturnsOne, ProbeStart, ProbeStartFails
    <3>2. QED
      BY <1>8, <3>1 DEF ProbeAt
  <2>3. CASE \E v \in Users : Probe(v)
    BY <1>2, <1>8, <2>2, <2>3, ProbeSteps
  <2>4. CASE \E v \in Users : Call(v)
    BY <1>2, <1>3, <1>8, <2>4, ProbeMeets, ProbeUndone
  <2>5. CASE Background
    BY <1>2, <1>8, <2>5, ProbeBackground
  <2>6. CASE Still
    BY <1>2, <1>8, <2>6, ProbeLeaves
  <2>7. QED
    BY <1>4, <2>1, <2>3, <2>4, <2>5, <2>6
<1>9. CASE Up
  <2>1. ~removed
    BY <1>9 DEF Up
  <2>2. ASSUME NEW u \in Users, Probe(u)
        PROVE  FALSE
    <3>1. pc[u] \in ProbePlaces \/ (pc[u] = "gone" /\ bound)
      BY <2>2 DEF Probe, ModuleInit, PciInit, ProbeEvents, ChrdevAdd, CdevAddFails,
         DeviceCreateFails, ProbeReturnsOne, ProbeStart, ProbeStartFails, ProbePlaces
    <3>2. PlaceOf(u) /\ ~bound
      BY <1>5, <1>9 DEF Up, DownInv
    <3>3. QED
      BY <3>1, <3>2 DEF PlaceOf, ProbePlaces
  <2>3. CASE \E u \in Users : Call(u)
    BY <1>2, <1>3, <1>5, <1>9, <2>3, UpCall
  <2>4. CASE Background \/ Still
    BY <1>2, <1>9, <2>4, UpElse
  <2>5. QED
    BY <1>4, <2>1, <2>2, <2>3, <2>4
<1>10. CASE BoundInv
  <2>1. ~removed
    BY <1>10 DEF BoundInv
  <2>2. ASSUME NEW u \in Users, Probe(u)
        PROVE  FALSE
    <3>1. pc[u] \in ProbePlaces \/ (pc[u] = "gone" /\ op[u] = "probe")
      BY <2>2 DEF Probe, ModuleInit, PciInit, ProbeEvents, ChrdevAdd, CdevAddFails,
         DeviceCreateFails, ProbeReturnsOne, ProbeStart, ProbeStartFails, ProbePlaces
    <3>2. pc[u] # "idle" =>
            op[u] = "remove" /\ pc[u] \in {"comms", "irq", "db", "rx", "tx", "gone"}
      BY <1>10 DEF BoundInv
    <3>3. QED
      BY <3>1, <3>2 DEF ProbePlaces
  <2>3. CASE \E u \in Users : Call(u)
    BY <1>2, <1>3, <1>10, <2>3, BoundCall
  <2>4. CASE Background \/ Still
    BY <1>2, <1>10, <2>4, BoundElse
  <2>5. QED
    BY <1>4, <2>1, <2>2, <2>3, <2>4
<1>11. QED
  BY <1>6, <1>7, <1>8, <1>9, <1>10

(* It holds as the module is loaded.                                       *)
LEMMA DriverInvInit == DriverInit => DriverInv
<1>1. SUFFICES ASSUME DriverInit PROVE DriverInv
  OBVIOUS
<1>2. Types /\ chrdev \in BOOLEAN
  BY <1>1 DEF DriverInit, Types, Places, ProbePlaces, Modes, Items
<1>3. PICK k \in Users : /\ pc = [u \in Users |-> IF u = k THEN "load module" ELSE "idle"]
                         /\ op = [u \in Users |-> IF u = k THEN "probe" ELSE "none"]
  BY <1>1 DEF DriverInit
<1>4. ProbeAt(k)
  BY <1>1, <1>3 DEF DriverInit, ProbeAt, ProbePlaces, NoFiles
<1>5. QED
  BY <1>2, <1>4 DEF DriverInv

(* The invariant of the driver from load to removal.                       *)
THEOREM DriverHolds == DriverSpec => []DriverInv
BY DriverInvInit, DriverInvStep, PTL DEF DriverSpec

(* From the load of the module to the end of the removal, neither the      *)
(* rings nor the interrupt are freed twice, also by a probe that takes     *)
(* itself back, if no calls met, none failed and no boot ended without     *)
(* communications: but for the removal of a driver that is bound although  *)
(* its probe failed, as device_create() did (mxlk_core_init, mxlk_probe,   *)
(* mxlk_chrdev_add, mxlk_comms_cleanup, mxlk_events_cleanup).              *)
THEOREM DriverFreesOnce == DriverSpec => []ReleasedOnce
<1>1. DriverInv => ReleasedOnce
  BY DEF DriverInv, Types, GoneInv, ProbeAt, BoundInv, DownInv, Calm, FreedOnce, ReleasedOnce
<1>2. QED
  BY <1>1, DriverHolds, PTL

(* After a probe, a reset or a boot the driver has its interrupt,          *)
(* communications if and only if the device believes so, and has them if   *)
(* the device runs their application, unless it came to that after the     *)
(* call that loaded it had looked; and unless the driver is bound although *)
(* its probe failed (mxlk_core_init, mxlk_probe, mxlk_core_reset_dev,      *)
(* mxlk_core_boot_dev).                                                    *)
THEOREM DriverIsUp == DriverSpec => []UpAfterCalls
<1>1. DriverInv => UpAfterCalls
  <2>1. SUFFICES ASSUME DriverInv, ~bound, Calm, Active = {}, ~removed
                 PROVE  /\ irq /\ (mode = "vpulink" => (rings = "live" /\ run) \/ missed)
                        /\ run <=> rings = "live"
    BY DEF UpAfterCalls, UpWhenIdle, Calm
  <2>2. DownInv
    BY <2>1 DEF DriverInv, ProbeAt, BoundInv, Active
  <2>3. QED
    BY <2>1, <2>2 DEF DownInv, UpBetween
<1>2. QED
  BY <1>1, DriverHolds, PTL

(* No handler meets freed rings once the call that freed them has          *)
(* cancelled the work items, unless a device that boots late interrupted;  *)
(* and none that looks at the rings is queued when they are made new       *)
(* (mxlk_events_init, mxlk_events_cleanup, mxlk_interrupt).                *)
THEOREM DriverCancels == DriverSpec => []WorkCancelled
<1>1. DriverInv => WorkCancelled
  BY DEF DriverInv, GoneInv, ProbeAt, BoundInv, WorkInv, Calm, WorkCancelled
<1>2. QED
  BY <1>1, DriverHolds, PTL

(* A driver that is gone, removed or never up, also when it is still bound *)
(* after a probe that failed, has left no interrupt, mapped register,      *)
(* character device or live ring, and no work item but the doorbell        *)
(* (mxlk_core_init, mxlk_core_cleanup, mxlk_probe).                        *)
THEOREM DriverLeavesNothing == DriverSpec => []GoneLeavesNothing
<1>1. DriverInv => GoneLeavesNothing
  <2>1. SUFFICES ASSUME DriverInv, Calm, removed \/ (bound /\ Active = {})
                 PROVE  /\ ~irq /\ ~mapped /\ ~chrdev
                        /\ astrayRemoval \/ rings # "live"
                        /\ overtaken \/ queued \union running \subseteq {"db"}
    BY DEF GoneLeavesNothing, Calm
  <2>2. (removed /\ GoneInv) \/ BoundInv
    BY <2>1 DEF DriverInv, ProbeAt, Active
  <2>3. QED
    BY <2>2 DEF GoneInv, BoundInv
<1>2. QED
  BY <1>1, DriverHolds, PTL
-----------------------------------------------------------------------------
(* The search for a capability.                                            *)

(* A set of natural numbers has a least element.                           *)
LEMMA HasLeast ==
    ASSUME NEW T \in SUBSET Nat, T # {}
    PROVE  \E x \in T : \A y \in T : x <= y
<1> DEFINE R == OpToRel(<, Nat)
<1>1. PICK x \in T : \A y \in T : ~ (<<y, x>> \in R)
  <2> HIDE DEF R
  <2>1. IsWellFoundedOn(R, Nat)
    BY NatLessThanWellFounded DEF R
  <2>2. QED
    BY <2>1, WFMin
<1>2. ASSUME NEW y \in T
      PROVE  x <= y
  <2>1. ~ (<<y, x>> \in R)
    BY <1>1
  <2>2. <<y, x>> \in R <=> y < x
    BY DEF R, OpToRel
  <2>3. x \in Nat /\ y \in Nat
    OBVIOUS
  <2>4. ~ (y < x)
    BY <2>1, <2>2
  <2>5. QED
    BY <2>3, <2>4
<1>3. QED
  BY <1>1, <1>2

(* So what holds of 0, and of n + 1 if of n, holds of all.                 *)
LEMMA SetInduction ==
    ASSUME NEW S \in SUBSET Nat, 0 \in S, \A n \in S : n + 1 \in S
    PROVE  S = Nat
<1>1. SUFFICES ASSUME Nat \ S # {} PROVE FALSE
  OBVIOUS
<1>2. PICK x \in Nat \ S : \A y \in Nat \ S : x <= y
  <2>1. Nat \ S \in SUBSET Nat
    OBVIOUS
  <2>2. QED
    BY <1>1, <2>1, HasLeast
<1>3. x # 0 /\ x \in Nat
  BY <1>2
<1>4. x - 1 \in Nat /\ x = (x - 1) + 1 /\ ~(x <= x - 1)
  BY <1>3
<1>5. x - 1 \in S
  BY <1>2, <1>4
<1>6. QED
  BY <1>2, <1>4, <1>5

(* The first k steps of a walk.                                            *)
Walks(first, next, D, k) ==
    {g \in [0 .. k -> D] : g[0] = first /\ \A i \in 0 .. k - 1 : g[i + 1] = next[g[i]]}

(* There is one of any length.                                             *)
LEMMA WalkExists ==
    ASSUME NEW D, NEW first \in D, NEW next \in [D -> D], NEW k \in Nat
    PROVE  Walks(first, next, D, k) # {}
<1> DEFINE S == {n \in Nat : Walks(first, next, D, n) # {}}
<1>1. 0 \in S
  <2>1. [i \in 0 .. 0 |-> first] \in Walks(first, next, D, 0)
    BY DEF Walks
  <2>2. QED
    BY <2>1
<1>2. ASSUME NEW n \in S
      PROVE  n + 1 \in S
  <2>1. PICK g : g \in Walks(first, next, D, n)
    OBVIOUS
  <2>2. g \in [0 .. n -> D] /\ g[0] = first /\ \A i \in 0 .. n - 1 : g[i + 1] = next[g[i]]
    BY <2>1 DEF Walks
  <2>3. n \in Nat /\ n \in 0 .. n /\ next[g[n]] \in D
    BY <2>2
  <2> DEFINE h == [i \in 0 .. n + 1 |-> IF i = n + 1 THEN next[g[n]] ELSE g[i]]
  <2>4. h \in [0 .. n + 1 -> D]
    BY <2>2, <2>3
  <2>5. h[0] = first
    BY <2>2, <2>3
  <2>6. ASSUME NEW i \in 0 .. n + 1 - 1
        PROVE  h[i + 1] = next[h[i]]
    <3>1. i \in 0 .. n /\ i + 1 \in 0 .. n + 1 /\ h[i] = g[i]
      BY <2>3
    <3>2. CASE i = n
      BY <3>1, <3>2
    <3>3. CASE i # n
      <4>1. i \in 0 .. n - 1 /\ i + 1 # n + 1 /\ h[i + 1] = g[i + 1]
        BY <2>3, <3>1, <3>3
      <4>2. QED
        BY <2>2, <3>1, <4>1
    <3>4. QED
      BY <3>2, <3>3
  <2> HIDE DEF h
  <2>7. h \in Walks(first, next, D, n + 1)
    BY <2>4, <2>5, <2>6 DEF Walks
  <2>8. QED
    BY <2>3, <2>7
<1>3. S = Nat
  <2>1. S \in SUBSET Nat
    OBVIOUS
  <2> HIDE DEF S
  <2>2. QED
    BY <1>1, <1>2, <2>1, SetInduction
<1>4. QED
  BY <1>3

(* A longer one goes on where a shorter one ends.                          *)
LEMMA WalksAgree ==
    ASSUME NEW D, NEW first, NEW next, NEW k \in Nat, NEW m \in Nat, k <= m,
           NEW g \in Walks(first, next, D, k), NEW h \in Walks(first, next, D, m)
    PROVE  \A i \in 0 .. k : g[i] = h[i]
<1> DEFINE S == {n \in Nat : n <= k => g[n] = h[n]}
<1>1. 0 \in S
  BY DEF Walks
<1>2. ASSUME NEW n \in S
      PROVE  n + 1 \in S
  <2>1. CASE ~(n + 1 <= k)
    BY <2>1
  <2>2. CASE n + 1 <= k
    <3>1. n \in 0 .. k - 1 /\ n \in 0 .. m - 1 /\ g[n] = h[n] /\ n + 1 \in Nat
      BY <2>2
    <3>2. g[n + 1] = next[g[n]] /\ h[n + 1] = next[h[n]]
      BY <3>1 DEF Walks
    <3>3. QED
      BY <3>1, <3>2
  <2>3. QED
    BY <2>1, <2>2
<1>3. S = Nat
  <2>1. S \in SUBSET Nat
    OBVIOUS
  <2> HIDE DEF S
  <2>2. QED
    BY <1>1, <1>2, <2>1, SetInduction
<1>4. QED
  BY <1>3

(* Header is what it is written as.                                        *)
LEMMA HeaderIs ==
    ASSUME layout \in Layouts
    PROVE  /\ Header \in [Nat -> DOMAIN layout.id]
           /\ Header[0] = layout.first
           /\ \A n \in Nat : Header[n + 1] = layout.next[Header[n]]
<1> DEFINE D == DOMAIN layout.id
           F(n) == CHOOSE g \in Walks(layout.first, layout.next, D, n) : TRUE
           f == [n \in Nat |-> F(n)[n]]
<1>1. layout.first \in D /\ layout.next \in [D -> D]
  BY DriverAssumption
<1>2. \A n \in Nat : F(n) \in Walks(layout.first, layout.next, D, n)
  <2> HIDE DEF D
  <2>1. QED
    BY <1>1, WalkExists
<1> HIDE DEF F
<1>3. \A n \in Nat : F(n) \in [0 .. n -> D] /\ F(n)[0] = layout.first
  BY <1>2 DEF Walks
<1>4. f \in [Nat -> D] /\ f[0] = layout.first
  <2>1. \A n \in Nat : F(n)[n] \in D
    BY <1>3
  <2>2. QED
    BY <1>3, <2>1
<1>5. ASSUME NEW n \in Nat
      PROVE  f[n + 1] = layout.next[f[n]]
  <2>1. F(n + 1)[n + 1] = layout.next[F(n + 1)[n]]
    <3>1. n + 1 \in Nat /\ n \in 0 .. (n + 1) - 1
      OBVIOUS
    <3>2. QED
      BY <1>2, <3>1 DEF Walks
  <2>2. F(n)[n] = F(n + 1)[n]
    <3>1. n + 1 \in Nat /\ n <= n + 1 /\ n \in 0 .. n
      OBVIOUS
    <3>2. F(n) \in Walks(layout.first, layout.next, D, n)
          /\ F(n + 1) \in Walks(layout.first, layout.next, D, n + 1)
      BY <1>2, <3>1
    <3> HIDE DEF D
    <3>3. QED
      BY <3>1, <3>2, WalksAgree
  <2>3. n + 1 \in Nat
    OBVIOUS
  <2>4. QED
    BY <2>1, <2>2, <2>3
<1> HIDE DEF f
<1>6. f = [n \in Nat |-> IF n = 0 THEN layout.first ELSE layout.next[f[n - 1]]]
  <2>1. ASSUME NEW n \in Nat
        PROVE  f[n] = IF n = 0 THEN layout.first ELSE layout.next[f[n - 1]]
    <3>1. CASE n # 0
      <4>1. n - 1 \in Nat /\ (n - 1) + 1 = n
        BY <3>1
      <4>2. QED
        BY <1>5, <3>1, <4>1
    <3>2. QED
      BY <1>4, <3>1
  <2>2. QED
    BY <1>4, <2>1
<1>7. Header = [n \in Nat |-> IF n = 0 THEN layout.first ELSE layout.next[Header[n - 1]]]
  BY <1>6 DEF Header
<1>8. Header[0] = layout.first /\ \A n \in Nat : Header[n + 1] = layout.next[Header[n]]
  <2>1. \A n \in Nat : n + 1 \in Nat /\ n + 1 # 0 /\ (n + 1) - 1 = n
    OBVIOUS
  <2> DEFINE H == Header
  <2>2. H = [n \in Nat |-> IF n = 0 THEN layout.first ELSE layout.next[H[n - 1]]]
    BY <1>7
  <2> HIDE DEF H
  <2>3. H[0] = layout.first /\ \A n \in Nat : H[n + 1] = layout.next[H[n]]
    BY <2>1, <2>2
  <2>4. QED
    BY <2>3 DEF H
<1>9. \A n \in Nat : Header[n] \in D
  <2> DEFINE S == {n \in Nat : Header[n] \in D}
  <2>1. 0 \in S
    BY <1>1, <1>8
  <2>2. ASSUME NEW n \in S
        PROVE  n + 1 \in S
    BY <1>1, <1>8
  <2>3. S \in SUBSET Nat
    OBVIOUS
  <2> HIDE DEF S
  <2>4. S = Nat
    BY <2>1, <2>2, <2>3, SetInduction
  <2>5. QED
    BY <2>4 DEF S
<1>10. QED
  BY <1>7, <1>8, <1>9

(* Headers on the way to the end of the list, or round for ever.           *)
Alive(n) == \A m \in 0 .. n - 1 : IdAt(m) # "null"

(* A header the walk looks at is in every set that has the list.           *)
LEMMA FoundIsReachable ==
    ASSUME layout \in Layouts, NEW n \in Nat, Alive(n)
    PROVE  Header[n] \in Reachable
<1>1. /\ Header[0] = layout.first /\ \A k \in Nat : Header[k + 1] = layout.next[Header[k]]
      /\ Header[n] \in DOMAIN layout.id
  BY HeaderIs
<1>2. ASSUME NEW S \in SUBSET DOMAIN layout.id,
             layout.first \in S, \A g \in S : layout.id[g] = "null" \/ layout.next[g] \in S
      PROVE  Header[n] \in S
  <2> DEFINE K == {k \in Nat : k <= n => Header[k] \in S}
  <2>1. 0 \in K
    BY <1>1, <1>2
  <2>2. ASSUME NEW k \in K
        PROVE  k + 1 \in K
    <3>1. CASE k + 1 <= n
      <4>1. k \in 0 .. n - 1 /\ Header[k] \in S
        BY <3>1
      <4>2. layout.id[Header[k]] # "null"
        BY <4>1 DEF Alive, IdAt
      <4>3. QED
        BY <1>1, <1>2, <4>1, <4>2
    <3>2. QED
      BY <3>1
  <2>3. K \in SUBSET Nat
    OBVIOUS
  <2> HIDE DEF K
  <2>4. K = Nat
    BY <2>1, <2>2, <2>3, SetInduction
  <2>5. QED
    BY <2>4 DEF K
<1>3. QED
  BY <1>1, <1>2 DEF Reachable

(* What can be reached is met by the walk.                                 *)
LEMMA ReachableIsMet ==
    ASSUME layout \in Layouts, NEW h \in Reachable
    PROVE  \E n \in Nat : Alive(n) /\ Header[n] = h
<1> DEFINE S == {Header[n] : n \in {k \in Nat : Alive(k)}}
<1>1. /\ Header \in [Nat -> DOMAIN layout.id]
      /\ Header[0] = layout.first /\ \A k \in Nat : Header[k + 1] = layout.next[Header[k]]
  BY HeaderIs
<1>2. S \in SUBSET DOMAIN layout.id
  BY <1>1
<1>3. layout.first \in S
  <2>1. Alive(0)
    BY DEF Alive
  <2>2. QED
    BY <1>1, <2>1
<1>4. ASSUME NEW g \in S, layout.id[g] # "null"
      PROVE  layout.next[g] \in S
  <2>1. PICK k \in Nat : Alive(k) /\ g = Header[k]
    OBVIOUS
  <2>2. IdAt(k) # "null"
    BY <1>4, <2>1 DEF IdAt
  <2>3. Alive(k + 1)
    <3>1. \A m \in 0 .. (k + 1) - 1 : m = k \/ m \in 0 .. k - 1
      OBVIOUS
    <3>2. QED
      BY <2>1, <2>2, <3>1 DEF Alive
  <2>4. k + 1 \in Nat /\ Header[k + 1] = layout.next[g]
    BY <1>1, <2>1
  <2>5. QED
    BY <2>3, <2>4
<1>5. h \in S
  <2> HIDE DEF S
  <2>1. QED
    BY <1>2, <1>3, <1>4 DEF Reachable
<1>6. QED
  BY <1>5

(* Headers that are met twice are met in a circle, so a first meeting is   *)
(* no later than there are headers.                                        *)
LEMMA FirstMeeting ==
    ASSUME layout \in Layouts, Cardinality(DOMAIN layout.id) <= MXLK_CAP_TTL,
           NEW h, NEW k \in Nat, Alive(k), Header[k] = h
    PROVE  \E n \in 0 .. MXLK_CAP_TTL - 1 : Alive(n) /\ Header[n] = h
<1> DEFINE D == DOMAIN layout.id
           T == {n \in Nat : Alive(n) /\ Header[n] = h}
<1>1. /\ Header \in [Nat -> D]
      /\ \A n \in Nat : Header[n + 1] = layout.next[Header[n]]
  BY HeaderIs
<1>2. PICK n \in T : \A m \in T : n <= m
  <2>1. T \in SUBSET Nat /\ T # {}
    OBVIOUS
  <2> HIDE DEF T
  <2>2. QED
    BY <2>1, HasLeast
<1>3. n \in Nat /\ Alive(n) /\ Header[n] = h
  OBVIOUS
<1>4. ASSUME NEW i \in 0 .. n, NEW j \in 0 .. n, i < j
      PROVE  Header[i] # Header[j]
  <2>1. SUFFICES ASSUME Header[i] = Header[j] PROVE FALSE
    OBVIOUS
  <2> DEFINE K == {d \in Nat : Header[i + d] = Header[j + d]}
  <2>2. 0 \in K
    BY <2>1
  <2>3. ASSUME NEW d \in K
        PROVE  d + 1 \in K
    <3>1. /\ d \in Nat /\ Header[i + d] = Header[j + d]
          /\ i + d \in Nat /\ j + d \in Nat
          /\ i + (d + 1) = (i + d) + 1 /\ j + (d + 1) = (j + d) + 1
      OBVIOUS
    <3>2. Header[(i + d) + 1] = Header[(j + d) + 1]
      BY <1>1, <3>1
    <3>3. QED
      BY <3>1, <3>2
  <2>4. K = Nat
    <3>1. K \in SUBSET Nat
      OBVIOUS
    <3> HIDE DEF K
    <3>2. QED
      BY <2>2, <2>3, <3>1, SetInduction
  <2>5. n - j \in Nat /\ j + (n - j) = n /\ i + (n - j) \in Nat /\ i + (n - j) < n
    BY <1>3, <1>4
  <2>6. Header[i + (n - j)] = h
    <3>1. n - j \in K
      BY <2>4, <2>5
    <3>2. Header[i + (n - j)] = Header[j + (n - j)]
      BY <3>1
    <3>3. QED
      BY <1>3, <2>5, <3>2
  <2>7. Alive(i + (n - j))
    BY <1>3, <2>5 DEF Alive
  <2>8. i + (n - j) \in T
    BY <2>5, <2>6, <2>7
  <2>9. n <= i + (n - j)
    BY <1>2, <2>8
  <2>10. QED
    BY <1>3, <2>5, <2>9
<1>5. n < MXLK_CAP_TTL
  <2>1. SUFFICES ASSUME MXLK_CAP_TTL <= n PROVE FALSE
    BY <1>3, DriverAssumption
  <2>2. IsFiniteSet(D) /\ Cardinality(D) \in Nat /\ MXLK_CAP_TTL \in Nat
    <3>1. IsFiniteSet(D) /\ MXLK_CAP_TTL \in Nat
      BY DriverAssumption
    <3> HIDE DEF D
    <3>2. QED
      BY <3>1, FS_CardinalityType
  <2>3. IsFiniteSet(0 .. n) /\ Cardinality(0 .. n) = n + 1
    <3>1. n \in Int /\ 0 \in Int /\ 0 <= n
      BY <1>3
    <3> HIDE DEF T
    <3>2. QED
      BY <3>1, FS_Interval
  <2>4. Cardinality(D) < Cardinality(0 .. n)
    BY <1>3, <2>1, <2>2, <2>3
  <2> DEFINE g == [m \in 0 .. n |-> Header[m]]
  <2>5. g \in [0 .. n -> D]
    BY <1>1, <1>3
  <2>6. \E i, j \in 0 .. n : i # j /\ g[i] = g[j]
    <3> HIDE DEF g, D
    <3>1. QED
      BY <2>2, <2>3, <2>4, <2>5, FS_PigeonHole
  <2>7. PICK i \in 0 .. n, j \in 0 .. n : i # j /\ Header[i] = Header[j]
    BY <2>6
  <2>8. i < j \/ j < i
    BY <1>3, <2>7
  <2>9. QED
    BY <1>4, <2>7, <2>8
<1>6. QED
  BY <1>3, <1>5, DriverAssumption

(* Whatever runs on the device, its layout is one a device may have.       *)
LayoutInv == layout \in Layouts

LEMMA LayoutStays == LayoutInv /\ [DriverNext]_allVars => LayoutInv'
BY DEF LayoutInv, DriverNext, Probe, ModuleInit, PciInit, ProbeEvents, ChrdevAdd, CdevAddFails,
   DeviceCreateFails, ProbeReturnsOne, ProbeStart, ProbeStartFails, ProbeKeeps, Call, Use,
   DriverRemove, DriverCommsCleanup, DriverFreeIrq, DriverCommsInit, DriverLoad, DriverGone,
   OpenTest, OpenSet, Close, Share, Background, ModuleExit, allVars, driverVars

(* The walk of mxlk_cap_find, which looks at MXLK_CAP_TTL headers at most, *)
(* finds a capability if and only if the list has it before its end: in    *)
(* any list of no more headers than that, also one that goes in circles.   *)
THEOREM CapabilitiesAreFound == DriverSpec => []CapFindIsReachability
<1>1. LayoutInv => CapFindIsReachability
  <2>1. SUFFICES ASSUME layout \in Layouts, Cardinality(DOMAIN layout.id) <= MXLK_CAP_TTL, NEW id
                 PROVE  CapFind(id) <=> \E h \in Reachable : layout.id[h] = id
    BY DEF CapFindIsReachability, LayoutInv
  <2>2. ASSUME CapFind(id)
        PROVE  \E h \in Reachable : layout.id[h] = id
    <3>1. PICK n \in 0 .. MXLK_CAP_TTL - 1 : IdAt(n) = id /\ Alive(n)
      BY <2>2 DEF CapFind, Alive
    <3>2. Header[n] \in Reachable
      BY <2>1, <3>1, FoundIsReachable, DriverAssumption
    <3>3. QED
      BY <3>1, <3>2 DEF IdAt
  <2>3. ASSUME NEW h \in Reachable, layout.id[h] = id
        PROVE  CapFind(id)
    <3>1. PICK k \in Nat : Alive(k) /\ Header[k] = h
      BY <2>1, ReachableIsMet
    <3>2. PICK n \in 0 .. MXLK_CAP_TTL - 1 : Alive(n) /\ Header[n] = h
      BY <2>1, <3>1, FirstMeeting
    <3>3. QED
      BY <2>3, <3>2 DEF CapFind, Alive, IdAt
  <2>4. QED
    BY <2>2, <2>3
<1>2. DriverInit => LayoutInv
  BY DEF DriverInit, LayoutInv
<1>3. QED
  BY <1>1, <1>2, LayoutStays, PTL DEF DriverSpec
=============================================================================
