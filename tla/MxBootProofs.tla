---------------------------- MODULE MxBootProofs ----------------------------
(***************************************************************************)
(* Proofs about sending an image to the device (MxBoot), for any number of *)
(* callers, images of any length and timeouts of any length: a chunk the   *)
(* device has to read is mapped, an image that counts as loaded was read,  *)
(* and what is booted is an image.                                         *)
(***************************************************************************)
EXTENDS MxBoot, SequenceTheorems, TLAPS

Places == {"idle", "copy", "start", "mode", "status", "finish", "next"}

Types ==
    /\ mode \in Modes /\ ready \in Statuses /\ booting \in BOOLEAN
    /\ start \in (Callers \X Nat) \union {None}
    /\ received \in Seq(Callers \X Nat) /\ mapped \subseteq Callers \X Nat
    /\ lock \in Callers \union {None}
    /\ pc \in [Callers -> Places] /\ chunk \in [Callers -> Nat]
    /\ curr \in [Callers -> Modes] /\ tries \in [Callers -> Int]
    /\ error \in [Callers -> {"none", "time", "proto"}]
    /\ result \in [Callers -> {None, "failed", "loaded"}]
    /\ read \in [Callers -> Seq(Nat)]
    /\ rushed \in BOOLEAN /\ mixed \in BOOLEAN /\ fault \in BOOLEAN
    /\ stray \in BOOLEAN /\ partial \in BOOLEAN
    /\ failed \subseteq {"time", "proto"}

InRange == \A u \in Callers : pc[u] # "idle" => chunk[u] \in FirstChunk(u) .. Chunks[u]

(* The lock is with the caller whose transfer is under way.                *)
LockHeld ==
    \A u \in Callers : lock = u <=> pc[u] \in {"start", "mode", "status", "finish"}

Polls(u) == pc[u] \in {"mode", "status"}
Transfer == ready \in {"pending", "starting"}
TypeInv == Types /\ InRange /\ LockHeld /\ (Transfer => start \in Callers \X Nat)

(* While a caller waits for its transfer the device either has it still to *)
(* do, in the mode in which it was begun, or is done with it.              *)
TransferInv ==
    ~rushed /\ ~fault =>
        /\ Transfer \/ ready = "error" => ~booting
        /\ \A u \in Callers : Polls(u) =>
               /\ ready # "boot"
               /\ Transfer => start = <<u, chunk[u]>>
               /\ Transfer \/ ready = "error" => mode = curr[u]

(* What the device has still to read is mapped, and is waited for.         *)
MappedInv ==
    ~rushed /\ ~fault /\ "time" \notin failed =>
        /\ ~stray
        /\ Transfer => start \in mapped /\ \E u \in Callers : Polls(u)

(* The last chunks in what the device has read for u are those from the    *)
(* first one that is loaded up to n, n left out.                           *)
HasRead(u, chunks, n) ==
    /\ n - FirstChunk(u) <= Len(chunks)
    /\ \A k \in FirstChunk(u) .. n - 1 : chunks[Len(chunks) - n + 1 + k] = k

(* The device is to read a chunk of u.                                     *)
Due(u) == Transfer /\ start[1] = u

(* What the device has read when a call stands where it does, and that it  *)
(* has no chunk of the call to read then: the next would be out of order.  *)
ReadOf(u) ==
    /\ pc[u] \in {"copy", "start"} =>
           /\ HasRead(u, read[u], chunk[u])
           /\ chunk[u] > FirstChunk(u) => ~Due(u)
    /\ Polls(u) =>
           IF Transfer THEN HasRead(u, read[u], chunk[u])
           ELSE ready = "error" \/ HasRead(u, read[u], chunk[u] + 1)
    /\ pc[u] \in {"finish", "next"} /\ error[u] = "none" =>
           HasRead(u, read[u], chunk[u] + 1) /\ ~Due(u)
    /\ result[u] = "loaded" =>
           pc[u] = "idle" /\ HasRead(u, read[u], Chunks[u] + 1) /\ ~Due(u)

ReadInv == ~rushed /\ ~fault => \A u \in Callers : ReadOf(u)

(* The first n chunks of the image of u, and what the device has when it   *)
(* has read chunk n: the second stage alone, or the image so far.          *)
Part(u, n) == [k \in 1 .. n |-> <<u, k>>]
Upto(u, n) == IF n = 0 THEN <<<<u, 0>>>> ELSE Part(u, n)

Clean == ~mixed /\ ~fault /\ failed = {}

(* The device waits for chunk c of u, all before which it has read...      *)
Before(u, c) ==
    /\ c # FirstChunk(u) => mode = "loader"
    /\ \/ received = Part(u, c - 1) /\ ready # "boot" /\ ~booting
       \/ c = 1 /\ FirstChunk(u) = 0 /\ received = Upto(u, 0) /\ ready = "boot" /\ ~booting

(* ...it is to read it in mode m, or could not...                          *)
ToRead(u, c, m) ==
    /\ mode = m /\ ~booting
    /\ \/ Transfer /\ start = <<u, c>> /\ received = Part(u, c - 1)
       \/ ready = "error"

(* ...it has just read it in mode m, and boots it or waits for more; or,   *)
(* in boot mode, has booted it...                                          *)
HasBooted(c) ==
    /\ received = <<>> /\ ready = "ready" /\ ~booting
    /\ mode = (IF c = 0 THEN "loader" ELSE "app")

JustRead(u, c, m) ==
    \/ /\ received = Upto(u, c) /\ ready = "dma_done"
       /\ m \in {"boot", "loader"} /\ mode = m /\ booting = (m = "boot")
    \/ m = "boot" /\ HasBooted(c)

(* ...and has been told to boot what it has, or did.                       *)
Told(u, c) ==
    \/ received = Upto(u, c) /\ ready = "boot" /\ mode = "loader" /\ ~booting
    \/ HasBooted(c)

StageOf(u) ==
    /\ pc[u] \in {"copy", "start"} =>
           Before(u, chunk[u]) /\ ready \in {"ready", "dma_done", "boot"}
    /\ pc[u] = "start" => mode = curr[u]
    /\ pc[u] \notin {"idle", "copy"} /\ chunk[u] # FirstChunk(u) => curr[u] = "loader"
    /\ Polls(u) => ToRead(u, chunk[u], curr[u]) \/ JustRead(u, chunk[u], curr[u])
    /\ pc[u] = "finish" => JustRead(u, chunk[u], curr[u])
    /\ pc[u] = "next" =>
           IF curr[u] = "boot" \/ ~BootNow(u)
           THEN JustRead(u, chunk[u], curr[u]) ELSE Told(u, chunk[u])

OneCall == \A u, v \in Callers : pc[u] # "idle" /\ pc[v] # "idle" => u = v

(* Nothing is being read when no transfer is under way, and what is booted *)
(* is whole.                                                               *)
Quiet ==
    (\A u \in Callers : ~Polls(u) /\ pc[u] # "finish") =>
        ready \in {"ready", "dma_done", "boot"}
Whole == booting \/ ready = "boot" => IsSecondStage(received) \/ IsImage(received)

Staged == ~partial /\ OneCall /\ Quiet /\ Whole /\ \A u \in Callers : StageOf(u)
StageInv == Clean => Staged

-----------------------------------------------------------------------------
LEMMA ChunksAre ==
    \A u \in Callers :
        /\ Chunks[u] \in Nat \ {0}
        /\ FirstChunk(u) \in {0, 1}
        /\ FirstChunk(u) = 1 => Chunks[u] = 1
<1> TAKE u \in Callers
<1>1. Length[u] \in Nat \ {0}
  BY BootAssumption
<1>2. ASSUME NEW n \in Nat \ {0}
      PROVE  /\ (n + 4194303) \div 4194304 \in Nat \ {0}
             /\ ~(n > 4194304) => (n + 4194303) \div 4194304 = 1
  OBVIOUS
<1>3. QED
  BY <1>1, <1>2 DEF Chunks, ChunksOf, FirstChunk, MAX_CONT_BUFFER_SIZE_LINUX

LEMMA TypeInit == Init => TypeInv
<1> SUFFICES ASSUME Init
             PROVE  TypeInv
  OBVIOUS
<1>1. received \in Seq(Callers \X Nat) /\ read \in [Callers -> Seq(Nat)]
  BY DEF Init
<1>2. /\ start \in (Callers \X Nat) \union {None} /\ mapped \subseteq Callers \X Nat
      /\ result \in [Callers -> {None, "failed", "loaded"}]
      /\ failed \subseteq {"time", "proto"}
  BY DEF Init
<1>3. /\ mode \in Modes /\ ready \in Statuses
      /\ lock \in Callers \union {None}
      /\ pc \in [Callers -> Places] /\ chunk \in [Callers -> Nat]
      /\ curr \in [Callers -> Modes] /\ tries \in [Callers -> Int]
      /\ error \in [Callers -> {"none", "time", "proto"}]
  BY DEF Init, Places, Modes, Statuses
<1>6. /\ booting \in BOOLEAN /\ rushed \in BOOLEAN /\ mixed \in BOOLEAN /\ fault \in BOOLEAN
      /\ stray \in BOOLEAN /\ partial \in BOOLEAN
  BY DEF Init
<1>4. InRange /\ LockHeld /\ ~Transfer
  BY BootAssumption DEF Init, InRange, LockHeld, Transfer
<1>5. QED
  BY <1>1, <1>2, <1>3, <1>6, <1>4 DEF TypeInv, Types

LEMMA TypesStep == TypeInv /\ [Next]_vars => Types'
<1> SUFFICES ASSUME TypeInv, [Next]_vars
             PROVE  Types'
  OBVIOUS
<1> USE DEF TypeInv, Types, Places, Modes, Statuses, Transfer,
            deviceVars, regVars, callVars
<1>1. ASSUME NEW u \in Callers, Load(u)
      PROVE  Types'
  BY <1>1, ChunksAre DEF Load, Goto
<1>2. ASSUME NEW u \in Callers, NoMemory(u)
      PROVE  Types'
  BY <1>2 DEF NoMemory, Goto, Returns
<1>3. ASSUME NEW u \in Callers, Lock(u)
      PROVE  Types'
  BY <1>3 DEF Lock, Goto
<1>4. ASSUME NEW u \in Callers, NotStarted(u)
      PROVE  Types'
  BY <1>4 DEF NotStarted, Goto, Returns
<1>5. ASSUME NEW u \in Callers, Start(u)
      PROVE  Types'
  BY <1>5, BootAssumption DEF Start, Goto
<1>6. ASSUME NEW u \in Callers, PollMode(u)
      PROVE  Types'
  <2>1. pc' \in [Callers -> Places] /\ error' \in [Callers -> {"none", "time", "proto"}]
    BY <1>6 DEF PollMode, Goto
  <2>2. QED
    BY <1>6, <2>1 DEF PollMode
<1>7. ASSUME NEW u \in Callers, PollAgain(u)
      PROVE  Types'
  BY <1>7 DEF PollAgain, Goto
<1>8. ASSUME NEW u \in Callers, PollEnds(u)
      PROVE  Types'
  BY <1>8, ZenonT(30) DEF PollEnds, Goto
<1>9. ASSUME NEW u \in Callers, Finish(u)
      PROVE  Types'
  BY <1>9 DEF Finish, Goto
<1>10. ASSUME NEW u \in Callers, NextChunk(u)
       PROVE  Types'
  BY <1>10 DEF NextChunk, Goto
<1>11. ASSUME NEW u \in Callers, Return(u)
       PROVE  Types'
  <2>1. /\ pc' \in [Callers -> Places]
        /\ result' \in [Callers -> {None, "failed", "loaded"}]
    BY <1>11 DEF Return, Goto, Returns
  <2>2. QED
    BY <1>11, <2>1 DEF Return
<1>12. CASE DeviceStart
  BY <1>12 DEF DeviceStart
<1>13. CASE DeviceRead
  BY <1>13, SMTT(30) DEF DeviceRead
<1>14. CASE DeviceError
  BY <1>14 DEF DeviceError
<1>15. CASE DeviceBoot
  <2>1. mode' \in Modes /\ partial' \in BOOLEAN /\ received' \in Seq(Callers \X Nat)
    BY <1>15 DEF DeviceBoot
  <2>2. QED
    BY <1>15, <2>1 DEF DeviceBoot
<1>16. CASE DeviceFault
  BY <1>16 DEF DeviceFault
<1>17. CASE DeviceReset
  <2>1. received' \in Seq(Callers \X Nat)
    BY <1>17 DEF DeviceReset
  <2>2. QED
    BY <1>17, <2>1 DEF DeviceReset
<1>18. CASE UNCHANGED vars
  BY <1>18 DEF vars
<1>19. QED
  BY <1>1, <1>2, <1>3, <1>4, <1>5, <1>6, <1>7, <1>8, <1>9, <1>10, <1>11,
     <1>12, <1>13, <1>14, <1>15, <1>16, <1>17, <1>18 DEF Next, LoadOn, Device

LEMMA RangeStep == TypeInv /\ [Next]_vars => InRange'
<1> SUFFICES ASSUME pc \in [Callers -> Places], chunk \in [Callers -> Nat],
                    InRange, [Next]_vars
             PROVE  InRange'
  BY DEF TypeInv, Types
<1> USE DEF InRange, Places
<1> USE DEF deviceVars, regVars, callVars
<1>1. ASSUME NEW u \in Callers, Load(u)
      PROVE  InRange'
  <2>1. chunk'[u] = FirstChunk(u) /\ FirstChunk(u) \in FirstChunk(u) .. Chunks[u]
    BY <1>1, ChunksAre DEF Load
  <2>2. ASSUME NEW v \in Callers, v # u
        PROVE  chunk'[v] = chunk[v] /\ pc'[v] = pc[v]
    BY <1>1, <2>2 DEF Load, Goto
  <2>3. ASSUME NEW v \in Callers, pc'[v] # "idle"
        PROVE  chunk'[v] \in FirstChunk(v) .. Chunks[v]
    BY <2>1, <2>2, <2>3
  <2>4. QED
    BY <2>3
<1>2. ASSUME NEW u \in Callers, NoMemory(u)
      PROVE  InRange'
  BY <1>2 DEF NoMemory, Goto, Returns
<1>3. ASSUME NEW u \in Callers, Lock(u)
      PROVE  InRange'
  BY <1>3 DEF Lock, Goto
<1>4. ASSUME NEW u \in Callers, NotStarted(u)
      PROVE  InRange'
  BY <1>4 DEF NotStarted, Goto, Returns
<1>5. ASSUME NEW u \in Callers, Start(u)
      PROVE  InRange'
  BY <1>5 DEF Start, Goto
<1>6. ASSUME NEW u \in Callers, PollMode(u)
      PROVE  InRange'
  BY <1>6 DEF PollMode, Goto
<1>7. ASSUME NEW u \in Callers, PollAgain(u)
      PROVE  InRange'
  BY <1>7 DEF PollAgain, Goto
<1>8. ASSUME NEW u \in Callers, PollEnds(u)
      PROVE  InRange'
  BY <1>8 DEF PollEnds, Goto
<1>9. ASSUME NEW u \in Callers, Finish(u)
      PROVE  InRange'
  BY <1>9 DEF Finish, Goto
<1>10. ASSUME NEW u \in Callers, NextChunk(u)
       PROVE  InRange'
  <2>1. chunk'[u] = chunk[u] + 1 /\ chunk'[u] \in FirstChunk(u) .. Chunks[u]
    <3>1. FirstChunk(u) \in Nat /\ Chunks[u] \in Nat
      BY ChunksAre
    <3>5. chunk[u] \in Nat
      OBVIOUS
    <3>6. chunk[u] \in FirstChunk(u) .. Chunks[u] /\ chunk[u] < Chunks[u]
      BY <1>10 DEF NextChunk
    <3>2. chunk'[u] = chunk[u] + 1
      BY <1>10 DEF NextChunk
    <3>3. QED
      BY <3>1, <3>2, <3>5, <3>6
  <2>2. ASSUME NEW v \in Callers, v # u
        PROVE  chunk'[v] = chunk[v] /\ pc'[v] = pc[v]
    BY <1>10, <2>2 DEF NextChunk, Goto
  <2>3. ASSUME NEW v \in Callers, pc'[v] # "idle"
        PROVE  chunk'[v] \in FirstChunk(v) .. Chunks[v]
    BY <2>1, <2>2, <2>3
  <2>4. QED
    BY <2>3
<1>11. ASSUME NEW u \in Callers, Return(u)
       PROVE  InRange'
  BY <1>11 DEF Return, Goto, Returns
<1>12. CASE DeviceStart
  BY <1>12 DEF DeviceStart
<1>13. CASE DeviceRead
  BY <1>13 DEF DeviceRead
<1>14. CASE DeviceError
  BY <1>14 DEF DeviceError
<1>15. CASE DeviceBoot
  BY <1>15 DEF DeviceBoot
<1>16. CASE DeviceFault
  BY <1>16 DEF DeviceFault
<1>17. CASE DeviceReset
  BY <1>17 DEF DeviceReset
<1>18. CASE UNCHANGED vars
  BY <1>18 DEF vars
<1>19. QED
  BY <1>1, <1>2, <1>3, <1>4, <1>5, <1>6, <1>7, <1>8, <1>9, <1>10, <1>11,
     <1>12, <1>13, <1>14, <1>15, <1>16, <1>17, <1>18 DEF Next, LoadOn, Device

LEMMA LockStep == TypeInv /\ [Next]_vars => LockHeld'
<1> SUFFICES ASSUME TypeInv, [Next]_vars
             PROVE  LockHeld'
  OBVIOUS
<1> USE BootAssumption DEF TypeInv, Types, LockHeld, deviceVars, regVars, callVars
<1>1. ASSUME NEW u \in Callers, Load(u)
      PROVE  LockHeld'
  BY <1>1 DEF Load, Goto
<1>2. ASSUME NEW u \in Callers, NoMemory(u)
      PROVE  LockHeld'
  BY <1>2 DEF NoMemory, Goto, Returns
<1>3. ASSUME NEW u \in Callers, Lock(u)
      PROVE  LockHeld'
  BY <1>3 DEF Lock, Goto
<1>4. ASSUME NEW u \in Callers, NotStarted(u)
      PROVE  LockHeld'
  BY <1>4 DEF NotStarted, Goto, Returns
<1>5. ASSUME NEW u \in Callers, Start(u)
      PROVE  LockHeld'
  BY <1>5 DEF Start, Goto
<1>6. ASSUME NEW u \in Callers, PollMode(u)
      PROVE  LockHeld'
  BY <1>6 DEF PollMode, Goto
<1>7. ASSUME NEW u \in Callers, PollAgain(u)
      PROVE  LockHeld'
  BY <1>7 DEF PollAgain, Goto
<1>8. ASSUME NEW u \in Callers, PollEnds(u)
      PROVE  LockHeld'
  BY <1>8 DEF PollEnds, Goto
<1>9. ASSUME NEW u \in Callers, Finish(u)
      PROVE  LockHeld'
  BY <1>9 DEF Finish, Goto
<1>10. ASSUME NEW u \in Callers, NextChunk(u)
       PROVE  LockHeld'
  BY <1>10 DEF NextChunk, Goto
<1>11. ASSUME NEW u \in Callers, Return(u)
       PROVE  LockHeld'
  BY <1>11 DEF Return, Goto, Returns
<1>12. CASE DeviceStart
  BY <1>12 DEF DeviceStart
<1>13. CASE DeviceRead
  BY <1>13 DEF DeviceRead
<1>14. CASE DeviceError
  BY <1>14 DEF DeviceError
<1>15. CASE DeviceBoot
  BY <1>15 DEF DeviceBoot
<1>16. CASE DeviceFault
  BY <1>16 DEF DeviceFault
<1>17. CASE DeviceReset
  BY <1>17 DEF DeviceReset
<1>18. CASE UNCHANGED vars
  BY <1>18 DEF vars
<1>19. QED
  BY <1>1, <1>2, <1>3, <1>4, <1>5, <1>6, <1>7, <1>8, <1>9, <1>10, <1>11,
     <1>12, <1>13, <1>14, <1>15, <1>16, <1>17, <1>18 DEF Next, LoadOn, Device

LEMMA TypeStep == TypeInv /\ [Next]_vars => TypeInv'
<1> SUFFICES ASSUME TypeInv, [Next]_vars
             PROVE  (Transfer => start \in Callers \X Nat)'
  BY TypesStep, RangeStep, LockStep DEF TypeInv
<1> USE DEF TypeInv, Types, Transfer,
            deviceVars, regVars, callVars
<1>1. ASSUME NEW u \in Callers, Load(u)
      PROVE  (Transfer => start \in Callers \X Nat)'
  BY <1>1 DEF Load, Goto
<1>2. ASSUME NEW u \in Callers, NoMemory(u)
      PROVE  (Transfer => start \in Callers \X Nat)'
  BY <1>2 DEF NoMemory, Goto, Returns
<1>3. ASSUME NEW u \in Callers, Lock(u)
      PROVE  (Transfer => start \in Callers \X Nat)'
  BY <1>3 DEF Lock, Goto
<1>4. ASSUME NEW u \in Callers, NotStarted(u)
      PROVE  (Transfer => start \in Callers \X Nat)'
  BY <1>4 DEF NotStarted, Goto, Returns
<1>5. ASSUME NEW u \in Callers, Start(u)
      PROVE  (Transfer => start \in Callers \X Nat)'
  BY <1>5 DEF Start, Goto
<1>6. ASSUME NEW u \in Callers, PollMode(u)
      PROVE  (Transfer => start \in Callers \X Nat)'
  BY <1>6 DEF PollMode, Goto
<1>7. ASSUME NEW u \in Callers, PollAgain(u)
      PROVE  (Transfer => start \in Callers \X Nat)'
  BY <1>7 DEF PollAgain, Goto
<1>8. ASSUME NEW u \in Callers, PollEnds(u)
      PROVE  (Transfer => start \in Callers \X Nat)'
  BY <1>8 DEF PollEnds, Goto
<1>9. ASSUME NEW u \in Callers, Finish(u)
      PROVE  (Transfer => start \in Callers \X Nat)'
  BY <1>9 DEF Finish, Goto
<1>10. ASSUME NEW u \in Callers, NextChunk(u)
       PROVE  (Transfer => start \in Callers \X Nat)'
  BY <1>10 DEF NextChunk, Goto
<1>11. ASSUME NEW u \in Callers, Return(u)
       PROVE  (Transfer => start \in Callers \X Nat)'
  BY <1>11 DEF Return, Goto, Returns
<1>12. CASE DeviceStart
  BY <1>12 DEF DeviceStart
<1>13. CASE DeviceRead
  BY <1>13 DEF DeviceRead
<1>14. CASE DeviceError
  BY <1>14 DEF DeviceError
<1>15. CASE DeviceBoot
  BY <1>15 DEF DeviceBoot
<1>16. CASE DeviceFault
  BY <1>16 DEF DeviceFault
<1>17. CASE DeviceReset
  BY <1>17 DEF DeviceReset
<1>18. CASE UNCHANGED vars
  BY <1>18 DEF vars
<1>19. QED
  BY <1>1, <1>2, <1>3, <1>4, <1>5, <1>6, <1>7, <1>8, <1>9, <1>10, <1>11,
     <1>12, <1>13, <1>14, <1>15, <1>16, <1>17, <1>18 DEF Next, LoadOn, Device

-----------------------------------------------------------------------------
LEMMA TransferStep == TypeInv /\ TransferInv /\ [Next]_vars => TransferInv'
<1> SUFFICES ASSUME TypeInv, TransferInv, [Next]_vars
             PROVE  TransferInv'
  OBVIOUS
<1> USE DEF TypeInv, Types, LockHeld, Transfer, Polls, TransferInv, Modes,
            deviceVars, regVars, callVars
<1>1. ASSUME NEW u \in Callers, Load(u)
      PROVE  TransferInv'
  BY <1>1 DEF Load, Goto
<1>2. ASSUME NEW u \in Callers, NoMemory(u)
      PROVE  TransferInv'
  BY <1>2 DEF NoMemory, Goto, Returns
<1>3. ASSUME NEW u \in Callers, Lock(u)
      PROVE  TransferInv'
  BY <1>3 DEF Lock, Goto
<1>4. ASSUME NEW u \in Callers, NotStarted(u)
      PROVE  TransferInv'
  BY <1>4 DEF NotStarted, Goto, Returns
<1>5. ASSUME NEW u \in Callers, Start(u)
      PROVE  TransferInv'
  BY <1>5 DEF Start, Goto
<1>6. ASSUME NEW u \in Callers, PollMode(u)
      PROVE  TransferInv'
  BY <1>6 DEF PollMode, Goto
<1>7. ASSUME NEW u \in Callers, PollAgain(u)
      PROVE  TransferInv'
  BY <1>7 DEF PollAgain, Goto
<1>8. ASSUME NEW u \in Callers, PollEnds(u)
      PROVE  TransferInv'
  BY <1>8 DEF PollEnds, Goto
<1>9. ASSUME NEW u \in Callers, Finish(u)
      PROVE  TransferInv'
  BY <1>9 DEF Finish, Goto
<1>10. ASSUME NEW u \in Callers, NextChunk(u)
       PROVE  TransferInv'
  BY <1>10 DEF NextChunk, Goto
<1>11. ASSUME NEW u \in Callers, Return(u)
       PROVE  TransferInv'
  BY <1>11 DEF Return, Goto, Returns
<1>12. CASE DeviceStart
  BY <1>12 DEF DeviceStart
<1>13. CASE DeviceRead
  BY <1>13 DEF DeviceRead
<1>14. CASE DeviceError
  BY <1>14 DEF DeviceError
<1>15. CASE DeviceBoot
  BY <1>15 DEF DeviceBoot
<1>16. CASE DeviceFault
  BY <1>16 DEF DeviceFault
<1>17. CASE DeviceReset
  BY <1>17 DEF DeviceReset
<1>18. CASE UNCHANGED vars
  BY <1>18 DEF vars
<1>19. QED
  BY <1>1, <1>2, <1>3, <1>4, <1>5, <1>6, <1>7, <1>8, <1>9, <1>10, <1>11,
     <1>12, <1>13, <1>14, <1>15, <1>16, <1>17, <1>18 DEF Next, LoadOn, Device

LEMMA MappedStep == TypeInv /\ TransferInv /\ MappedInv /\ [Next]_vars => MappedInv'
<1> SUFFICES ASSUME TypeInv, TransferInv, MappedInv, [Next]_vars,
                    ~rushed', ~fault', "time" \notin failed'
             PROVE  MappedInv'
  BY DEF MappedInv
<1> USE DEF TypeInv, Types, LockHeld, Places, Modes, Statuses, Transfer, Polls,
            deviceVars, regVars, callVars, TransferInv, MappedInv
<1>1. ASSUME NEW u \in Callers, Load(u)
      PROVE  MappedInv'
  BY <1>1 DEF Load, Goto
<1>2. ASSUME NEW u \in Callers, NoMemory(u) \/ NotStarted(u) \/ Return(u)
      PROVE  MappedInv'
  BY <1>2 DEF NoMemory, NotStarted, Return, Returns, Goto
<1>3. ASSUME NEW u \in Callers, Lock(u)
      PROVE  MappedInv'
  BY <1>3 DEF Lock, Goto
<1>5. ASSUME NEW u \in Callers, Start(u)
      PROVE  MappedInv'
  BY <1>5 DEF Start, Goto
<1>6. ASSUME NEW u \in Callers, PollMode(u)
      PROVE  MappedInv'
  BY <1>6 DEF PollMode, Goto
<1>7. ASSUME NEW u \in Callers, PollAgain(u)
      PROVE  MappedInv'
  BY <1>7 DEF PollAgain, Goto
<1>8. ASSUME NEW u \in Callers, PollEnds(u)
      PROVE  MappedInv'
  BY <1>8 DEF PollEnds, Goto
<1>9. ASSUME NEW u \in Callers, Finish(u)
      PROVE  MappedInv'
  BY <1>9, BootAssumption DEF Finish, Goto
<1>10. ASSUME NEW u \in Callers, NextChunk(u)
       PROVE  MappedInv'
  BY <1>10 DEF NextChunk, Goto
<1>12. CASE DeviceStart \/ DeviceRead \/ DeviceError
  BY <1>12 DEF DeviceStart, DeviceRead, DeviceError
<1>15. CASE DeviceBoot
  BY <1>15 DEF DeviceBoot
<1>16. CASE DeviceFault
  BY <1>16 DEF DeviceFault
<1>17. CASE DeviceReset
  BY <1>17 DEF DeviceReset
<1>18. CASE UNCHANGED vars
  BY <1>18 DEF vars
<1>19. QED
  BY <1>1, <1>2, <1>3, <1>5, <1>6, <1>7, <1>8, <1>9, <1>10,
     <1>12, <1>15, <1>16, <1>17, <1>18 DEF Next, LoadOn, Device

-----------------------------------------------------------------------------
(* Of no chunk at all everything is read, and reading chunk n adds it.     *)
LEMMA HasReadNone ==
    ASSUME NEW u \in Callers, NEW s \in Seq(Nat)
    PROVE  HasRead(u, s, FirstChunk(u))
BY ChunksAre DEF HasRead

LEMMA HasReadNext ==
    ASSUME NEW u \in Callers, NEW s \in Seq(Nat), NEW n \in Nat,
           FirstChunk(u) <= n, HasRead(u, s, n)
    PROVE  HasRead(u, Append(s, n), n + 1)
<1> DEFINE f == FirstChunk(u)
<1>0. \A t \in Seq(Nat) :
          /\ n + 1 - f <= Len(t)
          /\ \A k \in f .. n : t[Len(t) - (n + 1) + 1 + k] = k
          => HasRead(u, t, n + 1)
  BY ChunksAre DEF HasRead
<1> SUFFICES ASSUME NEW t \in Seq(Nat), t = Append(s, n)
             PROVE  HasRead(u, t, n + 1)
  <2>1. Append(s, n) \in Seq(Nat)
    OBVIOUS
  <2>2. QED
    BY <2>1
<1>1. f \in Nat
  BY ChunksAre
<1>2. Len(t) = Len(s) + 1 /\ t[Len(t)] = n /\ \A i \in 1 .. Len(s) : t[i] = s[i]
  OBVIOUS
<1>3. n - f <= Len(s) /\ \A k \in f .. n - 1 : s[Len(s) - n + 1 + k] = k
  BY DEF HasRead
<1>4. \A k \in f .. n : t[Len(t) - (n + 1) + 1 + k] = k
  <2> TAKE k \in f .. n
  <2>1. Len(s) \in Nat /\ k \in Nat
    BY <1>1
  <2>2. CASE k = n
    BY <1>2, <2>1, <2>2
  <2>3. CASE k # n
    <3>1. k \in f .. n - 1
      BY <1>1, <2>3
    <3>2. /\ Len(t) - (n + 1) + 1 + k = Len(s) - n + 1 + k
          /\ Len(s) - n + 1 + k \in 1 .. Len(s)
      BY <1>1, <1>2, <1>3, <2>1, <3>1
    <3>3. QED
      BY <1>2, <1>3, <3>1, <3>2
  <2>4. QED
    BY <2>2, <2>3
<1>5. n + 1 - f <= Len(t)
  BY <1>1, <1>2, <1>3
<1>6. QED
  BY <1>0, <1>4, <1>5

LEMMA ReadStep == TypeInv /\ TransferInv /\ ReadInv /\ [Next]_vars => ReadInv'
<1> SUFFICES ASSUME TypeInv, TransferInv, ReadInv, [Next]_vars, ~rushed', ~fault',
                    NEW u \in Callers
             PROVE  ReadOf(u)'
  BY DEF ReadInv
<1>0. FirstChunk(u) \in Nat
  BY ChunksAre
<1> USE DEF TypeInv, Types, LockHeld, InRange, Transfer, Polls, Due, ReadOf,
            TransferInv, ReadInv, deviceVars, regVars, callVars
<1>1. ASSUME NEW w \in Callers, Load(w)
      PROVE  ReadOf(u)'
  <2>1. CASE w = u
    <3>1. HasRead(u, read'[u], FirstChunk(u))
      <4>1. read'[u] = <<>> /\ <<>> \in Seq(Nat)
        BY <1>1, <2>1 DEF Load
      <4>2. QED
        BY <4>1, HasReadNone, ZenonT(30)
    <3>2. pc'[u] = "copy" /\ chunk'[u] = FirstChunk(u) /\ result'[u] = None
      BY <1>1, <2>1 DEF Load, Goto
    <3>3. None # "loaded"
      BY BootAssumption
    <3>4. QED
      BY <1>0, <3>1, <3>2, <3>3
  <2>2. CASE w # u
    BY <1>1, <2>2 DEF Load, Goto
  <2>3. QED
    BY <2>1, <2>2
<1>2. ASSUME NEW w \in Callers, NoMemory(w)
      PROVE  ReadOf(u)'
  BY <1>2 DEF NoMemory, Goto, Returns
<1>3. ASSUME NEW w \in Callers, Lock(w)
      PROVE  ReadOf(u)'
  BY <1>3 DEF Lock, Goto
<1>4. ASSUME NEW w \in Callers, NotStarted(w)
      PROVE  ReadOf(u)'
  BY <1>4 DEF NotStarted, Goto, Returns
<1>5. ASSUME NEW w \in Callers, Start(w)
      PROVE  ReadOf(u)'
  BY <1>5 DEF Start, Goto
<1>6. ASSUME NEW w \in Callers, PollMode(w)
      PROVE  ReadOf(u)'
  BY <1>6 DEF PollMode, Goto
<1>7. ASSUME NEW w \in Callers, PollAgain(w)
      PROVE  ReadOf(u)'
  BY <1>7 DEF PollAgain, Goto
<1>8. ASSUME NEW w \in Callers, PollEnds(w)
      PROVE  ReadOf(u)'
  BY <1>8 DEF PollEnds, Goto
<1>9. ASSUME NEW w \in Callers, Finish(w)
      PROVE  ReadOf(u)'
  BY <1>9 DEF Finish, Goto
<1>10. ASSUME NEW w \in Callers, NextChunk(w)
       PROVE  ReadOf(u)'
  BY <1>10, ChunksAre DEF NextChunk, Goto
<1>11. ASSUME NEW w \in Callers, Return(w)
       PROVE  ReadOf(u)'
  BY <1>11 DEF Return, Goto, Returns
<1>12. CASE DeviceStart
  BY <1>12 DEF DeviceStart
<1>13. CASE DeviceRead
  <2>1. start \in Callers \X Nat
    BY <1>13 DEF DeviceRead
  <2>2. CASE start[1] # u
    BY <1>13, <2>1, <2>2 DEF DeviceRead
  <2>3. CASE start[1] = u
    <3>1. read'[u] = Append(read[u], start[2]) /\ read[u] \in Seq(Nat)
      BY <1>13, <2>1, <2>3 DEF DeviceRead
    <3>2. ASSUME pc[u] \in {"copy", "start"}
          PROVE  HasRead(u, read'[u], chunk[u])
      <4>1. Due(u) /\ chunk[u] \in FirstChunk(u) .. Chunks[u]
        BY <1>13, <2>3, <3>2 DEF DeviceRead
      <4>2. chunk[u] = FirstChunk(u)
        <5>1. ~(chunk[u] > FirstChunk(u))
          BY <1>13, <3>2, <4>1 DEF DeviceRead
        <5>2. Chunks[u] \in Nat
          BY ChunksAre
        <5>3. QED
          BY <1>0, <4>1, <5>1, <5>2
      <4>3. read'[u] \in Seq(Nat)
        BY <2>1, <3>1
      <4>4. QED
        BY <4>2, <4>3, HasReadNone
    <3>3. ASSUME Polls(u)
          PROVE  HasRead(u, read'[u], chunk[u] + 1)
      BY <2>1, <2>3, <3>1, <3>3, <1>13, HasReadNext, ChunksAre DEF DeviceRead
    <3>4. QED
      BY <1>13, <2>3, <3>2, <3>3 DEF DeviceRead
  <2>4. QED
    BY <2>2, <2>3
<1>14. CASE DeviceError
  BY <1>14 DEF DeviceError
<1>15. CASE DeviceBoot
  BY <1>15 DEF DeviceBoot
<1>16. CASE DeviceFault
  BY <1>16 DEF DeviceFault
<1>17. CASE DeviceReset
  BY <1>17 DEF DeviceReset
<1>18. CASE UNCHANGED vars
  BY <1>18 DEF vars
<1>19. QED
  BY <1>1, <1>2, <1>3, <1>4, <1>5, <1>6, <1>7, <1>8, <1>9, <1>10, <1>11,
     <1>12, <1>13, <1>14, <1>15, <1>16, <1>17, <1>18 DEF Next, LoadOn, Device

-----------------------------------------------------------------------------
LEMMA TransferHolds == Spec => [](TypeInv /\ TransferInv)
<1>1. Init => TypeInv /\ TransferInv
  BY TypeInit DEF Init, TransferInv, Transfer, Polls
<1>2. QED
  BY <1>1, TypeStep, TransferStep, PTL DEF Spec

(* The device reads a chunk that is not mapped any more only if a transfer *)
(* was given up, or was taken for done: wait_for_transfer_completion ends  *)
(* before the device does only then.                                       *)
THEOREM StrayReads == Spec => []StrayReadOnlyAfterTimeout
<1>1. Init => MappedInv
  BY DEF Init, MappedInv, Transfer
<1>2. MappedInv => StrayReadOnlyAfterTimeout
  BY DEF MappedInv, StrayReadOnlyAfterTimeout
<1>3. QED
  BY <1>1, <1>2, MappedStep, TransferHolds, PTL DEF Spec

LEMMA ReverseIs ==
    ASSUME NEW S, NEW t \in Seq(S)
    PROVE  /\ Reverse(t) \in Seq(S) /\ Len(Reverse(t)) = Len(t)
           /\ \A i \in 1 .. Len(t) : Reverse(t)[i] = t[(Len(t) - i) + 1]
<1>1. Len(t) \in Nat /\ \A i \in 1 .. Len(t) : t[(Len(t) - i) + 1] \in S
  OBVIOUS
<1>2. QED
  BY <1>1 DEF Reverse

(* Having read all chunks of an image is having read what was expected.    *)
LEMMA HasReadExpected ==
    ASSUME NEW u \in Callers, NEW s \in Seq(Nat), HasRead(u, s, Chunks[u] + 1)
    PROVE  IsSuffix(Expected(u), s)
<1> DEFINE f == FirstChunk(u)
           n == Chunks[u]
           d == n + 1 - f
           e == Expected(u)
<1>1. f \in Nat /\ n \in Nat /\ f <= n
  BY ChunksAre
<1>2. d <= Len(s) /\ \A k \in f .. n : s[Len(s) - n + k] = k
  <2>1. /\ d <= Len(s)
        /\ \A k \in f .. (n + 1) - 1 : s[Len(s) - (n + 1) + 1 + k] = k
    BY <1>1 DEF HasRead
  <2>2. ASSUME NEW k \in f .. n
        PROVE  s[Len(s) - n + k] = k
    <3>1. k \in f .. (n + 1) - 1 /\ Len(s) - (n + 1) + 1 + k = Len(s) - n + k
      BY <1>1
    <3>2. QED
      BY <2>1, <3>1
  <2>3. QED
    BY <2>1, <2>2
<1>3. d \in Nat /\ Len(s) \in Nat
  BY <1>1
<1>4. e = [k \in 1 .. d |-> k - 1 + f]
  BY DEF Expected
<1> HIDE DEF d, e, f, n
<1>5. e \in Seq(Int) /\ Len(e) = d /\ \A k \in 1 .. d : e[k] = k - 1 + f
  BY <1>1, <1>3, <1>4
<1>7. /\ Reverse(e) \in Seq(Int) /\ Len(Reverse(e)) = d
      /\ \A i \in 1 .. d : Reverse(e)[i] = e[(d - i) + 1]
  BY <1>5, ReverseIs
<1>8. /\ Reverse(s) \in Seq(Nat) /\ Len(Reverse(s)) = Len(s)
      /\ \A i \in 1 .. Len(s) : Reverse(s)[i] = s[(Len(s) - i) + 1]
  BY ReverseIs
<1>9. ASSUME NEW i \in 1 .. d
      PROVE  Reverse(e)[i] = Reverse(s)[i]
  <2>1. (d - i) + 1 \in 1 .. d /\ i \in 1 .. Len(s) /\ n + 1 - i \in f .. n
    BY <1>1, <1>2, <1>3 DEF d
  <2>2. Reverse(e)[i] = n + 1 - i
    BY <1>1, <1>5, <1>7, <2>1 DEF d
  <2>3. s[Len(s) - n + (n + 1 - i)] = n + 1 - i
    BY <1>2, <2>1
  <2>4. Len(s) - n + (n + 1 - i) = (Len(s) - i) + 1
    BY <1>1, <1>3
  <2>5. QED
    BY <1>8, <2>1, <2>2, <2>3, <2>4
<1>10. SubSeq(Reverse(e), 1, d) = SubSeq(Reverse(s), 1, d)
  BY <1>2, <1>3, <1>7, <1>8, <1>9
<1>11. QED
  BY <1>2, <1>7, <1>8, <1>10 DEF IsSuffix, IsPrefix, e

(* What mx_boot_load_image says is loaded has been read, chunk by chunk    *)
(* and in order, by a device that kept its mode.                           *)
THEOREM LoadedIsRead == Spec => []LoadedMeansRead
<1>1. Init => ReadInv
  BY BootAssumption DEF Init, ReadInv, ReadOf, Polls
<1>2. TypeInv /\ ReadInv => LoadedMeansRead
  <2> SUFFICES ASSUME TypeInv, ReadInv, NEW u \in Callers,
                      result[u] = "loaded", ~rushed, ~fault
               PROVE  IsSuffix(Expected(u), read[u])
    BY DEF LoadedMeansRead
  <2>1. HasRead(u, read[u], Chunks[u] + 1)
    BY DEF ReadInv, ReadOf
  <2>2. read[u] \in Seq(Nat)
    BY DEF TypeInv, Types
  <2>3. QED
    BY <2>1, <2>2, HasReadExpected
<1>3. QED
  BY <1>1, <1>2, ReadStep, TransferHolds, PTL DEF Spec

-----------------------------------------------------------------------------
(* What the device has of an image: no chunk, one more, and all.           *)
LEMMA PartIs ==
    ASSUME NEW u \in Callers
    PROVE  /\ \A n \in Int : n <= 0 => Part(u, n) = <<>>
           /\ \A n \in Nat : Append(Part(u, n - 1), <<u, n>>) = Upto(u, n)
<1>1. ASSUME NEW n \in Int, n <= 0
      PROVE  Part(u, n) = <<>>
  BY <1>1 DEF Part
<1>2. ASSUME NEW n \in Nat
      PROVE  Append(Part(u, n - 1), <<u, n>>) = Upto(u, n)
  <2>1. CASE n = 0
    <3>1. Part(u, n - 1) = <<>>
      BY <1>1, <2>1
    <3>2. Append(<<>>, <<u, 0>>) = <<<<u, 0>>>>
      OBVIOUS
    <3>3. QED
      BY <2>1, <3>1, <3>2 DEF Upto
  <2>2. CASE n # 0
    <3> DEFINE p == Part(u, n - 1)
               q == Part(u, n)
    <3>1. p \in Seq(Callers \X Nat) /\ Len(p) = n - 1 /\ \A k \in 1 .. n - 1 : p[k] = <<u, k>>
      BY <2>2 DEF Part
    <3>2. q \in Seq(Callers \X Nat) /\ Len(q) = n /\ \A k \in 1 .. n : q[k] = <<u, k>>
      BY <2>2 DEF Part
    <3> HIDE DEF p, q
    <3>3. Append(p, <<u, n>>) = q
      <4> DEFINE r == Append(p, <<u, n>>)
      <4>1. /\ r \in Seq(Callers \X Nat) /\ Len(r) = n /\ r[n] = <<u, n>>
            /\ \A k \in 1 .. n - 1 : r[k] = p[k]
        BY <2>2, <3>1, AppendProperties
      <4> HIDE DEF r
      <4>2. \A k \in 1 .. n : r[k] = q[k]
        BY <2>2, <3>1, <3>2, <4>1
      <4>3. QED
        BY <3>2, <4>1, <4>2, SeqEqual DEF r
    <3>4. QED
      BY <2>2, <3>3 DEF Upto, p, q
  <2>3. QED
    BY <2>1, <2>2
<1>3. QED
  BY <1>1, <1>2

LEMMA UptoIs ==
    ASSUME NEW u \in Callers
    PROVE  /\ \A n \in Nat : Upto(u, n) # <<>>
           /\ \A n \in Nat : IsSecondStage(Upto(u, n)) <=> n = 0
           /\ IsImage(Upto(u, Chunks[u]))
<1>1. ASSUME NEW n \in Nat
      PROVE  /\ Len(Upto(u, n)) # 0 /\ Upto(u, n)[1] = IF n = 0 THEN <<u, 0>> ELSE <<u, 1>>
  BY DEF Upto, Part
<1>2. ASSUME NEW n \in Nat
      PROVE  Upto(u, n) # <<>>
  BY <1>1
<1>3. ASSUME NEW n \in Nat
      PROVE  IsSecondStage(Upto(u, n)) <=> n = 0
  <2>1. CASE n = 0
    BY <2>1 DEF IsSecondStage, Upto
  <2>2. CASE n # 0
    <3>1. Upto(u, n)[1] = <<u, 1>>
      BY <1>1, <2>2
    <3>2. \A v \in Callers : <<<<v, 0>>>>[1] # <<u, 1>>
      OBVIOUS
    <3>3. QED
      BY <2>2, <3>1, <3>2 DEF IsSecondStage
  <2>3. QED
    BY <2>1, <2>2
<1>4. IsImage(Upto(u, Chunks[u]))
  BY ChunksAre DEF IsImage, Upto, Part
<1>5. QED
  BY <1>2, <1>3, <1>4

LEMMA StageAlone ==
    ASSUME NEW w \in Callers, \A v \in Callers \ {w} : pc'[v] = "idle",
           ~partial', Whole', StageOf(w)',
           pc'[w] \notin {"mode", "status", "finish"} => ready' \in {"ready", "dma_done", "boot"}
    PROVE  Staged'
<1>1. OneCall' /\ Quiet'
  BY DEF OneCall, Quiet, Polls
<1>2. ASSUME NEW v \in Callers, v # w
      PROVE  StageOf(v)'
  BY <1>2 DEF StageOf, Polls
<1>3. QED
  BY <1>1, <1>2 DEF Staged

LEMMA StageCall ==
    ASSUME TypeInv, StageInv, Clean', NEW w \in Callers, LoadOn(w)
    PROVE  Staged'
<1> DEFINE c == chunk[w]
           m == curr[w]
<1>1. /\ pc \in [Callers -> Places] /\ chunk \in [Callers -> Nat]
      /\ curr \in [Callers -> Modes] /\ error \in [Callers -> {"none", "time", "proto"}]
  BY DEF TypeInv, Types
<1>2. Clean
  BY DEF Clean, LoadOn, NoMemory, Lock, NotStarted, Start, PollMode, PollAgain, PollEnds,
         Finish, NextChunk, Return, deviceVars
<1>3. pc[w] # "idle"
  BY DEF LoadOn, NoMemory, Lock, NotStarted, Start, PollMode, PollAgain, PollEnds,
         Finish, NextChunk, Return
<1>4. \A v \in Callers \ {w} : pc[v] = "idle" /\ pc'[v] = "idle"
  <2>1. \A v \in Callers \ {w} : pc[v] = "idle"
    BY <1>2, <1>3 DEF StageInv, Staged, OneCall
  <2>2. \A v \in Callers \ {w} : pc'[v] = pc[v]
    BY <1>1 DEF LoadOn, NoMemory, Lock, NotStarted, Start, PollMode, PollAgain, PollEnds,
           Finish, NextChunk, Return, Returns, Goto
  <2>3. QED
    BY <2>1, <2>2
<1>5. ~partial /\ Whole /\ StageOf(w)
  BY <1>2 DEF StageInv, Staged
<1>6. /\ c \in Nat /\ c \in FirstChunk(w) .. Chunks[w] /\ FirstChunk(w) \in {0, 1}
      /\ Chunks[w] \in Nat
      /\ FirstChunk(w) = 1 => Chunks[w] = 1
  BY <1>1, <1>3, ChunksAre DEF TypeInv, InRange
<1>7. SUFFICES /\ ~partial' /\ Whole' /\ StageOf(w)'
               /\ pc'[w] \notin {"mode", "status", "finish"} =>
                      ready' \in {"ready", "dma_done", "boot"}
  BY <1>4, StageAlone
<1> USE DEF StageOf, Polls, Whole, deviceVars, regVars, callVars
<1>8. CASE NoMemory(w) \/ NotStarted(w)
  BY <1>1, <1>5, <1>8 DEF NoMemory, NotStarted, Returns, Goto
<1>9. CASE Lock(w)
  BY <1>1, <1>5, <1>9 DEF Lock, Goto, Before
<1>10. CASE Start(w)
  BY <1>1, <1>5, <1>10 DEF Start, Goto, Before, ToRead, Transfer
<1>11. CASE PollMode(w)
  BY <1>1, <1>5, <1>11 DEF PollMode, Goto, ToRead, JustRead, HasBooted, Transfer
<1>12. CASE PollAgain(w)
  BY <1>1, <1>5, <1>12 DEF PollAgain, Goto, ToRead, JustRead, HasBooted, Transfer
<1>13. CASE PollEnds(w)
  <2>1. /\ pc[w] = "status" /\ pc'[w] = "finish" /\ ready # "ready"
        /\ UNCHANGED <<mode, booting, received, partial, ready, chunk, curr>>
    BY <1>1, <1>13 DEF PollEnds, Goto
  <2>2. error'[w] = "none"
    BY <1>13 DEF PollEnds, Clean
  <2>3. ready = "dma_done"
    BY <1>1, <1>13, <2>2 DEF PollEnds
  <2>4. JustRead(w, c, m)
    BY <1>5, <2>1, <2>3 DEF ToRead, Transfer
  <2>5. JustRead(w, c, m)'
    BY <2>1, <2>4 DEF JustRead, HasBooted
  <2>6. QED
    BY <1>5, <2>1, <2>5
<1>14. CASE Finish(w)
  <2>1. JustRead(w, c, m) /\ (c # FirstChunk(w) => m = "loader")
    BY <1>5, <1>14 DEF Finish
  <2>2. /\ pc'[w] = "next" /\ chunk'[w] = c /\ curr'[w] = m
        /\ UNCHANGED <<mode, booting, received, partial>>
    BY <1>1, <1>14 DEF Finish, Goto
  <2>3. CASE BootNow(w) /\ m = "loader"
    <3>1. received = Upto(w, c) /\ mode = "loader" /\ ~booting
      BY <2>1, <2>3 DEF JustRead
    <3>2. ready' = "boot"
      BY <1>14, <2>3 DEF Finish
    <3>3. IsSecondStage(Upto(w, c)) \/ IsImage(Upto(w, c))
      BY <1>6, <2>3, UptoIs DEF BootNow
    <3>4. Told(w, c)' /\ Whole'
      BY <2>2, <3>1, <3>2, <3>3 DEF Told
    <3>5. QED
      BY <1>5, <2>1, <2>2, <2>3, <3>2, <3>4 DEF BootNow
  <2>4. CASE ~(BootNow(w) /\ m = "loader")
    <3>1. ready' = ready
      BY <1>14, <2>4 DEF Finish
    <3>2. JustRead(w, c, m)' /\ Whole' /\ ready' \in {"ready", "dma_done", "boot"}
      BY <1>5, <2>1, <2>2, <3>1 DEF JustRead, HasBooted
    <3>3. m = "boot" \/ ~BootNow(w)
      BY <2>1, <2>4 DEF JustRead
    <3>4. QED
      BY <1>5, <2>1, <2>2, <3>2, <3>3 DEF BootNow
  <2>5. QED
    BY <2>3, <2>4
<1>15. CASE NextChunk(w)
  <2>1. /\ IF m = "boot" \/ ~BootNow(w) THEN JustRead(w, c, m) ELSE Told(w, c)
        /\ c # FirstChunk(w) => m = "loader"
        /\ c = 0 => mode = "loader"
        /\ c < Chunks[w]
    BY <1>5, <1>15 DEF NextChunk
  <2>2. /\ pc'[w] = "copy" /\ chunk'[w] = c + 1
        /\ UNCHANGED <<mode, booting, received, partial, ready>>
    BY <1>1, <1>15 DEF NextChunk, Goto
  <2>3. CASE c = 0
    <3>1. HasBooted(c) \/ (received = Upto(w, 0) /\ ready = "boot" /\ ~booting)
      BY <2>1, <2>3 DEF JustRead, Told, BootNow
    <3>2. Part(w, 0) = <<>> /\ FirstChunk(w) = 0
      BY <1>6, <2>3, PartIs
    <3>3. Before(w, c + 1) /\ ready \in {"ready", "dma_done", "boot"}
      BY <2>1, <2>3, <3>1, <3>2 DEF Before, HasBooted
    <3>4. QED
      BY <1>5, <2>2, <3>3 DEF Before
  <2>4. CASE c # 0
    <3>0. FirstChunk(w) = 0
      BY <1>6, <2>1, <2>4
    <3>1. m = "loader" /\ ~BootNow(w)
      BY <1>6, <2>1, <2>4, <3>0 DEF BootNow
    <3>2. received = Upto(w, c) /\ ready = "dma_done" /\ mode = "loader" /\ ~booting
      BY <2>1, <3>1 DEF JustRead
    <3>3. Upto(w, c) = Part(w, c + 1 - 1)
      BY <1>6, <2>4 DEF Upto
    <3>4. Before(w, c + 1) /\ ready \in {"ready", "dma_done", "boot"}
      BY <1>6, <3>2, <3>3 DEF Before
    <3>5. QED
      BY <1>5, <2>2, <3>4 DEF Before
  <2>5. QED
    BY <2>3, <2>4
<1>16. CASE Return(w)
  <2>1. pc[w] = "next" /\ pc'[w] = "idle"
    BY <1>1, <1>16 DEF Return, Returns, Goto
  <2>2. UNCHANGED <<ready, booting, received, partial>>
    BY <1>16 DEF Return
  <2>3. ready \in {"ready", "dma_done", "boot"}
    BY <1>5, <2>1 DEF JustRead, HasBooted, Told
  <2>4. QED
    BY <1>5, <2>1, <2>2, <2>3
<1>17. QED
  BY <1>8, <1>9, <1>10, <1>11, <1>12, <1>13, <1>14, <1>15, <1>16 DEF LoadOn

LEMMA StageDevice == TypeInv /\ StageInv /\ Clean' /\ Device => Staged'
<1> SUFFICES ASSUME TypeInv, StageInv, Clean', Device
             PROVE  Staged'
  OBVIOUS
<1>1. /\ pc \in [Callers -> Places] /\ chunk \in [Callers -> Nat]
      /\ curr \in [Callers -> Modes] /\ pc' = pc /\ chunk' = chunk /\ curr' = curr
      /\ ready \in Statuses
  BY DEF TypeInv, Types, Device, DeviceStart, DeviceRead, DeviceError, DeviceBoot,
         DeviceFault, DeviceReset, callVars
<1>2. Clean
  BY DEF Clean, Device, DeviceStart, DeviceRead, DeviceError, DeviceBoot, DeviceFault,
         DeviceReset, callVars, deviceVars
<1>3. ~partial /\ OneCall /\ Whole /\ Quiet /\ \A u \in Callers : StageOf(u)
  BY <1>2 DEF StageInv, Staged
<1>4. DeviceStart \/ DeviceRead \/ DeviceError \/ DeviceBoot
  BY DEF Clean, Device, DeviceFault, DeviceReset
<1>5. DeviceBoot =>
          /\ ready' = "ready" /\ received' = <<>> /\ ~booting' /\ ~partial'
          /\ mode' = IF IsSecondStage(received) THEN "loader" ELSE "app"
  <2>1. DeviceBoot => IsSecondStage(received) \/ IsImage(received)
    BY <1>3 DEF DeviceBoot, Whole
  <2>2. DeviceBoot => ~partial'
    BY <1>3, <2>1 DEF DeviceBoot
  <2>3. QED
    BY <2>2 DEF DeviceBoot
<1>6. CASE \A u \in Callers : pc[u] = "idle"
  <2>1. ready \in {"ready", "dma_done", "boot"}
    BY <1>3, <1>6 DEF Quiet, Polls
  <2>2. DeviceBoot
    BY <1>4, <2>1 DEF DeviceStart, DeviceRead, DeviceError
  <2>3. QED
    BY <1>1, <1>3, <1>5, <1>6, <2>2
       DEF Staged, OneCall, Quiet, Whole, StageOf, Polls
<1>7. ASSUME NEW w \in Callers, pc[w] # "idle"
      PROVE  Staged'
  <2> DEFINE c == chunk[w]
             m == curr[w]
  <2>1. /\ StageOf(w) /\ c \in Nat /\ c \in FirstChunk(w) .. Chunks[w]
        /\ FirstChunk(w) \in {0, 1} /\ Chunks[w] \in Nat
        /\ FirstChunk(w) = 1 => Chunks[w] = 1
    BY <1>1, <1>3, <1>7, ChunksAre DEF TypeInv, InRange
  <2>2. \A v \in Callers \ {w} : pc'[v] = "idle"
    BY <1>1, <1>3, <1>7 DEF OneCall
  <2>3. SUFFICES /\ ~partial' /\ Whole' /\ StageOf(w)'
                 /\ pc'[w] \notin {"mode", "status", "finish"} =>
                        ready' \in {"ready", "dma_done", "boot"}
    BY <2>2, StageAlone
  <2>4. ASSUME pc[w] \notin {"mode", "status", "finish"}
        PROVE  ready \in {"ready", "dma_done", "boot"}
    BY <1>7, <2>1, <2>4 DEF StageOf, JustRead, HasBooted, Told, Places, TypeInv, Types
  <2>5. ASSUME Transfer
        PROVE  Polls(w) /\ ToRead(w, c, m) /\ ready # "error"
    BY <2>1, <2>4, <2>5 DEF StageOf, JustRead, HasBooted, Polls, Transfer
  <2>6. CASE DeviceStart
    <3>1. Polls(w) /\ ToRead(w, c, m)
      BY <2>5, <2>6 DEF DeviceStart, Transfer
    <3>2. ToRead(w, c, m)'
      BY <1>1, <2>5, <2>6, <3>1 DEF DeviceStart, ToRead, Transfer, deviceVars
    <3>3. QED
      BY <1>1, <1>3, <2>1, <2>6, <3>1, <3>2 DEF DeviceStart, StageOf, Polls, Whole, deviceVars
  <2>7. CASE DeviceError
    <3>1. Polls(w) /\ ToRead(w, c, m)
      BY <2>5, <2>7 DEF DeviceError, Transfer
    <3>2. ToRead(w, c, m)'
      BY <1>1, <2>7, <3>1 DEF DeviceError, ToRead, Transfer, deviceVars
    <3>3. QED
      BY <1>1, <1>3, <2>1, <2>7, <3>1, <3>2 DEF DeviceError, StageOf, Polls, Whole, deviceVars
  <2>8. CASE DeviceRead
    <3>1. Polls(w) /\ start = <<w, c>> /\ received = Part(w, c - 1) /\ mode = m
      BY <2>5, <2>8 DEF DeviceRead, Transfer, ToRead
    <3>2. received' = Upto(w, c)
      BY <2>1, <2>8, <3>1, PartIs DEF DeviceRead
    <3>3. JustRead(w, c, m)'
      BY <1>1, <2>8, <3>1, <3>2 DEF DeviceRead, JustRead
    <3>4. Whole'
      <4>1. SUFFICES ASSUME m = "boot"
                     PROVE  IsSecondStage(Upto(w, c)) \/ IsImage(Upto(w, c))
        BY <2>8, <3>1, <3>2 DEF DeviceRead, Whole
      <4>2. c = 0 \/ c = Chunks[w]
        BY <2>1, <3>1, <4>1 DEF StageOf, Polls
      <4>3. QED
        BY <2>1, <4>2, UptoIs
    <3>5. QED
      BY <1>1, <1>3, <2>1, <2>8, <3>1, <3>3, <3>4 DEF DeviceRead, StageOf, Polls
  <2>9. CASE DeviceBoot
    <3>1. CASE pc[w] \in {"copy", "start"}
      <4>1. /\ received = Upto(w, 0) /\ ready = "boot" /\ ~booting
            /\ c = 1 /\ FirstChunk(w) = 0 /\ mode = "loader"
        BY <2>1, <2>9, <3>1 DEF DeviceBoot, StageOf, Before
      <4>2. IsSecondStage(received) /\ Part(w, 0) = <<>>
        BY <4>1, UptoIs, PartIs
      <4>3. mode' = "loader" /\ received' = Part(w, 0)
        BY <1>5, <2>9, <4>2
      <4>4. Before(w, c)'
        BY <1>1, <1>5, <2>9, <4>1, <4>3 DEF Before
      <4>5. QED
        BY <1>1, <1>5, <2>1, <2>9, <3>1, <4>1, <4>3, <4>4 DEF StageOf, Polls, Whole
    <3>2. CASE pc[w] \notin {"copy", "start"}
      <4>1. pc[w] \in {"mode", "status", "finish", "next"}
        BY <1>1, <1>7, <3>2 DEF Places
      <4>2. received = Upto(w, c) /\ (pc[w] # "next" => m = "boot")
        BY <2>1, <2>9, <4>1 DEF DeviceBoot, StageOf, ToRead, JustRead, HasBooted, Told,
           Polls, Transfer
      <4>3. IsSecondStage(received) <=> c = 0
        BY <2>1, <4>2, UptoIs
      <4>4. HasBooted(c)'
        BY <1>1, <1>5, <2>9, <4>3 DEF HasBooted
      <4>5. pc[w] = "next" /\ (m = "boot" \/ ~BootNow(w)) => m = "boot"
        BY <2>1, <2>9 DEF DeviceBoot, StageOf, JustRead, HasBooted
      <4>6. QED
        BY <1>1, <1>5, <2>1, <2>9, <4>1, <4>2, <4>4, <4>5
           DEF StageOf, Polls, Whole, JustRead, Told, BootNow
    <3>3. QED
      BY <3>1, <3>2
  <2>10. QED
    BY <1>4, <2>6, <2>7, <2>8, <2>9
<1>8. QED
  BY <1>6, <1>7

LEMMA StageStep == TypeInv /\ StageInv /\ [Next]_vars => StageInv'
<1> SUFFICES ASSUME TypeInv, StageInv, [Next]_vars, Clean'
             PROVE  Staged'
  BY DEF StageInv
<1>1. ASSUME NEW w \in Callers, Load(w)
      PROVE  Staged'
  <2>1. /\ pc \in [Callers -> Places] /\ chunk \in [Callers -> Nat]
    BY DEF TypeInv, Types
  <2>2. Clean /\ received = <<>> /\ \A v \in Callers : pc[v] = "idle"
    BY <1>1 DEF Load, Clean
  <2>3. ~partial /\ Whole /\ ready \in {"ready", "dma_done", "boot"}
    BY <2>2 DEF StageInv, Staged, Quiet, Polls
  <2>4. ~booting /\ ready # "boot"
    <3>1. ~IsSecondStage(received)
      BY <2>2 DEF IsSecondStage
    <3>2. ASSUME NEW u \in Callers
          PROVE  received # [k \in 1 .. Chunks[u] |-> <<u, k>>]
      <4>1. Upto(u, Chunks[u]) = [k \in 1 .. Chunks[u] |-> <<u, k>>]
        BY ChunksAre DEF Upto, Part
      <4>2. QED
        BY <2>2, <4>1, ChunksAre, UptoIs
    <3>3. QED
      BY <2>3, <3>1, <3>2 DEF Whole, IsImage
  <2>5. /\ pc'[w] = "copy" /\ chunk'[w] = FirstChunk(w)
        /\ UNCHANGED <<mode, ready, booting, received, partial>>
        /\ \A v \in Callers \ {w} : pc'[v] = "idle"
    BY <1>1, <2>1, <2>2 DEF Load, Goto, regVars
  <2>6. received = Part(w, FirstChunk(w) - 1)
    <3>1. FirstChunk(w) - 1 \in Int /\ FirstChunk(w) - 1 <= 0
      BY ChunksAre
    <3>2. QED
      BY <2>2, <3>1, PartIs
  <2>7. StageOf(w)'
    BY <2>3, <2>4, <2>5, <2>6 DEF StageOf, Polls, Before
  <2>8. QED
    BY <2>3, <2>4, <2>5, <2>7, StageAlone DEF Whole
<1>2. ASSUME NEW w \in Callers, LoadOn(w)
      PROVE  Staged'
  BY <1>2, StageCall
<1>3. CASE Device
  BY <1>3, StageDevice
<1>4. CASE UNCHANGED vars
  BY <1>4 DEF StageInv, Staged, Clean, OneCall, Quiet, Whole, StageOf, Polls, Before, ToRead,
              JustRead, HasBooted, Told, Transfer, BootNow, vars, deviceVars, regVars, callVars
<1>5. QED
  BY <1>1, <1>2, <1>3, <1>4 DEF Next

(* While no transfer failed, no two loads met and the device kept its      *)
(* mode, what it boots is the second stage loader or a whole image: the    *)
(* loader is told to boot after the last chunk only.                       *)
THEOREM WholeImagesAreBooted == Spec => []PartialBootOnlyAfterError
<1>1. Init => StageInv
  BY DEF Init, StageInv, Staged, OneCall, Quiet, Whole, StageOf, Polls
<1>2. StageInv => PartialBootOnlyAfterError
  BY DEF StageInv, Staged, Clean, PartialBootOnlyAfterError
<1>3. QED
  BY <1>1, <1>2, StageStep, TransferHolds, PTL DEF Spec
=============================================================================
