------------------------------- MODULE MxBoot -------------------------------
(***************************************************************************)
(* Sending an image to the device (common/mx_boot.c), called by the boot   *)
(* ioctl of mxlk and by write() of mxbl, on which nothing keeps two        *)
(* callers apart but the lock around each chunk.  An image of more than    *)
(* one chunk first needs the second stage loader, an image of one chunk    *)
(* that the device boots by itself; the loader takes the chunks and boots  *)
(* when MX_MF_READY says so.                                               *)
(*                                                                         *)
(* The contents of a chunk are not modelled, so neither is that a failed   *)
(* copy from the user is only reported.                                    *)
(***************************************************************************)
EXTENDS Integers, SequencesExt

CONSTANTS
    Callers,         \* threads that load an image
    Length,          \* how many bytes the image of each has
    Tries,           \* start_tmo and pending_tmo
    MaxLoads,        \* bound: calls of mx_boot_load_image
    DeviceMayFail,   \* whether the device may fail on its own; bound: once
    None             \* nobody

ASSUME BootAssumption ==
    /\ Length \in [Callers -> Nat \ {0}]
    /\ Tries \in Nat /\ MaxLoads \in Nat /\ DeviceMayFail \in BOOLEAN
    /\ None \notin Callers \union {"failed", "loaded"}

MAX_CONT_BUFFER_SIZE_LINUX == 4 * 1024 * 1024

(* How many chunks of that size there are in an image.                     *)
ChunksOf(length) ==
    (length + MAX_CONT_BUFFER_SIZE_LINUX - 1) \div MAX_CONT_BUFFER_SIZE_LINUX
Chunks == [u \in Callers |-> ChunksOf(Length[u])]

(* The bytes of mx_second_stage_bl_image: they must do with one chunk, or  *)
(* loading it would need the second stage loader.                          *)
SecondStageSize == 72272

ASSUME SecondStageAssumption == ChunksOf(SecondStageSize) = 1

VARIABLES
    mode,            \* the main magic: the mode of the device
    ready,           \* MX_MF_READY
    start,           \* MX_MF_START: the chunk to read
    booting,         \* in boot mode, the device has an image to boot
    received,        \* the chunks the device has for the next boot
    mapped,          \* chunks mapped for the device
    lock,            \* transfer_lock
    pc, chunk,       \* where each call stands; its chunk, 0 the second stage
    curr,            \* curr_mode of boot_image_transfer
    tries, error,    \* what it has left of its timeout; what it returns
    result,          \* what the last call returned
    loads,           \* calls so far
    (* What happened, for the properties.                                  *)
    read,            \* chunks of its call the device has read, in order
    rushed,          \* a transfer was begun as the device was booting
    mixed,           \* a call began before all was over with another
    failed, fault,   \* how transfers failed, the device failed on its own
    stray, partial   \* read unmapped memory, booted a partial image

deviceVars == <<mode, booting, received, stray, partial, read, fault>>
regVars    == <<ready, start>>
callVars   == <<pc, chunk, curr, tries, error, result, loads, rushed, mixed, failed>>
vars == <<deviceVars, regVars, callVars, mapped, lock>>

Modes == {"boot", "loader", "app", "unknown"}
Statuses == {"ready", "pending", "starting", "dma_done", "boot", "error"}

Init ==
    /\ mode = "boot" /\ ready = "ready" /\ start = None
    /\ booting = FALSE /\ received = <<>> /\ mapped = {} /\ lock = None
    /\ pc = [u \in Callers |-> "idle"] /\ chunk = [u \in Callers |-> 0]
    /\ curr = [u \in Callers |-> "boot"] /\ tries = [u \in Callers |-> 0]
    /\ error = [u \in Callers |-> "none"] /\ result = [u \in Callers |-> None]
    /\ loads = 0
    /\ read = [u \in Callers |-> <<>>] /\ rushed = FALSE
    /\ mixed = FALSE /\ failed = {} /\ fault = FALSE
    /\ stray = FALSE /\ partial = FALSE

Goto(u, to) == pc' = [pc EXCEPT ![u] = to]
Returns(u, r) == Goto(u, "idle") /\ result' = [result EXCEPT ![u] = r]

FirstChunk(u) == IF Length[u] > MAX_CONT_BUFFER_SIZE_LINUX THEN 0 ELSE 1

(* mx_boot_load_image is called.                                           *)
Load(u) ==
    /\ pc[u] = "idle" /\ loads < MaxLoads
    /\ loads' = loads + 1
    /\ Goto(u, "copy")
    /\ chunk' = [chunk EXCEPT ![u] = FirstChunk(u)]
    /\ result' = [result EXCEPT ![u] = None]
    /\ read' = [read EXCEPT ![u] = <<>>]
    /\ mixed' = (mixed \/ received # <<>> \/ \E v \in Callers : pc[v] # "idle")
    /\ UNCHANGED <<mode, booting, received, stray, partial, fault, regVars,
                   curr, tries, error, rushed, failed, mapped, lock>>

(* No memory for the chunk.                                                *)
NoMemory(u) ==
    /\ pc[u] = "copy"
    /\ Returns(u, "failed")
    /\ UNCHANGED <<deviceVars, regVars, chunk, curr, tries, error, loads, rushed, mixed,
                   failed, mapped, lock>>

(* boot_image_transfer, under the lock: the mode first.                    *)
Lock(u) ==
    /\ pc[u] = "copy" /\ lock = None
    /\ lock' = u
    /\ curr' = [curr EXCEPT ![u] = mode]
    /\ Goto(u, "start")
    /\ UNCHANGED <<deviceVars, regVars, chunk, tries, error, result, loads, rushed, mixed,
                   failed, mapped>>

(* -EIO when the device is not ready, or the mapping failed.               *)
NotStarted(u) ==
    /\ pc[u] = "start"
    /\ lock' = None
    /\ Returns(u, "failed")
    /\ UNCHANGED <<deviceVars, regVars, chunk, curr, tries, error, loads, rushed, mixed,
                   failed, mapped>>

(* The chunk is mapped and the registers tell the device of it.            *)
Start(u) ==
    /\ pc[u] = "start" /\ ready \in {"ready", "dma_done"}
    /\ mapped' = mapped \union {<<u, chunk[u]>>}
    /\ start' = <<u, chunk[u]>> /\ ready' = "pending"
    /\ tries' = [tries EXCEPT ![u] = Tries]
    /\ rushed' = (rushed \/ booting \/ mode # curr[u])
    /\ Goto(u, "mode")
    /\ UNCHANGED <<deviceVars, chunk, curr, error, result, loads, mixed, failed, lock>>

(* wait_for_transfer_completion: a change of mode ends the wait...         *)
PollMode(u) ==
    /\ pc[u] = "mode"
    /\ IF mode # curr[u]
       THEN Goto(u, "finish") /\ error' = [error EXCEPT ![u] = "none"]
       ELSE Goto(u, "status") /\ UNCHANGED error
    /\ UNCHANGED <<deviceVars, regVars, chunk, curr, tries, result, loads, rushed, mixed,
                   failed, mapped, lock>>

Waits(u) == ready \in {"pending", "starting"} /\ tries[u] > 0

Bug_PollAgain(u) ==
    /\ pc[u] = "status" /\ ready \in {"ready", "pending", "starting"}
    /\ Goto(u, "mode")
    /\ UNCHANGED <<deviceVars, regVars, chunk, curr, tries, error, result, loads, rushed, mixed,
                   failed, mapped, lock>>

(* ...a status that says to wait starts it over, one that is ready at once *)
PollAgain(u) ==
    /\ pc[u] = "status" /\ (ready = "ready" \/ Waits(u))
    /\ tries' = [tries EXCEPT ![u] = IF ready = "ready" THEN @ ELSE @ - 1]
    /\ Goto(u, "mode")
    /\ UNCHANGED <<deviceVars, regVars, chunk, curr, error, result, loads, rushed, mixed,
                   failed, mapped, lock>>

Bug_PollEnds(u) ==
    /\ pc[u] = "status" /\ ready # "ready" /\ ~Waits(u)
    /\ error' = [error EXCEPT ![u] = "none"]
    /\ Goto(u, "finish")
    /\ UNCHANGED <<deviceVars, regVars, chunk, curr, tries, result, loads, rushed, mixed,
                   failed, mapped, lock>>

(* ...and any other ends it: 0, -ETIME or -EPROTO.                         *)
PollEnds(u) ==
    /\ pc[u] = "status" /\ ready # "ready" /\ ~Waits(u)
    /\ error' = [error EXCEPT ![u] =
                     IF ready = "dma_done" THEN "none"
                     ELSE IF ready \in {"pending", "starting"} THEN "time" ELSE "proto"]
    /\ failed' = failed \union ({error'[u]} \ {"none"})
    /\ Goto(u, "finish")
    /\ UNCHANGED <<deviceVars, regVars, chunk, curr, tries, result, loads, rushed, mixed,
                   mapped, lock>>

BootNow(u) == chunk[u] \in {0, Chunks[u]}

Bug_Finish(u) ==
    /\ pc[u] = "finish"
    /\ mapped' = mapped \ {<<u, chunk[u]>>}
    /\ ready' = IF curr[u] = "loader" THEN "boot" ELSE ready
    /\ lock' = None
    /\ Goto(u, "next")
    /\ UNCHANGED <<deviceVars, start, chunk, curr, tries, error, result, loads, rushed,
                   mixed, failed>>

(* The chunk is unmapped, the loader told to boot after the last one even  *)
(* if its transfer failed, and the lock given up.                          *)
Finish(u) ==
    /\ pc[u] = "finish"
    /\ mapped' = mapped \ {<<u, chunk[u]>>}
    /\ ready' = IF BootNow(u) /\ curr[u] = "loader" THEN "boot" ELSE ready
    /\ lock' = None
    /\ Goto(u, "next")
    /\ UNCHANGED <<deviceVars, start, chunk, curr, tries, error, result, loads, rushed,
                   mixed, failed>>

(* On to the next chunk, from the second stage only if the device is in    *)
(* loader mode, or back to the caller.                                     *)
NextChunk(u) ==
    /\ pc[u] = "next" /\ error[u] = "none" /\ chunk[u] < Chunks[u]
    /\ chunk[u] = 0 => mode = "loader"
    /\ chunk' = [chunk EXCEPT ![u] = @ + 1]
    /\ Goto(u, "copy")
    /\ UNCHANGED <<deviceVars, regVars, curr, tries, error, result, loads, rushed, mixed,
                   failed, mapped, lock>>

Return(u) ==
    /\ pc[u] = "next"
    /\ \/ error[u] # "none" /\ Returns(u, "failed")
       \/ error[u] = "none" /\ chunk[u] = 0 /\ mode # "loader" /\ Returns(u, "failed")
       \/ error[u] = "none" /\ chunk[u] = Chunks[u] /\ Returns(u, "loaded")
    /\ UNCHANGED <<deviceVars, regVars, chunk, curr, tries, error, loads, rushed, mixed,
                   failed, mapped, lock>>

-----------------------------------------------------------------------------
(* The device: it starts a transfer, reads the chunk, or fails to.         *)
DeviceStart ==
    /\ ready = "pending" /\ mode \in {"boot", "loader"} /\ ~booting
    /\ ready' = "starting"
    /\ UNCHANGED <<deviceVars, start, callVars, mapped, lock>>

DeviceRead ==
    /\ ready = "starting" /\ mode \in {"boot", "loader"} /\ ~booting
    /\ LET u == start[1] IN read' = [read EXCEPT ![u] = Append(@, start[2])]
    /\ stray' = (stray \/ start \notin mapped)
    /\ received' = Append(received, start)
    /\ booting' = (mode = "boot")
    /\ ready' = "dma_done"
    /\ UNCHANGED <<mode, partial, fault, start, callVars, mapped, lock>>

DeviceError ==
    /\ ready = "starting" /\ mode \in {"boot", "loader"} /\ ~booting
    /\ ready' = "error"
    /\ UNCHANGED <<deviceVars, start, callVars, mapped, lock>>

IsImage(image) == \E u \in Callers : image = [k \in 1 .. Chunks[u] |-> <<u, k>>]
IsSecondStage(image) == \E u \in Callers : image = <<<<u, 0>>>>

(* The boot ROM boots the one chunk it has read, the loader all it has.    *)
DeviceBoot ==
    /\ booting \/ (mode = "loader" /\ ready = "boot")
    /\ mode' = IF IsSecondStage(received) THEN "loader" ELSE "app"
    /\ partial' = (partial \/ ~(IsSecondStage(received) \/ IsImage(received)))
    /\ received' = <<>> /\ booting' = FALSE
    /\ ready' = "ready"
    /\ UNCHANGED <<stray, read, fault, start, callVars, mapped, lock>>

(* It loses its mode...                                                    *)
DeviceFault ==
    /\ DeviceMayFail /\ ~fault
    /\ mode' = "unknown" /\ booting' = FALSE
    /\ fault' = TRUE
    /\ UNCHANGED <<received, stray, partial, read, regVars, callVars, mapped, lock>>

(* ...or resets itself, and is ready for an image, whatever it was at.     *)
DeviceReset ==
    /\ DeviceMayFail /\ ~fault
    /\ mode' = "boot" /\ ready' = "ready" /\ booting' = FALSE /\ received' = <<>>
    /\ fault' = TRUE
    /\ UNCHANGED <<stray, partial, read, start, callVars, mapped, lock>>

Device ==
    \/ DeviceStart \/ DeviceRead \/ DeviceError \/ DeviceBoot
    \/ DeviceFault \/ DeviceReset

-----------------------------------------------------------------------------
LoadOn(u) ==
    \/ NoMemory(u) \/ Lock(u) \/ NotStarted(u) \/ Start(u)
    \/ PollMode(u) \/ PollAgain(u) \/ PollEnds(u)
    \/ Finish(u) \/ NextChunk(u) \/ Return(u)

Next == (\E u \in Callers : Load(u) \/ LoadOn(u)) \/ Device

Spec == Init /\ [][Next]_vars

(* The kernel runs the callers and the mutex lets each in sooner or later; *)
(* the device may take any time, or stop.                                  *)
FairSpec == Spec /\ \A u \in Callers : WF_vars(LoadOn(u))

-----------------------------------------------------------------------------
(* "if success: length of the image loaded" (mx_boot.h): the device has    *)
(* read every chunk of an image that counts as loaded, in order, unless it *)
(* failed on its own or was booting when a transfer began: the change of   *)
(* mode then passes for the end of that transfer.  A chunk of an earlier   *)
(* call that timed out may have been read before.                          *)
Expected(u) == [k \in 1 .. Chunks[u] + 1 - FirstChunk(u) |-> k - 1 + FirstChunk(u)]
LoadedMeansRead ==
    \A u \in Callers : result[u] = "loaded" /\ ~rushed /\ ~fault =>
        IsSuffix(Expected(u), read[u])

(* The device reads memory that is not mapped any more only after a        *)
(* transfer timed out, or was taken for done although it was not.          *)
StrayReadOnlyAfterTimeout ==
    stray => "time" \in failed \/ fault \/ rushed

(* A device boots part of an image, or a mixture, only if a transfer of    *)
(* that image failed or two loads met.                                     *)
PartialBootOnlyAfterError ==
    partial => mixed \/ fault \/ failed # {}

(* A call polls a device that is ready in the mode the transfer began in,  *)
(* as one that has reset itself may be: PollAgain has no limit for that.   *)
Spins(u) ==
    fault /\ pc[u] \in {"mode", "status"} /\ ready = "ready" /\ mode = curr[u]

(* Every load returns, also from a device that stops or fails, unless one  *)
(* of the calls polls such a device for good: that one keeps the lock, and *)
(* neither it nor a call that waits for the lock returns.                  *)
EveryLoadReturns ==
    (\A u \in Callers : []<>~Spins(u)) =>
        \A u \in Callers : pc[u] # "idle" ~> pc[u] = "idle"
=============================================================================
