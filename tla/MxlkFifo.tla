------------------------------ MODULE MxlkFifo ------------------------------
(***************************************************************************)
(* What one direction of the mxlk serial link promises: fragments come out *)
(* in the order in which they went in, each once and unaltered.  The only  *)
(* liberty is a fragment the sender gives up on (a DMA mapping failure),   *)
(* which leaves the sequence without disturbing its neighbours.            *)
(***************************************************************************)
EXTENDS SequencesExt

CONSTANT Frags            \* what a fragment can be

VARIABLES
    queued,               \* the fragments accepted so far and not given up
    delivered             \* the fragments handed to the receiver

vars == <<queued, delivered>>

Init == queued = <<>> /\ delivered = <<>>

(* New fragments join at the end.                                          *)
Accept ==
    /\ queued' \in Seq(Frags)
    /\ IsStrictPrefix(queued, queued')
    /\ UNCHANGED delivered

(* The oldest fragment that has not come out yet comes out.                *)
Deliver ==
    /\ Len(delivered) < Len(queued)
    /\ delivered' = Append(delivered, queued[Len(delivered) + 1])
    /\ UNCHANGED queued

(* Only what has not come out yet can be given up.                         *)
GiveUp(k) ==
    /\ k \in (Len(delivered) + 1) .. Len(queued)
    /\ queued' = RemoveAt(queued, k)
    /\ UNCHANGED delivered

Next ==
    \/ Accept
    \/ Deliver
    \/ \E k \in 1 .. Len(queued) : GiveUp(k)

Spec == Init /\ [][Next]_vars
=============================================================================
