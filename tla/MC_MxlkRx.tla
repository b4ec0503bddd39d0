----------------------------- MODULE MC_MxlkRx -----------------------------
(* MxlkRx on a small instance: what the device may send.                   *)
EXTENDS MxlkRx

CONSTANTS i1, i2

Hdr(ok, interface, len) == [ok |-> ok, interface |-> interface, len |-> len]

(* Fragments of two bytes and of one for two interfaces, a failed one, one *)
(* for an interface that does not exist.                                   *)
MixedHeaders ==
    {Hdr(TRUE, i1, 2), Hdr(TRUE, i2, 1), Hdr(FALSE, i1, 1), Hdr(TRUE, BadInterface, 1)}

(* A fragment that takes two short reads, an empty and a failed one.       *)
LongHeaders == {Hdr(TRUE, i1, 2), Hdr(TRUE, i1, 0), Hdr(FALSE, i1, 1)}

BufSymmetry == Permutations(Bufs)

(* The first slot is any slot, as the ring goes round, and which buffers   *)
(* are on it does not matter.                                              *)
AtFirstSlot ==
    /\ Init /\ regHead = 0
    /\ ddr = CHOOSE f \in [Slots -> Bufs] : IsInjective(f)
FromFirstSlot == AtFirstSlot /\ [][Next]_vars /\ Fairness
=============================================================================
