----------------------------- MODULE MC_MxlkTx -----------------------------
(* MxlkTx on a small instance: model values for buffers and interfaces.    *)
EXTENDS MxlkTx

(* The first slot is any slot: the ring goes round.                        *)
AtFirstSlot == Init /\ regHead = 0
FromFirstSlot == AtFirstSlot /\ [][Next]_vars /\ Fairness
=============================================================================
