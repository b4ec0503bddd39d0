----------------------------- MODULE MC_MxvpCmd -----------------------------
(* Commands that compete for the entries of one list, and the throughput   *)
(* test on the other.  The commands of the first are interchangeable.      *)
EXTENDS MxvpCmd, TLC

CONSTANTS c1, c2, c3, d1, d2, d3

MC_ListOf == [c \in Cmds |-> IF c \in {d1, d2, d3} THEN "dma" ELSE "cmd"]
MC_Throughput == <<d1, d2>>
MC_NoTest == <<>>
CmdSymmetry == Permutations({c1, c2, c3})
=============================================================================
