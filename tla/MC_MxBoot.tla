------------------------------ MODULE MC_MxBoot ------------------------------
(* An image one byte too long for a single chunk, and one just as long.    *)
EXTENDS MxBoot

CONSTANTS u1, u2

MC_Length ==
    [u \in Callers |-> MAX_CONT_BUFFER_SIZE_LINUX + (IF u = u1 THEN 1 ELSE 0)]
=============================================================================
