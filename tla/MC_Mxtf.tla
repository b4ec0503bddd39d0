------------------------------ MODULE MC_Mxtf -------------------------------
(* Tests that compete for three blocks, which do not suffice for all; the  *)
(* last byte of the memory is no part of a block.                          *)
EXTENDS Mxtf
=============================================================================
