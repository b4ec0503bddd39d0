--------------------------- MODULE MC_SerialDemo ----------------------------
(* Chunks of two parts, links that hold one chunk and a half.              *)
EXTENDS SerialDemo
=============================================================================
