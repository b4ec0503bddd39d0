------------------------------- MODULE MC_Mxbl -------------------------------
(* One device, which may start up, boot and fault at any time.             *)
EXTENDS Mxbl

CONSTANTS d1
=============================================================================
