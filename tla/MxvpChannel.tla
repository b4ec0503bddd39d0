---------------------------- MODULE MxvpChannel ----------------------------
(***************************************************************************)
(* What sending a command to the VPU promises (vpu/mxvp/mxvp_bspec.h):     *)
(* once a command has been accepted its callback is called, one time.      *)
(***************************************************************************)
CONSTANT Cmds

VARIABLES
    inflight,       \* accepted, and the callback is still to come
    calls           \* parity of the callbacks so far, of each command

vars == <<inflight, calls>>

Init == inflight = {} /\ calls = [c \in Cmds |-> FALSE]

Submit(c) ==
    /\ c \notin inflight
    /\ inflight' = inflight \union {c}
    /\ UNCHANGED calls

Complete(c) ==
    /\ c \in inflight
    /\ inflight' = inflight \ {c}
    /\ calls' = [calls EXCEPT ![c] = ~@]

Next == \E c \in Cmds : Submit(c) \/ Complete(c)

Spec == Init /\ [][Next]_vars
=============================================================================
