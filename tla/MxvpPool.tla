------------------------------ MODULE MxvpPool ------------------------------
(***************************************************************************)
(* What the memory manager of the VPU driver (vpu/mxvp/mxvp_mem.h)         *)
(* promises: a block goes to one user at a time, goes to somebody as long  *)
(* as there is one, and can be handed out again once it has been freed.    *)
(***************************************************************************)
CONSTANTS
    Users,
    Blocks

VARIABLES
    avail,          \* the blocks that can be handed out
    held,           \* the blocks every user has
    open            \* the pool has not been cleaned up

vars == <<avail, held, open>>

Init ==
    /\ avail = Blocks
    /\ held = [u \in Users |-> {}]
    /\ open = TRUE

Take(u) ==
    \E b \in avail :
        /\ avail' = avail \ {b}
        /\ held' = [held EXCEPT ![u] = @ \union {b}]
        /\ UNCHANGED open

Give(u) ==
    \E b \in held[u] :
        /\ held' = [held EXCEPT ![u] = @ \ {b}]
        /\ avail' = IF open THEN avail \union {b} ELSE avail
        /\ UNCHANGED open

Close ==
    /\ avail' = {}
    /\ open' = FALSE
    /\ UNCHANGED held

Next ==
    \/ \E u \in Users : Take(u) \/ Give(u)
    \/ Close

Spec == Init /\ [][Next]_vars
=============================================================================
