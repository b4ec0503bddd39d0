------------------------------ MODULE MxvpMem -------------------------------
(***************************************************************************)
(* The manager of VPU memory (vpu/mxvp/mxvp_mem.c).  The memory is cut     *)
(* into blocks; list[] has one link per block and the free blocks form a   *)
(* chain that starts at `free`.  Every function works under one lock, so   *)
(* each is one action.  A cookie is the number of its block, NULL is no    *)
(* cookie and the end of the chain.                                        *)
(*                                                                         *)
(* Names start with Mem so that a module of users can extend this one.     *)
(***************************************************************************)
EXTENDS Integers, FiniteSets

CONSTANTS
    Users,           \* who allocates
    MemSize,         \* bytes of VPU memory
    BlockSize        \* MXVP_MEMORY_BLOCK_SIZE

(* A region smaller than a block makes mxvp_mem_create_free_list write     *)
(* outside its list; MXVP_DDR_SIZE is taken to report more than that.      *)
ASSUME MemAssumption ==
    /\ MemSize \in Nat /\ BlockSize \in Nat \ {0}
    /\ MemSize \div BlockSize \in Nat \ {0}

VARIABLES
    list,            \* mem.list[]: the link of every block
    free,            \* mem.free: the first free block
    up,              \* mem.list # NULL: not cleaned up
    held             \* the cookies each user got and has not given back

memVars == <<list, free, up, held>>

NBlocks == MemSize \div BlockSize
Blocks == 0 .. NBlocks - 1
NULL == -1

(* mxvp_mem_init: one chain through all blocks.                            *)
MemInit ==
    /\ list = [b \in Blocks |-> IF b < NBlocks - 1 THEN b + 1 ELSE NULL]
    /\ free = 0
    /\ up = TRUE
    /\ held = [u \in Users |-> {}]

(* mxvp_mem_is_cookie and its strict form.                                 *)
IsCookie(cookie) == cookie \in Blocks

(* Why mxvp_mem_alloc returns NULL.                                        *)
NoBlockFor(size) == size > BlockSize \/ ~up \/ free = NULL

Bug_MemAlloc(u, size) ==
    /\ ~NoBlockFor(size)
    /\ free' = IF list[free] = NULL THEN free ELSE list[free]
    /\ held' = [held EXCEPT ![u] = @ \union {free}]
    /\ UNCHANGED <<list, up>>

(* mxvp_mem_alloc when it succeeds: the first block of the chain.          *)
MemAlloc(u, size) ==
    /\ ~NoBlockFor(size)
    /\ free' = list[free]
    /\ held' = [held EXCEPT ![u] = @ \union {free}]
    /\ UNCHANGED <<list, up>>

Bug_MemFree(u, cookie) ==
    /\ IF up /\ IsCookie(cookie)
       THEN /\ list' = [list EXCEPT ![cookie] = NULL]
            /\ free' = cookie
       ELSE UNCHANGED <<list, free>>
    /\ held' = [held EXCEPT ![u] = @ \ {cookie}]
    /\ UNCHANGED up

(* mxvp_mem_free: the block becomes the first of the chain; anything that  *)
(* is no cookie is ignored.                                                *)
MemFree(u, cookie) ==
    /\ IF up /\ IsCookie(cookie)
       THEN /\ list' = [list EXCEPT ![cookie] = free]
            /\ free' = cookie
       ELSE UNCHANGED <<list, free>>
    /\ held' = [held EXCEPT ![u] = @ \ {cookie}]
    /\ UNCHANGED up

(* mxvp_mem_cleanup.                                                       *)
MemCleanup ==
    /\ up
    /\ up' = FALSE
    /\ free' = NULL
    /\ UNCHANGED <<list, held>>

(* A user frees a cookie it has, or NULL.                                  *)
MemNext ==
    \/ \E u \in Users, size \in 1 .. BlockSize : MemAlloc(u, size)
    \/ \E u \in Users : \E cookie \in held[u] \union {NULL} : MemFree(u, cookie)
    \/ MemCleanup

MemSpec == MemInit /\ [][MemNext]_memVars

-----------------------------------------------------------------------------
(* The blocks one meets on the way from `free`: those in every set that    *)
(* has the first block and, with a block, the next.                        *)
IsClosed(S) ==
    /\ free \in S \union {NULL}
    /\ \A b \in S : list[b] \in S \union {NULL}

OnList == {b \in Blocks : \A S \in SUBSET Blocks : IsClosed(S) => b \in S}

Held == UNION {held[u] : u \in Users}

(* mxvp_mem_usage: the blocks it counts, and the total it reports.         *)
FreeBlocks == Cardinality(OnList)
TotalBlocks == MemSize \div BlockSize

MemTypeOK ==
    /\ list \in [Blocks -> Blocks \union {NULL}]
    /\ free \in Blocks \union {NULL}
    /\ up \in BOOLEAN
    /\ held \in [Users -> SUBSET Blocks]

(* A block belongs to one user and is not free while somebody has it:      *)
(* mxvp_mem_alloc never hands out a block twice.                           *)
OneHolder ==
    /\ \A u, v \in Users : u # v => held[u] \intersect held[v] = {}
    /\ OnList \intersect Held = {}

(* Blocks do not get lost: what nobody has is on the chain, so that the    *)
(* count of mxvp_mem_usage and the blocks in use make up the total.        *)
NoBlockLost ==
    up => /\ OnList = Blocks \ Held
          /\ FreeBlocks + Cardinality(Held) = TotalBlocks

(* The linked list does what the header of the memory manager promises.    *)
Pool == INSTANCE MxvpPool WITH
            Users <- Users, Blocks <- Blocks,
            avail <- OnList, held <- held, open <- up
IsPool == Pool!Spec
=============================================================================
