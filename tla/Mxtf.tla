-------------------------------- MODULE Mxtf --------------------------------
(***************************************************************************)
(* The test driver (vpu/mxtf) as the user of VPU memory and commands: each *)
(* test is a work item that allocates blocks, sends commands that make the *)
(* VPU read or write them, sleeps on a semaphore until the callback, and   *)
(* frees the blocks.  Composes MxvpMem, statement by statement, with the   *)
(* promise of MxvpChannel; MxvpCmd says how far that promise is kept.      *)
(***************************************************************************)
EXTENDS MxvpMem, Sequences

CONSTANTS
    Frags,           \* NUM_DMA_DESC
    MaxStores        \* bound: writes to the attribute, over all tests

(* A test: the blocks it wants, the queue of each of its commands, and     *)
(* whether it returns at once, freeing nothing, if the k-th is refused.    *)
DmaLoopback == [blocks |-> Frags,     queues |-> <<"dmaq", "dmaq">>, returns |-> {}]
MultiDma    == [blocks |-> Frags + 1, queues |-> <<"dmaq", "dmaq">>, returns |-> {}]
MemFill     == [blocks |-> 1,         queues |-> <<"dmaq">>,         returns |-> {1}]
Fence       == [blocks |-> 0,         queues |-> <<"cmdq", "dmaq">>, returns |-> {2}]
ExeBuf      == [blocks |-> 1,         queues |-> <<"cmdq">>,         returns |-> {}]

(* test_list: the tests that use the queues; those to run are the Users.   *)
test_list == [dma_loopback |-> DmaLoopback, multi_dma |-> MultiDma,
              mem_fill |-> MemFill, fence |-> Fence, exebuf |-> ExeBuf]

ASSUME MxtfAssumption ==
    /\ Frags \in Nat \ {0} /\ MaxStores \in Nat
    /\ Users \subseteq DOMAIN test_list

VARIABLES
    queued,          \* work items waiting to run
    stores,          \* writes to the attribute so far
    pc,              \* where each test stands
    cmd,             \* the command it is at
    vp,              \* vp_buffers: the cookies of this run of the test
    sema,            \* its semaphore has been raised
    inflight,        \* tests whose command the VPU has
    calls,           \* parity of the callbacks of each test so far
    kept,            \* tests that returned without freeing their blocks
    remover          \* how far mxtf_remove is

testVars == <<queued, stores, pc, cmd, vp, sema, inflight, calls, kept, remover>>
vars == <<memVars, testVars>>

Channel == INSTANCE MxvpChannel WITH Cmds <- Users, inflight <- inflight, calls <- calls

Test(t) == test_list[t]

Init ==
    /\ MemInit
    /\ Channel!Init
    /\ queued = {} /\ stores = 0
    /\ pc = [t \in Users |-> "off"]
    /\ cmd = [t \in Users |-> 1]
    /\ vp = [t \in Users |-> {}]
    /\ sema = [t \in Users |-> FALSE]
    /\ kept = {}
    /\ remover = "no"

Goto(t, to) == pc' = [pc EXCEPT ![t] = to]

(* mxtf_test_store; the attribute goes away first when the driver does.    *)
Store(t) ==
    /\ remover = "no" /\ stores < MaxStores
    /\ stores' = stores + 1
    /\ queued' = queued \union {t}
    /\ UNCHANGED <<memVars, pc, cmd, vp, sema, inflight, calls, kept, remover>>

(* mxtf_test_executor.                                                     *)
Start(t) ==
    /\ t \in queued /\ pc[t] = "off"
    /\ queued' = queued \ {t}
    /\ Goto(t, "build")
    /\ cmd' = [cmd EXCEPT ![t] = 1]
    /\ vp' = [vp EXCEPT ![t] = {}]
    /\ sema' = [sema EXCEPT ![t] = FALSE]
    /\ UNCHANGED <<memVars, stores, inflight, calls, kept, remover>>

(* A block for one more fragment; all of them are for the first command.   *)
AllocBlock(t) ==
    /\ pc[t] = "build" /\ Cardinality(vp[t]) < Test(t).blocks
    /\ MemAlloc(t, BlockSize)
    /\ vp' = [vp EXCEPT ![t] = @ \union {free}]
    /\ UNCHANGED <<queued, stores, pc, cmd, sema, inflight, calls, kept, remover>>

(* No VPU memory, or at any point no host memory or no command: error.     *)
BuildFails(t) ==
    /\ pc[t] = "build"
    /\ Goto(t, "free")
    /\ UNCHANGED <<memVars, queued, stores, cmd, vp, sema, inflight, calls, kept, remover>>

Built(t) == pc[t] = "build" /\ Cardinality(vp[t]) = Test(t).blocks

Send(t) ==
    /\ Built(t)
    /\ Channel!Submit(t)
    /\ Goto(t, "wait")
    /\ UNCHANGED <<memVars, queued, stores, cmd, vp, sema, kept, remover>>

(* The command is refused: some tests clean up, some just return.          *)
SendFails(t) ==
    /\ Built(t)
    /\ IF cmd[t] \in Test(t).returns
       THEN Goto(t, "off") /\ kept' = kept \union {t}
       ELSE Goto(t, "free") /\ UNCHANGED kept
    /\ UNCHANGED <<memVars, queued, stores, cmd, vp, sema, inflight, calls, remover>>

(* The callback of every test raises its semaphore.                        *)
Callback(t) ==
    /\ Channel!Complete(t)
    /\ sema' = [sema EXCEPT ![t] = TRUE]
    /\ UNCHANGED <<memVars, queued, stores, pc, cmd, vp, kept, remover>>

(* down() returns: on to the next command, or to the end of the test.      *)
Wake(t) ==
    /\ pc[t] = "wait" /\ sema[t]
    /\ sema' = [sema EXCEPT ![t] = FALSE]
    /\ IF cmd[t] < Len(Test(t).queues)
       THEN Goto(t, "build") /\ cmd' = [cmd EXCEPT ![t] = @ + 1]
       ELSE Goto(t, "free") /\ UNCHANGED cmd
    /\ UNCHANGED <<memVars, queued, stores, vp, inflight, calls, kept, remover>>

(* The loop at the end of a test, one cookie at a time.                    *)
FreeBlock(t) ==
    /\ pc[t] = "free"
    /\ \E cookie \in vp[t] :
          /\ MemFree(t, cookie)
          /\ vp' = [vp EXCEPT ![t] = @ \ {cookie}]
    /\ UNCHANGED <<queued, stores, pc, cmd, sema, inflight, calls, kept, remover>>

Finish(t) ==
    /\ pc[t] = "free" /\ vp[t] = {}
    /\ Goto(t, "off")
    /\ UNCHANGED <<memVars, queued, stores, cmd, vp, sema, inflight, calls, kept, remover>>

(* mxtf_remove does not wait for the tests: it takes the memory manager    *)
(* down, then has the callbacks of all commands called, then frees itself. *)
RemoveMem ==
    /\ remover = "no"
    /\ remover' = "flush"
    /\ MemCleanup
    /\ UNCHANGED <<queued, stores, pc, cmd, vp, sema, inflight, calls, kept>>

RemoveEnd ==
    /\ remover = "flush" /\ inflight = {}
    /\ remover' = "gone"
    /\ UNCHANGED <<memVars, queued, stores, pc, cmd, vp, sema, inflight, calls, kept>>

Run(t) ==
    \/ Store(t) \/ Start(t) \/ AllocBlock(t) \/ BuildFails(t) \/ Send(t)
    \/ SendFails(t) \/ Callback(t) \/ Wake(t) \/ FreeBlock(t) \/ Finish(t)

(* What a test that still runs does in freed memory is not modelled.       *)
Next ==
    /\ remover # "gone"
    /\ \/ \E t \in Users : Run(t)
       \/ RemoveMem
       \/ RemoveEnd

Spec == Init /\ [][Next]_vars

-----------------------------------------------------------------------------
TypeOK ==
    /\ MemTypeOK
    /\ queued \subseteq Users /\ stores \in 0 .. MaxStores
    /\ pc \in [Users -> {"off", "build", "wait", "free"}]
    /\ cmd \in [Users -> 1 .. 2]
    /\ vp \in [Users -> SUBSET Blocks]
    /\ sema \in [Users -> BOOLEAN]
    /\ inflight \subseteq Users /\ calls \in [Users -> BOOLEAN] /\ kept \subseteq Users
    /\ remover \in {"no", "flush", "gone"}

(* While the VPU has a command it may read and write the blocks the        *)
(* command names: they stay with the test that sent it, which sleeps, and  *)
(* nobody can get them until then (mxvp_mem_free in the tests).            *)
BlocksInUseAreHeld ==
    \A t \in inflight :
        /\ pc[t] = "wait" /\ ~sema[t]
        /\ Cardinality(vp[t]) = Test(t).blocks
        /\ vp[t] \subseteq held[t] \ OnList
        /\ \A u \in Users \ {t} : vp[t] \intersect (vp[u] \union held[u]) = {}

(* A test that is over has given back every block it got, but for one that *)
(* returned when its command was refused (mxtf_test_mem_fill).             *)
LeakOnlyByRefusedSend ==
    \A t \in Users : held[t] # vp[t] \/ (pc[t] = "off" /\ held[t] # {}) => t \in kept
=============================================================================
