------------------------------ MODULE MxvpQueue ------------------------------
(***************************************************************************)
(* A queue between host and VPU (vpu/mxvp/mxvp_queue.c): a ring of words   *)
(* in device memory that holds elements of different lengths, each in one  *)
(* piece.  The pusher moves tail, the puller moves head, and an element    *)
(* that does not fit before the end goes to the start, with a marker where *)
(* it would have been.  The lock keeps pushers (or pullers) on the host    *)
(* apart and not the host from the VPU, so a push and a pull interleave.   *)
(*                                                                         *)
(* The host pushes onto cmdq and dmaq and pulls from retq and dmrq; the    *)
(* VPU is taken to do the other half of each in the same way.              *)
(***************************************************************************)
EXTENDS Integers, Sequences

CONSTANTS
    Size,            \* words in the queue
    Lengths,         \* words an element may have, with the one of its length
    MaxPushes        \* bound: elements pushed

ASSUME QueueAssumption ==
    Size \in Nat \ {0} /\ Lengths \subseteq Nat \ {0} /\ MaxPushes \in Nat

VARIABLES
    head, tail,      \* the control words
    mem,             \* the queue's memory; <<e, k>> is the k-th word of e
    ppc,             \* where the push stands
    item,            \* the element it pushes, and where
    pHead,           \* the head it read
    cpc,             \* where the pull stands
    got,             \* the element it copied
    accepted,        \* the elements pushed so far
    taken            \* the elements pulled so far

pushVars == <<tail, ppc, item, pHead, accepted>>
pullVars == <<head, cpc, got, taken>>
queueVars == <<pushVars, pullVars, mem>>

Words == 0 .. Size - 1

(* An element: its place in the order, its length, the word it starts at.  *)
Elements == [no : 1 .. MaxPushes, len : Lengths, at : Words]
Nothing == [no |-> 0, len |-> 1, at |-> 0]

(* Words of no element: what memory holds at first, and QUEUE_WRAP_MARKER. *)
Junk == <<Nothing, 1>>
Marker == <<Nothing, 0>>

(* mxvp_queue_init, on a queue the VPU has left empty.                     *)
QueueInit ==
    /\ head = 0 /\ tail = 0
    /\ mem = [w \in Words |-> Junk]
    /\ ppc = "idle" /\ item = Nothing /\ pHead = 0
    /\ cpc = "idle" /\ got = Nothing
    /\ accepted = <<>> /\ taken = <<>>

(* length and QUEUE_WRAP_MARKER.                                           *)
SpaceReq == item.len + 1

(* mxvp_queue_push takes the lock and reads head and its own tail.         *)
PushStart(len) ==
    /\ ppc = "idle" /\ Len(accepted) < MaxPushes
    /\ item' = [no |-> Len(accepted) + 1, len |-> len, at |-> tail]
    /\ pHead' = head
    /\ ppc' = "place"
    /\ UNCHANGED <<tail, accepted, mem, pullVars>>

Bug_FitsAtTail ==
    IF tail >= pHead THEN Size - tail > SpaceReq ELSE pHead - tail >= item.len

(* Is there enough space after tail, up to the end or up to head?          *)
FitsAtTail ==
    IF tail >= pHead THEN Size - tail > SpaceReq ELSE pHead - tail > SpaceReq

FitsAtStart == ~FitsAtTail /\ tail >= pHead /\ pHead > SpaceReq

(* The words of memory once e has been written to it.                      *)
Stored(e, m) ==
    [w \in Words |-> IF w \in e.at .. e.at + e.len - 1 THEN <<e, w - e.at + 1>> ELSE m[w]]

PlaceAtTail ==
    /\ ppc = "place" /\ FitsAtTail
    /\ mem' = Stored(item, mem)
    /\ ppc' = "publish"
    /\ UNCHANGED <<tail, item, pHead, accepted, pullVars>>

Bug_PlaceAtStart ==
    /\ ppc = "place" /\ FitsAtStart
    /\ item' = [item EXCEPT !.at = 0]
    /\ mem' = Stored(item', mem)
    /\ ppc' = "publish"
    /\ UNCHANGED <<tail, pHead, accepted, pullVars>>

PlaceAtStart ==
    /\ ppc = "place" /\ FitsAtStart
    /\ item' = [item EXCEPT !.at = 0]
    /\ mem' = Stored(item', [mem EXCEPT ![tail] = Marker])
    /\ ppc' = "publish"
    /\ UNCHANGED <<tail, pHead, accepted, pullVars>>

(* -ENOSPC.                                                                *)
Refuse ==
    /\ ppc = "place" /\ ~FitsAtTail /\ ~FitsAtStart
    /\ ppc' = "idle"
    /\ UNCHANGED <<tail, item, pHead, accepted, mem, pullVars>>

(* enqueue writes tail last.                                               *)
PushEnd ==
    /\ ppc = "publish"
    /\ tail' = item.at + item.len
    /\ accepted' = Append(accepted, item)
    /\ ppc' = "idle"
    /\ UNCHANGED <<item, pHead, mem, pullVars>>

Push == (\E len \in Lengths : PushStart(len)) \/ PlaceAtTail \/ PlaceAtStart \/ Refuse \/ PushEnd

(* mxvp_queue_is_empty, which the handlers call before every pull.         *)
NotEmpty ==
    /\ cpc = "idle" /\ head # tail
    /\ cpc' = "pull"
    /\ UNCHANGED <<head, got, taken, mem, pushVars>>

(* mxvp_queue_pull skips a marker and tries again.                         *)
PullWrap ==
    /\ cpc = "pull" /\ head # tail /\ mem[head] = Marker
    /\ head' = 0
    /\ UNCHANGED <<cpc, got, taken, mem, pushVars>>

(* The element in memory at head, if there is one in one piece.            *)
AtHead ==
    LET whole == {e \in {mem[head][1]} :
                      \A k \in 1 .. e.len : head + k - 1 \in Words /\ mem[head + k - 1] = <<e, k>>}
    IN  IF mem[head] # Junk /\ whole # {} THEN mem[head][1] ELSE Nothing

Pullable == cpc = "pull" /\ head # tail /\ mem[head] # Marker

PullCopy ==
    /\ Pullable
    /\ got' = AtHead
    /\ cpc' = "advance"
    /\ UNCHANGED <<head, taken, mem, pushVars>>

(* NULL: kmalloc() failed, or the queue is empty after all.                *)
PullNull ==
    /\ cpc = "pull" /\ (head = tail \/ mem[head] # Marker)
    /\ cpc' = "idle"
    /\ UNCHANGED <<head, got, taken, mem, pushVars>>

(* dequeue writes head last.                                               *)
PullEnd ==
    /\ cpc = "advance"
    /\ head' = head + got.len
    /\ taken' = Append(taken, got)
    /\ cpc' = "idle"
    /\ UNCHANGED <<got, mem, pushVars>>

Pull == NotEmpty \/ PullWrap \/ PullCopy \/ PullNull \/ PullEnd

QueueNext == Push \/ Pull

QueueSpec == QueueInit /\ [][QueueNext]_queueVars

-----------------------------------------------------------------------------
QueueTypeOK ==
    /\ head \in Words /\ tail \in Words /\ pHead \in Words
    /\ mem \in [Words -> {Junk, Marker} \union (Elements \X (1 .. Size))]
    /\ ppc \in {"idle", "place", "publish"}
    /\ item \in Elements \union {Nothing}
    /\ cpc \in {"idle", "pull", "advance"}
    /\ got \in Elements \union {Nothing}
    /\ accepted \in Seq(Elements) /\ taken \in Seq(Elements \union {Nothing})

(* Where the element pushed after the first n is looked for.               *)
Follows(n) == IF n = 0 THEN 0 ELSE accepted[n].at + accepted[n].len

(* Every element still to be pulled lies in memory in one piece, untouched *)
(* by pushes that wrap, and one finds it from head: each starts where the  *)
(* one before ends, or at 0 when that place holds a marker.                *)
ElementsInPlace ==
    \A n \in Len(taken) + 1 .. Len(accepted) :
        LET e == accepted[n] IN
        /\ \A k \in 1 .. e.len : e.at + k - 1 \in Words /\ mem[e.at + k - 1] = <<e, k>>
        /\ \/ e.at = Follows(n - 1)
           \/ e.at = 0 /\ mem[Follows(n - 1)] = Marker
           \/ e.at = 0 /\ n = Len(taken) + 1 /\ head = 0

(* Once mxvp_queue_is_empty has said no, the pull finds an element, even   *)
(* if it meets a marker first: it returns NULL only without memory, and    *)
(* the handlers, which use the reply without looking, are right otherwise. *)
PullFindsElement ==
    cpc = "pull" => /\ Len(taken) < Len(accepted)
                    /\ head # tail
                    /\ mem[head] = Marker => tail # 0

(* A push is refused only if the queue was not empty when it looked, or if *)
(* the element is so long that an empty queue may refuse it as well: twice *)
(* its words and two more must be less than the size.                      *)
RefusedOnlyWhenFull ==
    [][Refuse => pHead # tail \/ 2 * SpaceReq >= Size]_queueVars

(* The elements come out in the order of the pushes, each once and whole.  *)
Fifo == INSTANCE MxlkFifo WITH
            Frags <- Elements, queued <- accepted, delivered <- taken
IsFifo == Fifo!Spec
=============================================================================
