------------------------------ MODULE MxvpProofs ------------------------------
(***************************************************************************)
(* What the VPU drivers rely on: the queues and the memory.                *)
(*                                                                         *)
(* The ring of words that carries commands and replies (MxvpQueue) is a    *)
(* FIFO of whole elements, for any size, any lengths and any order in      *)
(* which the two sides go on.                                              *)
(*                                                                         *)
(* The memory manager (MxvpMem) keeps its promise (MxvpPool), for any      *)
(* number of blocks and of users.  The test driver (Mxtf) uses it as it    *)
(* may be used, and never frees a block that the VPU may still read or     *)
(* write: for any set of tests, any size of memory and any number of       *)
(* fragments.                                                              *)
(***************************************************************************)
EXTENDS MxvpQueue, Mxtf, FiniteSetTheorems, WellFoundedInduction, TLAPS

(* The elements still to be pulled, by their place in `accepted`.          *)
Pending == Len(taken) + 1 .. Len(accepted)
At(n)  == accepted[n].at
End(n) == accepted[n].at + accepted[n].len

Types ==
    /\ head \in Words /\ tail \in Words /\ pHead \in Words
    /\ mem \in [Words -> {Junk, Marker} \union (Elements \X (1 .. Size))]
    /\ ppc \in {"idle", "place", "publish"}
    /\ cpc \in {"idle", "pull", "advance"}
    /\ item \in Elements \union {Nothing} /\ got \in Elements \union {Nothing}
    /\ accepted \in Seq(Elements) /\ taken \in Seq(Elements)
    /\ Len(accepted) \in 0 .. MaxPushes
    /\ ppc # "idle" => Len(accepted) < MaxPushes

InMemory(e) ==
    /\ e.at + e.len < Size
    /\ \A k \in 1 .. e.len : mem[e.at + k - 1] = <<e, k>>

(* What was pulled is what was pushed, as far as it goes.                  *)
InOrder ==
    /\ Len(taken) <= Len(accepted)
    /\ \A n \in 1 .. Len(taken) : taken[n] = accepted[n]

(* Head and tail, and where the first element is.                          *)
Ends ==
    /\ tail = Follows(Len(accepted))
    /\ head = Follows(Len(taken)) \/ head = 0
    /\ head = tail <=> Pending = {}
    /\ Pending # {} =>
          \/ At(Len(taken) + 1) = head
          \/ At(Len(taken) + 1) = 0 /\ mem[head] = Marker /\ tail < head

Placed == \A n \in Pending : InMemory(accepted[n])

(* Elements lie between head and tail or, once tail has wrapped, from head *)
(* on (high) and then up to tail (low).                                    *)
Bounded ==
    /\ head <= tail => \A n \in Pending : head <= At(n) /\ End(n) <= tail
    /\ tail < head  => \A n \in Pending : head <= At(n) \/ End(n) <= tail

(* One after the other, first the high ones.                               *)
Sorted ==
    \A m, n \in Pending : m < n =>
        \/ End(m) <= At(n)
        \/ tail < head /\ head <= At(m) /\ End(n) <= tail

HighFirst ==
    tail < head => \A m, n \in Pending : m < n /\ End(m) <= tail => End(n) <= tail

(* Each where the one before ends, or at 0 behind a marker.                *)
Chained ==
    \A n \in Pending : n + 1 \in Pending =>
        \/ At(n + 1) = End(n)
        \/ At(n + 1) = 0 /\ mem[End(n)] = Marker /\ tail < head /\ head <= At(n)

Layout == Ends /\ Placed /\ Bounded /\ Sorted /\ HighFirst /\ Chained

(* The pusher's head may be old; the room it computes from it is there all *)
(* the same.                                                               *)
RoomKnown ==
    ppc = "place" =>
        /\ item \in Elements /\ item.at = tail
        /\ pHead <= tail => pHead <= head /\ head <= tail
        /\ tail < pHead  => pHead <= head \/ head <= tail

ItemPlaced ==
    ppc = "publish" =>
        /\ item \in Elements /\ InMemory(item)
        /\ \/ item.at = tail /\ (head <= tail \/ tail + item.len < head)
           \/ item.at = 0 /\ mem[tail] = Marker /\ head <= tail /\ item.len < head

Puller ==
    /\ cpc # "idle" => Pending # {}
    /\ cpc = "advance" => At(Len(taken) + 1) = head /\ got = accepted[Len(taken) + 1]

QueueInv == Types /\ InOrder /\ Layout /\ RoomKnown /\ ItemPlaced /\ Puller

-----------------------------------------------------------------------------
LEMMA Facts ==
  ASSUME Types
  PROVE  /\ Size \in Nat /\ head \in Nat /\ head < Size /\ tail \in Nat /\ tail < Size
         /\ pHead \in Nat /\ pHead < Size
         /\ Len(accepted) \in Nat /\ Len(taken) \in Nat /\ MaxPushes \in Nat
         /\ DOMAIN accepted = 1 .. Len(accepted)
<1>1. Size \in Nat /\ MaxPushes \in Nat
  BY QueueAssumption
<1>2. head \in 0 .. Size - 1 /\ tail \in 0 .. Size - 1 /\ pHead \in 0 .. Size - 1
  BY DEF Types, Words
<1>3. accepted \in Seq(Elements) /\ taken \in Seq(Elements)
  BY DEF Types
<1>4. QED
  BY <1>1, <1>2, <1>3

LEMMA ElementFacts ==
  ASSUME NEW e \in Elements
  PROVE  e.no \in Nat /\ e.no # 0 /\ e.len \in Nat /\ e.len # 0 /\ e.len \in Lengths
         /\ e.at \in Nat /\ e.at \in Words
<1>1. e.no \in 1 .. MaxPushes /\ e.len \in Lengths /\ e.at \in 0 .. Size - 1
  BY DEF Elements, Words
<1>2. MaxPushes \in Nat /\ Size \in Nat
  BY QueueAssumption
<1>3. e.len \in Nat /\ e.len # 0
  BY <1>1, QueueAssumption
<1>4. e.no \in Nat /\ e.no # 0 /\ e.at \in Nat
  BY <1>1, <1>2
<1>5. QED
  BY <1>1, <1>3, <1>4 DEF Words

LEMMA PendingFacts ==
  ASSUME Types
  PROVE  \A n \in Pending :
            /\ n \in Nat /\ n \in 1 .. Len(accepted) /\ accepted[n] \in Elements
            /\ At(n) \in Nat /\ End(n) \in Nat /\ At(n) < End(n)
            /\ accepted[n].at = At(n) /\ accepted[n].at + accepted[n].len = End(n)
            /\ accepted[n].len \in Nat
<1>1. SUFFICES ASSUME NEW n \in Pending
      PROVE  /\ n \in Nat /\ n \in 1 .. Len(accepted) /\ accepted[n] \in Elements
             /\ At(n) \in Nat /\ End(n) \in Nat /\ At(n) < End(n)
             /\ accepted[n].at = At(n) /\ accepted[n].at + accepted[n].len = End(n)
             /\ accepted[n].len \in Nat
  OBVIOUS
<1>2. n \in 1 .. Len(accepted) /\ n \in Nat
  BY Facts DEF Pending
<1>3. accepted[n] \in Elements
  BY <1>2, Facts DEF Types
<1>4. QED
  BY <1>2, <1>3, ElementFacts DEF At, End

LEMMA InitQueueInv == QueueInit => QueueInv
<1>1. SUFFICES ASSUME QueueInit PROVE QueueInv
  OBVIOUS
<1>2. Types
  BY <1>1, QueueAssumption DEF QueueInit, Types, Words
<1>3. Pending = {}
  BY <1>1 DEF QueueInit, Pending
<1>4. InOrder /\ RoomKnown /\ ItemPlaced /\ Puller
  BY <1>1, <1>3 DEF QueueInit, InOrder, RoomKnown, ItemPlaced, Puller
<1>5. Layout
  BY <1>1, <1>3 DEF QueueInit, Layout, Ends, Placed, Bounded, Sorted, HighFirst, Chained, Follows
<1>6. QED
  BY <1>2, <1>4, <1>5 DEF QueueInv

-----------------------------------------------------------------------------
(* Steps that only read, and steps that write where nothing lies.          *)
LEMMA SameLayout ==
  ASSUME Layout, UNCHANGED <<head, tail, mem, accepted, taken>>
  PROVE  Layout'
BY DEF Layout, Ends, Placed, Bounded, Sorted, HighFirst, Chained, Follows, Pending, At, End, InMemory

LEMMA WriteKeepsLayout ==
  ASSUME Types, Layout, UNCHANGED <<head, tail, accepted, taken>>,
         \A w \in Words :
             IF head <= tail THEN head <= w /\ w < tail => mem'[w] = mem[w]
                             ELSE w < tail \/ head <= w => mem'[w] = mem[w]
  PROVE  Layout'
<1>1. Pending' = Pending /\ (\A n : At(n)' = At(n) /\ End(n)' = End(n))
  BY DEF Pending, At, End
<1>2. Placed'
  <2>1. SUFFICES ASSUME NEW n \in Pending
        PROVE  InMemory(accepted[n])'
    BY <1>1 DEF Placed
  <2>2. InMemory(accepted[n])
    BY DEF Layout, Placed
  <2>3. ASSUME NEW k \in 1 .. accepted[n].len
        PROVE  mem'[accepted[n].at + k - 1] = mem[accepted[n].at + k - 1]
    <3> DEFINE w == accepted[n].at + k - 1
    <3>1. w \in Nat /\ At(n) <= w /\ w < End(n) /\ End(n) < Size
      <4>1. /\ At(n) \in Nat /\ accepted[n].len \in Nat /\ accepted[n].at = At(n)
            /\ End(n) = At(n) + accepted[n].len
        BY PendingFacts
      <4>2. End(n) < Size
        BY <2>2 DEF InMemory, End
      <4>3. QED
        BY <4>1, <4>2
    <3>2. w \in Words
      BY <3>1, Facts, PendingFacts DEF Words
    <3>3. /\ head <= tail => head <= w /\ w < tail
          /\ tail < head => w < tail \/ head <= w
      <4>1. /\ head <= tail => head <= At(n) /\ End(n) <= tail
            /\ tail < head => head <= At(n) \/ End(n) <= tail
        BY DEF Layout, Bounded
      <4>2. At(n) \in Nat /\ End(n) \in Nat
        BY PendingFacts
      <4>3. QED
        BY <3>1, <4>1, <4>2, Facts
    <3>4. head <= tail \/ tail < head
      BY Facts
    <3>5. QED
      BY <3>2, <3>3, <3>4, Facts
  <2>4. QED
    BY <2>2, <2>3 DEF InMemory
<1>3. Ends'
  <2>1. tail < head => mem'[head] = mem[head]
    BY Facts DEF Types
  <2>2. QED
    BY <1>1, <2>1 DEF Layout, Ends, Follows
<1>4. Bounded' /\ Sorted' /\ HighFirst'
  BY <1>1 DEF Layout, Bounded, Sorted, HighFirst
<1>5. Chained'
  <2>1. ASSUME NEW n \in Pending, tail < head, head <= At(n)
        PROVE  mem'[End(n)] = mem[End(n)]
    <3>1. End(n) < Size /\ End(n) \in Nat /\ At(n) < End(n) /\ At(n) \in Nat
      BY PendingFacts DEF Layout, Placed, InMemory
    <3>2. End(n) \in Words /\ head <= End(n) /\ ~(head <= tail)
      BY <2>1, <3>1, Facts DEF Words
    <3>3. QED
      BY <3>2
  <2>2. QED
    BY <1>1, <2>1 DEF Layout, Chained
<1>6. QED
  BY <1>2, <1>3, <1>4, <1>5 DEF Layout

LEMMA StoredMem ==
  ASSUME NEW e \in Elements, e.at + e.len < Size, Size \in Nat,
         NEW m \in [Words -> {Junk, Marker} \union (Elements \X (1 .. Size))]
  PROVE  /\ Stored(e, m) \in [Words -> {Junk, Marker} \union (Elements \X (1 .. Size))]
         /\ \A k \in 1 .. e.len : Stored(e, m)[e.at + k - 1] = <<e, k>>
         /\ \A w \in Words : w < e.at \/ e.at + e.len <= w => Stored(e, m)[w] = m[w]
<1>1. e.at \in Nat /\ e.len \in Nat
  BY ElementFacts
<1>2. ASSUME NEW w \in Words, w \in e.at .. e.at + e.len - 1
      PROVE  <<e, w - e.at + 1>> \in Elements \X (1 .. Size)
  BY <1>1, <1>2 DEF Words
<1>3. Stored(e, m) \in [Words -> {Junk, Marker} \union (Elements \X (1 .. Size))]
  BY <1>2 DEF Stored
<1>4. ASSUME NEW k \in 1 .. e.len
      PROVE  Stored(e, m)[e.at + k - 1] = <<e, k>>
  <2> DEFINE w == e.at + k - 1
  <2>1. w \in Words /\ w \in e.at .. e.at + e.len - 1 /\ w - e.at + 1 = k
    BY <1>1 DEF Words
  <2>2. QED
    BY <2>1 DEF Stored
<1>5. \A w \in Words : w < e.at \/ e.at + e.len <= w => Stored(e, m)[w] = m[w]
  <2>1. ASSUME NEW w \in Words, w < e.at \/ e.at + e.len <= w
        PROVE  w \notin e.at .. e.at + e.len - 1
    BY <1>1, <2>1 DEF Words
  <2>2. QED
    BY <2>1 DEF Stored
<1>6. QED
  BY <1>3, <1>4, <1>5

-----------------------------------------------------------------------------
(* The pusher.                                                             *)
LEMMA PushStartInv ==
  ASSUME QueueInv, NEW len \in Lengths, PushStart(len)
  PROVE  QueueInv'
<1>1. Types /\ Layout /\ InOrder /\ Puller
  BY DEF QueueInv
<1>2. /\ UNCHANGED <<head, tail, mem, accepted, taken, cpc, got>>
      /\ pHead' = head /\ ppc' = "place" /\ Len(accepted) < MaxPushes
      /\ item' = [no |-> Len(accepted) + 1, len |-> len, at |-> tail]
  BY DEF PushStart, pullVars
<1>3. Len(accepted) + 1 \in 1 .. MaxPushes
  BY <1>1, <1>2, Facts
<1>4. item' \in Elements /\ item'.at = tail
  BY <1>1, <1>2, <1>3 DEF Elements, Types
<1>5. Types'
  BY <1>1, <1>2, <1>4 DEF Types
<1>6. Layout'
  BY <1>1, <1>2, SameLayout
<1>7. RoomKnown' /\ ItemPlaced'
  BY <1>1, <1>2, <1>4, Facts DEF RoomKnown, ItemPlaced
<1>8. InOrder' /\ Puller'
  BY <1>1, <1>2 DEF InOrder, Puller, Pending, At
<1>9. QED
  BY <1>5, <1>6, <1>7, <1>8 DEF QueueInv

LEMMA RoomAtTail ==
  ASSUME Types, RoomKnown, ppc = "place", FitsAtTail
  PROVE  /\ item \in Elements /\ item.at = tail /\ tail + item.len < Size
         /\ head <= tail \/ tail + item.len < head
<1>1. item \in Elements /\ item.at = tail /\ item.len \in Nat
  BY ElementFacts DEF RoomKnown
<1>2. CASE pHead <= tail
  <2>1. Size - tail > item.len + 1 /\ head <= tail
    BY <1>2, Facts DEF FitsAtTail, SpaceReq, RoomKnown
  <2>2. QED
    BY <1>1, <2>1, Facts
<1>3. CASE tail < pHead
  <2>1. pHead - tail > item.len + 1 /\ (pHead <= head \/ head <= tail)
    BY <1>3, Facts DEF FitsAtTail, SpaceReq, RoomKnown
  <2>2. QED
    BY <1>1, <2>1, Facts
<1>4. QED
  BY <1>2, <1>3, Facts

LEMMA RoomAtStart ==
  ASSUME Types, RoomKnown, ppc = "place", FitsAtStart
  PROVE  /\ item \in Elements /\ item.len < head /\ head <= tail
BY ElementFacts, Facts DEF RoomKnown, FitsAtStart, SpaceReq

LEMMA PlaceAtTailInv ==
  ASSUME QueueInv, PlaceAtTail
  PROVE  QueueInv'
<1>1. Types /\ Layout /\ InOrder /\ Puller /\ RoomKnown
  BY DEF QueueInv
<1>2. /\ UNCHANGED <<head, tail, accepted, taken, cpc, got, item, pHead>>
      /\ ppc = "place" /\ FitsAtTail /\ mem' = Stored(item, mem) /\ ppc' = "publish"
  BY DEF PlaceAtTail, pullVars
<1>3. /\ item \in Elements /\ item.at = tail /\ tail + item.len < Size
      /\ head <= tail \/ tail + item.len < head
  BY <1>1, <1>2, RoomAtTail
<1>4. /\ mem' \in [Words -> {Junk, Marker} \union (Elements \X (1 .. Size))]
      /\ \A k \in 1 .. item.len : mem'[item.at + k - 1] = <<item, k>>
      /\ \A w \in Words : w < item.at \/ item.at + item.len <= w => mem'[w] = mem[w]
  BY <1>1, <1>2, <1>3, Facts, StoredMem DEF Types
<1>5. Types'
  BY <1>1, <1>2, <1>4 DEF Types
<1>6. ASSUME NEW w \in Words, IF head <= tail THEN head <= w /\ w < tail ELSE w < tail \/ head <= w
      PROVE  mem'[w] = mem[w]
  <2>1. w < item.at \/ item.at + item.len <= w
    BY <1>1, <1>3, <1>6, Facts, ElementFacts DEF Words
  <2>2. QED
    BY <1>4, <2>1
<1>7. Layout'
  BY <1>1, <1>2, <1>6, WriteKeepsLayout
<1>8. RoomKnown' /\ ItemPlaced'
  BY <1>2, <1>3, <1>4 DEF RoomKnown, ItemPlaced, InMemory
<1>9. InOrder' /\ Puller'
  BY <1>1, <1>2 DEF InOrder, Puller, Pending, At
<1>10. QED
  BY <1>5, <1>7, <1>8, <1>9 DEF QueueInv

LEMMA PlaceAtStartInv ==
  ASSUME QueueInv, PlaceAtStart
  PROVE  QueueInv'
<1> DEFINE m == [mem EXCEPT ![tail] = Marker]
<1>1. Types /\ Layout /\ InOrder /\ Puller /\ RoomKnown
  BY DEF QueueInv
<1>2. /\ UNCHANGED <<head, tail, accepted, taken, cpc, got, pHead>>
      /\ item' = [item EXCEPT !.at = 0]
      /\ ppc = "place" /\ FitsAtStart /\ mem' = Stored(item', m) /\ ppc' = "publish"
  BY DEF PlaceAtStart, pullVars
<1>3. item \in Elements /\ item.len < head /\ head <= tail
  BY <1>1, <1>2, RoomAtStart
<1>4. item' \in Elements /\ item'.at = 0 /\ item'.len = item.len /\ item.len \in Nat
  <2>1. 0 \in Words
    BY <1>1, Facts DEF Words
  <2>2. item' \in Elements /\ item'.at = 0 /\ item'.len = item.len
    BY <1>2, <1>3, <2>1 DEF Elements
  <2>3. QED
    BY <1>3, <2>2, ElementFacts
<1>5. item'.at + item'.len < Size /\ item.len < tail
  BY <1>1, <1>3, <1>4, Facts
<1>6. m \in [Words -> {Junk, Marker} \union (Elements \X (1 .. Size))]
  BY <1>1 DEF Types
<1> HIDE DEF m
<1>7. /\ mem' \in [Words -> {Junk, Marker} \union (Elements \X (1 .. Size))]
      /\ \A k \in 1 .. item'.len : mem'[item'.at + k - 1] = <<item', k>>
      /\ \A w \in Words : w < item'.at \/ item'.at + item'.len <= w => mem'[w] = m[w]
  BY <1>1, <1>2, <1>4, <1>5, <1>6, Facts, StoredMem
<1>8. Types'
  BY <1>1, <1>2, <1>4, <1>7 DEF Types
<1>9. tail \in Words /\ tail \in Nat /\ head \in Nat
  BY <1>1, Facts DEF Types
<1>10. mem'[tail] = Marker
  <2>1. m[tail] = Marker
    BY <1>1, <1>9 DEF m, Types
  <2>2. item'.at + item'.len <= tail
    BY <1>4, <1>5, <1>9
  <2>3. QED
    BY <1>7, <1>9, <2>1, <2>2
<1>11. ASSUME NEW w \in Words, IF head <= tail THEN head <= w /\ w < tail ELSE w < tail \/ head <= w
       PROVE  mem'[w] = mem[w]
  <2>1. w # tail /\ item'.at + item'.len <= w
    BY <1>1, <1>3, <1>4, <1>9, <1>11, Facts DEF Words
  <2>2. m[w] = mem[w]
    BY <1>1, <2>1 DEF m, Types
  <2>3. QED
    BY <1>7, <2>1, <2>2
<1>12. Layout'
  BY <1>1, <1>2, <1>11, WriteKeepsLayout
<1>13. RoomKnown' /\ ItemPlaced'
  BY <1>2, <1>3, <1>4, <1>5, <1>7, <1>10 DEF RoomKnown, ItemPlaced, InMemory
<1>14. InOrder' /\ Puller'
  BY <1>1, <1>2 DEF InOrder, Puller, Pending, At
<1>15. QED
  BY <1>8, <1>12, <1>13, <1>14 DEF QueueInv

(* A step that changes no more than where the two sides stand.             *)
LEMMA IdleInv ==
  ASSUME QueueInv, UNCHANGED <<head, tail, mem, accepted, taken, item, pHead, got>>,
         ppc' \in {"idle", ppc}, cpc' \in {"idle", cpc} \/ (cpc' = "pull" /\ head # tail)
  PROVE  QueueInv'
<1>1. Types /\ Layout /\ InOrder /\ Puller /\ RoomKnown /\ ItemPlaced
  BY DEF QueueInv
<1>2. Types' /\ InOrder' /\ RoomKnown' /\ ItemPlaced'
  BY <1>1 DEF Types, InOrder, RoomKnown, ItemPlaced, InMemory
<1>3. Puller'
  BY <1>1 DEF Puller, Pending, At, Layout, Ends, Types
<1>4. Layout'
  BY <1>1, SameLayout
<1>5. QED
  BY <1>2, <1>3, <1>4 DEF QueueInv

LEMMA PushEndInv ==
  ASSUME QueueInv, PushEnd
  PROVE  QueueInv'
<1>1. Types /\ InOrder /\ Puller /\ ItemPlaced /\ Ends /\ Placed /\ Bounded /\ Sorted
      /\ HighFirst /\ Chained
  BY DEF QueueInv, Layout
<1>2. /\ UNCHANGED <<head, taken, cpc, got, item, pHead, mem>>
      /\ ppc = "publish" /\ ppc' = "idle" /\ tail' = item.at + item.len
      /\ accepted' = Append(accepted, item)
  BY DEF PushEnd, pullVars
<1>3. /\ item \in Elements /\ InMemory(item)
      /\ \/ item.at = tail /\ (head <= tail \/ tail + item.len < head)
         \/ item.at = 0 /\ mem[tail] = Marker /\ head <= tail /\ item.len < head
  BY <1>1, <1>2 DEF ItemPlaced
<1>4. item.len \in Nat /\ item.len # 0 /\ item.at \in Nat /\ tail' \in Nat /\ tail' < Size
  BY <1>2, <1>3, ElementFacts DEF InMemory
<1>5. PICK L \in Nat : L = Len(accepted)
  BY <1>1, Facts
<1>6. /\ L \in Nat /\ Len(accepted') = L + 1 /\ accepted' \in Seq(Elements)
      /\ accepted'[L + 1] = item
      /\ \A n \in 1 .. L : accepted'[n] = accepted[n]
  BY <1>1, <1>2, <1>3, <1>5, Facts DEF Types
<1>7. Len(taken) \in Nat /\ Len(taken) <= L /\ taken' = taken
  BY <1>1, <1>2, <1>5, Facts DEF InOrder
<1>8. /\ Pending' = Pending \union {L + 1} /\ L + 1 \notin Pending
      /\ \A n \in Pending : n < L + 1 /\ n \in 1 .. L
      /\ \A n \in Pending : At(n)' = At(n) /\ End(n)' = End(n)
      /\ At(L + 1)' = item.at /\ End(L + 1)' = tail'
  BY <1>2, <1>5, <1>6, <1>7 DEF Pending, At, End
<1>9. Types'
  <2>1. L < MaxPushes /\ L + 1 \in 0 .. MaxPushes /\ tail' \in Words
    BY <1>1, <1>2, <1>4, <1>5, <1>6, Facts DEF Types, Words
  <2>2. QED
    BY <1>1, <1>2, <1>3, <1>5, <1>6, <2>1 DEF Types
<1>10. InOrder' /\ RoomKnown' /\ ItemPlaced'
  BY <1>1, <1>2, <1>5, <1>6, <1>7 DEF InOrder, RoomKnown, ItemPlaced
<1>11. Placed'
  <2>1. ASSUME NEW n \in Pending' PROVE InMemory(accepted'[n])
    BY <1>1, <1>3, <1>5, <1>6, <1>8 DEF Placed
  <2>2. \A e : InMemory(e)' <=> InMemory(e)
    BY <1>2 DEF InMemory
  <2>3. QED
    BY <1>2, <2>1 DEF Placed, InMemory
<1>12. tail = Follows(L) /\ (L \in Pending => tail = End(L)) /\ (Pending # {} => L \in Pending)
  BY <1>1, <1>5, <1>6, <1>7 DEF Ends, Follows, End, Pending
<1>13. \A n \in Pending : At(n) \in Nat /\ End(n) \in Nat /\ At(n) < End(n)
  BY <1>1, PendingFacts
<1>14. head \in Nat /\ tail \in Nat /\ head < Size /\ tail < Size
  BY <1>1, Facts
(* Where the new element lies, in the three cases.                         *)
<1>15. \/ item.at = tail /\ head <= tail /\ head < tail'
       \/ item.at = tail /\ tail < head /\ tail' < head
       \/ item.at = 0 /\ mem[tail] = Marker /\ head <= tail /\ tail' < head
  BY <1>2, <1>3, <1>4, <1>14
<1>16. Bounded'
  <2>1. \A n \in Pending : /\ head <= tail => head <= At(n) /\ End(n) <= tail
                           /\ tail < head => head <= At(n) \/ End(n) <= tail
    BY <1>1 DEF Bounded
  <2>2. \A n \in Pending' : /\ head <= tail' => head <= At(n)' /\ End(n)' <= tail'
                            /\ tail' < head => head <= At(n)' \/ End(n)' <= tail'
    BY <1>2, <1>4, <1>8, <1>13, <1>14, <1>15, <2>1
  <2>3. QED
    BY <1>2, <2>2 DEF Bounded
<1>17. Sorted'
  <2>1. ASSUME NEW a \in Pending', NEW b \in Pending', a < b
        PROVE  End(a)' <= At(b)' \/ (tail' < head /\ head <= At(a)' /\ End(b)' <= tail')
    <3>1. a \in Pending /\ At(a)' = At(a) /\ End(a)' = End(a)
      BY <1>5, <1>6, <1>8, <2>1
    <3>2. /\ head <= tail => head <= At(a) /\ End(a) <= tail
          /\ tail < head => head <= At(a) \/ End(a) <= tail
      BY <1>1, <3>1 DEF Bounded
    <3>3. CASE b = L + 1
      BY <1>2, <1>4, <1>8, <1>13, <1>14, <1>15, <3>1, <3>2, <3>3
    <3>4. CASE b \in Pending
      <4>1. End(a) <= At(b) \/ (tail < head /\ head <= At(a) /\ End(b) <= tail)
        BY <1>1, <2>1, <3>1, <3>4 DEF Sorted
      <4>2. At(b)' = At(b) /\ End(b)' = End(b)
        BY <1>8, <3>4
      <4>3. QED
        BY <1>2, <1>4, <1>13, <1>14, <1>15, <3>1, <3>4, <4>1, <4>2
    <3>5. QED
      BY <1>8, <2>1, <3>3, <3>4
  <2>2. QED
    BY <1>2, <2>1 DEF Sorted
<1>18. HighFirst'
  <2>1. ASSUME tail' < head, NEW a \in Pending', NEW b \in Pending', a < b, End(a)' <= tail'
        PROVE  End(b)' <= tail'
    <3>1. a \in Pending /\ At(a)' = At(a) /\ End(a)' = End(a)
      BY <1>5, <1>6, <1>8, <2>1
    <3>2. CASE b = L + 1
      BY <1>4, <1>8, <3>2
    <3>3. CASE b \in Pending
      <4>1. At(b)' = At(b) /\ End(b)' = End(b)
        BY <1>8, <3>3
      <4>2. /\ head <= tail => head <= At(a)
            /\ tail < head => head <= At(a) \/ End(a) <= tail
            /\ tail < head /\ End(a) <= tail => End(b) <= tail
        BY <1>1, <2>1, <3>1, <3>3 DEF Bounded, HighFirst
      <4>3. QED
        BY <1>2, <1>4, <1>13, <1>14, <1>15, <2>1, <3>1, <3>3, <4>1, <4>2
    <3>4. QED
      BY <1>8, <2>1, <3>2, <3>3
  <2>2. QED
    BY <1>2, <2>1 DEF HighFirst
<1>19. Chained'
  <2>1. ASSUME NEW a \in Pending', a + 1 \in Pending'
        PROVE  \/ At(a + 1)' = End(a)'
               \/ At(a + 1)' = 0 /\ mem[End(a)'] = Marker /\ tail' < head /\ head <= At(a)'
    <3>1. a \in Pending /\ At(a)' = At(a) /\ End(a)' = End(a)
      BY <1>5, <1>6, <1>7, <1>8, <2>1 DEF Pending
    <3>2. CASE a = L
      <4>1. End(a) = tail /\ At(a + 1)' = item.at
        BY <1>8, <1>12, <3>1, <3>2
      <4>2. head <= tail => head <= At(a)
        BY <1>1, <3>1 DEF Bounded
      <4>3. QED
        BY <1>2, <1>15, <3>1, <4>1, <4>2
    <3>3. CASE a # L
      <4>1. a + 1 \in Pending
        BY <1>5, <1>6, <1>7, <3>1, <3>3 DEF Pending
      <4>2. \/ At(a + 1) = End(a)
            \/ At(a + 1) = 0 /\ mem[End(a)] = Marker /\ tail < head /\ head <= At(a)
        BY <1>1, <3>1, <4>1 DEF Chained
      <4>3. At(a + 1)' = At(a + 1)
        BY <1>8, <4>1
      <4>4. QED
        BY <1>4, <1>14, <1>15, <3>1, <4>2, <4>3
    <3>4. QED
      BY <3>2, <3>3
  <2>2. QED
    BY <1>2, <2>1 DEF Chained
<1>20. Ends'
  <2>1. tail' = Follows(Len(accepted))'
    BY <1>2, <1>5, <1>6 DEF Follows
  <2>2. (head = Follows(Len(taken)) \/ head = 0)'
    BY <1>1, <1>2, <1>5, <1>6, <1>7 DEF Ends, Follows
  <2>3. head' # tail' /\ Pending' # {}
    BY <1>2, <1>8, <1>14, <1>15, <1>4
  <2>4. \/ At(Len(taken) + 1)' = head
        \/ At(Len(taken) + 1)' = 0 /\ mem[head] = Marker /\ tail' < head
    <3>1. CASE Pending = {}
      <4>1. head = tail /\ Len(taken) = L
        BY <1>1, <1>5, <1>6, <1>7, <3>1 DEF Ends, Pending
      <4>2. At(Len(taken) + 1)' = item.at
        BY <1>2, <1>8, <4>1
      <4>3. QED
        BY <1>14, <1>15, <4>1, <4>2
    <3>2. CASE Pending # {}
      <4>1. Len(taken) + 1 \in Pending
        BY <1>5, <1>6, <1>7, <3>2 DEF Pending
      <4>2. At(Len(taken) + 1)' = At(Len(taken) + 1)
        BY <1>2, <1>8, <4>1
      <4>3. \/ At(Len(taken) + 1) = head
            \/ At(Len(taken) + 1) = 0 /\ mem[head] = Marker /\ tail < head
        BY <1>1, <3>2 DEF Ends
      <4>4. QED
        BY <1>4, <1>14, <1>15, <4>2, <4>3
    <3>3. QED
      BY <3>1, <3>2
  <2>5. QED
    BY <1>2, <2>1, <2>2, <2>3, <2>4 DEF Ends
<1>21. Puller'
  <2>1. cpc # "idle" => Len(taken) + 1 \in Pending
    BY <1>1, <1>5, <1>6, <1>7 DEF Puller, Pending
  <2>2. QED
    BY <1>1, <1>2, <1>5, <1>6, <1>8, <2>1 DEF Puller
<1>22. QED
  BY <1>9, <1>10, <1>11, <1>16, <1>17, <1>18, <1>19, <1>20, <1>21 DEF QueueInv, Layout

(* The puller.                                                             *)
LEMMA FirstPending ==
  ASSUME QueueInv, cpc # "idle"
  PROVE  /\ Len(taken) + 1 \in Pending /\ head # tail
         /\ \/ At(Len(taken) + 1) = head
            \/ At(Len(taken) + 1) = 0 /\ mem[head] = Marker /\ tail < head
<1>1. Types /\ Puller /\ Ends
  BY DEF QueueInv, Layout
<1>2. Pending # {}
  BY <1>1 DEF Puller
<1>3. QED
  BY <1>1, <1>2, Facts DEF Pending, Ends

LEMMA PullWrapInv ==
  ASSUME QueueInv, PullWrap
  PROVE  QueueInv'
<1>1. Types /\ InOrder /\ Puller /\ RoomKnown /\ ItemPlaced /\ Ends /\ Placed /\ Bounded
      /\ Sorted /\ HighFirst /\ Chained
  BY DEF QueueInv, Layout
<1>2. /\ UNCHANGED <<cpc, got, taken, mem, tail, ppc, item, pHead, accepted>>
      /\ cpc = "pull" /\ mem[head] = Marker /\ head' = 0
  BY DEF PullWrap, pushVars
<1>3. PICK N \in Nat : N = Len(taken) + 1
  BY <1>1, Facts
<1>4. N \in Pending /\ (At(N) = head \/ (At(N) = 0 /\ mem[head] = Marker /\ tail < head))
  BY <1>2, <1>3, FirstPending
<1>5. /\ \A n \in Pending : At(n) \in Nat /\ End(n) \in Nat /\ At(n) < End(n)
      /\ Pending' = Pending
      /\ \A n : At(n)' = At(n) /\ End(n)' = End(n)
  BY <1>1, <1>2, PendingFacts DEF Pending, At, End
<1>6. head \in Nat /\ tail \in Nat /\ head < Size /\ tail < Size
  BY <1>1, Facts
<1>7. At(N) # head
  <2>1. InMemory(accepted[N]) /\ accepted[N] \in Elements /\ accepted[N].at = At(N)
    BY <1>1, <1>4, PendingFacts DEF Placed
  <2>2. accepted[N].len \in Nat /\ accepted[N].len # 0 /\ accepted[N].no # 0 /\ At(N) \in Nat
    BY <2>1, ElementFacts
  <2>3. mem[At(N) + 1 - 1] = <<accepted[N], 1>>
    <3>1. 1 \in 1 .. accepted[N].len
      BY <2>2
    <3>2. \A k \in 1 .. accepted[N].len : mem[At(N) + k - 1] = <<accepted[N], k>>
      BY <2>1 DEF InMemory
    <3>3. QED
      BY <3>1, <3>2
  <2>4. mem[At(N)] = <<accepted[N], 1>>
    BY <2>2, <2>3
  <2>5. QED
    BY <1>2, <2>2, <2>4 DEF Marker
<1>8. At(N) = 0 /\ tail < head
  BY <1>4, <1>7
<1>9. End(N) <= tail
  BY <1>1, <1>4, <1>5, <1>6, <1>8 DEF Bounded
(* All that is left is low.                                                *)
<1>10. ASSUME NEW n \in Pending
       PROVE  End(n) <= tail /\ ~(head <= At(n))
  <2>1. n = N \/ N < n
    BY <1>1, <1>3, Facts DEF Pending
  <2>2. End(n) <= tail
    BY <1>1, <1>4, <1>8, <1>9, <2>1 DEF HighFirst
  <2>3. QED
    BY <1>5, <1>6, <1>8, <2>2
<1>11. Types'
  BY <1>1, <1>2, Facts DEF Types, Words
<1>12. Bounded'
  BY <1>2, <1>5, <1>6, <1>10 DEF Bounded
<1>13. Sorted'
  <2>1. \A m, n \in Pending : m < n => End(m) <= At(n)
    BY <1>1, <1>10 DEF Sorted
  <2>2. QED
    BY <1>5, <2>1 DEF Sorted
<1>14. HighFirst'
  BY <1>2, <1>6 DEF HighFirst
<1>15. Chained'
  <2>1. \A n \in Pending : n + 1 \in Pending => At(n + 1) = End(n)
    BY <1>1, <1>10 DEF Chained
  <2>2. QED
    BY <1>5, <2>1 DEF Chained
<1>16. Placed'
  BY <1>1, <1>2, <1>5 DEF Placed, InMemory
<1>17. Ends'
  <2>1. tail' = Follows(Len(accepted))' /\ head' = 0
    BY <1>1, <1>2 DEF Ends, Follows
  <2>2. head' # tail'
    BY <1>2, <1>4, <1>5, <1>9
  <2>3. At(Len(taken) + 1)' = head'
    BY <1>2, <1>3, <1>5, <1>8
  <2>4. QED
    BY <1>4, <1>5, <2>1, <2>2, <2>3 DEF Ends
<1>18. InOrder' /\ Puller'
  BY <1>1, <1>2, <1>5 DEF InOrder, Puller
<1>19. RoomKnown'
  BY <1>1, <1>2, <1>6, <1>8, Facts DEF RoomKnown
<1>20. ItemPlaced'
  BY <1>1, <1>2, <1>6, <1>8 DEF ItemPlaced, InMemory
<1>21. QED
  BY <1>11, <1>12, <1>13, <1>14, <1>15, <1>16, <1>17, <1>18, <1>19, <1>20 DEF QueueInv, Layout

LEMMA PullCopyInv ==
  ASSUME QueueInv, PullCopy
  PROVE  QueueInv'
<1>1. Types /\ InOrder /\ Puller /\ RoomKnown /\ ItemPlaced /\ Layout /\ Placed
  BY DEF QueueInv, Layout
<1>2. /\ UNCHANGED <<head, taken, mem, tail, ppc, item, pHead, accepted>>
      /\ cpc = "pull" /\ mem[head] # Marker /\ got' = AtHead /\ cpc' = "advance"
  BY DEF PullCopy, Pullable, pushVars
<1>3. PICK N \in Nat : N = Len(taken) + 1
  BY <1>1, Facts
<1>4. N \in Pending /\ At(N) = head
  BY <1>2, <1>3, FirstPending
<1>5. /\ InMemory(accepted[N]) /\ accepted[N] \in Elements /\ accepted[N].at = head
      /\ accepted[N].len \in Nat /\ accepted[N].len # 0 /\ accepted[N].no # 0
      /\ head \in Nat /\ Size \in Nat
  BY <1>1, <1>4, PendingFacts, ElementFacts, Facts DEF Placed
<1>6. \A k \in 1 .. accepted[N].len : head + k - 1 \in Words /\ mem[head + k - 1] = <<accepted[N], k>>
  <2>1. \A k \in 1 .. accepted[N].len : head + k - 1 \in Words
    BY <1>5 DEF InMemory, Words
  <2>2. QED
    BY <1>5, <2>1 DEF InMemory
<1>7. mem[head] = <<accepted[N], 1>>
  <2>1. head + 1 - 1 = head /\ 1 \in 1 .. accepted[N].len
    BY <1>5
  <2>2. QED
    BY <1>6, <2>1
<1>8. AtHead = accepted[N]
  <2>1. mem[head][1] = accepted[N]
    BY <1>7
  <2>2. mem[head] # Junk
    BY <1>5, <1>7 DEF Junk, Nothing
  <2>3. accepted[N] \in {e \in {mem[head][1]} :
                             \A k \in 1 .. e.len : head + k - 1 \in Words
                                                   /\ mem[head + k - 1] = <<e, k>>}
    BY <1>6, <2>1
  <2>4. QED
    BY <2>1, <2>2, <2>3 DEF AtHead
<1>9. Types' /\ InOrder' /\ RoomKnown' /\ ItemPlaced'
  BY <1>1, <1>2, <1>5, <1>8 DEF Types, InOrder, RoomKnown, ItemPlaced, InMemory
<1>10. Layout'
  BY <1>1, <1>2, SameLayout
<1>11. Puller'
  BY <1>2, <1>3, <1>4, <1>8 DEF Puller, Pending, At
<1>12. QED
  BY <1>9, <1>10, <1>11 DEF QueueInv

LEMMA PullEndInv ==
  ASSUME QueueInv, PullEnd
  PROVE  /\ QueueInv'
         /\ Len(taken) + 1 \in 1 .. Len(accepted) /\ got = accepted[Len(taken) + 1]
<1>1. Types /\ InOrder /\ Puller /\ RoomKnown /\ ItemPlaced /\ Ends /\ Placed /\ Bounded
      /\ Sorted /\ HighFirst /\ Chained
  BY DEF QueueInv, Layout
<1>2. /\ UNCHANGED <<got, mem, tail, ppc, item, pHead, accepted>>
      /\ cpc = "advance" /\ cpc' = "idle" /\ head' = head + got.len /\ taken' = Append(taken, got)
  BY DEF PullEnd, pushVars
<1>3. PICK N \in Nat : N = Len(taken) + 1
  BY <1>1, Facts
<1>4. /\ N \in Pending /\ N \in 1 .. Len(accepted) /\ At(N) = head /\ got = accepted[N]
      /\ accepted[N] \in Elements
  BY <1>1, <1>2, <1>3, FirstPending, PendingFacts DEF Puller
<1>5. head \in Nat /\ tail \in Nat /\ head < Size /\ tail < Size /\ Size \in Nat /\ Len(accepted) \in Nat
  BY <1>1, Facts
<1>6. head' = End(N) /\ head' \in Nat /\ head < head' /\ head' < Size
  BY <1>1, <1>2, <1>4, PendingFacts DEF Placed, InMemory, End
<1>7. /\ Len(taken') = N /\ taken' \in Seq(Elements) /\ taken'[N] = accepted[N]
      /\ \A n \in 1 .. N - 1 : taken'[n] = taken[n]
  BY <1>1, <1>2, <1>3, <1>4 DEF Types
<1>8. /\ Pending' = Pending \ {N}
      /\ \A n : At(n)' = At(n) /\ End(n)' = End(n)
      /\ \A n \in Pending : n \in Nat /\ At(n) \in Nat /\ End(n) \in Nat /\ At(n) < End(n)
      /\ \A n \in Pending' : n \in Pending /\ N < n
  BY <1>1, <1>2, <1>3, <1>5, <1>7, PendingFacts DEF Pending, At, End
<1>9. head <= tail \/ tail < head
  BY <1>5
<1>10. ASSUME NEW n \in Pending'
       PROVE  /\ head <= tail => head' <= At(n) /\ End(n) <= tail
              /\ tail < head  => head' <= At(n) \/ End(n) <= tail
  <2>1. End(N) <= At(n) \/ (tail < head /\ head <= At(N) /\ End(n) <= tail)
    BY <1>1, <1>4, <1>8 DEF Sorted
  <2>2. head <= tail => End(n) <= tail
    BY <1>1, <1>8 DEF Bounded
  <2>3. QED
    BY <1>5, <1>6, <1>8, <2>1, <2>2
<1>11. tail < head <=> tail < head'
  <2>1. head <= tail => head' <= tail
    BY <1>1, <1>4, <1>6 DEF Bounded
  <2>2. QED
    BY <1>5, <1>6, <2>1
<1>12. Types'
  BY <1>1, <1>2, <1>5, <1>6, <1>7 DEF Types, Words
<1>13. InOrder'
  <2>1. N <= Len(accepted)
    BY <1>4
  <2>2. ASSUME NEW n \in 1 .. N
        PROVE  taken'[n] = accepted[n]
    BY <1>1, <1>3, <1>7, Facts DEF InOrder
  <2>3. QED
    BY <1>2, <1>7, <2>1, <2>2 DEF InOrder
<1>14. Placed'
  BY <1>1, <1>2, <1>8 DEF Placed, InMemory
<1>15. Bounded'
  BY <1>2, <1>5, <1>6, <1>8, <1>10, <1>11 DEF Bounded
<1>16. Sorted'
  <2>1. ASSUME NEW m \in Pending', NEW n \in Pending', m < n
        PROVE  End(m) <= At(n) \/ (tail < head' /\ head' <= At(m) /\ End(n) <= tail)
    <3>1. End(m) <= At(n) \/ (tail < head /\ head <= At(m) /\ End(n) <= tail)
      BY <1>1, <1>8, <2>1 DEF Sorted
    <3>2. tail < head => head' <= At(m) \/ End(m) <= tail
      BY <1>10
    <3>3. QED
      BY <1>5, <1>6, <1>8, <1>11, <3>1, <3>2
  <2>2. QED
    BY <1>2, <1>8, <2>1 DEF Sorted
<1>17. HighFirst'
  BY <1>1, <1>2, <1>8, <1>11 DEF HighFirst
<1>18. Chained'
  <2>1. ASSUME NEW n \in Pending', n + 1 \in Pending'
        PROVE  \/ At(n + 1) = End(n)
               \/ At(n + 1) = 0 /\ mem[End(n)] = Marker /\ tail < head' /\ head' <= At(n)
    <3>1. \/ At(n + 1) = End(n)
          \/ At(n + 1) = 0 /\ mem[End(n)] = Marker /\ tail < head /\ head <= At(n)
      BY <1>1, <1>8, <2>1 DEF Chained
    <3>2. tail < head => head' <= At(n) \/ End(n) <= tail
      BY <1>10
    <3>3. QED
      BY <1>5, <1>6, <1>8, <1>11, <3>1, <3>2
  <2>2. QED
    BY <1>2, <1>8, <2>1 DEF Chained
<1>19. Ends'
  <2>1. tail' = Follows(Len(accepted))' /\ head' = Follows(Len(taken))'
    <3>1. Follows(Len(taken))' = End(N)
      BY <1>2, <1>4, <1>7 DEF Follows, End
    <3>2. QED
      BY <1>1, <1>2, <1>6, <3>1 DEF Ends, Follows
  <2>2. CASE N = Len(accepted)
    <3>1. Pending' = {}
      BY <1>2, <1>5, <1>7, <2>2 DEF Pending
    <3>2. tail = End(N)
      BY <1>1, <1>4, <2>2 DEF Ends, Follows, End
    <3>3. QED
      BY <1>2, <1>6, <2>1, <3>1, <3>2 DEF Ends
  <2>3. CASE N # Len(accepted)
    <3>1. N + 1 \in Pending' /\ N + 1 \in Pending
      BY <1>2, <1>3, <1>4, <1>5, <1>7, <1>8, <2>3 DEF Pending
    <3>2. \/ At(N + 1) = head'
          \/ At(N + 1) = 0 /\ mem[head'] = Marker /\ tail < head'
      BY <1>1, <1>4, <1>6, <1>11, <3>1 DEF Chained
    <3>3. head' # tail
      BY <1>1, <1>4, <1>5, <1>6, <1>8, <1>9, <1>10, <1>11, <3>1
    <3>4. QED
      BY <1>2, <1>7, <1>8, <2>1, <3>1, <3>2, <3>3 DEF Ends
  <2>4. QED
    BY <2>2, <2>3
<1>20. Puller'
  BY <1>2 DEF Puller
<1>21. RoomKnown'
  BY <1>1, <1>2, <1>5, <1>6, <1>11, Facts DEF RoomKnown
<1>22. ItemPlaced'
  <2>1. head <= tail => head' <= tail
    BY <1>5, <1>6, <1>11
  <2>2. ASSUME ppc = "publish"
        PROVE  /\ item \in Elements /\ InMemory(item)' /\ item.len \in Nat
               /\ \/ item.at = tail /\ (head <= tail \/ tail + item.len < head)
                  \/ item.at = 0 /\ mem[tail] = Marker /\ head <= tail /\ item.len < head
    BY <1>1, <1>2, <2>2, ElementFacts DEF ItemPlaced, InMemory
  <2>3. ASSUME ppc = "publish"
        PROVE  \/ item.at = tail /\ (head' <= tail \/ tail + item.len < head')
               \/ item.at = 0 /\ mem[tail] = Marker /\ head' <= tail /\ item.len < head'
    BY <1>5, <1>6, <2>1, <2>2, <2>3
  <2>4. QED
    BY <1>2, <2>2, <2>3 DEF ItemPlaced
<1>23. QED
  BY <1>3, <1>4, <1>12, <1>13, <1>14, <1>15, <1>16, <1>17, <1>18, <1>19, <1>20, <1>21, <1>22
     DEF QueueInv, Layout

-----------------------------------------------------------------------------
LEMMA NextQueueInv == QueueInv /\ [QueueNext]_queueVars => QueueInv'
<1>1. SUFFICES ASSUME QueueInv, [QueueNext]_queueVars PROVE QueueInv'
  OBVIOUS
<1>2. ASSUME NEW len \in Lengths, PushStart(len) PROVE QueueInv'
  BY <1>1, <1>2, PushStartInv
<1>3. CASE PlaceAtTail
  BY <1>1, <1>3, PlaceAtTailInv
<1>4. CASE PlaceAtStart
  BY <1>1, <1>4, PlaceAtStartInv
<1>5. CASE Refuse \/ NotEmpty \/ PullNull \/ UNCHANGED queueVars
  <2>1. /\ UNCHANGED <<head, tail, mem, accepted, taken, item, pHead, got>>
        /\ ppc' \in {"idle", ppc} /\ (cpc' \in {"idle", cpc} \/ (cpc' = "pull" /\ head # tail))
    BY <1>5 DEF Refuse, NotEmpty, PullNull, queueVars, pushVars, pullVars
  <2>2. QED
    BY <1>1, <2>1, IdleInv
<1>6. CASE PushEnd
  BY <1>1, <1>6, PushEndInv
<1>7. CASE PullWrap
  BY <1>1, <1>7, PullWrapInv
<1>8. CASE PullCopy
  BY <1>1, <1>8, PullCopyInv
<1>9. CASE PullEnd
  BY <1>1, <1>9, PullEndInv
<1>10. QED
  BY <1>1, <1>2, <1>3, <1>4, <1>5, <1>6, <1>7, <1>8, <1>9 DEF QueueNext, Push, Pull

THEOREM QueueHolds == QueueSpec => []QueueInv
BY InitQueueInv, NextQueueInv, PTL DEF QueueSpec

(* Every element that was pushed and not yet pulled lies where the puller  *)
(* will look for it, whole (mxvp_queue_push).                              *)
THEOREM ElementsStayInPlace == QueueSpec => []ElementsInPlace
<1>1. ASSUME QueueInv PROVE ElementsInPlace
  <2>1. Types /\ Ends /\ Placed /\ Chained
    BY <1>1 DEF QueueInv, Layout
  <2>2. SUFFICES ASSUME NEW n \in Pending
        PROVE  LET e == accepted[n] IN
               /\ \A k \in 1 .. e.len : e.at + k - 1 \in Words /\ mem[e.at + k - 1] = <<e, k>>
               /\ \/ e.at = Follows(n - 1)
                  \/ e.at = 0 /\ mem[Follows(n - 1)] = Marker
                  \/ e.at = 0 /\ n = Len(taken) + 1 /\ head = 0
    BY DEF ElementsInPlace, Pending
  <2>3. /\ n \in Nat /\ accepted[n].at \in Nat /\ accepted[n].len \in Nat /\ Size \in Nat
        /\ InMemory(accepted[n]) /\ Len(taken) \in Nat /\ Len(taken) < n
    BY <2>1, PendingFacts, ElementFacts, Facts DEF Placed, Pending
  <2>4. \A k \in 1 .. accepted[n].len : /\ accepted[n].at + k - 1 \in Words
                                        /\ mem[accepted[n].at + k - 1] = <<accepted[n], k>>
    <3>1. \A k \in 1 .. accepted[n].len : accepted[n].at + k - 1 \in Words
      BY <2>3 DEF InMemory, Words
    <3>2. QED
      BY <2>3, <3>1 DEF InMemory
  <2>5. CASE n = Len(taken) + 1
    <3>1. \/ At(n) = head
          \/ At(n) = 0 /\ mem[head] = Marker /\ tail < head
      BY <2>1, <2>5 DEF Ends
    <3>2. head = Follows(n - 1) \/ head = 0
      BY <2>1, <2>3, <2>5 DEF Ends
    <3>3. head # 0 \/ ~(tail < head)
      BY <2>1, Facts
    <3>4. QED
      BY <2>4, <2>5, <3>1, <3>2, <3>3 DEF At
  <2>6. CASE n # Len(taken) + 1
    <3>1. PICK m \in Nat : m = n - 1
      BY <2>3
    <3>2. m \in Pending /\ n = m + 1 /\ m # 0
      BY <2>1, <2>3, <2>6, <3>1, Facts DEF Pending
    <3>3. At(n) = End(m) \/ (At(n) = 0 /\ mem[End(m)] = Marker)
      BY <2>1, <3>2 DEF Chained
    <3>4. Follows(n - 1) = End(m)
      BY <3>1, <3>2 DEF Follows, End
    <3>5. QED
      BY <2>4, <3>3, <3>4 DEF At
  <2>7. QED
    BY <2>5, <2>6
<1>2. QED
  BY <1>1, QueueHolds, PTL

(* A pull that was told of an element finds one (mxvp_queue_pull,          *)
(* mxvp_queue_is_empty).                                                   *)
THEOREM PullNeverFindsNothing == QueueSpec => []PullFindsElement
<1>1. ASSUME QueueInv PROVE PullFindsElement
  <2>1. SUFFICES ASSUME cpc = "pull"
        PROVE  Len(taken) < Len(accepted) /\ head # tail /\ (mem[head] = Marker => tail # 0)
    BY DEF PullFindsElement
  <2>2. Types /\ Placed /\ Bounded
    BY <1>1 DEF QueueInv, Layout
  <2>3. /\ Len(taken) + 1 \in Pending /\ head # tail
        /\ \/ At(Len(taken) + 1) = head
           \/ At(Len(taken) + 1) = 0 /\ mem[head] = Marker /\ tail < head
    BY <1>1, <2>1, FirstPending
  <2>4. PICK n \in Pending : n = Len(taken) + 1
    BY <2>3
  <2>5. /\ At(n) \in Nat /\ End(n) \in Nat /\ At(n) < End(n)
        /\ head <= tail => End(n) <= tail
        /\ tail < head => head <= At(n) \/ End(n) <= tail
    BY <2>2, PendingFacts DEF Bounded
  <2>6. CASE At(n) = head
    <3>1. /\ InMemory(accepted[n]) /\ accepted[n].at = head /\ head \in Nat
          /\ accepted[n].len \in Nat /\ accepted[n].len # 0 /\ accepted[n].no # 0
      BY <2>2, <2>6, PendingFacts, ElementFacts, Facts DEF Placed
    <3>2. 1 \in 1 .. accepted[n].len
      BY <3>1
    <3>3. \A k \in 1 .. accepted[n].len : mem[head + k - 1] = <<accepted[n], k>>
      BY <3>1 DEF InMemory
    <3>4. mem[head + 1 - 1] = <<accepted[n], 1>>
      BY <3>2, <3>3
    <3>5. mem[head] = <<accepted[n], 1>>
      BY <3>1, <3>4
    <3>6. mem[head] # Marker
      BY <3>5 DEF Marker
    <3>7. QED
      BY <2>2, <2>3, <3>6, Facts DEF Pending
  <2>7. CASE At(n) = 0 /\ tail < head
    <3>1. tail # 0
      BY <2>2, <2>5, <2>7, Facts
    <3>2. QED
      BY <2>2, <2>3, <3>1, Facts DEF Pending
  <2>8. QED
    BY <2>3, <2>4, <2>6, <2>7
<1>2. QED
  BY <1>1, QueueHolds, PTL

(* A refused push met a queue with something in it, or is longer than an   *)
(* empty queue is sure to take (mxvp_queue_push).                          *)
THEOREM RefusalHasReason == QueueSpec => RefusedOnlyWhenFull
<1>1. QueueInv /\ [QueueNext]_queueVars => [Refuse => pHead # tail \/ 2 * SpaceReq >= Size]_queueVars
  <2>1. SUFFICES ASSUME QueueInv, Refuse, pHead = tail PROVE 2 * SpaceReq >= Size
    OBVIOUS
  <2>2. Types /\ RoomKnown /\ ppc = "place" /\ ~FitsAtTail /\ ~FitsAtStart
    BY <2>1 DEF QueueInv, Refuse
  <2>3. SpaceReq \in Nat
    BY <2>2, ElementFacts DEF RoomKnown, SpaceReq
  <2>4. ~(Size - tail > SpaceReq) /\ ~(tail > SpaceReq)
    BY <2>1, <2>2, Facts DEF FitsAtTail, FitsAtStart
  <2>5. QED
    BY <2>2, <2>3, <2>4, Facts
<1>2. QED
  BY <1>1, QueueHolds, PTL DEF QueueSpec, RefusedOnlyWhenFull

LEMMA StepIsFifo == QueueInv /\ [QueueNext]_queueVars => [Fifo!Next]_(Fifo!vars)
<1>1. SUFFICES ASSUME QueueInv, [QueueNext]_queueVars PROVE [Fifo!Next]_(Fifo!vars)
  OBVIOUS
<1>2. CASE PushEnd
  <2>1. accepted \in Seq(Elements) /\ item \in Elements
    BY <1>1, <1>2 DEF QueueInv, Types, ItemPlaced, PushEnd
  <2>2. accepted' = Append(accepted, item) /\ UNCHANGED taken
    BY <1>2 DEF PushEnd, pullVars
  <2>3. /\ accepted' \in Seq(Elements) /\ accepted' # accepted
        /\ Len(accepted) <= Len(accepted')
        /\ SubSeq(accepted', 1, Len(accepted)) = SubSeq(accepted, 1, Len(accepted))
    BY <2>1, <2>2
  <2>4. Fifo!Accept
    BY <2>2, <2>3 DEF Fifo!Accept, Fifo!IsStrictPrefix, Fifo!IsPrefix
  <2>5. QED
    BY <2>4 DEF Fifo!Next
<1>3. CASE PullEnd
  <2>1. /\ Len(taken) + 1 \in 1 .. Len(accepted) /\ got = accepted[Len(taken) + 1]
        /\ Len(taken) \in Nat /\ Len(accepted) \in Nat
    BY <1>1, <1>3, PullEndInv, Facts DEF QueueInv
  <2>2. taken' = Append(taken, got) /\ UNCHANGED accepted
    BY <1>3 DEF PullEnd, pushVars
  <2>3. Fifo!Deliver
    BY <2>1, <2>2 DEF Fifo!Deliver
  <2>4. QED
    BY <2>3 DEF Fifo!Next
<1>4. CASE ~PushEnd /\ ~PullEnd
  <2>1. UNCHANGED <<accepted, taken>>
    BY <1>1, <1>4 DEF QueueNext, Push, Pull, PushStart, PlaceAtTail, PlaceAtStart, Refuse, NotEmpty,
       PullWrap, PullCopy, PullNull, queueVars, pushVars, pullVars
  <2>2. QED
    BY <2>1 DEF Fifo!vars
<1>5. QED
  BY <1>2, <1>3, <1>4

(* Elements come out as they went in (mxvp_queue_push, mxvp_queue_pull).   *)
THEOREM QueueIsFifo == QueueSpec => IsFifo
<1>1. QueueInit => Fifo!Init
  BY DEF QueueInit, Fifo!Init
<1>2. QED
  BY <1>1, StepIsFifo, QueueHolds, PTL DEF QueueSpec, IsFifo, Fifo!Spec

-----------------------------------------------------------------------------
(* Memory.  The inductive invariant says what a free list is without       *)
(* following it: what nobody has is linked to what nobody has, no two      *)
(* links are the same, none leads to the first block, and there is no      *)
(* smaller set that has the first block and, with a block, the next.       *)
Unowned == Blocks \ Held

Disjoint == \A u, v \in Users : u # v => held[u] \intersect held[v] = {}

FirstIsFree == free \in Unowned \union {NULL}
LinksAreFree == \A b \in Unowned : list[b] \in Unowned \union {NULL}
FirstIsFirst == \A b \in Unowned : free # NULL => list[b] # free
LinksDiffer ==
    \A b, c \in Unowned : list[b] = list[c] /\ list[b] # NULL => b = c
ListHasAll == \A S \in SUBSET Blocks : IsClosed(S) => Unowned \subseteq S

FreeList == FirstIsFree /\ LinksAreFree /\ FirstIsFirst /\ LinksDiffer /\ ListHasAll

MemInv ==
    /\ MemTypeOK
    /\ Disjoint
    /\ up => FreeList
    /\ ~up => free = NULL

-----------------------------------------------------------------------------
(* The number of blocks is not zero, so 0 is one and NULL is none.         *)
LEMMA BlocksAre ==
    /\ NBlocks \in Nat \ {0}
    /\ Blocks \subseteq Nat
    /\ 0 \in Blocks
    /\ NULL \notin Blocks
<1>1. NBlocks \in Nat \ {0}
  BY MemAssumption DEF NBlocks
<1>2. QED
  BY <1>1 DEF Blocks, NULL

(* Numbers have a least one, in any set of them.                           *)
LEMMA HasLeast ==
    ASSUME NEW T \in SUBSET Nat, T # {}
    PROVE  \E x \in T : \A y \in T : x <= y
<1> DEFINE R == OpToRel(<, Nat)
<1>1. PICK x \in T : \A y \in T : ~ (<<y, x>> \in R)
  <2> HIDE DEF R
  <2>1. IsWellFoundedOn(R, Nat)
    BY NatLessThanWellFounded DEF R
  <2>2. QED
    BY <2>1, WFMin
<1>2. ASSUME NEW y \in T
      PROVE  x <= y
  <2>1. ~ (<<y, x>> \in R)
    BY <1>1
  <2>2. <<y, x>> \in R <=> y < x
    BY DEF R, OpToRel
  <2>3. x \in Nat /\ y \in Nat
    OBVIOUS
  <2>4. ~ (y < x)
    BY <2>1, <2>2
  <2> HIDE DEF R
  <2>5. QED
    BY <2>3, <2>4
<1>3. QED
  BY <1>2

(* A set of blocks that has the first and, with a block, the next, has     *)
(* them all.                                                               *)
LEMMA ChainOfAll ==
    ASSUME NEW S \in SUBSET Blocks, 0 \in S,
           \A b \in S : b < NBlocks - 1 => b + 1 \in S
    PROVE  S = Blocks
<1>1. SUFFICES ASSUME Blocks \ S # {} PROVE FALSE
  OBVIOUS
<1>2. PICK x \in Blocks \ S : \A y \in Blocks \ S : x <= y
  BY <1>1, BlocksAre, HasLeast
<1>3. x \in Nat /\ x # 0 /\ x <= NBlocks - 1
  BY <1>2, BlocksAre DEF Blocks
<1>4. x - 1 \in Blocks /\ x - 1 < x /\ x - 1 < NBlocks - 1 /\ (x - 1) + 1 = x
  BY <1>3, BlocksAre DEF Blocks
<1>5. x - 1 \in S
  <2>1. ASSUME x - 1 \notin S PROVE x <= x - 1
    BY <2>1, <1>2, <1>4
  <2>2. QED
    BY <2>1, <1>3
<1>6. QED
  BY <1>2, <1>4, <1>5

LEMMA InitMemInv == MemInit => MemInv
<1>1. SUFFICES ASSUME MemInit PROVE MemInv
  OBVIOUS
<1>2. Held = {} /\ Unowned = Blocks
  BY <1>1 DEF MemInit, Held, Unowned
<1>3. \A b \in Blocks : list[b] = IF b < NBlocks - 1 THEN b + 1 ELSE NULL
  BY <1>1 DEF MemInit
<1>4. free = 0 /\ up = TRUE
  BY <1>1 DEF MemInit
<1>5. \A b \in Blocks : b < NBlocks - 1 => b + 1 \in Blocks /\ b + 1 # 0
  BY BlocksAre DEF Blocks
<1>6. MemTypeOK
  BY <1>1, <1>5, BlocksAre DEF MemInit, MemTypeOK
<1>7. Disjoint
  BY <1>1 DEF MemInit, Disjoint
<1>8. FirstIsFree /\ LinksAreFree
  BY <1>2, <1>3, <1>4, <1>5, BlocksAre DEF FirstIsFree, LinksAreFree
<1>9. FirstIsFirst
  BY <1>2, <1>3, <1>4, <1>5, BlocksAre DEF FirstIsFirst, NULL
<1>10. LinksDiffer
  BY <1>2, <1>3, BlocksAre DEF LinksDiffer
<1>11. ListHasAll
  <2>1. ASSUME NEW S \in SUBSET Blocks, IsClosed(S)
        PROVE  Unowned \subseteq S
    <3>1. 0 \in S
      BY <2>1, <1>4 DEF IsClosed, NULL
    <3>2. ASSUME NEW b \in S, b < NBlocks - 1
          PROVE  b + 1 \in S
      <4>1. list[b] = b + 1 /\ list[b] \in S \union {NULL}
        BY <2>1, <3>2, <1>3 DEF IsClosed
      <4>2. b + 1 # NULL
        BY BlocksAre DEF NULL
      <4>3. QED
        BY <4>1, <4>2
    <3>3. QED
      BY <3>1, <3>2, <1>2, ChainOfAll
  <2>2. QED
    BY <2>1 DEF ListHasAll
<1>12. QED
  BY <1>4, <1>6, <1>7, <1>8, <1>9, <1>10, <1>11 DEF MemInv, FreeList

-----------------------------------------------------------------------------
(* Who has a block is its only holder; giving it back makes it nobody's.   *)
LEMMA HeldAlloc ==
    ASSUME MemTypeOK, NEW u \in Users, NEW b \in Blocks,
           held' = [held EXCEPT ![u] = @ \union {b}]
    PROVE  /\ Held' = Held \union {b}
           /\ Unowned' = Unowned \ {b}
<1>1. held \in [Users -> SUBSET Blocks]
  BY DEF MemTypeOK
<1>2. \A v \in Users : held'[v] = IF v = u THEN held[u] \union {b} ELSE held[v]
  BY <1>1
<1>3. Held' = UNION {held'[v] : v \in Users}
  BY DEF Held
<1>4. Held' = Held \union {b}
  BY <1>2, <1>3 DEF Held
<1>5. QED
  BY <1>4 DEF Unowned, Blocks, NBlocks

LEMMA HeldFree ==
    ASSUME MemTypeOK, Disjoint, NEW u \in Users, NEW b \in held[u],
           held' = [held EXCEPT ![u] = @ \ {b}]
    PROVE  /\ b \in Blocks /\ b \in Held
           /\ Held' = Held \ {b}
           /\ Unowned' = Unowned \union {b}
<1>1. held \in [Users -> SUBSET Blocks]
  BY DEF MemTypeOK
<1>2. \A v \in Users : held'[v] = IF v = u THEN held[u] \ {b} ELSE held[v]
  BY <1>1
<1>3. Held' = UNION {held'[v] : v \in Users}
  BY DEF Held
<1>4. \A v \in Users : v # u => b \notin held[v]
  BY DEF Disjoint
<1>5. b \in Blocks /\ b \in Held
  BY <1>1 DEF Held
<1>6. Held' = Held \ {b}
  BY <1>2, <1>3, <1>4 DEF Held
<1>7. QED
  BY <1>5, <1>6 DEF Unowned, Blocks, NBlocks

(* Allocation takes the first block off the chain.                         *)
LEMMA AllocMemInv ==
    ASSUME MemInv, NEW u \in Users, NEW size, MemAlloc(u, size)
    PROVE  MemInv' /\ free \in Unowned /\ Unowned' = Unowned \ {free}
<1>1. up /\ free # NULL /\ FreeList /\ MemTypeOK /\ Disjoint
  BY DEF MemInv, MemAlloc, NoBlockFor
<1>2. /\ free' = list[free] /\ list' = list /\ up' = up
      /\ held' = [held EXCEPT ![u] = @ \union {free}]
  BY DEF MemAlloc
<1>3. free \in Unowned /\ free \in Blocks
  BY <1>1 DEF FreeList, FirstIsFree, Unowned
<1>4. Unowned' = Unowned \ {free}
  BY <1>1, <1>2, <1>3, HeldAlloc
<1>5. list[free] \in Unowned \union {NULL} /\ list[free] # free
  BY <1>1, <1>3 DEF FreeList, LinksAreFree, FirstIsFirst
<1>6. MemTypeOK'
  <2>1. held' \in [Users -> SUBSET Blocks]
    BY <1>1, <1>2, <1>3 DEF MemTypeOK
  <2>2. QED
    BY <2>1, <1>1, <1>2, <1>3 DEF MemTypeOK, Blocks, NBlocks
<1>7. Disjoint'
  <2>1. \A v \in Users : free \notin held[v]
    BY <1>3 DEF Unowned, Held
  <2>2. QED
    BY <2>1, <1>1, <1>2 DEF Disjoint, MemTypeOK
<1>8. FirstIsFree'
  BY <1>2, <1>4, <1>5 DEF FirstIsFree
<1>9. LinksAreFree'
  BY <1>1, <1>2, <1>4 DEF FreeList, LinksAreFree, FirstIsFirst
<1>10. FirstIsFirst'
  BY <1>1, <1>2, <1>3, <1>4 DEF FreeList, FirstIsFirst, LinksDiffer
<1>11. LinksDiffer'
  BY <1>1, <1>2, <1>4 DEF FreeList, LinksDiffer
<1>12. ListHasAll'
  <2>1. ASSUME NEW S \in SUBSET Blocks, IsClosed(S)'
        PROVE  Unowned' \subseteq S
    <3>1. list[free] \in S \union {NULL} /\ \A b \in S : list[b] \in S \union {NULL}
      BY <2>1, <1>2 DEF IsClosed
    <3>2. IsClosed(S \union {free})
      BY <3>1 DEF IsClosed
    <3>3. Unowned \subseteq S \union {free}
      BY <3>2, <1>1, <1>3 DEF FreeList, ListHasAll
    <3>4. QED
      BY <3>3, <1>4
  <2>2. QED
    BY <2>1 DEF ListHasAll, Blocks, NBlocks
<1>13. QED
  BY <1>1, <1>2, <1>3, <1>4, <1>6, <1>7, <1>8, <1>9, <1>10, <1>11, <1>12 DEF MemInv, FreeList

(* A block that somebody gives back becomes the first of the chain.        *)
LEMMA FreeMemInv ==
    ASSUME MemInv, NEW u \in Users, NEW c \in held[u], MemFree(u, c)
    PROVE  MemInv' /\ c \in Blocks \ Unowned /\ Unowned' = Unowned \union {c}
<1>1. MemTypeOK /\ Disjoint
  BY DEF MemInv
<1>2. up' = up /\ held' = [held EXCEPT ![u] = @ \ {c}]
  BY DEF MemFree
<1>3. c \in Blocks /\ c \notin Unowned /\ Unowned' = Unowned \union {c}
  BY <1>1, <1>2, HeldFree DEF Unowned
<1>4. IF up THEN list' = [list EXCEPT ![c] = free] /\ free' = c
            ELSE list' = list /\ free' = free
  BY <1>3 DEF MemFree, IsCookie
<1>5. MemTypeOK'
  <2>1. held' \in [Users -> SUBSET Blocks]
    BY <1>1, <1>2 DEF MemTypeOK
  <2>2. QED
    BY <2>1, <1>1, <1>2, <1>3, <1>4 DEF MemTypeOK, Blocks, NBlocks
<1>6. Disjoint'
  BY <1>1, <1>2 DEF Disjoint, MemTypeOK
<1>7. ASSUME ~up
      PROVE  free' = NULL
  BY <1>4, <1>7 DEF MemInv
<1>8. ASSUME up
      PROVE  FreeList'
  <2>1. FreeList /\ free' = c /\ list' = [list EXCEPT ![c] = free] /\ list \in [Blocks -> Blocks \union {NULL}]
    BY <1>1, <1>4, <1>8 DEF MemInv, MemTypeOK
  <2>2. list'[c] = free /\ \A b \in Unowned : list'[b] = list[b]
    BY <2>1, <1>3 DEF Unowned
  <2>3. c # NULL
    BY <1>3, BlocksAre
  <2>4. FirstIsFree'
    BY <2>1, <1>3 DEF FirstIsFree
  <2>5. LinksAreFree'
    BY <2>1, <2>2, <1>3 DEF FreeList, LinksAreFree, FirstIsFree
  <2>6. FirstIsFirst'
    BY <2>1, <2>2, <2>3, <1>3 DEF FreeList, FirstIsFirst, LinksAreFree, FirstIsFree
  <2>7. LinksDiffer'
    BY <2>1, <2>2, <1>3 DEF FreeList, FirstIsFirst, LinksDiffer
  <2>8. ListHasAll'
    <3>1. ASSUME NEW S \in SUBSET Blocks, IsClosed(S)'
          PROVE  Unowned' \subseteq S
      <4> DEFINE T == S \intersect Unowned
      <4>1. c \in S /\ \A b \in S : list'[b] \in S \union {NULL}
        BY <3>1, <2>1, <2>3 DEF IsClosed
      <4>2. free \in T \union {NULL}
        BY <4>1, <2>1, <2>2 DEF FreeList, FirstIsFree
      <4>3. \A b \in T : list[b] \in T \union {NULL}
        BY <4>1, <2>1, <2>2 DEF FreeList, LinksAreFree
      <4>4. IsClosed(T)
        BY <4>2, <4>3 DEF IsClosed
      <4>5. Unowned \subseteq T
        BY <4>4, <2>1 DEF FreeList, ListHasAll
      <4>6. QED
        BY <4>1, <4>5, <1>3
    <3>2. QED
      BY <3>1 DEF ListHasAll, Blocks, NBlocks
  <2>9. QED
    BY <2>4, <2>5, <2>6, <2>7, <2>8 DEF FreeList
<1>9. QED
  BY <1>2, <1>3, <1>5, <1>6, <1>7, <1>8 DEF MemInv

(* Nobody can give back NULL: mxvp_mem_free ignores it.                    *)
LEMMA FreeNull ==
    ASSUME MemInv, NEW u \in Users, MemFree(u, NULL)
    PROVE  UNCHANGED memVars
<1>1. MemTypeOK /\ NULL \notin Blocks
  BY BlocksAre DEF MemInv
<1>2. held[u] \ {NULL} = held[u]
  BY <1>1 DEF MemTypeOK
<1>3. held' = held
  BY <1>1, <1>2 DEF MemFree, MemTypeOK
<1>4. QED
  BY <1>1, <1>3 DEF MemFree, IsCookie, memVars

LEMMA CleanupMemInv == MemInv /\ MemCleanup => MemInv'
BY DEF MemInv, MemTypeOK, MemCleanup, Disjoint, Blocks, NBlocks

LEMMA SameMemInv == MemInv /\ UNCHANGED memVars => MemInv'
<1>1. SUFFICES ASSUME MemInv, UNCHANGED memVars PROVE MemInv'
  OBVIOUS
<1>2. list' = list /\ free' = free /\ up' = up /\ held' = held
  BY <1>1 DEF memVars
<1>3. Held' = Held /\ Unowned' = Unowned /\ \A S : IsClosed(S)' <=> IsClosed(S)
  BY <1>2 DEF Held, Unowned, IsClosed, Blocks, NBlocks
<1>4. MemTypeOK' /\ Disjoint'
  BY <1>1, <1>2 DEF MemInv, MemTypeOK, Disjoint, Blocks, NBlocks
<1>5. ASSUME FreeList
      PROVE  FreeList'
  <2>1. FirstIsFree' /\ LinksAreFree' /\ FirstIsFirst' /\ LinksDiffer'
    BY <1>5, <1>2, <1>3 DEF FreeList, FirstIsFree, LinksAreFree, FirstIsFirst, LinksDiffer
  <2>2. ListHasAll'
    BY <1>5, <1>3 DEF FreeList, ListHasAll, Blocks, NBlocks
  <2>3. QED
    BY <2>1, <2>2 DEF FreeList
<1>6. QED
  BY <1>1, <1>2, <1>4, <1>5 DEF MemInv

LEMMA NextMemInv == MemInv /\ [MemNext]_memVars => MemInv'
<1>1. SUFFICES ASSUME MemInv, [MemNext]_memVars PROVE MemInv'
  OBVIOUS
<1>2. ASSUME NEW u \in Users, NEW size \in 1 .. BlockSize, MemAlloc(u, size)
      PROVE  MemInv'
  BY <1>1, <1>2, AllocMemInv
<1>3. ASSUME NEW u \in Users, NEW c \in held[u] \union {NULL}, MemFree(u, c)
      PROVE  MemInv'
  <2>1. CASE c = NULL
    BY <1>1, <1>3, <2>1, FreeNull, SameMemInv
  <2>2. CASE c \in held[u]
    BY <1>1, <1>3, <2>2, FreeMemInv
  <2>3. QED
    BY <2>1, <2>2
<1>4. CASE MemCleanup
  BY <1>1, <1>4, CleanupMemInv
<1>5. CASE UNCHANGED memVars
  BY <1>1, <1>5, SameMemInv
<1>6. QED
  BY <1>1, <1>2, <1>3, <1>4, <1>5 DEF MemNext

THEOREM MemSpecInv == MemSpec => []MemInv
BY InitMemInv, NextMemInv, PTL DEF MemSpec

-----------------------------------------------------------------------------
(* What is on the list: all that nobody has, until the cleanup.            *)
OnListRight == OnList = IF up THEN Unowned ELSE {}

LEMMA OnListIs == MemInv => OnListRight
<1>1. SUFFICES ASSUME MemInv PROVE OnListRight
  OBVIOUS
<1>2. ASSUME up
      PROVE  OnList = Unowned
  <2>1. FreeList
    BY <1>1, <1>2 DEF MemInv
  <2>2. IsClosed(Unowned) /\ Unowned \in SUBSET Blocks
    BY <2>1 DEF FreeList, FirstIsFree, LinksAreFree, IsClosed, Unowned
  <2>3. OnList \subseteq Unowned
    BY <2>2 DEF OnList
  <2>4. Unowned \subseteq OnList
    BY <2>1, <2>2 DEF OnList, FreeList, ListHasAll
  <2>5. QED
    BY <2>3, <2>4
<1>3. ASSUME ~up
      PROVE  OnList = {}
  <2>1. IsClosed({})
    BY <1>1, <1>3 DEF MemInv, IsClosed
  <2>2. QED
    BY <2>1 DEF OnList
<1>4. QED
  BY <1>2, <1>3 DEF OnListRight

LEMMA OnListNext == MemInv' => OnListRight'
BY OnListIs, PTL

LEMMA MemInvOneHolder == MemInv => OneHolder
<1>1. SUFFICES ASSUME MemInv PROVE OneHolder
  OBVIOUS
<1>2. OnList \intersect Held = {}
  BY <1>1, OnListIs DEF OnListRight, Unowned
<1>3. QED
  BY <1>1, <1>2 DEF OneHolder, MemInv, Disjoint

LEMMA MemInvNoBlockLost == MemInv => NoBlockLost
<1>1. SUFFICES ASSUME MemInv, up PROVE NoBlockLost
  BY DEF NoBlockLost
<1>2. OnList = Blocks \ Held
  BY <1>1, OnListIs DEF OnListRight, Unowned
<1>3. IsFiniteSet(Blocks) /\ Cardinality(Blocks) = NBlocks
  <2>1. NBlocks - 1 \in Int /\ 0 \in Int /\ ~(0 > NBlocks - 1) /\ NBlocks - 1 - 0 + 1 = NBlocks
    BY BlocksAre
  <2>2. QED
    BY <2>1, FS_Interval DEF Blocks
<1>4. Held \subseteq Blocks
  BY <1>1 DEF MemInv, MemTypeOK, Held
<1>5. Blocks \intersect Held = Held
  BY <1>4
<1>6. IsFiniteSet(Held) /\ Cardinality(Held) \in Nat
  BY <1>3, <1>4, FS_Subset, FS_CardinalityType
<1>7. Cardinality(Blocks \ Held) = Cardinality(Blocks) - Cardinality(Held)
  BY <1>3, <1>5, FS_Difference
<1>8. FreeBlocks = NBlocks - Cardinality(Held)
  BY <1>2, <1>3, <1>7 DEF FreeBlocks
<1>9. TotalBlocks = NBlocks
  BY DEF TotalBlocks, NBlocks
<1>10. FreeBlocks + Cardinality(Held) = TotalBlocks
  BY <1>6, <1>8, <1>9, BlocksAre
<1>11. QED
  BY <1>2, <1>10 DEF NoBlockLost

(* A block that is handed out is nobody else's and is not free.            *)
THEOREM MemOneHolder == MemSpec => []OneHolder
BY MemSpecInv, MemInvOneHolder, PTL

(* No block is lost between the list and those who have blocks.            *)
THEOREM MemNoBlockLost == MemSpec => []NoBlockLost
BY MemSpecInv, MemInvNoBlockLost, PTL

-----------------------------------------------------------------------------
(* Every step of the list is one of the pool.                              *)
LEMMA InitPool == MemInit => Pool!Init
<1>1. SUFFICES ASSUME MemInit PROVE Pool!Init
  OBVIOUS
<1>2. OnList = Unowned /\ Held = {}
  BY <1>1, InitMemInv, OnListIs DEF OnListRight, MemInit, Held
<1>3. QED
  BY <1>1, <1>2 DEF MemInit, Unowned, Pool!Init

LEMMA NextPool == MemInv /\ [MemNext]_memVars => [Pool!Next]_(Pool!vars)
<1>1. SUFFICES ASSUME MemInv, [MemNext]_memVars PROVE [Pool!Next]_(Pool!vars)
  OBVIOUS
<1>2. OnList = (IF up THEN Unowned ELSE {}) /\ OnList' = (IF up' THEN Unowned' ELSE {})
  BY <1>1, NextMemInv, OnListIs, OnListNext DEF OnListRight
<1>3. ASSUME UNCHANGED memVars
      PROVE  UNCHANGED Pool!vars
  BY <1>2, <1>3 DEF memVars, Pool!vars, Unowned, Held, Blocks, NBlocks
<1>4. ASSUME NEW u \in Users, NEW size \in 1 .. BlockSize, MemAlloc(u, size)
      PROVE  Pool!Take(u)
  <2>1. free \in Unowned /\ Unowned' = Unowned \ {free}
    BY <1>1, <1>4, AllocMemInv
  <2>2. up /\ up' = up /\ held' = [held EXCEPT ![u] = @ \union {free}]
    BY <1>4 DEF MemAlloc, NoBlockFor
  <2>3. QED
    BY <1>2, <2>1, <2>2 DEF Pool!Take
<1>5. ASSUME NEW u \in Users, NEW c \in held[u], MemFree(u, c)
      PROVE  Pool!Give(u)
  <2>1. Unowned' = Unowned \union {c}
    BY <1>1, <1>5, FreeMemInv
  <2>2. up' = up /\ held' = [held EXCEPT ![u] = @ \ {c}]
    BY <1>5 DEF MemFree
  <2>3. OnList' = IF up THEN OnList \union {c} ELSE OnList
    BY <1>2, <2>1, <2>2
  <2>4. QED
    BY <2>2, <2>3 DEF Pool!Give
<1>6. ASSUME MemCleanup
      PROVE  Pool!Close
  BY <1>2, <1>6 DEF MemCleanup, Pool!Close
<1>7. ASSUME NEW u \in Users, NEW c \in held[u] \union {NULL}, MemFree(u, c)
      PROVE  Pool!Give(u) \/ UNCHANGED Pool!vars
  <2>1. CASE c = NULL
    BY <1>1, <1>3, <1>7, <2>1, FreeNull
  <2>2. CASE c \in held[u]
    BY <1>5, <1>7, <2>2
  <2>3. QED
    BY <2>1, <2>2
<1>8. CASE MemNext
  BY <1>4, <1>6, <1>7, <1>8 DEF MemNext, Pool!Next
<1>9. QED
  BY <1>1, <1>3, <1>8

(* The free list implements the pool: a block goes to one user at a time,  *)
(* and can be handed out again when it has been given back.                *)
THEOREM MemIsPool == MemSpec => IsPool
<1>1. MemInit => Pool!Init
  BY InitPool
<1>2. MemInv /\ [MemNext]_memVars => [Pool!Next]_(Pool!vars)
  BY NextPool
<1>3. QED
  BY <1>1, <1>2, MemSpecInv, PTL DEF MemSpec, IsPool, Pool!Spec

-----------------------------------------------------------------------------
(* The tests                                                               *)

(* A test frees only cookies it has.                                       *)
BuffersAreHeld == \A t \in Users : vp[t] \subseteq held[t]

(* The command a test waits for is on its way, or its semaphore is up.     *)
WaitsForOne ==
    \A t \in Users :
        /\ t \in inflight =>
              pc[t] = "wait" /\ ~sema[t] /\ Cardinality(vp[t]) = Test(t).blocks
        /\ sema[t] => pc[t] = "wait"

MxtfInv ==
    /\ MemInv
    /\ TypeOK
    /\ BuffersAreHeld
    /\ WaitsForOne
    /\ LeakOnlyByRefusedSend

-----------------------------------------------------------------------------
LEMMA InitMxtfInv == Init => MxtfInv
<1>1. SUFFICES ASSUME Init PROVE MxtfInv
  OBVIOUS
<1>2. MemInv
  BY <1>1, InitMemInv DEF Init
<1>3. /\ queued = {} /\ stores = 0
      /\ pc = [t \in Users |-> "off"] /\ cmd = [t \in Users |-> 1]
      /\ vp = [t \in Users |-> {}] /\ sema = [t \in Users |-> FALSE]
      /\ kept = {} /\ remover = "no"
      /\ inflight = {} /\ calls = [t \in Users |-> FALSE]
      /\ held = [t \in Users |-> {}]
  BY <1>1 DEF Init, MemInit, Channel!Init
<1>4. TypeOK
  BY <1>2, <1>3, MxtfAssumption DEF TypeOK, MemInv
<1>5. BuffersAreHeld /\ WaitsForOne /\ LeakOnlyByRefusedSend
  BY <1>3 DEF BuffersAreHeld, WaitsForOne, LeakOnlyByRefusedSend
<1>6. QED
  BY <1>2, <1>4, <1>5 DEF MxtfInv

(* What a step does to memory is one of the functions of the manager.      *)
LEMMA NextIsMemNext == MxtfInv /\ [Next]_vars => [MemNext]_memVars
<1>1. SUFFICES ASSUME MxtfInv, [Next]_vars PROVE [MemNext]_memVars
  OBVIOUS
<1>2. ASSUME NEW t \in Users, AllocBlock(t)
      PROVE  MemNext
  <2>1. MemAlloc(t, BlockSize) /\ BlockSize \in 1 .. BlockSize
    BY <1>2, MemAssumption DEF AllocBlock
  <2>2. QED
    BY <2>1 DEF MemNext
<1>3. ASSUME NEW t \in Users, FreeBlock(t)
      PROVE  MemNext
  <2>1. PICK c \in vp[t] : MemFree(t, c)
    BY <1>3 DEF FreeBlock
  <2>2. c \in held[t]
    BY <1>1, <2>1 DEF MxtfInv, BuffersAreHeld
  <2>3. QED
    BY <2>1, <2>2 DEF MemNext
<1>4. ASSUME NEW t \in Users, Run(t)
      PROVE  MemNext \/ UNCHANGED memVars
  BY <1>2, <1>3, <1>4 DEF Run, Store, Start, BuildFails, Send, SendFails, Callback, Wake, Finish
<1>5. ASSUME RemoveMem
      PROVE  MemNext
  BY <1>5 DEF RemoveMem, MemNext
<1>6. ASSUME RemoveEnd
      PROVE  UNCHANGED memVars
  BY <1>6 DEF RemoveEnd
<1>7. CASE Next
  BY <1>4, <1>5, <1>6, <1>7 DEF Next
<1>8. CASE UNCHANGED vars
  BY <1>8 DEF vars
<1>9. QED
  BY <1>1, <1>7, <1>8

LEMMA NextIsMemInv == MxtfInv /\ [Next]_vars => MemInv' /\ MemTypeOK'
BY NextIsMemNext, NextMemInv DEF MxtfInv, MemInv

(* No test waits for more than two commands.                               *)
LEMMA TwoCommands ==
    ASSUME NEW t \in Users
    PROVE  Len(Test(t).queues) \in 1 .. 2
<1>1. t \in {"dma_loopback", "multi_dma", "mem_fill", "fence", "exebuf"}
  BY MxtfAssumption DEF test_list
<1>2. Test(t) \in {DmaLoopback, MultiDma, MemFill, Fence, ExeBuf}
  BY <1>1 DEF Test, test_list
<1>3. QED
  BY <1>2 DEF DmaLoopback, MultiDma, MemFill, Fence, ExeBuf

(* The steps of a test that change no block.                               *)
LEMMA QuietStep ==
    ASSUME MxtfInv, MemTypeOK', NEW t \in Users, UNCHANGED memVars,
           \/ Store(t) \/ Start(t) \/ BuildFails(t) \/ Send(t) \/ SendFails(t)
           \/ Callback(t) \/ Wake(t) \/ Finish(t)
    PROVE  TypeOK' /\ BuffersAreHeld' /\ WaitsForOne' /\ LeakOnlyByRefusedSend'
<1> USE DEF Goto
<1>0. /\ TypeOK /\ BuffersAreHeld /\ WaitsForOne /\ LeakOnlyByRefusedSend
      /\ held' = held
  BY DEF MxtfInv, memVars
<1>1. CASE Store(t)
  BY <1>0, <1>1, MxtfAssumption DEF Store, TypeOK, BuffersAreHeld, WaitsForOne, LeakOnlyByRefusedSend
<1>2. CASE Start(t)
  <2>1. TypeOK'
    BY <1>0, <1>2 DEF Start, TypeOK
  <2>2. BuffersAreHeld' /\ WaitsForOne'
    BY <1>0, <1>2 DEF Start, TypeOK, BuffersAreHeld, WaitsForOne
  <2>3. LeakOnlyByRefusedSend'
    BY <1>0, <1>2 DEF Start, TypeOK, LeakOnlyByRefusedSend
  <2>4. QED
    BY <2>1, <2>2, <2>3
<1>3. CASE BuildFails(t)
  BY <1>0, <1>3 DEF BuildFails, TypeOK, BuffersAreHeld, WaitsForOne, LeakOnlyByRefusedSend
<1>4. CASE Send(t)
  <2>1. TypeOK'
    BY <1>0, <1>4 DEF Send, Built, Channel!Submit, TypeOK
  <2>2. BuffersAreHeld' /\ WaitsForOne'
    BY <1>0, <1>4 DEF Send, Built, Channel!Submit, TypeOK, BuffersAreHeld, WaitsForOne
  <2>3. LeakOnlyByRefusedSend'
    BY <1>0, <1>4 DEF Send, Built, TypeOK, LeakOnlyByRefusedSend
  <2>4. QED
    BY <2>1, <2>2, <2>3
<1>5. CASE SendFails(t)
  <2>1. /\ pc[t] = "build"
        /\ \/ pc' = [pc EXCEPT ![t] = "off"] /\ kept' = kept \union {t}
           \/ pc' = [pc EXCEPT ![t] = "free"] /\ kept' = kept
        /\ UNCHANGED <<queued, stores, cmd, vp, sema, inflight, calls, remover>>
    BY <1>5 DEF SendFails, Built
  <2>2. QED
    BY <1>0, <2>1 DEF TypeOK, BuffersAreHeld, WaitsForOne, LeakOnlyByRefusedSend
<1>6. CASE Callback(t)
  <2>1. TypeOK'
    BY <1>0, <1>6 DEF Callback, Channel!Complete, TypeOK
  <2>2. BuffersAreHeld' /\ WaitsForOne' /\ LeakOnlyByRefusedSend'
    BY <1>0, <1>6 DEF Callback, Channel!Complete, TypeOK, BuffersAreHeld, WaitsForOne, LeakOnlyByRefusedSend
  <2>3. QED
    BY <2>1, <2>2
<1>7. CASE Wake(t)
  <2>1. /\ pc[t] = "wait" /\ sema[t]
        /\ sema' = [sema EXCEPT ![t] = FALSE]
        /\ \/ /\ cmd[t] < Len(Test(t).queues)
              /\ pc' = [pc EXCEPT ![t] = "build"] /\ cmd' = [cmd EXCEPT ![t] = @ + 1]
           \/ pc' = [pc EXCEPT ![t] = "free"] /\ cmd' = cmd
        /\ UNCHANGED <<queued, stores, vp, inflight, calls, kept, remover>>
    BY <1>7 DEF Wake
  <2>2. cmd' \in [Users -> 1 .. 2]
    <3>1. cmd \in [Users -> 1 .. 2]
      BY <1>0 DEF TypeOK
    <3>2. cmd[t] < Len(Test(t).queues) => cmd[t] + 1 \in 1 .. 2
      <4> DEFINE n == Len(Test(t).queues)
      <4>1. n \in 1 .. 2 /\ cmd[t] \in 1 .. 2
        BY <3>1, TwoCommands
      <4> HIDE DEF n
      <4>2. cmd[t] < n => cmd[t] + 1 \in 1 .. 2
        BY <4>1
      <4>3. QED
        BY <4>2 DEF n
    <3>3. QED
      BY <2>1, <3>1, <3>2
  <2>3. TypeOK'
    BY <1>0, <2>1, <2>2 DEF TypeOK
  <2>4. BuffersAreHeld' /\ WaitsForOne' /\ LeakOnlyByRefusedSend'
    BY <1>0, <2>1 DEF TypeOK, BuffersAreHeld, WaitsForOne, LeakOnlyByRefusedSend
  <2>5. QED
    BY <2>3, <2>4
<1>8. CASE Finish(t)
  BY <1>0, <1>8 DEF Finish, TypeOK, BuffersAreHeld, WaitsForOne, LeakOnlyByRefusedSend
<1>9. QED
  BY <1>1, <1>2, <1>3, <1>4, <1>5, <1>6, <1>7, <1>8

(* The steps that change blocks: the test has no command on its way.       *)
LEMMA AllocStep ==
    ASSUME MxtfInv, MemTypeOK', NEW t \in Users, AllocBlock(t)
    PROVE  TypeOK' /\ BuffersAreHeld' /\ WaitsForOne' /\ LeakOnlyByRefusedSend'
<1>1. /\ TypeOK /\ BuffersAreHeld /\ WaitsForOne /\ LeakOnlyByRefusedSend
      /\ held \in [Users -> SUBSET Blocks]
  BY DEF MxtfInv, TypeOK, MemTypeOK
<1>2. /\ free \in Blocks /\ held' = [held EXCEPT ![t] = @ \union {free}]
  <2>1. MemAlloc(t, BlockSize)
    BY DEF AllocBlock
  <2>2. free \in Unowned
    BY <2>1, AllocMemInv DEF MxtfInv
  <2>3. QED
    BY <2>1, <2>2 DEF MemAlloc, Unowned
<1>3. /\ pc[t] = "build" /\ vp' = [vp EXCEPT ![t] = @ \union {free}]
      /\ UNCHANGED <<queued, stores, pc, cmd, sema, inflight, calls, kept, remover>>
  BY DEF AllocBlock
<1>4. TypeOK'
  BY <1>1, <1>2, <1>3 DEF TypeOK, Blocks, NBlocks
<1>5. BuffersAreHeld'
  BY <1>1, <1>2, <1>3 DEF TypeOK, BuffersAreHeld
<1>6. WaitsForOne'
  BY <1>1, <1>3 DEF TypeOK, WaitsForOne, Test
<1>7. LeakOnlyByRefusedSend'
  BY <1>1, <1>2, <1>3 DEF TypeOK, LeakOnlyByRefusedSend
<1>8. QED
  BY <1>4, <1>5, <1>6, <1>7

LEMMA FreeStep ==
    ASSUME MxtfInv, MemTypeOK', NEW t \in Users, FreeBlock(t)
    PROVE  TypeOK' /\ BuffersAreHeld' /\ WaitsForOne' /\ LeakOnlyByRefusedSend'
<1>1. /\ TypeOK /\ BuffersAreHeld /\ WaitsForOne /\ LeakOnlyByRefusedSend
      /\ held \in [Users -> SUBSET Blocks]
  BY DEF MxtfInv, TypeOK, MemTypeOK
<1>2. PICK c \in vp[t] : /\ held' = [held EXCEPT ![t] = @ \ {c}]
                         /\ vp' = [vp EXCEPT ![t] = @ \ {c}]
  BY DEF FreeBlock, MemFree
<1>3. /\ pc[t] = "free"
      /\ UNCHANGED <<queued, stores, pc, cmd, sema, inflight, calls, kept, remover>>
  BY DEF FreeBlock
<1>4. TypeOK'
  BY <1>1, <1>2, <1>3 DEF TypeOK, Blocks, NBlocks
<1>5. BuffersAreHeld'
  BY <1>1, <1>2, <1>3 DEF TypeOK, BuffersAreHeld
<1>6. WaitsForOne'
  BY <1>1, <1>2, <1>3 DEF TypeOK, WaitsForOne, Test
<1>7. LeakOnlyByRefusedSend'
  BY <1>1, <1>2, <1>3 DEF TypeOK, LeakOnlyByRefusedSend
<1>8. QED
  BY <1>4, <1>5, <1>6, <1>7

LEMMA NextMxtfInv == MxtfInv /\ [Next]_vars => MxtfInv'
<1>1. SUFFICES ASSUME MxtfInv, [Next]_vars PROVE MxtfInv'
  OBVIOUS
<1>2. MemInv' /\ MemTypeOK'
  BY <1>1, NextIsMemInv
<1>3. ASSUME NEW t \in Users, Run(t)
      PROVE  TypeOK' /\ BuffersAreHeld' /\ WaitsForOne' /\ LeakOnlyByRefusedSend'
  <2>1. CASE AllocBlock(t)
    BY <1>1, <1>2, <2>1, AllocStep
  <2>2. CASE FreeBlock(t)
    BY <1>1, <1>2, <2>2, FreeStep
  <2>3. CASE ~AllocBlock(t) /\ ~FreeBlock(t)
    <3>1. UNCHANGED memVars
      BY <1>3, <2>3 DEF Run, Store, Start, BuildFails, Send, SendFails, Callback, Wake, Finish
    <3>2. \/ Store(t) \/ Start(t) \/ BuildFails(t) \/ Send(t) \/ SendFails(t)
          \/ Callback(t) \/ Wake(t) \/ Finish(t)
      BY <1>3, <2>3 DEF Run
    <3>3. QED
      BY <1>1, <1>2, <3>1, <3>2, QuietStep
  <2>4. QED
    BY <2>1, <2>2, <2>3
<1>4. ASSUME RemoveMem \/ RemoveEnd \/ UNCHANGED vars
      PROVE  TypeOK' /\ BuffersAreHeld' /\ WaitsForOne' /\ LeakOnlyByRefusedSend'
  <2>1. /\ UNCHANGED <<queued, stores, pc, cmd, vp, sema, inflight, calls, kept, held>>
        /\ remover' \in {"flush", "gone", remover}
    BY <1>4 DEF RemoveMem, RemoveEnd, MemCleanup, vars, memVars, testVars
  <2>2. QED
    BY <1>1, <1>2, <2>1 DEF MxtfInv, TypeOK, BuffersAreHeld, WaitsForOne, Test, LeakOnlyByRefusedSend, Blocks, NBlocks
<1>5. TypeOK' /\ BuffersAreHeld' /\ WaitsForOne' /\ LeakOnlyByRefusedSend'
  BY <1>1, <1>3, <1>4 DEF Next
<1>6. QED
  BY <1>2, <1>5 DEF MxtfInv

THEOREM MxtfHolds == Spec => []MxtfInv
BY InitMxtfInv, NextMxtfInv, PTL DEF Spec

-----------------------------------------------------------------------------
(* Every variable of the tests has its type.                               *)
THEOREM MxtfTypeCorrect == Spec => []TypeOK
<1>1. MxtfInv => TypeOK
  BY DEF MxtfInv
<1>2. QED
  BY <1>1, MxtfHolds, PTL

(* The tests lose no block between them and the list: what is not free is  *)
(* somebody's, whatever goes wrong in a test.                              *)
THEOREM MxtfNoBlockLost == Spec => []NoBlockLost
<1>1. MxtfInv => NoBlockLost
  BY MemInvNoBlockLost DEF MxtfInv
<1>2. QED
  BY <1>1, MxtfHolds, PTL

(* The blocks a command names stay with its test until the callback.       *)
THEOREM MxtfBlocksInUse == Spec => []BlocksInUseAreHeld
<1>1. MxtfInv => BlocksInUseAreHeld
  <2>1. SUFFICES ASSUME MxtfInv, NEW t \in inflight PROVE
          /\ pc[t] = "wait" /\ ~sema[t]
          /\ Cardinality(vp[t]) = Test(t).blocks
          /\ vp[t] \subseteq held[t] \ OnList
          /\ \A u \in Users \ {t} : vp[t] \intersect (vp[u] \union held[u]) = {}
    BY DEF BlocksInUseAreHeld
  <2>2. t \in Users /\ BuffersAreHeld /\ OneHolder
    BY <2>1, MemInvOneHolder DEF MxtfInv, TypeOK
  <2>3. pc[t] = "wait" /\ ~sema[t] /\ Cardinality(vp[t]) = Test(t).blocks
    BY <2>1, <2>2 DEF MxtfInv, WaitsForOne
  <2>4. vp[t] \subseteq held[t] \ OnList
    BY <2>2 DEF BuffersAreHeld, OneHolder, Held
  <2>5. \A u \in Users \ {t} : vp[t] \intersect (vp[u] \union held[u]) = {}
    BY <2>2 DEF BuffersAreHeld, OneHolder
  <2>6. QED
    BY <2>3, <2>4, <2>5
<1>2. QED
  BY <1>1, MxtfHolds, PTL

(* Only a test whose command was refused keeps blocks when it is over.     *)
THEOREM MxtfLeak == Spec => []LeakOnlyByRefusedSend
<1>1. MxtfInv => LeakOnlyByRefusedSend
  BY DEF MxtfInv
<1>2. QED
  BY <1>1, MxtfHolds, PTL

(* The memory of a system of tests is the pool of the header.              *)
THEOREM MxtfIsPool == Spec => IsPool
<1>1. Init => Pool!Init
  BY InitPool DEF Init
<1>2. MxtfInv /\ [Next]_vars => [Pool!Next]_(Pool!vars)
  BY NextIsMemNext, NextPool DEF MxtfInv
<1>3. QED
  BY <1>1, <1>2, MxtfHolds, PTL DEF Spec, IsPool, Pool!Spec
=============================================================================
