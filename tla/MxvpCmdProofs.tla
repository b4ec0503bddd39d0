---------------------------- MODULE MxvpCmdProofs ----------------------------
(***************************************************************************)
(* Sends, replies and flushes of the command driver (MxvpCmd): proofs, for *)
(* any commands, any number of entries and any interleaving.               *)
(*                                                                         *)
(* The free entries are a chain through `next`; Chain says which entries   *)
(* are on it without following it.  Until a list is flushed every step is, *)
(* for that list, one of four (Moves): it leaves the entries alone, takes  *)
(* the first free one, fills one in, or gives one back, and each preserves *)
(* EntriesInv.  That a reply gives back the entry of the command that was  *)
(* answered is what MessagesInv is for.  Once a list has been flushed its  *)
(* chain may be broken; of a command that was in flight as the first flush *)
(* began its entry is still its own (OwnsEntry), which is why that flush   *)
(* reaches it (DueInv).                                                    *)
(***************************************************************************)
EXTENDS MxvpCmd, WellFoundedInduction, SequenceTheorems, TLAPS

(* Positions fit the 16 bits an id has for them.                           *)
LEMMA PositionsAre ==
    /\ Positions \subseteq Nat /\ 0 \in Positions /\ NULL \notin Positions
    /\ \A p \in Positions : GenerateId(p) = p /\ IdToPosition(p) = p
<1>1. IdBound \in Nat \ {0} /\ N \in Nat \ {0} /\ N <= IdBound
  BY CmdAssumption DEF IdBound
<1>2. ASSUME NEW p \in Positions
      PROVE  p \in Nat /\ p # NULL /\ p < IdBound /\ p % IdBound = p
  BY <1>1 DEF Positions, NULL, IdBound
<1>3. QED
  BY <1>1, <1>2 DEF Positions, GenerateId, IdToPosition

(* An entry list.                                                         *)
ListTypes == [command : [Positions -> Cmds \union {None}],
              next : [Positions -> Positions \union {NULL}],
              free : Positions \union {NULL}]

(* What mxvp_cmd_list_remove leaves: entry p without a command, first on   *)
(* the chain.                                                              *)
LEMMA RemoveIs ==
    ASSUME lists \in [Lists -> ListTypes], NEW l \in Lists, NEW p \in Positions, ListRemove(l, p)
    PROVE  /\ lists' \in [Lists -> ListTypes]
           /\ \A m \in Lists \ {l} : lists'[m] = lists[m]
           /\ lists'[l].command = [lists[l].command EXCEPT ![p] = None]
           /\ lists'[l].next = [lists[l].next EXCEPT ![p] = lists[l].free]
           /\ lists'[l].free = p
<1>1. lists[l] \in ListTypes
  OBVIOUS
<1> DEFINE list == [command |-> [lists[l].command EXCEPT ![p] = None],
                    next |-> [lists[l].next EXCEPT ![p] = lists[l].free],
                    free |-> p]
<1>2. lists' = [lists EXCEPT ![l] = list]
  BY DEF ListRemove
<1>3. list \in ListTypes
  BY <1>1 DEF ListTypes
<1>4. /\ list.command = [lists[l].command EXCEPT ![p] = None]
      /\ list.next = [lists[l].next EXCEPT ![p] = lists[l].free]
      /\ list.free = p
  OBVIOUS
<1> HIDE DEF list
<1>5. QED
  BY <1>2, <1>3, <1>4

(* What mxvp_cmd_list_add leaves under its lock: the entry that was first  *)
(* is the command's.                                                       *)
LEMMA TakeIs ==
    ASSUME lists \in [Lists -> ListTypes], pos \in [Cmds -> Positions], NEW c \in Cmds, TakeEntry(c)
    PROVE  /\ lists' \in [Lists -> ListTypes]
           /\ \A m \in Lists \ {ListOf[c]} : lists'[m] = lists[m]
           /\ lists'[ListOf[c]].command = lists[ListOf[c]].command
           /\ lists'[ListOf[c]].next = lists[ListOf[c]].next
           /\ lists[ListOf[c]].free \in Positions
           /\ lists'[ListOf[c]].free = lists[ListOf[c]].next[lists[ListOf[c]].free]
           /\ pos' = [pos EXCEPT ![c] = lists[ListOf[c]].free]
           /\ pos' \in [Cmds -> Positions]
<1> DEFINE l == ListOf[c]
<1>1. l \in Lists /\ lists[l] \in ListTypes
  BY CmdAssumption
<1>2. /\ lists' = [lists EXCEPT ![l].free = lists[l].next[lists[l].free]]
      /\ pos' = [pos EXCEPT ![c] = lists[l].free]
      /\ lists[l].free # NULL
  BY DEF TakeEntry
<1>3. lists[l].free \in Positions /\ lists[l].next[lists[l].free] \in Positions \union {NULL}
  BY <1>1, <1>2 DEF ListTypes
<1>4. lists' \in [Lists -> ListTypes]
  BY <1>1, <1>2, <1>3 DEF ListTypes
<1>5. QED
  BY <1>1, <1>2, <1>3, <1>4 DEF ListTypes

(* What filling in the entry leaves: the chain as it was.                  *)
LEMMA FillIs ==
    ASSUME lists \in [Lists -> ListTypes], pos \in [Cmds -> Positions], NEW c \in Cmds, Fill(c)
    PROVE  /\ lists' \in [Lists -> ListTypes]
           /\ \A m \in Lists \ {ListOf[c]} : lists'[m] = lists[m]
           /\ lists'[ListOf[c]].command = [lists[ListOf[c]].command EXCEPT ![pos[c]] = c]
           /\ lists'[ListOf[c]].next = lists[ListOf[c]].next
           /\ lists'[ListOf[c]].free = lists[ListOf[c]].free
<1> DEFINE l == ListOf[c]
<1>1. l \in Lists /\ lists[l] \in ListTypes /\ pos[c] \in Positions
  BY CmdAssumption
<1>2. lists' = [lists EXCEPT ![l].command[pos[c]] = c]
  BY DEF Fill
<1>3. [lists[l].command EXCEPT ![pos[c]] = c] \in [Positions -> Cmds \union {None}]
  BY <1>1 DEF ListTypes
<1>4. lists' = [lists EXCEPT ![l] = [@ EXCEPT !.command = [lists[l].command EXCEPT ![pos[c]] = c]]]
  BY <1>2
<1>5. QED
  BY <1>1, <1>3, <1>4 DEF ListTypes

-----------------------------------------------------------------------------
(* A chain of free entries, without following it: what is free is linked   *)
(* to what is free, no two links are the same, none leads to the first     *)
(* entry, and no smaller set has the first entry and, with an entry, the   *)
(* next.                                                                   *)
Closed(next, first, S) == first \in S \union {NULL} /\ \A q \in S : next[q] \in S \union {NULL}

Chain(next, first, F) ==
    /\ Closed(next, first, F)
    /\ \A q \in F : first # NULL => next[q] # first
    /\ \A q, r \in F : next[q] = next[r] /\ next[q] # NULL => q = r
    /\ \A S \in SUBSET Positions : Closed(next, first, S) => F \subseteq S

(* The first entry is taken off the chain.                                 *)
LEMMA ChainPop ==
    ASSUME NEW next, NEW F \in SUBSET Positions, NEW first \in F, Chain(next, first, F)
    PROVE  Chain(next, next[first], F \ {first})
<1>1. first # NULL
  BY PositionsAre
<1>2. /\ \A q \in F : next[q] \in F \union {NULL} /\ next[q] # first
      /\ \A q, r \in F : next[q] = next[r] /\ next[q] # NULL => q = r
  BY <1>1 DEF Chain, Closed
<1>3. ASSUME NEW S \in SUBSET Positions, Closed(next, next[first], S)
      PROVE  F \ {first} \subseteq S
  <2>1. Closed(next, first, S \union {first})
    BY <1>3 DEF Closed
  <2>2. F \subseteq S \union {first}
    BY <2>1 DEF Chain
  <2>3. QED
    BY <2>2
<1>4. QED
  BY <1>2, <1>3 DEF Chain, Closed

(* An entry that is not on the chain is put in front of it.                *)
LEMMA ChainPush ==
    ASSUME NEW F \in SUBSET Positions, NEW first, NEW p \in Positions \ F,
           NEW next \in [Positions -> Positions \union {NULL}], Chain(next, first, F),
           NEW new, new = [next EXCEPT ![p] = first]
    PROVE  Chain(new, p, F \union {p})
<1>1. /\ first \in F \union {NULL} /\ p # NULL /\ p # first
      /\ new[p] = first /\ \A q \in F : new[q] = next[q]
  BY PositionsAre DEF Chain, Closed
<1>2. /\ \A q \in F : next[q] \in F \union {NULL} /\ (first # NULL => next[q] # first)
      /\ \A q, r \in F : next[q] = next[r] /\ next[q] # NULL => q = r
  BY DEF Chain, Closed
<1>3. Closed(new, p, F \union {p})
  BY <1>1, <1>2 DEF Closed
<1>4. \A q \in F \union {p} : new[q] # p
  BY <1>1, <1>2
<1>5. ASSUME NEW q \in F \union {p}, NEW r \in F \union {p}, new[q] = new[r], new[q] # NULL
      PROVE  q = r
  BY <1>1, <1>2, <1>5
<1>6. ASSUME NEW S \in SUBSET Positions, Closed(new, p, S)
      PROVE  F \union {p} \subseteq S
  <2>1. Closed(next, first, S \intersect F)
    BY <1>1, <1>2, <1>6 DEF Closed
  <2>2. F \subseteq S \intersect F
    BY <2>1 DEF Chain
  <2>3. QED
    BY <1>1, <1>6, <2>2 DEF Closed
<1>7. QED
  BY <1>3, <1>4, <1>5, <1>6 DEF Chain

(* A set of natural numbers has a least element.                           *)
LEMMA HasLeast ==
    ASSUME NEW T \in SUBSET Nat, T # {}
    PROVE  \E x \in T : \A y \in T : x <= y
<1> DEFINE R == OpToRel(<, Nat)
<1>1. PICK x \in T : \A y \in T : ~ (<<y, x>> \in R)
  <2> HIDE DEF R
  <2>1. IsWellFoundedOn(R, Nat)
    BY NatLessThanWellFounded DEF R
  <2>2. QED
    BY <2>1, WFMin
<1>2. ASSUME NEW y \in T
      PROVE  x <= y
  <2>1. ~ (<<y, x>> \in R)
    BY <1>1
  <2>2. <<y, x>> \in R <=> y < x
    BY DEF R, OpToRel
  <2>3. x \in Nat /\ y \in Nat
    OBVIOUS
  <2>4. ~ (y < x)
    BY <2>1, <2>2
  <2> HIDE DEF R
  <2>5. QED
    BY <2>3, <2>4
<1>3. QED
  BY <1>2

(* The chain mxvp_cmd_list_init makes has every entry.                     *)
LEMMA ChainInit == Chain(CmdListInit.next, CmdListInit.free, Positions)
<1> DEFINE next == CmdListInit.next
<1>1. N \in Nat \ {0}
  BY CmdAssumption DEF IdBound
<1>2. \A p \in Positions : next[p] = IF p = N - 1 THEN NULL ELSE p + 1
  BY DEF CmdListInit
<1>3. CmdListInit.free = 0
  BY DEF CmdListInit
<1> HIDE DEF next
<1>4. Closed(next, 0, Positions) /\ \A q \in Positions : next[q] # 0
  BY <1>1, <1>2 DEF Closed, Positions, NULL
<1>5. \A q, r \in Positions : next[q] = next[r] /\ next[q] # NULL => q = r
  BY <1>1, <1>2 DEF Positions, NULL
<1>6. ASSUME NEW S \in SUBSET Positions, Closed(next, 0, S)
      PROVE  Positions \subseteq S
  <2>1. SUFFICES ASSUME Positions \ S # {} PROVE FALSE
    OBVIOUS
  <2>2. PICK x \in Positions \ S : \A y \in Positions \ S : x <= y
    BY <2>1, HasLeast, PositionsAre
  <2>3. 0 \in S
    BY <1>6 DEF Closed, NULL
  <2>4. x \in Nat /\ x # 0 /\ x <= N - 1
    BY <1>1, <2>2, <2>3 DEF Positions
  <2>5. x - 1 \in Positions /\ ~(x <= x - 1) /\ next[x - 1] = x /\ x # NULL
    BY <1>1, <1>2, <2>4 DEF Positions, NULL
  <2>6. x - 1 \in S
    BY <2>2, <2>5
  <2>7. QED
    BY <1>6, <2>2, <2>5, <2>6 DEF Closed
<1>7. QED
  BY <1>3, <1>4, <1>5, <1>6 DEF Chain, next

(* What the specification calls free is what the chain has.                *)
LEMMA FreeOf ==
    ASSUME NEW l \in Lists, NEW F \in SUBSET Positions, Chain(lists[l].next, lists[l].free, F)
    PROVE  FreeEntries(l) = F
BY DEF Chain, Closed, FreeEntries

(* The first entry of a chain is free, in any list...                      *)
LEMMA FirstIsFree ==
    ASSUME NEW l \in Lists, lists[l].free \in Positions
    PROVE  lists[l].free \in FreeEntries(l)
BY PositionsAre DEF FreeEntries

(* ...taking it frees nothing...                                           *)
LEMMA FreePop ==
    ASSUME NEW l \in Lists, lists[l].free \in Positions, lists'[l].next = lists[l].next,
           lists'[l].free = lists[l].next[lists[l].free]
    PROVE  FreeEntries(l)' \subseteq FreeEntries(l)
<1> SUFFICES ASSUME NEW x \in FreeEntries(l)', NEW S \in SUBSET Positions,
                    Closed(lists[l].next, lists[l].free, S)
             PROVE  x \in S
  BY DEF FreeEntries, Closed
<1>1. lists[l].free \in S
  BY PositionsAre DEF Closed
<1>2. Closed(lists'[l].next, lists'[l].free, S)
  BY <1>1 DEF Closed
<1>3. QED
  BY <1>2 DEF FreeEntries, Closed

(* ...and a removal frees the entry removed and no other, even from a list *)
(* whose chain a flush has broken.                                         *)
LEMMA FreePush ==
    ASSUME NEW l \in Lists, NEW p \in Positions,
           lists[l].next \in [Positions -> Positions \union {NULL}],
           lists'[l].next = [lists[l].next EXCEPT ![p] = lists[l].free], lists'[l].free = p
    PROVE  FreeEntries(l)' \subseteq FreeEntries(l) \union {p}
<1> SUFFICES ASSUME NEW x \in FreeEntries(l)', x # p, NEW S \in SUBSET Positions,
                    Closed(lists[l].next, lists[l].free, S)
             PROVE  x \in S
  BY DEF FreeEntries, Closed
<1>1. Closed(lists'[l].next, lists'[l].free, S \union {p})
  BY DEF Closed
<1>2. \A T \in SUBSET Positions : Closed(lists'[l].next, lists'[l].free, T) => x \in T
  BY DEF FreeEntries, Closed
<1>3. S \union {p} \in SUBSET Positions
  OBVIOUS
<1>4. x \in S \union {p}
  BY <1>1, <1>2, <1>3
<1>5. QED
  BY <1>4

-----------------------------------------------------------------------------
(* Those who flush, and what is in the queues.                             *)
Flushers == Kinds \union {"cleanup"}
Messages == [cmd : Cmds, id : Positions]

(* Every variable has its type.                                            *)
ListType == lists \in [Lists -> ListTypes] /\ pos \in [Cmds -> Positions]
UserType ==
    /\ pc \in [Cmds -> {"idle", "fill", "push", "ring", "again"}]
    /\ inflight \subseteq Cmds /\ due \in [Flushers -> SUBSET Cmds] /\ nth \in Nat
QueueType ==
    /\ subq \in [Lists -> Seq(Messages)] /\ repq \in [Lists -> Seq(Messages)]
    /\ wpc \in [Lists -> {"idle", "run", "reply"}]
    /\ reply \in [Lists -> Messages \union {None}]
    /\ \A l \in Lists : wpc[l] = "reply" => reply[l] \in Messages
FlushType ==
    /\ apc \in [Kinds -> {"off", "accept", "wait", "flush"}]
    /\ todo \in [Flushers -> Seq(Lists \X Positions)] /\ flushed \subseteq Lists
TypeInv == ListType /\ UserType /\ QueueType /\ FlushType

(* A flush goes through every entry of the lists it is for, and no other.  *)
LEMMA FlushOrderIs ==
    ASSUME NEW flush \in SUBSET Lists
    PROVE  /\ FlushOrder(flush) \in Seq(Lists \X Positions)
           /\ \A i \in DOMAIN FlushOrder(flush) : FlushOrder(flush)[i][1] \in flush
           /\ \A l \in flush, p \in Positions :
                  \E i \in DOMAIN FlushOrder(flush) : FlushOrder(flush)[i] = <<l, p>>
<1> DEFINE Of(l) == IF l \in flush THEN [i \in 1 .. N |-> <<l, i - 1>>] ELSE <<>>
<1>1. N \in Nat \ {0}
  BY CmdAssumption DEF IdBound
<1>2. ASSUME NEW l \in Lists
      PROVE  /\ Of(l) \in Seq(Lists \X Positions)
             /\ \A i \in 1 .. Len(Of(l)) : Of(l)[i][1] \in flush
             /\ l \in flush =>
                    \A p \in Positions : p + 1 \in 1 .. Len(Of(l)) /\ Of(l)[p + 1] = <<l, p>>
  <2>1. CASE l \in flush
    <3>1. \A i \in 1 .. N : i - 1 \in Positions
      BY <1>1 DEF Positions
    <3>2. [i \in 1 .. N |-> <<l, i - 1>>] \in [1 .. N -> Lists \X Positions]
      BY <3>1
    <3>3. Of(l) \in Seq(Lists \X Positions) /\ Len(Of(l)) = N
      BY <1>1, <2>1, <3>2
    <3>4. \A p \in Positions : p + 1 \in 1 .. N /\ (p + 1) - 1 = p
      BY <1>1 DEF Positions
    <3>5. \A i \in 1 .. N : Of(l)[i] = <<l, i - 1>>
      BY <2>1
    <3>6. QED
      BY <2>1, <3>3, <3>4, <3>5
  <2>2. CASE l \notin flush
    BY <2>2
  <2>3. QED
    BY <2>1, <2>2
<1>3. FlushOrder(flush) = Of("cmd") \o Of("dma")
  BY DEF FlushOrder
<1> DEFINE s == Of("cmd")
           t == Of("dma")
<1>4. "cmd" \in Lists /\ "dma" \in Lists
  BY DEF Lists
<1>5. s \in Seq(Lists \X Positions) /\ t \in Seq(Lists \X Positions)
  BY <1>2, <1>4
<1>6. /\ \A i \in 1 .. Len(s) : s[i][1] \in flush
      /\ \A i \in 1 .. Len(t) : t[i][1] \in flush
  BY <1>2, <1>4
<1>7. \A p \in Positions :
          /\ "cmd" \in flush => p + 1 \in 1 .. Len(s) /\ s[p + 1] = <<"cmd", p>>
          /\ "dma" \in flush => p + 1 \in 1 .. Len(t) /\ t[p + 1] = <<"dma", p>>
  BY <1>2, <1>4
<1>8. FlushOrder(flush) = s \o t
  BY <1>3
<1> HIDE DEF s, t
<1>9. /\ s \o t \in Seq(Lists \X Positions)
      /\ Len(s \o t) = Len(s) + Len(t)
      /\ \A i \in 1 .. Len(s) + Len(t) : (s \o t)[i] = IF i <= Len(s) THEN s[i] ELSE t[i - Len(s)]
      /\ Len(s) \in Nat /\ Len(t) \in Nat
  BY <1>5, ConcatProperties, LenProperties
<1>10. DOMAIN (s \o t) = 1 .. Len(s) + Len(t)
  BY <1>9, LenProperties
<1>11. ASSUME NEW i \in 1 .. Len(s) + Len(t)
       PROVE  (s \o t)[i][1] \in flush
  <2>1. CASE i <= Len(s)
    BY <1>6, <1>9, <2>1
  <2>2. CASE ~(i <= Len(s))
    <3>1. i - Len(s) \in 1 .. Len(t)
      BY <1>9, <2>2
    <3>2. QED
      BY <1>6, <1>9, <2>2, <3>1
  <2>3. QED
    BY <2>1, <2>2
<1>12. ASSUME NEW l \in flush, NEW p \in Positions
       PROVE  \E i \in 1 .. Len(s) + Len(t) : (s \o t)[i] = <<l, p>>
  <2>1. CASE l = "cmd"
    <3>1. p + 1 \in 1 .. Len(s) /\ s[p + 1] = <<l, p>>
      BY <1>7, <1>12, <2>1
    <3>2. p + 1 \in 1 .. Len(s) + Len(t) /\ p + 1 <= Len(s)
      BY <1>9, <3>1
    <3>3. QED
      BY <1>9, <3>1, <3>2
  <2>2. CASE l = "dma"
    <3>1. p + 1 \in 1 .. Len(t) /\ t[p + 1] = <<l, p>>
      BY <1>7, <1>12, <2>2
    <3>2. p \in Nat
      BY PositionsAre
    <3>3. Len(s) + p + 1 \in 1 .. Len(s) + Len(t) /\ ~(Len(s) + p + 1 <= Len(s))
          /\ (Len(s) + p + 1) - Len(s) = p + 1
      BY <1>9, <3>1, <3>2
    <3>4. QED
      BY <1>9, <3>1, <3>3
  <2>3. QED
    BY <2>1, <2>2 DEF Lists
<1>13. QED
  BY <1>8, <1>9, <1>10, <1>11, <1>12

(* An async command flushes lists there are.                               *)
LEMMA FlushOfIs == \A k \in Kinds : FlushOf[k] \in SUBSET Lists
BY CmdAssumption DEF FlushOf, async_tests, Lists

(* The command the throughput test sends next is one of its own.           *)
LEMMA NextSent ==
    ASSUME nth \in Nat, nth < Len(Throughput)
    PROVE  /\ nth + 1 \in DOMAIN Throughput
           /\ Throughput[nth + 1] \in Cmds /\ Throughput[nth + 1] \in Repeated
           /\ ListOf[Throughput[nth + 1]] = "dma"
<1>1. Throughput \in Seq(Cmds) /\ \A c \in Repeated : ListOf[c] = "dma"
  BY CmdAssumption
<1>2. Len(Throughput) \in Nat /\ DOMAIN Throughput = 1 .. Len(Throughput)
      /\ \A i \in 1 .. Len(Throughput) : Throughput[i] \in Cmds
  BY <1>1, LenProperties, ElementOfSeq
<1>3. nth + 1 \in 1 .. Len(Throughput)
  BY <1>2
<1>4. QED
  BY <1>1, <1>2, <1>3 DEF Repeated

(* The entries of the chain that a message, a send or a flush names.       *)
LEMMA ReplyPosition ==
    ASSUME QueueType, NEW l \in Lists, wpc[l] = "reply"
    PROVE  /\ reply[l] \in Messages
           /\ reply[l].id \in Positions
           /\ IdToPosition(reply[l].id) = reply[l].id
  BY PositionsAre DEF QueueType, Messages

(* What a flush comes to next is an entry.                                 *)
LEMMA TodoEntry ==
    ASSUME FlushType, NEW k \in Flushers, todo[k] # <<>>
    PROVE  /\ Head(todo[k])[1] \in Lists /\ Head(todo[k])[2] \in Positions
           /\ Head(todo[k]) = <<Head(todo[k])[1], Head(todo[k])[2]>>
           /\ Tail(todo[k]) \in Seq(Lists \X Positions)
<1>1. todo[k] \in Seq(Lists \X Positions)
  BY DEF FlushType
<1>2. Head(todo[k]) \in Lists \X Positions /\ Tail(todo[k]) \in Seq(Lists \X Positions)
  BY <1>1, HeadTailProperties
<1>3. QED
  BY <1>2

(* Every step preserves the types: lists and positions...                  *)
LEMMA ListTypeStep ==
    ASSUME ListType, UserType, QueueType, FlushType, [Next]_vars
    PROVE  ListType'
<1> USE DEF ListType, sendVars, thptVars, userVars, queueVars, intrVars, workVars, asyncVars,
            flushVars
<1>1. CASE ModuleInit
  BY <1>1 DEF ModuleInit, ProbeStep
<1>2. CASE PciInit
  BY <1>2 DEF PciInit, ProbeStep
<1>3. CASE EventsInit
  BY <1>3 DEF EventsInit, ProbeStep
<1>4. CASE StartupCheck
  BY <1>4 DEF StartupCheck, ProbeStep
<1>5. CASE ListsInit
  <2>1. CmdListInit \in ListTypes
    <3>1. N \in Nat \ {0}
      BY CmdAssumption DEF IdBound
    <3>2. \A p \in Positions : p # N - 1 => p + 1 \in Positions
      BY <3>1 DEF Positions
    <3>3. QED
      BY <3>2, PositionsAre DEF CmdListInit, ListTypes
  <2>2. QED
    BY <1>5, <2>1 DEF ListsInit, ProbeStep
<1>6. ASSUME NEW c \in Cmds, Add(c)
      PROVE  ListType'
  BY <1>6, TakeIs DEF Add
<1>7. ASSUME NEW c \in Cmds, Fill(c)
      PROVE  ListType'
  BY <1>7, FillIs DEF Fill
<1>8. ASSUME NEW c \in Cmds, Push(c)
      PROVE  ListType'
  BY <1>8 DEF Push
<1>9. ASSUME NEW c \in Cmds, PushRefused(c)
      PROVE  ListType'
  <2>1. ListOf[c] \in Lists /\ pos[c] \in Positions
    BY CmdAssumption
  <2>2. QED
    BY <1>9, <2>1, RemoveIs DEF PushRefused
<1>10. ASSUME NEW c \in Cmds, Ring(c)
       PROVE  ListType'
  BY <1>10 DEF Ring
<1>11. ASSUME NEW c \in Cmds, Again(c)
       PROVE  ListType'
  BY <1>11, TakeIs DEF Again
<1>12. ASSUME NEW c \in Cmds, AgainFails(c)
       PROVE  ListType'
  BY <1>12 DEF AgainFails
<1>13. CASE TestSend
  <2>1. Throughput[nth + 1] \in Cmds /\ TakeEntry(Throughput[nth + 1])
    BY <1>13, NextSent DEF TestSend, UserType
  <2>2. QED
    BY <2>1, TakeIs
<1>14. CASE TestGivesUp
  BY <1>14 DEF TestGivesUp
<1>15. CASE TestRing
  BY <1>15 DEF TestRing
<1>16. ASSUME NEW a \in Actors, RingAgain(a)
       PROVE  ListType'
  BY <1>16 DEF RingAgain
<1>17. CASE IsrRead
  BY <1>17 DEF IsrRead
<1>18. CASE IsrEnd
  BY <1>18 DEF IsrEnd
<1>19. ASSUME NEW l \in Lists, WorkStart(l)
       PROVE  ListType'
  BY <1>19 DEF WorkStart
<1>20. ASSUME NEW l \in Lists, WorkPull(l)
       PROVE  ListType'
  BY <1>20 DEF WorkPull
<1>21. ASSUME NEW l \in Lists, WorkReply(l)
       PROVE  ListType'
  <2>1. IdToPosition(reply[l].id) \in Positions
    BY <1>21, ReplyPosition DEF WorkReply
  <2>2. QED
    BY <1>21, <2>1, RemoveIs DEF WorkReply
<1>22. ASSUME NEW l \in Lists, WorkEnd(l)
       PROVE  ListType'
  BY <1>22 DEF WorkEnd
<1>23. ASSUME NEW k \in Kinds, AsyncRequest(k)
       PROVE  ListType'
  BY <1>23 DEF AsyncRequest
<1>24. ASSUME NEW k \in Kinds, AsyncAccepted(k)
       PROVE  ListType'
  BY <1>24 DEF AsyncAccepted
<1>25. ASSUME NEW k \in Kinds, AsyncDone(k)
       PROVE  ListType'
  BY <1>25 DEF AsyncDone, StartFlush
<1>26. ASSUME NEW k \in Kinds, AsyncEnd(k)
       PROVE  ListType'
  BY <1>26 DEF AsyncEnd
<1>27. ASSUME NEW k \in Flushers, FlushEntry(k)
       PROVE  ListType'
  <2>1. /\ Head(todo[k])[1] \in Lists /\ Head(todo[k])[2] \in Positions
        /\ ListRemove(Head(todo[k])[1], Head(todo[k])[2])
    BY <1>27, TodoEntry DEF FlushEntry
  <2>2. QED
    BY <1>27, <2>1, RemoveIs DEF FlushEntry
<1>28. CASE CleanIntr
  BY <1>28 DEF CleanIntr
<1>29. CASE CleanWork
  BY <1>29 DEF CleanWork
<1>30. CASE CleanIrq
  BY <1>30 DEF CleanIrq, StartFlush
<1>31. CASE CleanEnd
  BY <1>31 DEF CleanEnd
<1>32. CASE DeviceIdle
  BY <1>32 DEF DeviceIdle
<1>33. CASE DeviceAccept
  BY <1>33 DEF DeviceAccept
<1>34. ASSUME NEW l \in Lists, DeviceReply(l)
       PROVE  ListType'
  BY <1>34 DEF DeviceReply
<1>35. ASSUME NEW k \in Kinds, DeviceDone(k)
       PROVE  ListType'
  BY <1>35 DEF DeviceDone
<1>36. CASE UNCHANGED vars
  BY <1>36 DEF vars
<1>37. QED
  BY <1>1, <1>2, <1>3, <1>4, <1>5, <1>6, <1>7, <1>8, <1>9, <1>10, <1>11, <1>12,
     <1>13, <1>14, <1>15, <1>16, <1>17, <1>18, <1>19, <1>20, <1>21, <1>22,
     <1>23, <1>24, <1>25, <1>26, <1>27, <1>28, <1>29, <1>30, <1>31, <1>32,
     <1>33, <1>34, <1>35, <1>36
     DEF Next, Probe, Send, Test, Work, Async, Cleanup, Device, Flushers

(* ...senders and their commands...                                        *)
LEMMA UserTypeStep ==
    ASSUME ListType, UserType, QueueType, FlushType, [Next]_vars
    PROVE  UserType'
<1> USE DEF UserType, sendVars, thptVars, userVars, queueVars, intrVars, workVars, asyncVars,
            flushVars
<1>1. CASE ModuleInit
  BY <1>1 DEF ModuleInit, ProbeStep
<1>2. CASE PciInit
  BY <1>2 DEF PciInit, ProbeStep
<1>3. CASE EventsInit
  BY <1>3 DEF EventsInit, ProbeStep
<1>4. CASE StartupCheck
  BY <1>4 DEF StartupCheck, ProbeStep
<1>5. CASE ListsInit
  BY <1>5 DEF ListsInit, ProbeStep
<1>6. ASSUME NEW c \in Cmds, Add(c)
      PROVE  UserType'
  BY <1>6 DEF Add, TakeEntry
<1>7. ASSUME NEW c \in Cmds, Fill(c)
      PROVE  UserType'
  BY <1>7 DEF Fill
<1>8. ASSUME NEW c \in Cmds, Push(c)
      PROVE  UserType'
  BY <1>8 DEF Push
<1>9. ASSUME NEW c \in Cmds, PushRefused(c)
      PROVE  UserType'
  BY <1>9 DEF PushRefused, ListRemove
<1>10. ASSUME NEW c \in Cmds, Ring(c)
       PROVE  UserType'
  BY <1>10 DEF Ring
<1>11. ASSUME NEW c \in Cmds, Again(c)
       PROVE  UserType'
  BY <1>11 DEF Again, TakeEntry
<1>12. ASSUME NEW c \in Cmds, AgainFails(c)
       PROVE  UserType'
  BY <1>12 DEF AgainFails
<1>13. CASE TestSend
  <2>1. Throughput[nth + 1] \in Cmds
    BY <1>13, NextSent DEF TestSend
  <2>2. QED
    BY <1>13, <2>1 DEF TestSend, TakeEntry
<1>14. CASE TestGivesUp
  BY <1>14 DEF TestGivesUp
<1>15. CASE TestRing
  BY <1>15 DEF TestRing
<1>16. ASSUME NEW a \in Actors, RingAgain(a)
       PROVE  UserType'
  BY <1>16 DEF RingAgain
<1>17. CASE IsrRead
  BY <1>17 DEF IsrRead
<1>18. CASE IsrEnd
  BY <1>18 DEF IsrEnd
<1>19. ASSUME NEW l \in Lists, WorkStart(l)
       PROVE  UserType'
  BY <1>19 DEF WorkStart
<1>20. ASSUME NEW l \in Lists, WorkPull(l)
       PROVE  UserType'
  BY <1>20 DEF WorkPull
<1>21. ASSUME NEW l \in Lists, WorkReply(l)
       PROVE  UserType'
  BY <1>21 DEF WorkReply, ListRemove, Callback
<1>22. ASSUME NEW l \in Lists, WorkEnd(l)
       PROVE  UserType'
  BY <1>22 DEF WorkEnd
<1>23. ASSUME NEW k \in Kinds, AsyncRequest(k)
       PROVE  UserType'
  BY <1>23 DEF AsyncRequest
<1>24. ASSUME NEW k \in Kinds, AsyncAccepted(k)
       PROVE  UserType'
  BY <1>24 DEF AsyncAccepted
<1>25. ASSUME NEW k \in Kinds, AsyncDone(k)
       PROVE  UserType'
  BY <1>25 DEF AsyncDone, StartFlush
<1>26. ASSUME NEW k \in Kinds, AsyncEnd(k)
       PROVE  UserType'
  BY <1>26 DEF AsyncEnd
<1>27. ASSUME NEW k \in Flushers, FlushEntry(k)
       PROVE  UserType'
  BY <1>27, ZenonT(30) DEF FlushEntry, ListRemove, Callback
<1>28. CASE CleanIntr
  BY <1>28 DEF CleanIntr
<1>29. CASE CleanWork
  BY <1>29 DEF CleanWork
<1>30. CASE CleanIrq
  BY <1>30 DEF CleanIrq, StartFlush
<1>31. CASE CleanEnd
  BY <1>31 DEF CleanEnd
<1>32. CASE DeviceIdle
  BY <1>32 DEF DeviceIdle
<1>33. CASE DeviceAccept
  BY <1>33 DEF DeviceAccept
<1>34. ASSUME NEW l \in Lists, DeviceReply(l)
       PROVE  UserType'
  BY <1>34 DEF DeviceReply
<1>35. ASSUME NEW k \in Kinds, DeviceDone(k)
       PROVE  UserType'
  BY <1>35 DEF DeviceDone
<1>36. CASE UNCHANGED vars
  BY <1>36 DEF vars
<1>37. QED
  BY <1>1, <1>2, <1>3, <1>4, <1>5, <1>6, <1>7, <1>8, <1>9, <1>10, <1>11, <1>12,
     <1>13, <1>14, <1>15, <1>16, <1>17, <1>18, <1>19, <1>20, <1>21, <1>22,
     <1>23, <1>24, <1>25, <1>26, <1>27, <1>28, <1>29, <1>30, <1>31, <1>32,
     <1>33, <1>34, <1>35, <1>36
     DEF Next, Probe, Send, Test, Work, Async, Cleanup, Device, Flushers

(* ...messages...                                                          *)
LEMMA QueueTypeStep ==
    ASSUME ListType, UserType, QueueType, [Next]_vars
    PROVE  QueueType'
<1> USE DEF QueueType, sendVars, thptVars, userVars, queueVars, intrVars, workVars, asyncVars,
            flushVars
<1>1. CASE ModuleInit
  BY <1>1 DEF ModuleInit, ProbeStep
<1>2. CASE PciInit
  BY <1>2 DEF PciInit, ProbeStep
<1>3. CASE EventsInit
  BY <1>3 DEF EventsInit, ProbeStep
<1>4. CASE StartupCheck
  BY <1>4 DEF StartupCheck, ProbeStep
<1>5. CASE ListsInit
  BY <1>5 DEF ListsInit, ProbeStep
<1>6. ASSUME NEW c \in Cmds, Add(c)
      PROVE  QueueType'
  BY <1>6 DEF Add, TakeEntry
<1>7. ASSUME NEW c \in Cmds, Fill(c)
      PROVE  QueueType'
  BY <1>7 DEF Fill
<1>8. ASSUME NEW c \in Cmds, Push(c)
      PROVE  QueueType'
  <2>1. ListOf[c] \in Lists /\ GenerateId(pos[c]) \in Positions
    <3>1. pos[c] \in Positions
      BY DEF ListType
    <3>2. QED
      BY <3>1, CmdAssumption, PositionsAre
  <2>2. [cmd |-> c, id |-> GenerateId(pos[c])] \in Messages
    BY <2>1 DEF Messages
  <2>3. subq[ListOf[c]] \in Seq(Messages)
    BY <2>1
  <2>4. Append(subq[ListOf[c]], [cmd |-> c, id |-> GenerateId(pos[c])]) \in Seq(Messages)
    BY <2>2, <2>3, AppendProperties
  <2>5. QED
    BY <1>8, <2>1, <2>4 DEF Push
<1>9. ASSUME NEW c \in Cmds, PushRefused(c)
      PROVE  QueueType'
  BY <1>9 DEF PushRefused, ListRemove
<1>10. ASSUME NEW c \in Cmds, Ring(c)
       PROVE  QueueType'
  BY <1>10 DEF Ring
<1>11. ASSUME NEW c \in Cmds, Again(c)
       PROVE  QueueType'
  BY <1>11 DEF Again, TakeEntry
<1>12. ASSUME NEW c \in Cmds, AgainFails(c)
       PROVE  QueueType'
  BY <1>12 DEF AgainFails
<1>13. CASE TestSend
  BY <1>13 DEF TestSend, TakeEntry
<1>14. CASE TestGivesUp
  BY <1>14 DEF TestGivesUp
<1>15. CASE TestRing
  BY <1>15 DEF TestRing
<1>16. ASSUME NEW a \in Actors, RingAgain(a)
       PROVE  QueueType'
  BY <1>16 DEF RingAgain
<1>17. CASE IsrRead
  BY <1>17 DEF IsrRead
<1>18. CASE IsrEnd
  BY <1>18 DEF IsrEnd
<1>19. ASSUME NEW l \in Lists, WorkStart(l)
       PROVE  QueueType'
  BY <1>19 DEF WorkStart
<1>20. ASSUME NEW l \in Lists, WorkPull(l)
       PROVE  QueueType'
  BY <1>20 DEF WorkPull
<1>21. ASSUME NEW l \in Lists, WorkReply(l)
       PROVE  QueueType'
  BY <1>21 DEF WorkReply, ListRemove, Callback
<1>22. ASSUME NEW l \in Lists, WorkEnd(l)
       PROVE  QueueType'
  BY <1>22 DEF WorkEnd
<1>23. ASSUME NEW k \in Kinds, AsyncRequest(k)
       PROVE  QueueType'
  BY <1>23 DEF AsyncRequest
<1>24. ASSUME NEW k \in Kinds, AsyncAccepted(k)
       PROVE  QueueType'
  BY <1>24 DEF AsyncAccepted
<1>25. ASSUME NEW k \in Kinds, AsyncDone(k)
       PROVE  QueueType'
  BY <1>25 DEF AsyncDone, StartFlush
<1>26. ASSUME NEW k \in Kinds, AsyncEnd(k)
       PROVE  QueueType'
  BY <1>26 DEF AsyncEnd
<1>27. ASSUME NEW k \in Flushers, FlushEntry(k)
       PROVE  QueueType'
  BY <1>27 DEF FlushEntry, ListRemove, Callback
<1>28. CASE CleanIntr
  BY <1>28 DEF CleanIntr
<1>29. CASE CleanWork
  BY <1>29 DEF CleanWork
<1>30. CASE CleanIrq
  BY <1>30 DEF CleanIrq, StartFlush
<1>31. CASE CleanEnd
  BY <1>31 DEF CleanEnd
<1>32. CASE DeviceIdle
  BY <1>32 DEF DeviceIdle
<1>33. CASE DeviceAccept
  BY <1>33 DEF DeviceAccept
<1>34. ASSUME NEW l \in Lists, DeviceReply(l)
       PROVE  QueueType'
  BY <1>34 DEF DeviceReply
<1>35. ASSUME NEW k \in Kinds, DeviceDone(k)
       PROVE  QueueType'
  BY <1>35 DEF DeviceDone
<1>36. CASE UNCHANGED vars
  BY <1>36 DEF vars
<1>37. QED
  BY <1>1, <1>2, <1>3, <1>4, <1>5, <1>6, <1>7, <1>8, <1>9, <1>10, <1>11, <1>12,
     <1>13, <1>14, <1>15, <1>16, <1>17, <1>18, <1>19, <1>20, <1>21, <1>22,
     <1>23, <1>24, <1>25, <1>26, <1>27, <1>28, <1>29, <1>30, <1>31, <1>32,
     <1>33, <1>34, <1>35, <1>36
     DEF Next, Probe, Send, Test, Work, Async, Cleanup, Device, Flushers

(* ...and flushes.                                                         *)
LEMMA FlushTypeStep ==
    ASSUME FlushType, UserType, [Next]_vars
    PROVE  FlushType'
<1> USE DEF FlushType, sendVars, thptVars, userVars, queueVars, intrVars, workVars, asyncVars,
            flushVars
<1>1. CASE ModuleInit
  BY <1>1 DEF ModuleInit, ProbeStep
<1>2. CASE PciInit
  BY <1>2 DEF PciInit, ProbeStep
<1>3. CASE EventsInit
  BY <1>3 DEF EventsInit, ProbeStep
<1>4. CASE StartupCheck
  BY <1>4 DEF StartupCheck, ProbeStep
<1>5. CASE ListsInit
  BY <1>5 DEF ListsInit, ProbeStep
<1>6. ASSUME NEW c \in Cmds, Add(c)
      PROVE  FlushType'
  BY <1>6 DEF Add, TakeEntry
<1>7. ASSUME NEW c \in Cmds, Fill(c)
      PROVE  FlushType'
  BY <1>7 DEF Fill
<1>8. ASSUME NEW c \in Cmds, Push(c)
      PROVE  FlushType'
  BY <1>8 DEF Push
<1>9. ASSUME NEW c \in Cmds, PushRefused(c)
      PROVE  FlushType'
  BY <1>9 DEF PushRefused, ListRemove
<1>10. ASSUME NEW c \in Cmds, Ring(c)
       PROVE  FlushType'
  BY <1>10 DEF Ring
<1>11. ASSUME NEW c \in Cmds, Again(c)
       PROVE  FlushType'
  BY <1>11 DEF Again, TakeEntry
<1>12. ASSUME NEW c \in Cmds, AgainFails(c)
       PROVE  FlushType'
  BY <1>12 DEF AgainFails
<1>13. CASE TestSend
  BY <1>13 DEF TestSend, TakeEntry
<1>14. CASE TestGivesUp
  BY <1>14 DEF TestGivesUp
<1>15. CASE TestRing
  BY <1>15 DEF TestRing
<1>16. ASSUME NEW a \in Actors, RingAgain(a)
       PROVE  FlushType'
  BY <1>16 DEF RingAgain
<1>17. CASE IsrRead
  BY <1>17 DEF IsrRead
<1>18. CASE IsrEnd
  BY <1>18 DEF IsrEnd
<1>19. ASSUME NEW l \in Lists, WorkStart(l)
       PROVE  FlushType'
  BY <1>19 DEF WorkStart
<1>20. ASSUME NEW l \in Lists, WorkPull(l)
       PROVE  FlushType'
  BY <1>20 DEF WorkPull
<1>21. ASSUME NEW l \in Lists, WorkReply(l)
       PROVE  FlushType'
  BY <1>21 DEF WorkReply, ListRemove, Callback
<1>22. ASSUME NEW l \in Lists, WorkEnd(l)
       PROVE  FlushType'
  BY <1>22 DEF WorkEnd
<1>23. ASSUME NEW k \in Kinds, AsyncRequest(k)
       PROVE  FlushType'
  BY <1>23 DEF AsyncRequest
<1>24. ASSUME NEW k \in Kinds, AsyncAccepted(k)
       PROVE  FlushType'
  BY <1>24 DEF AsyncAccepted
<1>25. ASSUME NEW k \in Kinds, AsyncDone(k)
       PROVE  FlushType'
  <2>1. /\ FlushOf[k] \in SUBSET Lists /\ k \in Flushers
        /\ FlushOrder(FlushOf[k]) \in Seq(Lists \X Positions)
    BY FlushOfIs, FlushOrderIs DEF Flushers
  <2>2. QED
    BY <1>25, <2>1 DEF AsyncDone, StartFlush
<1>26. ASSUME NEW k \in Kinds, AsyncEnd(k)
       PROVE  FlushType'
  BY <1>26 DEF AsyncEnd
<1>27. ASSUME NEW k \in Flushers, FlushEntry(k)
       PROVE  FlushType'
  <2>1. Tail(todo[k]) \in Seq(Lists \X Positions)
    BY <1>27, TodoEntry DEF FlushEntry
  <2>2. QED
    BY <1>27, <2>1 DEF FlushEntry
<1>28. CASE CleanIntr
  BY <1>28 DEF CleanIntr
<1>29. CASE CleanWork
  BY <1>29 DEF CleanWork
<1>30. CASE CleanIrq
  <2>1. "cleanup" \in Flushers /\ FlushOrder(Lists) \in Seq(Lists \X Positions)
    BY FlushOrderIs DEF Flushers
  <2>2. QED
    BY <1>30, <2>1 DEF CleanIrq, StartFlush
<1>31. CASE CleanEnd
  BY <1>31 DEF CleanEnd
<1>32. CASE DeviceIdle
  BY <1>32 DEF DeviceIdle
<1>33. CASE DeviceAccept
  BY <1>33 DEF DeviceAccept
<1>34. ASSUME NEW l \in Lists, DeviceReply(l)
       PROVE  FlushType'
  BY <1>34 DEF DeviceReply
<1>35. ASSUME NEW k \in Kinds, DeviceDone(k)
       PROVE  FlushType'
  BY <1>35 DEF DeviceDone
<1>36. CASE UNCHANGED vars
  BY <1>36 DEF vars
<1>37. QED
  BY <1>1, <1>2, <1>3, <1>4, <1>5, <1>6, <1>7, <1>8, <1>9, <1>10, <1>11, <1>12,
     <1>13, <1>14, <1>15, <1>16, <1>17, <1>18, <1>19, <1>20, <1>21, <1>22,
     <1>23, <1>24, <1>25, <1>26, <1>27, <1>28, <1>29, <1>30, <1>31, <1>32,
     <1>33, <1>34, <1>35, <1>36
     DEF Next, Probe, Send, Test, Work, Async, Cleanup, Device, Flushers

-----------------------------------------------------------------------------
(* Before the lists are made, and after a probe that failed.               *)
Probing == {"unloaded", "off", "events", "check", "lists", "dead"}

(* Until the lists are made there is nothing to handle.                    *)
QuietInv ==
    life \in Probing =>
        /\ inflight = {} /\ flushed = {} /\ queued = {} /\ isr = None /\ ~msi
        /\ \A c \in Cmds : pc[c] = "idle"
        /\ \A l \in Lists : wpc[l] = "idle" /\ subq[l] = <<>> /\ repq[l] = <<>>
        /\ \A k \in Kinds : apc[k] = "off"
        /\ \A k \in Flushers : todo[k] = <<>> /\ due[k] = {}

(* An interrupt, a queued work item and a running one are followed from    *)
(* the time the driver is up until it is too late for them.                *)
HandlerInv ==
    /\ msi \/ isr # None => life = "up" \/ late
    /\ queued # {} => life \in {"up", "cancel"} \/ late
    /\ \A l \in Lists : wpc[l] # "idle" => life \in {"up", "cancel"} \/ late

(* The types hold at first, and every step preserves them.                 *)
LEMMA TypeInit == Init => TypeInv
<1> SUFFICES ASSUME Init PROVE TypeInv
  OBVIOUS
<1>1. ListType
  BY PositionsAre DEF Init, ListType, ListTypes, CmdListZero
<1>2. UserType
  BY DEF Init, UserType, Flushers
<1>3. QueueType
  BY DEF Init, QueueType, Messages
<1>4. FlushType
  BY DEF Init, FlushType, Flushers
<1>5. QED
  BY <1>1, <1>2, <1>3, <1>4 DEF TypeInv

(* Every step preserves the types.                                         *)
LEMMA TypeStep ==
    ASSUME TypeInv, [Next]_vars
    PROVE  TypeInv'
BY ListTypeStep, UserTypeStep, QueueTypeStep, FlushTypeStep DEF TypeInv

(* Nothing is sent, queued or flushed before ListsInit, for sends and      *)
(* async commands need Probed, and the rest needs one of them.             *)
LEMMA QuietStep ==
    ASSUME TypeInv, QuietInv, [Next]_vars
    PROVE  QuietInv'
<1> USE DEF QuietInv, Probing, sendVars, thptVars, userVars, queueVars, intrVars, workVars,
            asyncVars, flushVars
<1>1. CASE ModuleInit
  BY <1>1 DEF ModuleInit, ProbeStep
<1>2. CASE PciInit
  BY <1>2 DEF PciInit, ProbeStep
<1>3. CASE EventsInit
  BY <1>3 DEF EventsInit, ProbeStep
<1>4. CASE StartupCheck
  BY <1>4 DEF StartupCheck, ProbeStep
<1>5. CASE ListsInit
  BY <1>5 DEF ListsInit, ProbeStep
<1>6. ASSUME NEW c \in Cmds, Add(c)
      PROVE  QuietInv'
  BY <1>6 DEF Add, TakeEntry, Probed
<1>7. ASSUME NEW c \in Cmds, Fill(c)
      PROVE  QuietInv'
  BY <1>7 DEF Fill
<1>8. ASSUME NEW c \in Cmds, Push(c)
      PROVE  QuietInv'
  BY <1>8 DEF Push
<1>9. ASSUME NEW c \in Cmds, PushRefused(c)
      PROVE  QuietInv'
  BY <1>9 DEF PushRefused, ListRemove
<1>10. ASSUME NEW c \in Cmds, Ring(c)
       PROVE  QuietInv'
  BY <1>10 DEF Ring
<1>11. ASSUME NEW c \in Cmds, Again(c)
       PROVE  QuietInv'
  BY <1>11 DEF Again, TakeEntry
<1>12. ASSUME NEW c \in Cmds, AgainFails(c)
       PROVE  QuietInv'
  BY <1>12 DEF AgainFails
<1>13. CASE TestSend
  BY <1>13 DEF TestSend, TakeEntry, Probed
<1>14. CASE TestGivesUp
  BY <1>14 DEF TestGivesUp
<1>15. CASE TestRing
  BY <1>15 DEF TestRing
<1>16. ASSUME NEW a \in Actors, RingAgain(a)
       PROVE  QuietInv'
  BY <1>16 DEF RingAgain
<1>17. CASE IsrRead
  BY <1>17 DEF IsrRead
<1>18. CASE IsrEnd
  BY <1>18 DEF IsrEnd
<1>19. ASSUME NEW l \in Lists, WorkStart(l)
       PROVE  QuietInv'
  BY <1>19 DEF WorkStart
<1>20. ASSUME NEW l \in Lists, WorkPull(l)
       PROVE  QuietInv'
  BY <1>20 DEF WorkPull
<1>21. ASSUME NEW l \in Lists, WorkReply(l)
       PROVE  QuietInv'
  BY <1>21 DEF WorkReply, ListRemove, Callback
<1>22. ASSUME NEW l \in Lists, WorkEnd(l)
       PROVE  QuietInv'
  BY <1>22 DEF WorkEnd
<1>23. ASSUME NEW k \in Kinds, AsyncRequest(k)
       PROVE  QuietInv'
  BY <1>23 DEF AsyncRequest, Probed
<1>24. ASSUME NEW k \in Kinds, AsyncAccepted(k)
       PROVE  QuietInv'
  BY <1>24 DEF AsyncAccepted
<1>25. ASSUME NEW k \in Kinds, AsyncDone(k)
       PROVE  QuietInv'
  BY <1>25 DEF AsyncDone, StartFlush
<1>26. ASSUME NEW k \in Kinds, AsyncEnd(k)
       PROVE  QuietInv'
  BY <1>26 DEF AsyncEnd
<1>27. ASSUME NEW k \in Flushers, FlushEntry(k)
       PROVE  QuietInv'
  BY <1>27, QuietInv DEF FlushEntry
<1>28. CASE CleanIntr
  BY <1>28 DEF CleanIntr
<1>29. CASE CleanWork
  BY <1>29 DEF CleanWork
<1>30. CASE CleanIrq
  BY <1>30 DEF CleanIrq, StartFlush
<1>31. CASE CleanEnd
  BY <1>31 DEF CleanEnd
<1>32. CASE DeviceIdle
  BY <1>32 DEF DeviceIdle
<1>33. CASE DeviceAccept
  BY <1>33 DEF DeviceAccept
<1>34. ASSUME NEW l \in Lists, DeviceReply(l)
       PROVE  QuietInv'
  BY <1>34 DEF DeviceReply
<1>35. ASSUME NEW k \in Kinds, DeviceDone(k)
       PROVE  QuietInv'
  BY <1>35 DEF DeviceDone
<1>36. CASE UNCHANGED vars
  BY <1>36 DEF vars
<1>37. QED
  BY <1>1, <1>2, <1>3, <1>4, <1>5, <1>6, <1>7, <1>8, <1>9, <1>10, <1>11, <1>12,
     <1>13, <1>14, <1>15, <1>16, <1>17, <1>18, <1>19, <1>20, <1>21, <1>22,
     <1>23, <1>24, <1>25, <1>26, <1>27, <1>28, <1>29, <1>30, <1>31, <1>32,
     <1>33, <1>34, <1>35, <1>36
     DEF Next, Probe, Send, Test, Work, Async, Cleanup, Device, Flushers

(* The interrupt is raised only while the driver is up; one that is under  *)
(* way as interrupts are disabled is noted in late.                        *)
LEMMA HandlerStep ==
    ASSUME HandlerInv, [Next]_vars
    PROVE  HandlerInv'
<1> USE DEF HandlerInv, sendVars, thptVars, userVars, queueVars, intrVars, workVars,
            asyncVars, flushVars
<1>1. CASE ModuleInit
  BY <1>1 DEF ModuleInit, ProbeStep
<1>2. CASE PciInit
  BY <1>2 DEF PciInit, ProbeStep
<1>3. CASE EventsInit
  BY <1>3 DEF EventsInit, ProbeStep
<1>4. CASE StartupCheck
  BY <1>4 DEF StartupCheck, ProbeStep
<1>5. CASE ListsInit
  BY <1>5 DEF ListsInit, ProbeStep
<1>6. ASSUME NEW c \in Cmds, Add(c)
      PROVE  HandlerInv'
  BY <1>6 DEF Add, TakeEntry
<1>7. ASSUME NEW c \in Cmds, Fill(c)
      PROVE  HandlerInv'
  BY <1>7 DEF Fill
<1>8. ASSUME NEW c \in Cmds, Push(c)
      PROVE  HandlerInv'
  BY <1>8 DEF Push
<1>9. ASSUME NEW c \in Cmds, PushRefused(c)
      PROVE  HandlerInv'
  BY <1>9 DEF PushRefused, ListRemove
<1>10. ASSUME NEW c \in Cmds, Ring(c)
       PROVE  HandlerInv'
  BY <1>10 DEF Ring
<1>11. ASSUME NEW c \in Cmds, Again(c)
       PROVE  HandlerInv'
  BY <1>11 DEF Again, TakeEntry
<1>12. ASSUME NEW c \in Cmds, AgainFails(c)
       PROVE  HandlerInv'
  BY <1>12 DEF AgainFails
<1>13. CASE TestSend
  BY <1>13 DEF TestSend, TakeEntry
<1>14. CASE TestGivesUp
  BY <1>14 DEF TestGivesUp
<1>15. CASE TestRing
  BY <1>15 DEF TestRing
<1>16. ASSUME NEW a \in Actors, RingAgain(a)
       PROVE  HandlerInv'
  BY <1>16 DEF RingAgain
<1>17. CASE IsrRead
  BY <1>17 DEF IsrRead
<1>18. CASE IsrEnd
  BY <1>18 DEF IsrEnd
<1>19. ASSUME NEW l \in Lists, WorkStart(l)
       PROVE  HandlerInv'
  BY <1>19 DEF WorkStart
<1>20. ASSUME NEW l \in Lists, WorkPull(l)
       PROVE  HandlerInv'
  BY <1>20 DEF WorkPull
<1>21. ASSUME NEW l \in Lists, WorkReply(l)
       PROVE  HandlerInv'
  BY <1>21 DEF WorkReply, ListRemove, Callback
<1>22. ASSUME NEW l \in Lists, WorkEnd(l)
       PROVE  HandlerInv'
  BY <1>22 DEF WorkEnd
<1>23. ASSUME NEW k \in Kinds, AsyncRequest(k)
       PROVE  HandlerInv'
  BY <1>23 DEF AsyncRequest
<1>24. ASSUME NEW k \in Kinds, AsyncAccepted(k)
       PROVE  HandlerInv'
  BY <1>24 DEF AsyncAccepted
<1>25. ASSUME NEW k \in Kinds, AsyncDone(k)
       PROVE  HandlerInv'
  BY <1>25 DEF AsyncDone, StartFlush
<1>26. ASSUME NEW k \in Kinds, AsyncEnd(k)
       PROVE  HandlerInv'
  BY <1>26 DEF AsyncEnd
<1>27. ASSUME NEW k \in Flushers, FlushEntry(k)
       PROVE  HandlerInv'
  BY <1>27 DEF FlushEntry, ListRemove, Callback
<1>28. CASE CleanIntr
  BY <1>28 DEF CleanIntr
<1>29. CASE CleanWork
  BY <1>29 DEF CleanWork
<1>30. CASE CleanIrq
  BY <1>30 DEF CleanIrq, StartFlush
<1>31. CASE CleanEnd
  BY <1>31 DEF CleanEnd
<1>32. CASE DeviceIdle
  BY <1>32 DEF DeviceIdle
<1>33. CASE DeviceAccept
  BY <1>33 DEF DeviceAccept
<1>34. ASSUME NEW l \in Lists, DeviceReply(l)
       PROVE  HandlerInv'
  BY <1>34 DEF DeviceReply
<1>35. ASSUME NEW k \in Kinds, DeviceDone(k)
       PROVE  HandlerInv'
  BY <1>35 DEF DeviceDone
<1>36. CASE UNCHANGED vars
  BY <1>36 DEF vars
<1>37. QED
  BY <1>1, <1>2, <1>3, <1>4, <1>5, <1>6, <1>7, <1>8, <1>9, <1>10, <1>11, <1>12,
     <1>13, <1>14, <1>15, <1>16, <1>17, <1>18, <1>19, <1>20, <1>21, <1>22,
     <1>23, <1>24, <1>25, <1>26, <1>27, <1>28, <1>29, <1>30, <1>31, <1>32,
     <1>33, <1>34, <1>35, <1>36
     DEF Next, Probe, Send, Test, Work, Async, Cleanup, Device, Flushers

-----------------------------------------------------------------------------
(* What the throughput test has yet to send.                               *)
Unsent == {Throughput[i] : i \in {j \in DOMAIN Throughput : j > nth}}

(* A command is in flight or being sent, not both; those of the test ring  *)
(* only at the end, and are idle before it sends them.                     *)
SendInv ==
    /\ \A c \in Cmds : pc[c] \in {"fill", "push", "again"} => c \notin inflight
    /\ \A c \in Cmds : c \in Repeated => pc[c] # "ring"
    /\ \A c \in Unsent : pc[c] = "idle" /\ c \notin inflight

(* An entry has a command of its list, which has been sent.                *)
CommandInv ==
    \A l \in Lists, p \in Positions : lists[l].command[p] # None =>
        ListOf[lists[l].command[p]] = l /\ lists[l].command[p] \notin Unsent

(* What is yet to be sent is among the commands of the test.               *)
LEMMA UnsentAre == Unsent \subseteq Cmds /\ Unsent \subseteq Repeated
<1>1. Throughput \in Seq(Cmds)
  BY CmdAssumption
<1>2. \A i \in DOMAIN Throughput : Throughput[i] \in Cmds
  BY <1>1, LenProperties, ElementOfSeq
<1>3. QED
  BY <1>2 DEF Unsent, Repeated

(* The test only goes forward.                                             *)
LEMMA UnsentStep ==
    ASSUME nth \in Nat, nth' \in Nat, nth' >= nth
    PROVE  Unsent' \subseteq Unsent
<1>1. DOMAIN Throughput \subseteq Nat
  BY CmdAssumption, LenProperties
<1>2. QED
  BY <1>1 DEF Unsent

(* A send of the test takes one command from those yet to send, for each   *)
(* send is a command of its own.                                           *)
LEMMA UnsentSend ==
    ASSUME nth \in Nat, nth < Len(Throughput), nth' = nth + 1
    PROVE  /\ Throughput[nth + 1] \in Unsent
           /\ Unsent' = Unsent \ {Throughput[nth + 1]}
<1>1. DOMAIN Throughput \subseteq Nat /\ nth + 1 \in DOMAIN Throughput
  BY NextSent, CmdAssumption, LenProperties
<1>2. \A i, j \in DOMAIN Throughput : Throughput[i] = Throughput[j] => i = j
  BY CmdAssumption
<1>3. \A i \in DOMAIN Throughput : i > nth <=> i = nth + 1 \/ i > nth + 1
  BY <1>1
<1>4. ~(nth + 1 > nth + 1)
  OBVIOUS
<1>5. QED
  BY <1>1, <1>2, <1>3, <1>4 DEF Unsent

(* Most steps leave the test where it is.                                  *)
LEMMA UnsentKept == nth' = nth => Unsent' = Unsent
BY DEF Unsent

(* A callback only concerns the command of the entry, if it has one.       *)
LEMMA CallbackIs ==
    ASSUME NEW a, NEW l, NEW p, Callback(a, l, p), UserType
    PROVE  LET c == lists[l].command[p] IN
           /\ c = None => UNCHANGED <<pc, inflight, due>>
           /\ c # None => inflight' = inflight \ {c} /\ \A k \in Flushers : due'[k] = due[k] \ {c}
           /\ \A d \in Cmds : pc'[d] # pc[d] =>
                  d = c /\ c \in Repeated /\ pc[d] = "idle" /\ pc'[d] = "again"
           /\ inflight' = inflight \ {c} /\ DOMAIN pc' = Cmds
BY CmdAssumption DEF Callback, UserType, userVars

(* A callback moves only a sender that is idle, whose command is then no   *)
(* longer in flight.                                                       *)
LEMMA CallbackSend ==
    ASSUME NEW a, NEW l \in Lists, NEW p \in Positions, Callback(a, l, p), nth' = nth,
           UserType, SendInv, CommandInv
    PROVE  SendInv'
<1>1. PICK c : c = lists[l].command[p]
  OBVIOUS
<1>2. /\ \A d \in Cmds : pc'[d] # pc[d] =>
            d = c /\ c \in Repeated /\ pc[d] = "idle" /\ pc'[d] = "again"
      /\ inflight' = inflight \ {c}
  BY <1>1, CallbackIs
<1>3. c # None => c \notin Unsent
  BY <1>1 DEF CommandInv
<1>4. Unsent' = Unsent /\ Unsent \subseteq Cmds /\ None \notin Cmds
  BY UnsentKept, UnsentAre, CmdAssumption
<1>5. QED
  BY <1>2, <1>3, <1>4 DEF SendInv

(* A removal leaves no command but those there were...                     *)
LEMMA RemoveCommand ==
    ASSUME NEW l \in Lists, NEW p \in Positions, ListRemove(l, p), nth' = nth, ListType, CommandInv
    PROVE  CommandInv'
<1>1. /\ \A m \in Lists \ {l} : lists'[m] = lists[m]
      /\ lists'[l].command = [lists[l].command EXCEPT ![p] = None]
  BY RemoveIs DEF ListType
<1>2. lists[l].command \in [Positions -> Cmds \union {None}]
  BY DEF ListType, ListTypes
<1>3. \A m \in Lists, q \in Positions :
          lists'[m].command[q] # None => lists'[m].command[q] = lists[m].command[q]
  BY <1>1, <1>2
<1>4. Unsent' = Unsent
  BY UnsentKept
<1>5. QED
  BY <1>3, <1>4 DEF CommandInv

(* ...nor does taking an entry.                                            *)
LEMMA TakeCommand ==
    ASSUME NEW c \in Cmds, TakeEntry(c), nth \in Nat, nth' \in Nat, nth' >= nth,
           ListType, CommandInv
    PROVE  CommandInv'
<1>1. /\ \A m \in Lists \ {ListOf[c]} : lists'[m] = lists[m]
      /\ lists'[ListOf[c]].command = lists[ListOf[c]].command
  BY TakeIs DEF ListType
<1>2. \A m \in Lists : lists'[m].command = lists[m].command
  BY <1>1
<1>3. Unsent' \subseteq Unsent
  BY UnsentStep
<1>4. QED
  BY <1>2, <1>3 DEF CommandInv

(* A command that is neither in flight nor the test's to come may take an  *)
(* entry.                                                                  *)
LEMMA TakeSend ==
    ASSUME NEW c \in Cmds, TakeEntry(c), nth' = nth, c \notin inflight, c \notin Unsent,
           UserType, SendInv
    PROVE  SendInv'
<1>1. Unsent' = Unsent
  BY UnsentKept
<1>2. /\ inflight' = inflight /\ pc' = [pc EXCEPT ![c] = "fill"]
  BY DEF TakeEntry, userVars
<1>3. QED
  BY <1>1, <1>2 DEF SendInv, UserType

(* A command is not sent while it is in flight: each step of a sender, and *)
(* each callback.                                                          *)
LEMMA SendStep ==
    ASSUME TypeInv, SendInv, CommandInv, [Next]_vars
    PROVE  SendInv'
<1> USE DEF TypeInv, UserType, SendInv, sendVars, thptVars, userVars, queueVars, intrVars,
            workVars, asyncVars, flushVars
<1>1. CASE ModuleInit
  BY <1>1, UnsentKept, UnsentAre DEF ModuleInit, ProbeStep
<1>2. CASE PciInit
  BY <1>2, UnsentKept, UnsentAre DEF PciInit, ProbeStep
<1>3. CASE EventsInit
  BY <1>3, UnsentKept, UnsentAre DEF EventsInit, ProbeStep
<1>4. CASE StartupCheck
  BY <1>4, UnsentKept, UnsentAre DEF StartupCheck, ProbeStep
<1>5. CASE ListsInit
  BY <1>5, UnsentKept, UnsentAre DEF ListsInit, ProbeStep
<1>6. ASSUME NEW c \in Cmds, Add(c)
      PROVE  SendInv'
  BY <1>6, TakeSend, UnsentAre DEF Add
<1>7. ASSUME NEW c \in Cmds, Fill(c)
      PROVE  SendInv'
  BY <1>7, UnsentKept, UnsentAre DEF Fill
<1>8. ASSUME NEW c \in Cmds, Push(c)
      PROVE  SendInv'
  BY <1>8, UnsentKept, UnsentAre DEF Push
<1>9. ASSUME NEW c \in Cmds, PushRefused(c)
      PROVE  SendInv'
  BY <1>9, UnsentKept, UnsentAre DEF PushRefused, ListRemove
<1>10. ASSUME NEW c \in Cmds, Ring(c)
       PROVE  SendInv'
  BY <1>10, UnsentKept, UnsentAre DEF Ring
<1>11. ASSUME NEW c \in Cmds, Again(c)
       PROVE  SendInv'
  <2>1. c \notin Unsent /\ c \notin inflight
    BY <1>11 DEF Again
  <2>2. QED
    BY <1>11, <2>1, TakeSend DEF Again
<1>12. ASSUME NEW c \in Cmds, AgainFails(c)
       PROVE  SendInv'
  BY <1>12, UnsentKept, UnsentAre DEF AgainFails
<1>13. CASE TestSend
  <2> DEFINE c == Throughput[nth + 1]
  <2>1. c \in Cmds /\ c \in Unsent /\ Unsent' = Unsent \ {c}
    BY <1>13, NextSent, UnsentSend DEF TestSend
  <2>2. inflight' = inflight /\ pc' = [pc EXCEPT ![c] = "fill"]
    BY <1>13 DEF TestSend, TakeEntry
  <2> HIDE DEF c
  <2>3. QED
    BY <2>1, <2>2
<1>14. CASE TestGivesUp
  BY <1>14, UnsentKept, UnsentAre DEF TestGivesUp
<1>15. CASE TestRing
  <2>1. Unsent' \subseteq Unsent
    BY <1>15, UnsentStep DEF TestRing
  <2>2. QED
    BY <1>15, <2>1 DEF TestRing
<1>16. ASSUME NEW a \in Actors, RingAgain(a)
       PROVE  SendInv'
  BY <1>16, UnsentKept, UnsentAre DEF RingAgain
<1>17. CASE IsrRead
  BY <1>17, UnsentKept, UnsentAre DEF IsrRead
<1>18. CASE IsrEnd
  BY <1>18, UnsentKept, UnsentAre DEF IsrEnd
<1>19. ASSUME NEW l \in Lists, WorkStart(l)
       PROVE  SendInv'
  BY <1>19, UnsentKept, UnsentAre DEF WorkStart
<1>20. ASSUME NEW l \in Lists, WorkPull(l)
       PROVE  SendInv'
  BY <1>20, UnsentKept, UnsentAre DEF WorkPull
<1>21. ASSUME NEW l \in Lists, WorkReply(l)
       PROVE  SendInv'
  <2>1. IdToPosition(reply[l].id) \in Positions /\ Callback(l, l, IdToPosition(reply[l].id))
        /\ nth' = nth
    BY <1>21, ReplyPosition DEF WorkReply
  <2>2. QED
    BY <2>1, CallbackSend
<1>22. ASSUME NEW l \in Lists, WorkEnd(l)
       PROVE  SendInv'
  BY <1>22, UnsentKept, UnsentAre DEF WorkEnd
<1>23. ASSUME NEW k \in Kinds, AsyncRequest(k)
       PROVE  SendInv'
  BY <1>23, UnsentKept, UnsentAre DEF AsyncRequest
<1>24. ASSUME NEW k \in Kinds, AsyncAccepted(k)
       PROVE  SendInv'
  BY <1>24, UnsentKept, UnsentAre DEF AsyncAccepted
<1>25. ASSUME NEW k \in Kinds, AsyncDone(k)
       PROVE  SendInv'
  BY <1>25, UnsentKept, UnsentAre DEF AsyncDone, StartFlush
<1>26. ASSUME NEW k \in Kinds, AsyncEnd(k)
       PROVE  SendInv'
  BY <1>26, UnsentKept, UnsentAre DEF AsyncEnd
<1>27. ASSUME NEW k \in Flushers, FlushEntry(k)
       PROVE  SendInv'
  <2>1. /\ Head(todo[k])[1] \in Lists /\ Head(todo[k])[2] \in Positions /\ nth' = nth
        /\ Callback(k, Head(todo[k])[1], Head(todo[k])[2])
    BY <1>27, TodoEntry DEF FlushEntry
  <2>2. QED
    BY <2>1, CallbackSend
<1>28. CASE CleanIntr
  BY <1>28, UnsentKept, UnsentAre DEF CleanIntr
<1>29. CASE CleanWork
  BY <1>29, UnsentKept, UnsentAre DEF CleanWork
<1>30. CASE CleanIrq
  BY <1>30, UnsentKept, UnsentAre DEF CleanIrq, StartFlush
<1>31. CASE CleanEnd
  BY <1>31, UnsentKept, UnsentAre DEF CleanEnd
<1>32. CASE DeviceIdle
  BY <1>32, UnsentKept, UnsentAre DEF DeviceIdle
<1>33. CASE DeviceAccept
  BY <1>33, UnsentKept, UnsentAre DEF DeviceAccept
<1>34. ASSUME NEW l \in Lists, DeviceReply(l)
       PROVE  SendInv'
  BY <1>34, UnsentKept, UnsentAre DEF DeviceReply
<1>35. ASSUME NEW k \in Kinds, DeviceDone(k)
       PROVE  SendInv'
  BY <1>35, UnsentKept, UnsentAre DEF DeviceDone
<1>36. CASE UNCHANGED vars
  BY <1>36, UnsentKept DEF vars
<1>37. QED
  BY <1>1, <1>2, <1>3, <1>4, <1>5, <1>6, <1>7, <1>8, <1>9, <1>10, <1>11, <1>12,
     <1>13, <1>14, <1>15, <1>16, <1>17, <1>18, <1>19, <1>20, <1>21, <1>22,
     <1>23, <1>24, <1>25, <1>26, <1>27, <1>28, <1>29, <1>30, <1>31, <1>32,
     <1>33, <1>34, <1>35, <1>36
     DEF Next, Probe, Send, Test, Work, Async, Cleanup, Device, Flushers

(* An entry's command is one of its list, and has been sent.               *)
LEMMA CommandStep ==
    ASSUME TypeInv, SendInv, CommandInv, [Next]_vars
    PROVE  CommandInv'
<1> USE DEF TypeInv, CommandInv, sendVars, thptVars, userVars, queueVars, intrVars, workVars,
            asyncVars, flushVars
<1>1. CASE ModuleInit
  BY <1>1, UnsentKept DEF ModuleInit, ProbeStep
<1>2. CASE PciInit
  BY <1>2, UnsentKept DEF PciInit, ProbeStep
<1>3. CASE EventsInit
  BY <1>3, UnsentKept DEF EventsInit, ProbeStep
<1>4. CASE StartupCheck
  BY <1>4, UnsentKept DEF StartupCheck, ProbeStep
<1>5. CASE ListsInit
  <2>1. \A l \in Lists : lists'[l].command = [p \in Positions |-> None]
    BY <1>5 DEF ListsInit, CmdListInit
  <2>2. QED
    BY <2>1
<1>6. ASSUME NEW c \in Cmds, Add(c)
      PROVE  CommandInv'
  <2>1. nth' = nth /\ nth \in Nat /\ TakeEntry(c)
    BY <1>6 DEF Add, UserType
  <2>2. nth' >= nth
    BY <2>1
  <2>3. QED
    BY <2>1, <2>2, TakeCommand
<1>7. ASSUME NEW c \in Cmds, Fill(c)
      PROVE  CommandInv'
  <2>1. c \notin Unsent /\ ListOf[c] \in Lists /\ Unsent' = Unsent
    BY <1>7, UnsentKept, CmdAssumption DEF Fill, SendInv
  <2>2. /\ \A m \in Lists \ {ListOf[c]} : lists'[m] = lists[m]
        /\ lists'[ListOf[c]].command = [lists[ListOf[c]].command EXCEPT ![pos[c]] = c]
    BY <1>7, FillIs DEF ListType
  <2>3. lists[ListOf[c]].command \in [Positions -> Cmds \union {None}]
    BY <2>1 DEF ListType, ListTypes
  <2>4. \A m \in Lists, p \in Positions :
            \/ lists'[m].command[p] = lists[m].command[p]
            \/ m = ListOf[c] /\ lists'[m].command[p] = c
    BY <2>1, <2>2, <2>3
  <2>5. QED
    BY <2>1, <2>4
<1>8. ASSUME NEW c \in Cmds, Push(c)
      PROVE  CommandInv'
  BY <1>8, UnsentKept DEF Push
<1>9. ASSUME NEW c \in Cmds, PushRefused(c)
      PROVE  CommandInv'
  <2>1. ListOf[c] \in Lists /\ pos[c] \in Positions /\ ListRemove(ListOf[c], pos[c]) /\ nth' = nth
    BY <1>9, CmdAssumption DEF PushRefused, ListType
  <2>2. QED
    BY <2>1, RemoveCommand
<1>10. ASSUME NEW c \in Cmds, Ring(c)
       PROVE  CommandInv'
  BY <1>10, UnsentKept DEF Ring
<1>11. ASSUME NEW c \in Cmds, Again(c)
       PROVE  CommandInv'
  <2>1. nth' = nth /\ nth \in Nat /\ TakeEntry(c)
    BY <1>11 DEF Again, UserType
  <2>2. nth' >= nth
    BY <2>1
  <2>3. QED
    BY <2>1, <2>2, TakeCommand
<1>12. ASSUME NEW c \in Cmds, AgainFails(c)
       PROVE  CommandInv'
  BY <1>12, UnsentKept DEF AgainFails
<1>13. CASE TestSend
  <2>1. Throughput[nth + 1] \in Cmds /\ nth \in Nat /\ nth' \in Nat /\ nth' >= nth
        /\ TakeEntry(Throughput[nth + 1])
    BY <1>13, NextSent DEF TestSend, UserType
  <2>2. QED
    BY <2>1, TakeCommand
<1>14. CASE TestGivesUp
  BY <1>14, UnsentKept DEF TestGivesUp
<1>15. CASE TestRing
  <2>1. Unsent' \subseteq Unsent
    BY <1>15, UnsentStep DEF TestRing, UserType
  <2>2. QED
    BY <1>15, <2>1 DEF TestRing
<1>16. ASSUME NEW a \in Actors, RingAgain(a)
       PROVE  CommandInv'
  BY <1>16, UnsentKept DEF RingAgain
<1>17. CASE IsrRead
  BY <1>17, UnsentKept DEF IsrRead
<1>18. CASE IsrEnd
  BY <1>18, UnsentKept DEF IsrEnd
<1>19. ASSUME NEW l \in Lists, WorkStart(l)
       PROVE  CommandInv'
  BY <1>19, UnsentKept DEF WorkStart
<1>20. ASSUME NEW l \in Lists, WorkPull(l)
       PROVE  CommandInv'
  BY <1>20, UnsentKept DEF WorkPull
<1>21. ASSUME NEW l \in Lists, WorkReply(l)
       PROVE  CommandInv'
  <2>1. IdToPosition(reply[l].id) \in Positions /\ ListRemove(l, IdToPosition(reply[l].id))
        /\ nth' = nth
    BY <1>21, ReplyPosition DEF WorkReply
  <2>2. QED
    BY <2>1, RemoveCommand
<1>22. ASSUME NEW l \in Lists, WorkEnd(l)
       PROVE  CommandInv'
  BY <1>22, UnsentKept DEF WorkEnd
<1>23. ASSUME NEW k \in Kinds, AsyncRequest(k)
       PROVE  CommandInv'
  BY <1>23, UnsentKept DEF AsyncRequest
<1>24. ASSUME NEW k \in Kinds, AsyncAccepted(k)
       PROVE  CommandInv'
  BY <1>24, UnsentKept DEF AsyncAccepted
<1>25. ASSUME NEW k \in Kinds, AsyncDone(k)
       PROVE  CommandInv'
  BY <1>25, UnsentKept DEF AsyncDone, StartFlush
<1>26. ASSUME NEW k \in Kinds, AsyncEnd(k)
       PROVE  CommandInv'
  BY <1>26, UnsentKept DEF AsyncEnd
<1>27. ASSUME NEW k \in Flushers, FlushEntry(k)
       PROVE  CommandInv'
  <2>1. /\ Head(todo[k])[1] \in Lists /\ Head(todo[k])[2] \in Positions /\ nth' = nth
        /\ ListRemove(Head(todo[k])[1], Head(todo[k])[2])
    BY <1>27, TodoEntry DEF FlushEntry
  <2>2. QED
    BY <2>1, RemoveCommand
<1>28. CASE CleanIntr
  BY <1>28, UnsentKept DEF CleanIntr
<1>29. CASE CleanWork
  BY <1>29, UnsentKept DEF CleanWork
<1>30. CASE CleanIrq
  BY <1>30, UnsentKept DEF CleanIrq, StartFlush
<1>31. CASE CleanEnd
  BY <1>31, UnsentKept DEF CleanEnd
<1>32. CASE DeviceIdle
  BY <1>32, UnsentKept DEF DeviceIdle
<1>33. CASE DeviceAccept
  BY <1>33, UnsentKept DEF DeviceAccept
<1>34. ASSUME NEW l \in Lists, DeviceReply(l)
       PROVE  CommandInv'
  BY <1>34, UnsentKept DEF DeviceReply
<1>35. ASSUME NEW k \in Kinds, DeviceDone(k)
       PROVE  CommandInv'
  BY <1>35, UnsentKept DEF DeviceDone
<1>36. CASE UNCHANGED vars
  BY <1>36, UnsentKept DEF vars
<1>37. QED
  BY <1>1, <1>2, <1>3, <1>4, <1>5, <1>6, <1>7, <1>8, <1>9, <1>10, <1>11, <1>12,
     <1>13, <1>14, <1>15, <1>16, <1>17, <1>18, <1>19, <1>20, <1>21, <1>22,
     <1>23, <1>24, <1>25, <1>26, <1>27, <1>28, <1>29, <1>30, <1>31, <1>32,
     <1>33, <1>34, <1>35, <1>36
     DEF Next, Probe, Send, Test, Work, Async, Cleanup, Device, Flushers

-----------------------------------------------------------------------------
(* The entries no command has; the chain has just these.                   *)
Unheld(l) == Positions \ {pos[c] : c \in Holding(l)}

(* What is in a list no flush has been started on: each entry belongs to   *)
(* one command, which it holds once filled in, or is on the chain.         *)
EntriesInv(l) ==
    /\ \A c, d \in Holding(l) : pos[c] = pos[d] => c = d
    /\ Chain(lists[l].next, lists[l].free, Unheld(l))
    /\ \A c \in Filled(l) : lists[l].command[pos[c]] = c
    /\ \A p \in Positions : lists[l].command[p] # None =>
           lists[l].command[p] \in Filled(l) /\ pos[lists[l].command[p]] = p

(* What a step can do to the entries of a list.                            *)
SameEntries(l) ==
    /\ lists'[l] = lists[l]
    /\ Holding(l)' = Holding(l) /\ Filled(l)' = Filled(l)
    /\ \A c \in Holding(l) : pos'[c] = pos[c]

TakesEntry(l, c) ==
    /\ ListOf[c] = l /\ c \notin Holding(l) /\ TakeEntry(c)
    /\ Holding(l)' = Holding(l) \union {c} /\ Filled(l)' = Filled(l)

FillsEntry(l, c) ==
    /\ ListOf[c] = l /\ c \in Holding(l) \ Filled(l) /\ Fill(c)
    /\ Holding(l)' = Holding(l) /\ Filled(l)' = Filled(l) \union {c}

RemovesEntry(l, c) ==
    /\ c \in Holding(l) /\ ListRemove(l, pos[c]) /\ pos' = pos
    /\ Holding(l)' = Holding(l) \ {c} /\ Filled(l)' = Filled(l) \ {c}

(* Only what has an entry has it filled in.                                *)
LEMMA HoldingAre ==
    ASSUME NEW l
    PROVE  Filled(l) \subseteq Holding(l) /\ Holding(l) \subseteq Cmds
BY DEF Holding, Filled

(* EntriesInv survives a step that leaves the entries alone...             *)
LEMMA SameKept ==
    ASSUME NEW l \in Lists, EntriesInv(l), SameEntries(l)
    PROVE  EntriesInv(l)'
<1>1. Unheld(l)' = Unheld(l)
  BY DEF SameEntries, Unheld
<1>2. /\ lists'[l] = lists[l] /\ Holding(l)' = Holding(l) /\ Filled(l)' = Filled(l)
      /\ \A c \in Holding(l) : pos'[c] = pos[c]
      /\ Filled(l) \subseteq Holding(l)
  BY HoldingAre DEF SameEntries
<1>3. QED
  BY <1>1, <1>2 DEF EntriesInv

(* ...one that takes the first free entry: it was free, so nobody has      *)
(* it...                                                                   *)
LEMMA TakeKept ==
    ASSUME ListType, NEW l \in Lists, NEW c \in Cmds, EntriesInv(l), TakesEntry(l, c)
    PROVE  EntriesInv(l)'
<1> DEFINE p == lists[l].free
           next == lists[l].next
<1>1. /\ lists'[l].command = lists[l].command /\ lists'[l].next = next /\ p \in Positions
      /\ lists'[l].free = next[p]
      /\ pos' = [pos EXCEPT ![c] = p]
  BY TakeIs DEF ListType, TakesEntry
<1>2. /\ \A d, e \in Holding(l) : pos[d] = pos[e] => d = e
      /\ Chain(next, p, Unheld(l))
      /\ \A d \in Filled(l) : lists[l].command[pos[d]] = d
      /\ \A q \in Positions : lists[l].command[q] # None =>
             lists[l].command[q] \in Filled(l) /\ pos[lists[l].command[q]] = q
  BY DEF EntriesInv
<1>3. p \in Unheld(l)
  BY <1>1, <1>2, PositionsAre DEF Chain, Closed
<1>4. /\ Filled(l) \subseteq Holding(l) /\ Holding(l) \subseteq Cmds /\ c \notin Holding(l)
      /\ Holding(l)' = Holding(l) \union {c} /\ Filled(l)' = Filled(l)
  BY HoldingAre DEF TakesEntry
<1>5. /\ pos'[c] = p /\ \A d \in Holding(l) : pos'[d] = pos[d] /\ pos[d] # p
  BY <1>1, <1>3, <1>4 DEF ListType, Unheld
<1>6. Unheld(l)' = Unheld(l) \ {p}
  BY <1>4, <1>5 DEF Unheld
<1>7. Chain(lists'[l].next, lists'[l].free, Unheld(l)')
  <2>1. Unheld(l) \in SUBSET Positions
    BY DEF Unheld
  <2> HIDE DEF p, next
  <2>2. Chain(next, next[p], Unheld(l) \ {p})
    BY <1>2, <1>3, <2>1, ChainPop
  <2>3. QED
    BY <1>1, <1>6, <2>2
<1> HIDE DEF p, next
<1>8. \A d, e \in Holding(l)' : pos'[d] = pos'[e] => d = e
  BY <1>2, <1>4, <1>5
<1>9. /\ \A d \in Filled(l)' : lists'[l].command[pos'[d]] = d
      /\ \A q \in Positions : lists'[l].command[q] # None =>
             lists'[l].command[q] \in Filled(l)' /\ pos'[lists'[l].command[q]] = q
  BY <1>1, <1>2, <1>4, <1>5
<1>10. QED
  BY <1>7, <1>8, <1>9 DEF EntriesInv

(* ...one that fills in the entry a command has...                         *)
LEMMA FillKept ==
    ASSUME ListType, NEW l \in Lists, NEW c \in Cmds, EntriesInv(l), FillsEntry(l, c)
    PROVE  EntriesInv(l)'
<1> DEFINE command == lists[l].command
<1>1. /\ lists'[l].command = [command EXCEPT ![pos[c]] = c]
      /\ lists'[l].next = lists[l].next /\ lists'[l].free = lists[l].free
      /\ pos' = pos
  BY FillIs DEF ListType, FillsEntry, Fill
<1>2. /\ \A d, e \in Holding(l) : pos[d] = pos[e] => d = e
      /\ Chain(lists[l].next, lists[l].free, Unheld(l))
      /\ \A d \in Filled(l) : command[pos[d]] = d
      /\ \A q \in Positions : command[q] # None =>
             command[q] \in Filled(l) /\ pos[command[q]] = q
  BY DEF EntriesInv
<1>3. /\ Filled(l) \subseteq Holding(l) /\ Holding(l) \subseteq Cmds /\ c \in Holding(l) \ Filled(l)
      /\ Holding(l)' = Holding(l) /\ Filled(l)' = Filled(l) \union {c}
  BY HoldingAre DEF FillsEntry
<1>4. /\ command \in [Positions -> Cmds \union {None}]
      /\ \A d \in Cmds : pos[d] \in Positions
  BY DEF ListType, ListTypes
<1>5. Unheld(l)' = Unheld(l)
  BY <1>1, <1>3 DEF Unheld
<1> HIDE DEF command
<1>6. /\ \A d \in Filled(l)' : lists'[l].command[pos'[d]] = d
      /\ \A q \in Positions : lists'[l].command[q] # None =>
             lists'[l].command[q] \in Filled(l)' /\ pos'[lists'[l].command[q]] = q
  BY <1>1, <1>2, <1>3, <1>4
<1>7. QED
  BY <1>1, <1>2, <1>3, <1>5, <1>6 DEF EntriesInv

(* ...and one that gives it back: it was not on the chain, and is its      *)
(* first entry then.                                                       *)
LEMMA RemoveKept ==
    ASSUME ListType, NEW l \in Lists, NEW c \in Cmds, EntriesInv(l), RemovesEntry(l, c)
    PROVE  EntriesInv(l)'
<1> DEFINE command == lists[l].command
           next == lists[l].next
           p == pos[c]
<1>1. p \in Positions /\ ListRemove(l, p) /\ pos' = pos
  BY DEF ListType, RemovesEntry
<1>2. /\ lists'[l].command = [command EXCEPT ![p] = None]
      /\ lists'[l].next = [next EXCEPT ![p] = lists[l].free]
      /\ lists'[l].free = p
  BY <1>1, RemoveIs DEF ListType
<1>3. /\ \A d, e \in Holding(l) : pos[d] = pos[e] => d = e
      /\ Chain(next, lists[l].free, Unheld(l))
      /\ \A d \in Filled(l) : command[pos[d]] = d
      /\ \A q \in Positions : command[q] # None =>
             command[q] \in Filled(l) /\ pos[command[q]] = q
  BY DEF EntriesInv
<1>4. /\ Filled(l) \subseteq Holding(l) /\ Holding(l) \subseteq Cmds /\ c \in Holding(l)
      /\ Holding(l)' = Holding(l) \ {c} /\ Filled(l)' = Filled(l) \ {c}
  BY HoldingAre DEF RemovesEntry
<1>5. /\ command \in [Positions -> Cmds \union {None}]
      /\ next \in [Positions -> Positions \union {NULL}]
      /\ \A d \in Cmds : pos[d] \in Positions
  BY DEF ListType, ListTypes
<1>6. Unheld(l)' = Unheld(l) \union {p} /\ p \notin Unheld(l) /\ Unheld(l) \in SUBSET Positions
  BY <1>1, <1>3, <1>4, <1>5 DEF Unheld
<1>7. Chain(lists'[l].next, lists'[l].free, Unheld(l)')
  <2> HIDE DEF next, p
  <2>1. p \in Positions \ Unheld(l)
    BY <1>1, <1>6
  <2>2. Chain([next EXCEPT ![p] = lists[l].free], p, Unheld(l) \union {p})
    BY <1>3, <1>5, <1>6, <2>1, ChainPush
  <2>3. QED
    BY <1>2, <1>6, <2>2
<1>8. \A d, e \in Holding(l)' : pos'[d] = pos'[e] => d = e
  BY <1>1, <1>3, <1>4
<1>9. \A d \in Filled(l) : d # c => pos[d] # p
  BY <1>3, <1>4
<1>10. None \notin Cmds
  BY CmdAssumption
<1> HIDE DEF p, command, next
<1>11. /\ \A d \in Filled(l)' : lists'[l].command[pos'[d]] = d
       /\ \A q \in Positions :
              lists'[l].command[q] # None => q # p /\ lists'[l].command[q] = command[q]
  BY <1>1, <1>2, <1>3, <1>4, <1>5, <1>9
<1>12. pos[c] = p
  BY DEF p
<1>13. \A q \in Positions : lists'[l].command[q] # None =>
             lists'[l].command[q] \in Filled(l)' /\ pos'[lists'[l].command[q]] = q
  BY <1>1, <1>3, <1>4, <1>11, <1>12
<1>14. QED
  BY <1>7, <1>8, <1>11, <1>13 DEF EntriesInv

(* One of the four.                                                        *)
Moves(l) ==
    \/ SameEntries(l)
    \/ \E c \in Cmds : TakesEntry(l, c) \/ FillsEntry(l, c) \/ RemovesEntry(l, c)

(* No flush reaches the list in this step.                                 *)
Untouched(l) == life \notin Probing /\ l \notin flushed'

(* So EntriesInv survives every such step.                                 *)
LEMMA EntriesMove ==
    ASSUME ListType, NEW l \in Lists, EntriesInv(l), Moves(l)
    PROVE  EntriesInv(l)'
<1>1. CASE SameEntries(l)
  BY <1>1, SameKept
<1>2. ASSUME NEW c \in Cmds, TakesEntry(l, c)
      PROVE  EntriesInv(l)'
  BY <1>2, TakeKept
<1>3. ASSUME NEW c \in Cmds, FillsEntry(l, c)
      PROVE  EntriesInv(l)'
  BY <1>3, FillKept
<1>4. ASSUME NEW c \in Cmds, RemovesEntry(l, c)
      PROVE  EntriesInv(l)'
  BY <1>4, RemoveKept
<1>5. QED
  BY <1>1, <1>2, <1>3, <1>4 DEF Moves

(* The messages of a list name commands in flight, each once, and the      *)
(* entry each has.                                                         *)
Answers(l, m) == m.cmd \in inflight /\ ListOf[m.cmd] = l /\ m.id = pos[m.cmd]

MessagesInv(l) ==
    /\ \A i \in DOMAIN subq[l] : Answers(l, subq[l][i])
    /\ \A i \in DOMAIN repq[l] : Answers(l, repq[l][i])
    /\ \A i, j \in DOMAIN subq[l] : subq[l][i].cmd = subq[l][j].cmd => i = j
    /\ \A i, j \in DOMAIN repq[l] : repq[l][i].cmd = repq[l][j].cmd => i = j
    /\ \A i \in DOMAIN subq[l], j \in DOMAIN repq[l] : subq[l][i].cmd # repq[l][j].cmd
    /\ wpc[l] = "reply" =>
           /\ Answers(l, reply[l])
           /\ \A i \in DOMAIN subq[l] : subq[l][i].cmd # reply[l].cmd
           /\ \A i \in DOMAIN repq[l] : repq[l][i].cmd # reply[l].cmd

(* A flush goes through lists that count as flushed.                       *)
TodoInv == \A k \in Flushers : \A i \in DOMAIN todo[k] : todo[k][i][1] \in flushed

(* Both hold of every list from ListsInit until its first flush.           *)
ListInv(l) == life \notin Probing /\ l \notin flushed => EntriesInv(l) /\ MessagesInv(l)

(* A flush comes to entries of lists that are flushed.                     *)
LEMMA TodoHead ==
    ASSUME FlushType, TodoInv, NEW k \in Flushers, todo[k] # <<>>
    PROVE  Head(todo[k])[1] \in flushed
<1>1. todo[k] \in Seq(Lists \X Positions)
  BY DEF FlushType
<1>2. 1 \in DOMAIN todo[k] /\ Head(todo[k]) = todo[k][1]
  BY <1>1, HeadTailProperties, LenProperties, EmptySeq
<1>3. QED
  BY <1>2 DEF TodoInv

(* A send that takes an entry.                                             *)
LEMMA TakeMove ==
    ASSUME UserType, ListType, NEW l \in Lists, NEW c \in Cmds, TakeEntry(c),
           pc[c] \in {"idle", "again"}, c \notin inflight
    PROVE  Moves(l)
<1>1. /\ pc' = [pc EXCEPT ![c] = "fill"] /\ inflight' = inflight
      /\ pos' = [pos EXCEPT ![c] = lists[ListOf[c]].free]
  BY DEF TakeEntry, userVars
<1>2. c \notin Holding(l) /\ \A d \in Cmds : d # c => pc'[d] = pc[d] /\ pos'[d] = pos[d]
  BY <1>1 DEF Holding, UserType, ListType
<1>3. CASE ListOf[c] = l
  <2>1. Holding(l)' = Holding(l) \union {c} /\ Filled(l)' = Filled(l)
    BY <1>1, <1>2, <1>3 DEF Holding, Filled, UserType
  <2>2. QED
    BY <1>2, <1>3, <2>1 DEF TakesEntry, Moves
<1>4. CASE ListOf[c] # l
  <2>1. Holding(l)' = Holding(l) /\ Filled(l)' = Filled(l)
    BY <1>1, <1>2, <1>4 DEF Holding, Filled, UserType
  <2>2. lists'[l] = lists[l]
    BY <1>4, TakeIs DEF ListType
  <2>3. QED
    BY <1>2, <2>1, <2>2, HoldingAre DEF SameEntries, Moves
<1>5. QED
  BY <1>3, <1>4

(* A removal and the callback from it leave other lists alone...           *)
LEMMA CallbackElsewhere ==
    ASSUME TypeInv, CommandInv, NEW a, NEW m \in Lists, NEW p \in Positions,
           ListRemove(m, p), Callback(a, m, p), pos' = pos, NEW l \in Lists \ {m}
    PROVE  /\ SameEntries(l)
           /\ \A c \in inflight : ListOf[c] = l => c \in inflight'
<1>1. PICK c : c = lists[m].command[p]
  OBVIOUS
<1>2. /\ \A d \in Cmds : pc'[d] # pc[d] => d = c /\ pc[d] = "idle" /\ pc'[d] = "again"
      /\ inflight' = inflight \ {c}
  BY <1>1, CallbackIs DEF TypeInv
<1>3. \A d \in Cmds : d = c => ListOf[d] # l
  BY <1>1, CmdAssumption DEF CommandInv
<1>4. Holding(l)' = Holding(l) /\ Filled(l)' = Filled(l)
  BY <1>2, <1>3 DEF Holding, Filled
<1>5. lists'[l] = lists[l]
  BY RemoveIs DEF TypeInv, ListType
<1>6. \A d \in inflight : ListOf[d] = l => d \in inflight'
  BY <1>2, <1>3 DEF TypeInv, UserType
<1>7. QED
  BY <1>4, <1>5, <1>6 DEF SameEntries

(* ...and give back the entry of the command that is answered.             *)
LEMMA CallbackHere ==
    ASSUME TypeInv, SendInv, NEW l \in Lists, EntriesInv(l), NEW a, NEW c \in inflight,
           ListOf[c] = l,
           ListRemove(l, pos[c]), Callback(a, l, pos[c]), pos' = pos
    PROVE  RemovesEntry(l, c) /\ inflight' = inflight \ {c}
<1>1. c \in Cmds /\ c \in Holding(l) /\ c \in Filled(l)
  BY DEF TypeInv, UserType, Holding, Filled, SendInv
<1>2. lists[l].command[pos[c]] = c
  BY <1>1 DEF EntriesInv
<1>3. /\ \A d \in Cmds : pc'[d] # pc[d] => d = c /\ pc[d] = "idle" /\ pc'[d] = "again"
      /\ inflight' = inflight \ {c}
  BY <1>2, CallbackIs DEF TypeInv
<1>4. pc[c] \notin {"fill", "push"}
  BY <1>1 DEF SendInv
<1>5. Holding(l)' = Holding(l) \ {c}
  BY <1>1, <1>3, <1>4 DEF Holding
<1>6. Filled(l)' = Filled(l) \ {c}
  BY <1>1, <1>3, <1>4, <1>5, HoldingAre DEF Filled
<1>7. QED
  BY <1>1, <1>3, <1>5, <1>6 DEF RemovesEntry

(* No sender and no entry moves.                                           *)
SameSends == UNCHANGED <<lists, pos, pc, inflight>>
(* A step that moves no sender and no entry is one that leaves entries     *)
(* alone.                                                                  *)
LEMMA SendsKept ==
    ASSUME NEW l, SameSends
    PROVE  Moves(l)
BY DEF SameSends, SameEntries, Moves, Holding, Filled

(* In a list no flush has reached, every step is one of the four: a reply  *)
(* is to the command whose entry it names, so that its removal is of that  *)
(* command.                                                                *)
LEMMA EveryMove ==
    ASSUME TypeInv, ListType, UserType, QueueType, FlushType, SendInv, CommandInv, TodoInv,
           NEW l \in Lists, ListInv(l), Untouched(l), [Next]_vars
    PROVE  Moves(l)
<1> USE DEF SameSends, sendVars, thptVars, userVars, queueVars, intrVars, workVars, asyncVars,
            flushVars
<1>1. CASE ModuleInit
  BY <1>1, SendsKept DEF ModuleInit, ProbeStep
<1>2. CASE PciInit
  BY <1>2, SendsKept DEF PciInit, ProbeStep
<1>3. CASE EventsInit
  BY <1>3, SendsKept DEF EventsInit, ProbeStep
<1>4. CASE StartupCheck
  BY <1>4, SendsKept DEF StartupCheck, ProbeStep
<1>5. CASE ListsInit
  BY <1>5 DEF ListsInit, ProbeStep, Untouched, Probing
<1>6. ASSUME NEW c \in Cmds, Add(c)
      PROVE  Moves(l)
  BY <1>6, TakeMove DEF Add
<1>7. ASSUME NEW c \in Cmds, Fill(c)
      PROVE  Moves(l)
  <2>1. /\ pc[c] = "fill" /\ pc' = [pc EXCEPT ![c] = "push"] /\ inflight' = inflight /\ pos' = pos
        /\ c \notin inflight
    BY <1>7 DEF Fill, SendInv
  <2>2. Holding(l)' = Holding(l)
    BY <2>1 DEF Holding, UserType
  <2>3. CASE ListOf[c] = l
    <3>1. c \in Holding(l) \ Filled(l) /\ Filled(l)' = Filled(l) \union {c}
      BY <2>1, <2>2, <2>3 DEF Holding, Filled, UserType
    <3>2. QED
      BY <1>7, <2>2, <2>3, <3>1 DEF Moves, FillsEntry
  <2>4. CASE ListOf[c] # l
    <3>1. Filled(l)' = Filled(l)
      BY <2>1, <2>2, <2>4 DEF Holding, Filled, UserType
    <3>2. lists'[l] = lists[l]
      BY <1>7, <2>4, FillIs DEF ListType
    <3>3. QED
      BY <2>1, <2>2, <3>1, <3>2 DEF Moves, SameEntries
  <2>5. QED
    BY <2>3, <2>4
<1>8. ASSUME NEW c \in Cmds, Push(c)
      PROVE  Moves(l)
  <2>1. /\ pc[c] = "push" /\ pc'[c] \in {"idle", "ring"} /\ inflight' = inflight \union {c}
        /\ pos' = pos /\ lists' = lists /\ \A d \in Cmds : d # c => pc'[d] = pc[d]
    BY <1>8 DEF Push, UserType
  <2>2. Holding(l)' = Holding(l)
    BY <2>1 DEF Holding
  <2>3. Filled(l)' = Filled(l)
    BY <2>1, <2>2, HoldingAre DEF Filled
  <2>4. QED
    BY <2>1, <2>2, <2>3 DEF Moves, SameEntries
<1>9. ASSUME NEW c \in Cmds, PushRefused(c)
      PROVE  Moves(l)
  <2>1. /\ pc[c] = "push" /\ pc'[c] = "idle" /\ inflight' = inflight /\ c \notin inflight
        /\ pos' = pos /\ ListRemove(ListOf[c], pos[c]) /\ \A d \in Cmds : d # c => pc'[d] = pc[d]
    BY <1>9 DEF PushRefused, UserType, SendInv
  <2>2. CASE ListOf[c] = l
    <3>1. c \in Holding(l) /\ Holding(l)' = Holding(l) \ {c}
      BY <2>1, <2>2 DEF Holding
    <3>2. Filled(l)' = Filled(l) \ {c}
      BY <2>1, <3>1, HoldingAre DEF Filled
    <3>3. QED
      BY <2>1, <2>2, <3>1, <3>2 DEF Moves, RemovesEntry
  <2>3. CASE ListOf[c] # l
    <3>1. Holding(l)' = Holding(l) /\ c \notin Holding(l)
      BY <2>1, <2>3 DEF Holding
    <3>2. Filled(l)' = Filled(l)
      BY <2>1, <3>1, HoldingAre DEF Filled
    <3>3. ListOf[c] \in Lists /\ pos[c] \in Positions
      BY CmdAssumption DEF ListType
    <3>4. lists'[l] = lists[l]
      BY <2>1, <2>3, <3>3, RemoveIs DEF ListType
    <3>5. QED
      BY <2>1, <3>1, <3>2, <3>4 DEF Moves, SameEntries
  <2>4. QED
    BY <2>2, <2>3
<1>10. ASSUME NEW c \in Cmds, Ring(c)
       PROVE  Moves(l)
  <2>1. /\ pc[c] \notin {"fill", "push"} /\ pc'[c] = "idle" /\ inflight' = inflight
        /\ pos' = pos /\ lists' = lists /\ \A d \in Cmds : d # c => pc'[d] = pc[d]
    BY <1>10 DEF Ring, UserType
  <2>2. Holding(l)' = Holding(l)
    BY <2>1 DEF Holding
  <2>3. Filled(l)' = Filled(l)
    BY <2>1, <2>2, HoldingAre DEF Filled
  <2>4. QED
    BY <2>1, <2>2, <2>3 DEF Moves, SameEntries
<1>11. ASSUME NEW c \in Cmds, Again(c)
       PROVE  Moves(l)
  BY <1>11, TakeMove DEF Again, SendInv
<1>12. ASSUME NEW c \in Cmds, AgainFails(c)
       PROVE  Moves(l)
  <2>1. /\ pc[c] \notin {"fill", "push"} /\ pc'[c] = "idle" /\ inflight' = inflight
        /\ pos' = pos /\ lists' = lists /\ \A d \in Cmds : d # c => pc'[d] = pc[d]
    BY <1>12 DEF AgainFails, UserType
  <2>2. Holding(l)' = Holding(l)
    BY <2>1 DEF Holding
  <2>3. Filled(l)' = Filled(l)
    BY <2>1, <2>2, HoldingAre DEF Filled
  <2>4. QED
    BY <2>1, <2>2, <2>3 DEF Moves, SameEntries
<1>13. CASE TestSend
  <2>1. Throughput[nth + 1] \in Cmds /\ Throughput[nth + 1] \in Unsent
        /\ TakeEntry(Throughput[nth + 1])
    BY <1>13, NextSent, UnsentSend DEF TestSend, UserType
  <2>2. QED
    BY <2>1, TakeMove DEF SendInv
<1>14. CASE TestGivesUp
  BY <1>14, SendsKept DEF TestGivesUp
<1>15. CASE TestRing
  BY <1>15, SendsKept DEF TestRing
<1>16. ASSUME NEW a \in Actors, RingAgain(a)
       PROVE  Moves(l)
  BY <1>16, SendsKept DEF RingAgain
<1>17. CASE IsrRead
  BY <1>17, SendsKept DEF IsrRead
<1>18. CASE IsrEnd
  BY <1>18, SendsKept DEF IsrEnd
<1>19. ASSUME NEW m \in Lists, WorkStart(m)
       PROVE  Moves(l)
  BY <1>19, SendsKept DEF WorkStart
<1>20. ASSUME NEW m \in Lists, WorkPull(m)
       PROVE  Moves(l)
  BY <1>20, SendsKept DEF WorkPull
<1>21. ASSUME NEW m \in Lists, WorkReply(m)
       PROVE  Moves(l)
  <2>1. /\ reply[m].id \in Positions /\ ListRemove(m, reply[m].id) /\ Callback(m, m, reply[m].id)
        /\ pos' = pos /\ wpc[m] = "reply" /\ flushed' = flushed
    BY <1>21, ReplyPosition DEF WorkReply
  <2>2. CASE m = l
    <3>1. /\ EntriesInv(l) /\ Answers(l, reply[l])
      BY <2>1, <2>2 DEF ListInv, Untouched, MessagesInv
    <3>2. QED
      BY <2>1, <2>2, <3>1, CallbackHere, HoldingAre DEF Answers, Moves, RemovesEntry
  <2>3. CASE m # l
    BY <2>1, <2>3, CallbackElsewhere DEF Moves
  <2>4. QED
    BY <2>2, <2>3
<1>22. ASSUME NEW m \in Lists, WorkEnd(m)
       PROVE  Moves(l)
  BY <1>22, SendsKept DEF WorkEnd
<1>23. ASSUME NEW k \in Kinds, AsyncRequest(k)
       PROVE  Moves(l)
  BY <1>23, SendsKept DEF AsyncRequest
<1>24. ASSUME NEW k \in Kinds, AsyncAccepted(k)
       PROVE  Moves(l)
  BY <1>24, SendsKept DEF AsyncAccepted
<1>25. ASSUME NEW k \in Kinds, AsyncDone(k)
       PROVE  Moves(l)
  BY <1>25, SendsKept DEF AsyncDone, StartFlush
<1>26. ASSUME NEW k \in Kinds, AsyncEnd(k)
       PROVE  Moves(l)
  BY <1>26, SendsKept DEF AsyncEnd
<1>27. ASSUME NEW k \in Flushers, FlushEntry(k)
       PROVE  Moves(l)
  <2> DEFINE m == Head(todo[k])[1]
             p == Head(todo[k])[2]
  <2>1. m \in Lists /\ p \in Positions /\ m \in flushed
    BY <1>27, TodoEntry, TodoHead DEF FlushEntry
  <2>2. /\ ListRemove(m, p) /\ Callback(k, m, p) /\ pos' = pos /\ flushed' = flushed
    BY <1>27 DEF FlushEntry
  <2>3. m # l
    BY <2>1, <2>2 DEF Untouched
  <2>4. QED
    BY <2>1, <2>2, <2>3, CallbackElsewhere DEF Moves
<1>28. CASE CleanIntr
  BY <1>28, SendsKept DEF CleanIntr
<1>29. CASE CleanWork
  BY <1>29, SendsKept DEF CleanWork
<1>30. CASE CleanIrq
  BY <1>30, SendsKept DEF CleanIrq, StartFlush
<1>31. CASE CleanEnd
  BY <1>31, SendsKept DEF CleanEnd
<1>32. CASE DeviceIdle
  BY <1>32, SendsKept DEF DeviceIdle
<1>33. CASE DeviceAccept
  BY <1>33, SendsKept DEF DeviceAccept
<1>34. ASSUME NEW m \in Lists, DeviceReply(m)
       PROVE  Moves(l)
  BY <1>34, SendsKept DEF DeviceReply
<1>35. ASSUME NEW k \in Kinds, DeviceDone(k)
       PROVE  Moves(l)
  BY <1>35, SendsKept DEF DeviceDone
<1>36. CASE UNCHANGED vars
  BY <1>36, SendsKept DEF vars
<1>37. QED
  BY <1>1, <1>2, <1>3, <1>4, <1>5, <1>6, <1>7, <1>8, <1>9, <1>10, <1>11, <1>12,
     <1>13, <1>14, <1>15, <1>16, <1>17, <1>18, <1>19, <1>20, <1>21, <1>22,
     <1>23, <1>24, <1>25, <1>26, <1>27, <1>28, <1>29, <1>30, <1>31, <1>32,
     <1>33, <1>34, <1>35, <1>36
     DEF Next, Probe, Send, Test, Work, Async, Cleanup, Device, Flushers

-----------------------------------------------------------------------------
(* What most steps leave alone.                                            *)
SameMessages(l) ==
    /\ subq'[l] = subq[l] /\ repq'[l] = repq[l]
    /\ wpc'[l] = "reply" => wpc[l] = "reply" /\ reply'[l] = reply[l]
    /\ \A c \in inflight : ListOf[c] = l => c \in inflight' /\ pos'[c] = pos[c]

(* MessagesInv survives a step that leaves the messages alone.             *)
LEMMA MessagesKept ==
    ASSUME NEW l, MessagesInv(l), SameMessages(l)
    PROVE  MessagesInv(l)'
BY DEF MessagesInv, SameMessages, Answers

(* The queues are sequences of messages.                                   *)
LEMMA QueuesAre ==
    ASSUME QueueType, NEW l \in Lists
    PROVE  /\ subq[l] \in Seq(Messages) /\ repq[l] \in Seq(Messages)
           /\ Len(subq[l]) \in Nat /\ DOMAIN subq[l] = 1 .. Len(subq[l])
           /\ Len(repq[l]) \in Nat /\ DOMAIN repq[l] = 1 .. Len(repq[l])
<1>1. subq[l] \in Seq(Messages) /\ repq[l] \in Seq(Messages)
  BY DEF QueueType
<1>2. QED
  BY <1>1, LenProperties

(* What a push makes of a queue...                                         *)
LEMMA AppendIs ==
    ASSUME NEW s \in Seq(Messages), NEW m \in Messages
    PROVE  /\ DOMAIN Append(s, m) = DOMAIN s \union {Len(s) + 1} /\ Len(s) + 1 \notin DOMAIN s
           /\ Append(s, m)[Len(s) + 1] = m
           /\ \A i \in DOMAIN s : Append(s, m)[i] = s[i]
<1>1. /\ Len(s) \in Nat /\ DOMAIN s = 1 .. Len(s)
      /\ Append(s, m) \in Seq(Messages) /\ Len(Append(s, m)) = Len(s) + 1
      /\ DOMAIN Append(s, m) = 1 .. Len(Append(s, m))
      /\ \A i \in 1 .. Len(s) : Append(s, m)[i] = s[i]
      /\ Append(s, m)[Len(s) + 1] = m
  BY AppendProperties, LenProperties
<1>2. QED
  BY <1>1

(* ...and what a pull does.                                                *)
LEMMA TailIs ==
    ASSUME NEW s \in Seq(Messages), s # <<>>
    PROVE  /\ 1 \in DOMAIN s /\ Head(s) = s[1] /\ Head(s) \in Messages
           /\ \A i \in DOMAIN Tail(s) : i + 1 \in DOMAIN s /\ i + 1 # 1 /\ Tail(s)[i] = s[i + 1]
           /\ \A i, j \in DOMAIN Tail(s) : i + 1 = j + 1 => i = j
<1>1. /\ Head(s) \in Messages /\ Tail(s) \in Seq(Messages) /\ Len(Tail(s)) = Len(s) - 1
      /\ \A i \in 1 .. Len(Tail(s)) : Tail(s)[i] = s[i + 1]
  BY HeadTailProperties
<1>2. Len(s) \in Nat /\ DOMAIN s = 1 .. Len(s) /\ DOMAIN Tail(s) = 1 .. Len(Tail(s)) /\ Len(s) # 0
  BY <1>1, LenProperties, EmptySeq
<1>3. Head(s) = s[1]
  BY HeadTailProperties
<1>4. 1 \in DOMAIN s /\ \A i \in DOMAIN Tail(s) : i \in Nat /\ i + 1 \in DOMAIN s /\ i + 1 # 1
  BY <1>1, <1>2
<1>5. \A i, j \in DOMAIN Tail(s) : i + 1 = j + 1 => i = j
  BY <1>4
<1>6. QED
  BY <1>1, <1>2, <1>3, <1>4, <1>5

(* A command that is pushed was not in flight, so no other message is for  *)
(* it.                                                                     *)
LEMMA PushMessages ==
    ASSUME TypeInv, SendInv, NEW l \in Lists, MessagesInv(l), NEW c \in Cmds, Push(c)
    PROVE  MessagesInv(l)'
<1> DEFINE m == [cmd |-> c, id |-> GenerateId(pos[c])]
<1>1. /\ c \notin inflight /\ inflight' = inflight \union {c} /\ pos' = pos
      /\ repq' = repq /\ wpc' = wpc /\ reply' = reply
      /\ subq' = [subq EXCEPT ![ListOf[c]] = Append(subq[ListOf[c]], m)]
  BY DEF Push, SendInv, workVars
<1>2. CASE ListOf[c] # l
  <2>1. subq'[l] = subq[l]
    BY <1>1, <1>2
  <2>2. QED
    BY <1>1, <2>1, MessagesKept DEF SameMessages
<1>3. CASE ListOf[c] = l
  <2>1. pos[c] \in Positions
    BY DEF TypeInv, ListType
  <2>2. m \in Messages /\ m.cmd = c /\ m.id = pos[c]
    BY <2>1, PositionsAre DEF Messages
  <2>3. subq[l] \in Seq(Messages)
    BY QueuesAre DEF TypeInv
  <2> DEFINE s == subq[l]
             n == Len(s) + 1
  <2>4. subq'[l] = Append(s, m)
    BY <1>1, <1>3 DEF TypeInv, QueueType
  <2> HIDE DEF m
  <2>5. /\ DOMAIN subq'[l] = DOMAIN s \union {n} /\ n \notin DOMAIN s
        /\ subq'[l][n] = m /\ \A i \in DOMAIN s : subq'[l][i] = s[i]
    BY <2>2, <2>3, <2>4, AppendIs
  <2> HIDE DEF s, n
  <2>6. /\ \A i \in DOMAIN s : Answers(l, s[i])
        /\ \A i \in DOMAIN repq[l] : Answers(l, repq[l][i])
        /\ \A i, j \in DOMAIN s : s[i].cmd = s[j].cmd => i = j
        /\ \A i, j \in DOMAIN repq[l] : repq[l][i].cmd = repq[l][j].cmd => i = j
        /\ \A i \in DOMAIN s, j \in DOMAIN repq[l] : s[i].cmd # repq[l][j].cmd
        /\ wpc[l] = "reply" =>
             /\ Answers(l, reply[l])
             /\ \A i \in DOMAIN s : s[i].cmd # reply[l].cmd
             /\ \A i \in DOMAIN repq[l] : repq[l][i].cmd # reply[l].cmd
    BY DEF MessagesInv, s
  <2>7. QED
    BY <1>1, <1>3, <2>2, <2>5, <2>6 DEF MessagesInv, Answers
<1>4. QED
  BY <1>2, <1>3

(* The reply that is pulled is on its own from there.                      *)
LEMMA PullMessages ==
    ASSUME TypeInv, NEW l \in Lists, MessagesInv(l), WorkPull(l)
    PROVE  MessagesInv(l)'
<1>1. repq[l] \in Seq(Messages) /\ repq[l] # <<>>
  BY QueuesAre DEF TypeInv, WorkPull
<1>2. /\ repq'[l] = Tail(repq[l]) /\ reply'[l] = Head(repq[l])
      /\ subq' = subq /\ inflight' = inflight /\ pos' = pos
  BY DEF TypeInv, QueueType, WorkPull, sendVars, userVars
<1>3. /\ 1 \in DOMAIN repq[l] /\ reply'[l] = repq[l][1]
      /\ \A i \in DOMAIN repq'[l] :
             i + 1 \in DOMAIN repq[l] /\ i + 1 # 1 /\ repq'[l][i] = repq[l][i + 1]
      /\ \A i, j \in DOMAIN repq'[l] : i + 1 = j + 1 => i = j
  BY <1>1, <1>2, TailIs
<1>4. QED
  BY <1>2, <1>3 DEF MessagesInv, Answers

(* The command answered leaves, and no other message is for it.            *)
LEMMA ReplyMessages ==
    ASSUME TypeInv, SendInv, NEW l \in Lists, EntriesInv(l), MessagesInv(l), WorkReply(l)
    PROVE  MessagesInv(l)'
<1> DEFINE c == reply[l].cmd
<1>1. /\ reply[l].id \in Positions /\ ListRemove(l, reply[l].id) /\ Callback(l, l, reply[l].id)
      /\ pos' = pos /\ subq' = subq /\ repq' = repq /\ wpc[l] = "reply" /\ wpc'[l] = "run"
  BY ReplyPosition DEF WorkReply, TypeInv, QueueType, queueVars
<1>2. c \in inflight /\ ListOf[c] = l /\ pos[c] = reply[l].id
  BY <1>1 DEF MessagesInv, Answers
<1>3. inflight' = inflight \ {c}
  BY <1>1, <1>2, CallbackHere
<1>4. QED
  BY <1>1, <1>3 DEF MessagesInv, Answers

(* The VPU's answer takes the place of the command.                        *)
LEMMA DeviceMessages ==
    ASSUME TypeInv, NEW l \in Lists, MessagesInv(l), DeviceReply(l)
    PROVE  MessagesInv(l)'
<1> DEFINE s == subq[l]
           t == repq[l]
           n == Len(t) + 1
<1>1. s \in Seq(Messages) /\ t \in Seq(Messages) /\ s # <<>>
  BY QueuesAre DEF TypeInv, DeviceReply
<1>2. /\ subq'[l] = Tail(s) /\ repq'[l] = Append(t, Head(s))
      /\ wpc' = wpc /\ reply' = reply /\ inflight' = inflight /\ pos' = pos
  BY DEF TypeInv, QueueType, DeviceReply, sendVars, userVars, workVars
<1>3. /\ \A i \in DOMAIN s : Answers(l, s[i])
      /\ \A i \in DOMAIN t : Answers(l, t[i])
      /\ \A i, j \in DOMAIN s : s[i].cmd = s[j].cmd => i = j
      /\ \A i, j \in DOMAIN t : t[i].cmd = t[j].cmd => i = j
      /\ \A i \in DOMAIN s, j \in DOMAIN t : s[i].cmd # t[j].cmd
      /\ wpc[l] = "reply" =>
             /\ Answers(l, reply[l])
             /\ \A i \in DOMAIN s : s[i].cmd # reply[l].cmd
             /\ \A i \in DOMAIN t : t[i].cmd # reply[l].cmd
  BY DEF MessagesInv
<1> HIDE DEF s, t
<1>4. /\ 1 \in DOMAIN s /\ Head(s) = s[1] /\ Head(s) \in Messages
      /\ \A i \in DOMAIN subq'[l] : i + 1 \in DOMAIN s /\ i + 1 # 1 /\ subq'[l][i] = s[i + 1]
      /\ \A i, j \in DOMAIN subq'[l] : i + 1 = j + 1 => i = j
  BY <1>1, <1>2, TailIs
<1>5. /\ DOMAIN repq'[l] = DOMAIN t \union {n} /\ n \notin DOMAIN t
      /\ repq'[l][n] = s[1] /\ \A i \in DOMAIN t : repq'[l][i] = t[i]
  BY <1>1, <1>2, <1>4, AppendIs
<1> HIDE DEF n
<1>6. /\ \A i \in DOMAIN subq'[l] : Answers(l, subq'[l][i])
      /\ \A i, j \in DOMAIN subq'[l] : subq'[l][i].cmd = subq'[l][j].cmd => i = j
  BY <1>3, <1>4
<1>7. /\ \A i \in DOMAIN repq'[l] : Answers(l, repq'[l][i])
      /\ \A i, j \in DOMAIN repq'[l] : repq'[l][i].cmd = repq'[l][j].cmd => i = j
  BY <1>3, <1>4, <1>5
<1>8. \A i \in DOMAIN subq'[l], j \in DOMAIN repq'[l] : subq'[l][i].cmd # repq'[l][j].cmd
  BY <1>3, <1>4, <1>5
<1>9. wpc[l] = "reply" =>
         /\ \A i \in DOMAIN subq'[l] : subq'[l][i].cmd # reply[l].cmd
         /\ \A i \in DOMAIN repq'[l] : repq'[l][i].cmd # reply[l].cmd
  BY <1>3, <1>4, <1>5
<1>10. QED
  BY <1>2, <1>3, <1>6, <1>7, <1>8, <1>9 DEF MessagesInv, Answers

(* A queue that is preempted or reset loses messages.                      *)
LEMMA DoneMessages ==
    ASSUME TypeInv, NEW l \in Lists, MessagesInv(l), NEW k \in Kinds, DeviceDone(k)
    PROVE  MessagesInv(l)'
<1>1. /\ repq' = repq /\ wpc' = wpc /\ reply' = reply /\ inflight' = inflight /\ pos' = pos
      /\ subq'[l] = <<>> \/ subq'[l] = subq[l]
  BY DEF DeviceDone, sendVars, userVars, workVars
<1>2. DOMAIN subq'[l] = {} \/ subq'[l] = subq[l]
  BY <1>1
<1>3. QED
  BY <1>1, <1>2 DEF MessagesInv, Answers

(* Most steps touch nothing of it.                                         *)
LEMMA MessagesStay ==
    ASSUME NEW l, MessagesInv(l), UNCHANGED <<subq, repq, wpc, reply, inflight, pos>>
    PROVE  MessagesInv(l)'
BY MessagesKept DEF SameMessages

(* The position that changes is not of a command in flight.                *)
LEMMA TakeMessages ==
    ASSUME NEW l, MessagesInv(l), NEW c, c \notin inflight, TakeEntry(c)
    PROVE  MessagesInv(l)'
<1>1. /\ subq' = subq /\ repq' = repq /\ wpc' = wpc /\ reply' = reply /\ inflight' = inflight
      /\ pos' = [pos EXCEPT ![c] = lists[ListOf[c]].free]
  BY DEF TakeEntry, queueVars, workVars, userVars
<1>2. QED
  BY <1>1, MessagesKept DEF SameMessages

(* Every step preserves MessagesInv in a list no flush has reached.        *)
LEMMA MessagesStep ==
    ASSUME TypeInv, SendInv, CommandInv, TodoInv,
           NEW l \in Lists, ListInv(l), MessagesInv(l), Untouched(l), [Next]_vars
    PROVE  MessagesInv(l)'
<1> USE DEF sendVars, thptVars, userVars, queueVars, intrVars, workVars, asyncVars, flushVars
<1>1. CASE ModuleInit
  BY <1>1, MessagesStay DEF ModuleInit, ProbeStep
<1>2. CASE PciInit
  BY <1>2, MessagesStay DEF PciInit, ProbeStep
<1>3. CASE EventsInit
  BY <1>3, MessagesStay DEF EventsInit, ProbeStep
<1>4. CASE StartupCheck
  BY <1>4, MessagesStay DEF StartupCheck, ProbeStep
<1>5. CASE ListsInit
  BY <1>5 DEF ListsInit, ProbeStep, Untouched, Probing
<1>6. ASSUME NEW c \in Cmds, Add(c)
      PROVE  MessagesInv(l)'
  BY <1>6, TakeMessages DEF Add
<1>7. ASSUME NEW c \in Cmds, Fill(c)
      PROVE  MessagesInv(l)'
  BY <1>7, MessagesStay DEF Fill
<1>8. ASSUME NEW c \in Cmds, Push(c)
      PROVE  MessagesInv(l)'
  BY <1>8, PushMessages
<1>9. ASSUME NEW c \in Cmds, PushRefused(c)
      PROVE  MessagesInv(l)'
  BY <1>9, MessagesStay DEF PushRefused, ListRemove
<1>10. ASSUME NEW c \in Cmds, Ring(c)
       PROVE  MessagesInv(l)'
  BY <1>10, MessagesStay DEF Ring
<1>11. ASSUME NEW c \in Cmds, Again(c)
       PROVE  MessagesInv(l)'
  BY <1>11, TakeMessages DEF Again, SendInv
<1>12. ASSUME NEW c \in Cmds, AgainFails(c)
       PROVE  MessagesInv(l)'
  BY <1>12, MessagesStay DEF AgainFails
<1>13. CASE TestSend
  <2>1. Throughput[nth + 1] \in Unsent /\ TakeEntry(Throughput[nth + 1])
    BY <1>13, UnsentSend DEF TestSend, TypeInv, UserType
  <2>2. QED
    BY <2>1, TakeMessages DEF SendInv
<1>14. CASE TestGivesUp
  BY <1>14, MessagesStay DEF TestGivesUp
<1>15. CASE TestRing
  BY <1>15, MessagesStay DEF TestRing
<1>16. ASSUME NEW a \in Actors, RingAgain(a)
       PROVE  MessagesInv(l)'
  BY <1>16, MessagesStay DEF RingAgain
<1>17. CASE IsrRead
  BY <1>17, MessagesStay DEF IsrRead
<1>18. CASE IsrEnd
  BY <1>18, MessagesStay DEF IsrEnd
<1>19. ASSUME NEW m \in Lists, WorkStart(m)
       PROVE  MessagesInv(l)'
  <2>1. /\ wpc' = [wpc EXCEPT ![m] = "run"] /\ UNCHANGED <<subq, repq, reply, inflight, pos>>
    BY <1>19 DEF WorkStart
  <2>2. QED
    BY <2>1, MessagesKept DEF SameMessages, TypeInv, QueueType
<1>20. ASSUME NEW m \in Lists, WorkPull(m)
       PROVE  MessagesInv(l)'
  <2>1. CASE m = l
    BY <1>20, <2>1, PullMessages
  <2>2. CASE m # l
    <3>1. /\ UNCHANGED <<subq, inflight, pos>>
          /\ repq'[l] = repq[l] /\ wpc'[l] = wpc[l] /\ reply'[l] = reply[l]
      BY <1>20, <2>2 DEF WorkPull
    <3>2. QED
      BY <3>1, MessagesKept DEF SameMessages
  <2>3. QED
    BY <2>1, <2>2
<1>21. ASSUME NEW m \in Lists, WorkReply(m)
       PROVE  MessagesInv(l)'
  <2>1. CASE m = l
    <3>1. EntriesInv(l)
      BY <1>21 DEF ListInv, Untouched, WorkReply
    <3>2. QED
      BY <1>21, <2>1, <3>1, ReplyMessages
  <2>2. CASE m # l
    <3>1. /\ reply[m].id \in Positions /\ ListRemove(m, reply[m].id) /\ Callback(m, m, reply[m].id)
          /\ pos' = pos
      BY <1>21, ReplyPosition DEF WorkReply, TypeInv
    <3>2. \A c \in inflight : ListOf[c] = l => c \in inflight'
      BY <2>2, <3>1, CallbackElsewhere
    <3>3. /\ UNCHANGED <<subq, repq>> /\ wpc'[l] = wpc[l] /\ reply'[l] = reply[l]
      BY <1>21, <2>2 DEF WorkReply
    <3>4. QED
      BY <3>1, <3>2, <3>3, MessagesKept DEF SameMessages
  <2>3. QED
    BY <2>1, <2>2
<1>22. ASSUME NEW m \in Lists, WorkEnd(m)
       PROVE  MessagesInv(l)'
  <2>1. /\ wpc' = [wpc EXCEPT ![m] = "idle"] /\ UNCHANGED <<subq, repq, reply, inflight, pos>>
    BY <1>22 DEF WorkEnd
  <2>2. QED
    BY <2>1, MessagesKept DEF SameMessages, TypeInv, QueueType
<1>23. ASSUME NEW k \in Kinds, AsyncRequest(k)
       PROVE  MessagesInv(l)'
  BY <1>23, MessagesStay DEF AsyncRequest
<1>24. ASSUME NEW k \in Kinds, AsyncAccepted(k)
       PROVE  MessagesInv(l)'
  BY <1>24, MessagesStay DEF AsyncAccepted
<1>25. ASSUME NEW k \in Kinds, AsyncDone(k)
       PROVE  MessagesInv(l)'
  BY <1>25, MessagesStay DEF AsyncDone, StartFlush
<1>26. ASSUME NEW k \in Kinds, AsyncEnd(k)
       PROVE  MessagesInv(l)'
  BY <1>26, MessagesStay DEF AsyncEnd
<1>27. ASSUME NEW k \in Flushers, FlushEntry(k)
       PROVE  MessagesInv(l)'
  <2> DEFINE m == Head(todo[k])[1]
             p == Head(todo[k])[2]
  <2>1. m \in Lists /\ p \in Positions /\ m \in flushed
    BY <1>27, TodoEntry, TodoHead DEF FlushEntry, TypeInv
  <2>2. /\ ListRemove(m, p) /\ Callback(k, m, p) /\ pos' = pos /\ flushed' = flushed
        /\ UNCHANGED <<subq, repq, wpc, reply>>
    BY <1>27 DEF FlushEntry
  <2>3. m # l
    BY <2>1, <2>2 DEF Untouched
  <2>4. \A c \in inflight : ListOf[c] = l => c \in inflight'
    BY <2>1, <2>2, <2>3, CallbackElsewhere
  <2>5. QED
    BY <2>2, <2>4, MessagesKept DEF SameMessages
<1>28. CASE CleanIntr
  BY <1>28, MessagesStay DEF CleanIntr
<1>29. CASE CleanWork
  BY <1>29, MessagesStay DEF CleanWork
<1>30. CASE CleanIrq
  BY <1>30, MessagesStay DEF CleanIrq, StartFlush
<1>31. CASE CleanEnd
  BY <1>31, MessagesStay DEF CleanEnd
<1>32. CASE DeviceIdle
  BY <1>32, MessagesStay DEF DeviceIdle
<1>33. CASE DeviceAccept
  BY <1>33, MessagesStay DEF DeviceAccept
<1>34. ASSUME NEW m \in Lists, DeviceReply(m)
       PROVE  MessagesInv(l)'
  <2>1. CASE m = l
    BY <1>34, <2>1, DeviceMessages
  <2>2. CASE m # l
    <3>1. UNCHANGED <<wpc, reply, inflight, pos>> /\ repq'[l] = repq[l] /\ subq'[l] = subq[l]
      BY <1>34, <2>2 DEF DeviceReply
    <3>2. QED
      BY <3>1, MessagesKept DEF SameMessages
  <2>3. QED
    BY <2>1, <2>2
<1>35. ASSUME NEW k \in Kinds, DeviceDone(k)
       PROVE  MessagesInv(l)'
  BY <1>35, DoneMessages
<1>36. CASE UNCHANGED vars
  BY <1>36, MessagesStay DEF vars
<1>37. QED
  BY <1>1, <1>2, <1>3, <1>4, <1>5, <1>6, <1>7, <1>8, <1>9, <1>10, <1>11, <1>12,
     <1>13, <1>14, <1>15, <1>16, <1>17, <1>18, <1>19, <1>20, <1>21, <1>22,
     <1>23, <1>24, <1>25, <1>26, <1>27, <1>28, <1>29, <1>30, <1>31, <1>32,
     <1>33, <1>34, <1>35, <1>36
     DEF Next, Probe, Send, Test, Work, Async, Cleanup, Device, Flushers

-----------------------------------------------------------------------------

(* What is left of a flush when one entry is done.                         *)
LEMMA TodoTail ==
    ASSUME FlushType, NEW k \in Flushers, todo[k] # <<>>
    PROVE  /\ \A i \in DOMAIN Tail(todo[k]) :
                  i + 1 \in DOMAIN todo[k] /\ Tail(todo[k])[i] = todo[k][i + 1]
           /\ \A i \in DOMAIN todo[k] : i # 1 =>
                  \E j \in DOMAIN Tail(todo[k]) : Tail(todo[k])[j] = todo[k][i]
<1> DEFINE s == todo[k]
           E == Lists \X Positions
<1>1. s \in Seq(E) /\ s # <<>>
  BY DEF FlushType
<1> HIDE DEF s, E
<1>2. /\ Tail(s) \in Seq(E) /\ Len(Tail(s)) = Len(s) - 1
      /\ \A i \in 1 .. Len(Tail(s)) : Tail(s)[i] = s[i + 1]
  BY <1>1, HeadTailProperties
<1>3. Len(s) \in Nat /\ DOMAIN s = 1 .. Len(s) /\ DOMAIN Tail(s) = 1 .. Len(Tail(s))
  BY <1>1, <1>2, LenProperties
<1>4. \A i \in DOMAIN Tail(s) : i + 1 \in DOMAIN s /\ Tail(s)[i] = s[i + 1]
  BY <1>2, <1>3
<1>5. \A i \in DOMAIN s : i # 1 => i - 1 \in DOMAIN Tail(s) /\ (i - 1) + 1 = i
  BY <1>2, <1>3
<1>6. \A i \in DOMAIN s : i # 1 => Tail(s)[i - 1] = s[i]
  BY <1>2, <1>3, <1>5
<1>7. QED
  BY <1>4, <1>5, <1>6 DEF s

(* A list stays flushed, and a flush notes its lists as it starts.         *)
LEMMA TodoStep ==
    ASSUME FlushType, TodoInv, [Next]_vars
    PROVE  TodoInv' /\ flushed \subseteq flushed'
<1> USE DEF TodoInv, sendVars, thptVars, userVars, queueVars, intrVars, workVars, asyncVars,
            flushVars
<1>1. CASE ModuleInit
  BY <1>1 DEF ModuleInit, ProbeStep
<1>2. CASE PciInit
  BY <1>2 DEF PciInit, ProbeStep
<1>3. CASE EventsInit
  BY <1>3 DEF EventsInit, ProbeStep
<1>4. CASE StartupCheck
  BY <1>4 DEF StartupCheck, ProbeStep
<1>5. CASE ListsInit
  BY <1>5 DEF ListsInit, ProbeStep
<1>6. ASSUME NEW c \in Cmds, Add(c)
      PROVE  TodoInv' /\ flushed \subseteq flushed'
  BY <1>6 DEF Add, TakeEntry
<1>7. ASSUME NEW c \in Cmds, Fill(c)
      PROVE  TodoInv' /\ flushed \subseteq flushed'
  BY <1>7 DEF Fill
<1>8. ASSUME NEW c \in Cmds, Push(c)
      PROVE  TodoInv' /\ flushed \subseteq flushed'
  BY <1>8 DEF Push
<1>9. ASSUME NEW c \in Cmds, PushRefused(c)
      PROVE  TodoInv' /\ flushed \subseteq flushed'
  BY <1>9 DEF PushRefused, ListRemove
<1>10. ASSUME NEW c \in Cmds, Ring(c)
       PROVE  TodoInv' /\ flushed \subseteq flushed'
  BY <1>10 DEF Ring
<1>11. ASSUME NEW c \in Cmds, Again(c)
       PROVE  TodoInv' /\ flushed \subseteq flushed'
  BY <1>11 DEF Again, TakeEntry
<1>12. ASSUME NEW c \in Cmds, AgainFails(c)
       PROVE  TodoInv' /\ flushed \subseteq flushed'
  BY <1>12 DEF AgainFails
<1>13. CASE TestSend
  BY <1>13 DEF TestSend, TakeEntry
<1>14. CASE TestGivesUp
  BY <1>14 DEF TestGivesUp
<1>15. CASE TestRing
  BY <1>15 DEF TestRing
<1>16. ASSUME NEW a \in Actors, RingAgain(a)
       PROVE  TodoInv' /\ flushed \subseteq flushed'
  BY <1>16 DEF RingAgain
<1>17. CASE IsrRead
  BY <1>17 DEF IsrRead
<1>18. CASE IsrEnd
  BY <1>18 DEF IsrEnd
<1>19. ASSUME NEW l \in Lists, WorkStart(l)
       PROVE  TodoInv' /\ flushed \subseteq flushed'
  BY <1>19 DEF WorkStart
<1>20. ASSUME NEW l \in Lists, WorkPull(l)
       PROVE  TodoInv' /\ flushed \subseteq flushed'
  BY <1>20 DEF WorkPull
<1>21. ASSUME NEW l \in Lists, WorkReply(l)
       PROVE  TodoInv' /\ flushed \subseteq flushed'
  BY <1>21 DEF WorkReply, ListRemove, Callback
<1>22. ASSUME NEW l \in Lists, WorkEnd(l)
       PROVE  TodoInv' /\ flushed \subseteq flushed'
  BY <1>22 DEF WorkEnd
<1>23. ASSUME NEW k \in Kinds, AsyncRequest(k)
       PROVE  TodoInv' /\ flushed \subseteq flushed'
  BY <1>23 DEF AsyncRequest
<1>24. ASSUME NEW k \in Kinds, AsyncAccepted(k)
       PROVE  TodoInv' /\ flushed \subseteq flushed'
  BY <1>24 DEF AsyncAccepted
<1>25. ASSUME NEW k \in Kinds, AsyncDone(k)
       PROVE  TodoInv' /\ flushed \subseteq flushed'
  <2>1. k \in Flushers /\ FlushOf[k] \in SUBSET Lists
    BY FlushOfIs DEF Flushers
  <2>2. /\ todo' = [todo EXCEPT ![k] = FlushOrder(FlushOf[k])]
        /\ flushed' = flushed \union FlushOf[k]
    BY <1>25 DEF AsyncDone, StartFlush
  <2>3. \A i \in DOMAIN FlushOrder(FlushOf[k]) : FlushOrder(FlushOf[k])[i][1] \in FlushOf[k]
    BY <2>1, FlushOrderIs
  <2>4. QED
    BY <2>1, <2>2, <2>3
<1>26. ASSUME NEW k \in Kinds, AsyncEnd(k)
       PROVE  TodoInv' /\ flushed \subseteq flushed'
  BY <1>26 DEF AsyncEnd
<1>27. ASSUME NEW k \in Flushers, FlushEntry(k)
       PROVE  TodoInv' /\ flushed \subseteq flushed'
  <2>1. todo[k] # <<>> /\ todo' = [todo EXCEPT ![k] = Tail(todo[k])] /\ flushed' = flushed
    BY <1>27 DEF FlushEntry
  <2>2. \A i \in DOMAIN Tail(todo[k]) :
            i + 1 \in DOMAIN todo[k] /\ Tail(todo[k])[i] = todo[k][i + 1]
    BY <2>1, TodoTail
  <2>3. QED
    BY <2>1, <2>2
<1>28. CASE CleanIntr
  BY <1>28 DEF CleanIntr
<1>29. CASE CleanWork
  BY <1>29 DEF CleanWork
<1>30. CASE CleanIrq
  <2>1. "cleanup" \in Flushers
    BY DEF Flushers
  <2>2. todo' = [todo EXCEPT !["cleanup"] = FlushOrder(Lists)] /\ flushed' = flushed \union Lists
    BY <1>30 DEF CleanIrq, StartFlush
  <2>3. \A i \in DOMAIN FlushOrder(Lists) : FlushOrder(Lists)[i][1] \in Lists
    BY FlushOrderIs
  <2>4. QED
    BY <2>1, <2>2, <2>3
<1>31. CASE CleanEnd
  BY <1>31 DEF CleanEnd
<1>32. CASE DeviceIdle
  BY <1>32 DEF DeviceIdle
<1>33. CASE DeviceAccept
  BY <1>33 DEF DeviceAccept
<1>34. ASSUME NEW l \in Lists, DeviceReply(l)
       PROVE  TodoInv' /\ flushed \subseteq flushed'
  BY <1>34 DEF DeviceReply
<1>35. ASSUME NEW k \in Kinds, DeviceDone(k)
       PROVE  TodoInv' /\ flushed \subseteq flushed'
  BY <1>35 DEF DeviceDone
<1>36. CASE UNCHANGED vars
  BY <1>36 DEF vars
<1>37. QED
  BY <1>1, <1>2, <1>3, <1>4, <1>5, <1>6, <1>7, <1>8, <1>9, <1>10, <1>11, <1>12,
     <1>13, <1>14, <1>15, <1>16, <1>17, <1>18, <1>19, <1>20, <1>21, <1>22,
     <1>23, <1>24, <1>25, <1>26, <1>27, <1>28, <1>29, <1>30, <1>31, <1>32,
     <1>33, <1>34, <1>35, <1>36
     DEF Next, Probe, Send, Test, Work, Async, Cleanup, Device, Flushers

(* The one step out of the probe is ListsInit.                             *)
LEMMA ListsMade ==
    ASSUME [Next]_vars, life \in Probing, life' \notin Probing, QuietInv
    PROVE  ListsInit
<1> USE DEF Probing, QuietInv, sendVars, userVars, queueVars, intrVars, workVars, asyncVars,
            flushVars
<1>1. CASE ModuleInit
  BY <1>1 DEF ModuleInit, ProbeStep
<1>2. CASE PciInit
  BY <1>2 DEF PciInit, ProbeStep
<1>3. CASE EventsInit
  BY <1>3 DEF EventsInit, ProbeStep
<1>4. CASE StartupCheck
  BY <1>4 DEF StartupCheck, ProbeStep
<1>5. CASE ListsInit
  BY <1>5 DEF ListsInit, ProbeStep
<1>6. ASSUME NEW c \in Cmds, Add(c)
      PROVE  ListsInit
  BY <1>6 DEF Add, TakeEntry, Probed
<1>7. ASSUME NEW c \in Cmds, Fill(c)
      PROVE  ListsInit
  BY <1>7 DEF Fill
<1>8. ASSUME NEW c \in Cmds, Push(c)
      PROVE  ListsInit
  BY <1>8 DEF Push
<1>9. ASSUME NEW c \in Cmds, PushRefused(c)
      PROVE  ListsInit
  BY <1>9 DEF PushRefused, ListRemove
<1>10. ASSUME NEW c \in Cmds, Ring(c)
       PROVE  ListsInit
  BY <1>10 DEF Ring
<1>11. ASSUME NEW c \in Cmds, Again(c)
       PROVE  ListsInit
  BY <1>11 DEF Again, TakeEntry
<1>12. ASSUME NEW c \in Cmds, AgainFails(c)
       PROVE  ListsInit
  BY <1>12 DEF AgainFails
<1>13. CASE TestSend
  BY <1>13 DEF TestSend, TakeEntry, Probed
<1>14. CASE TestGivesUp
  BY <1>14 DEF TestGivesUp, Probed
<1>15. CASE TestRing
  BY <1>15 DEF TestRing
<1>16. ASSUME NEW a \in Actors, RingAgain(a)
       PROVE  ListsInit
  BY <1>16 DEF RingAgain
<1>17. CASE IsrRead
  BY <1>17 DEF IsrRead
<1>18. CASE IsrEnd
  BY <1>18 DEF IsrEnd
<1>19. ASSUME NEW l \in Lists, WorkStart(l)
       PROVE  ListsInit
  BY <1>19 DEF WorkStart
<1>20. ASSUME NEW l \in Lists, WorkPull(l)
       PROVE  ListsInit
  BY <1>20 DEF WorkPull
<1>21. ASSUME NEW l \in Lists, WorkReply(l)
       PROVE  ListsInit
  BY <1>21 DEF WorkReply, ListRemove, Callback
<1>22. ASSUME NEW l \in Lists, WorkEnd(l)
       PROVE  ListsInit
  BY <1>22 DEF WorkEnd
<1>23. ASSUME NEW k \in Kinds, AsyncRequest(k)
       PROVE  ListsInit
  BY <1>23 DEF AsyncRequest, Probed
<1>24. ASSUME NEW k \in Kinds, AsyncAccepted(k)
       PROVE  ListsInit
  BY <1>24 DEF AsyncAccepted
<1>25. ASSUME NEW k \in Kinds, AsyncDone(k)
       PROVE  ListsInit
  BY <1>25 DEF AsyncDone, StartFlush
<1>26. ASSUME NEW k \in Kinds, AsyncEnd(k)
       PROVE  ListsInit
  BY <1>26 DEF AsyncEnd
<1>27. ASSUME NEW k \in Flushers, FlushEntry(k)
       PROVE  ListsInit
  BY <1>27 DEF FlushEntry, ListRemove, Callback
<1>28. CASE CleanIntr
  BY <1>28 DEF CleanIntr
<1>29. CASE CleanWork
  BY <1>29 DEF CleanWork
<1>30. CASE CleanIrq
  BY <1>30 DEF CleanIrq, StartFlush
<1>31. CASE CleanEnd
  BY <1>31 DEF CleanEnd
<1>32. CASE DeviceIdle
  BY <1>32 DEF DeviceIdle
<1>33. CASE DeviceAccept
  BY <1>33 DEF DeviceAccept
<1>34. ASSUME NEW l \in Lists, DeviceReply(l)
       PROVE  ListsInit
  BY <1>34 DEF DeviceReply
<1>35. ASSUME NEW k \in Kinds, DeviceDone(k)
       PROVE  ListsInit
  BY <1>35 DEF DeviceDone
<1>36. CASE UNCHANGED vars
  BY <1>36 DEF vars
<1>37. QED
  BY <1>1, <1>2, <1>3, <1>4, <1>5, <1>6, <1>7, <1>8, <1>9, <1>10, <1>11, <1>12,
     <1>13, <1>14, <1>15, <1>16, <1>17, <1>18, <1>19, <1>20, <1>21, <1>22,
     <1>23, <1>24, <1>25, <1>26, <1>27, <1>28, <1>29, <1>30, <1>31, <1>32,
     <1>33, <1>34, <1>35, <1>36
     DEF Next, Probe, Send, Test, Work, Async, Cleanup, Device, Flushers

(* ListsInit makes lists in which every entry is free.                     *)
LEMMA MadeLists ==
    ASSUME ListsInit, QuietInv, NEW l \in Lists
    PROVE  EntriesInv(l)' /\ MessagesInv(l)'
<1>1. /\ inflight' = {} /\ \A c \in Cmds : pc'[c] = "idle"
      /\ subq'[l] = <<>> /\ repq'[l] = <<>> /\ wpc'[l] = "idle"
  BY DEF ListsInit, ProbeStep, QuietInv, Probing, sendVars, userVars, queueVars, workVars
<1>2. lists'[l] = CmdListInit
  BY DEF ListsInit
<1>3. Holding(l)' = {} /\ Filled(l)' = {} /\ Unheld(l)' = Positions
  BY <1>1 DEF Holding, Filled, Unheld
<1>4. \A p \in Positions : CmdListInit.command[p] = None
  BY DEF CmdListInit
<1>5. EntriesInv(l)'
  BY <1>2, <1>3, <1>4, ChainInit DEF EntriesInv
<1>6. MessagesInv(l)'
  BY <1>1 DEF MessagesInv
<1>7. QED
  BY <1>5, <1>6

(* What is in a list stays right until the list is flushed.                *)
LEMMA ListStep ==
    ASSUME TypeInv, QuietInv, SendInv, CommandInv, TodoInv, [Next]_vars,
           NEW l \in Lists, ListInv(l)
    PROVE  ListInv(l)'
<1> SUFFICES ASSUME life' \notin Probing, l \notin flushed'
             PROVE  EntriesInv(l)' /\ MessagesInv(l)'
  BY DEF ListInv, Probing
<1>1. CASE life \in Probing
  BY <1>1, ListsMade, MadeLists
<1>2. CASE life \notin Probing
  <2>1. l \notin flushed
    BY TodoStep DEF TypeInv
  <2>2. Untouched(l) /\ EntriesInv(l) /\ MessagesInv(l)
    BY <1>2, <2>1 DEF Untouched, ListInv
  <2>3. Moves(l)
    BY <2>2, EveryMove DEF TypeInv
  <2>4. QED
    BY <2>2, <2>3, EntriesMove, MessagesStep DEF TypeInv
<1>3. QED
  BY <1>1, <1>2

-----------------------------------------------------------------------------
(* The inductive invariant, but for what flushes are about (DueInv).       *)
Inv ==
    /\ TypeInv /\ QuietInv /\ HandlerInv /\ SendInv /\ CommandInv /\ TodoInv
    /\ \A l \in Lists : ListInv(l)

(* The inductive invariant holds at first...                               *)
LEMMA InvInit == Init => Inv
<1> SUFFICES ASSUME Init PROVE Inv
  OBVIOUS
<1>1. TypeInv
  BY TypeInit
<1>2. QuietInv /\ HandlerInv
  BY DEF Init, QuietInv, HandlerInv, Probing, Flushers
<1>3. SendInv
  BY UnsentAre DEF Init, SendInv
<1>4. CommandInv
  BY DEF Init, CommandInv, CmdListZero
<1>5. TodoInv
  BY DEF Init, TodoInv, Flushers
<1>6. \A l \in Lists : ListInv(l)
  BY DEF Init, ListInv, Probing
<1>7. QED
  BY <1>1, <1>2, <1>3, <1>4, <1>5, <1>6 DEF Inv

(* ...and every step preserves it.                                         *)
LEMMA InvStep ==
    ASSUME Inv, [Next]_vars
    PROVE  Inv'
<1>1. /\ TypeInv /\ QuietInv /\ HandlerInv /\ SendInv /\ CommandInv /\ TodoInv
      /\ \A l \in Lists : ListInv(l)
  BY DEF Inv
<1>2. TypeInv' /\ QuietInv' /\ HandlerInv'
  BY <1>1, TypeStep, QuietStep, HandlerStep
<1>3. SendInv' /\ CommandInv'
  BY <1>1, SendStep, CommandStep
<1>4. TodoInv'
  BY <1>1, TodoStep DEF TypeInv
<1>5. \A l \in Lists : ListInv(l)'
  BY <1>1, ListStep
<1>6. QED
  BY <1>2, <1>3, <1>4, <1>5 DEF Inv

(* Every state a run of the driver reaches satisfies the invariant.        *)
THEOREM Invariance == Spec => []Inv
<1>1. Inv /\ [Next]_vars => Inv'
  BY InvStep
<1>2. QED
  BY InvInit, <1>1, PTL DEF Spec

(* Until the first flush of a list no two commands have the same entry, no *)
(* entry is both free and in use, none is lost, and the entry of a command *)
(* holds that command: so mxvp_reply_to_command, which looks at nothing    *)
(* but the position in a reply, calls the callback of the command that was *)
(* answered.                                                               *)
THEOREM EntriesAreOwned == Spec => []OneEntryEach
<1>1. ASSUME Inv, Probed, NEW l \in Lists \ flushed
      PROVE  /\ \A c, d \in Holding(l) : pos[c] = pos[d] => c = d
             /\ FreeEntries(l) = Positions \ {pos[c] : c \in Holding(l)}
             /\ \A p \in Positions :
                   lists[l].command[p] = IF \E c \in Filled(l) : pos[c] = p
                                         THEN CHOOSE c \in Filled(l) : pos[c] = p ELSE None
  <2>1. EntriesInv(l)
    BY <1>1 DEF Inv, ListInv, Probed, Probing
  <2>2. FreeEntries(l) = Unheld(l)
    <3>1. l \in Lists /\ Unheld(l) \in SUBSET Positions
      BY <1>1 DEF Unheld
    <3>2. Chain(lists[l].next, lists[l].free, Unheld(l))
      BY <2>1 DEF EntriesInv
    <3>3. QED
      BY <3>1, <3>2, FreeOf
  <2>3. ASSUME NEW p \in Positions, NEW c \in Filled(l), pos[c] = p
        PROVE  lists[l].command[p] = CHOOSE d \in Filled(l) : pos[d] = p
    <3>1. \A d \in Filled(l) : pos[d] = p => d = c
      BY <2>1, <2>3, HoldingAre DEF EntriesInv
    <3>2. (CHOOSE d \in Filled(l) : pos[d] = p) = c
      BY <2>3, <3>1
    <3>3. QED
      BY <2>1, <2>3, <3>2 DEF EntriesInv
  <2>4. ASSUME NEW p \in Positions, ~ \E c \in Filled(l) : pos[c] = p
        PROVE  lists[l].command[p] = None
    BY <2>1, <2>4 DEF EntriesInv
  <2>5. QED
    BY <2>1, <2>2, <2>3, <2>4 DEF EntriesInv, Unheld
<1>2. Inv => OneEntryEach
  BY <1>1 DEF OneEntryEach
<1>3. QED
  BY Invariance, <1>2, PTL

(* The reply handlers run only after mxvp_cmd_list_init and before         *)
(* mxvp_bspec_cleanup has cancelled them, and none is queued when the      *)
(* lists are freed, unless an interrupt was under way as interrupts were   *)
(* disabled.                                                               *)
THEOREM HandlersStop == Spec => []HandlersMeetLists
<1>1. Inv => HandlersMeetLists
  BY DEF Inv, HandlerInv, HandlersMeetLists
<1>2. QED
  BY Invariance, <1>1, PTL

-----------------------------------------------------------------------------
(* Until the first flush a callback is that of the command answered.       *)
LEMMA ChannelStep ==
    ASSUME Inv, [Next]_vars
    PROVE  Channel!Next \/ flushed # {} \/ UNCHANGED <<inflight, calls>>
<1> SUFFICES ASSUME flushed = {}
             PROVE  Channel!Next \/ UNCHANGED <<inflight, calls>>
  OBVIOUS
<1>0. TypeInv /\ SendInv /\ CommandInv /\ TodoInv /\ QuietInv /\ \A l \in Lists : ListInv(l)
  BY DEF Inv
<1> USE DEF sendVars, userVars, queueVars, intrVars, workVars, asyncVars, flushVars
<1>1. CASE ModuleInit
  BY <1>1 DEF ModuleInit, ProbeStep
<1>2. CASE PciInit
  BY <1>2 DEF PciInit, ProbeStep
<1>3. CASE EventsInit
  BY <1>3 DEF EventsInit, ProbeStep
<1>4. CASE StartupCheck
  BY <1>4 DEF StartupCheck, ProbeStep
<1>5. CASE ListsInit
  BY <1>5 DEF ListsInit, ProbeStep
<1>6. ASSUME NEW c \in Cmds, Add(c)
      PROVE  Channel!Next \/ UNCHANGED <<inflight, calls>>
  BY <1>6 DEF Add, TakeEntry
<1>7. ASSUME NEW c \in Cmds, Fill(c)
      PROVE  Channel!Next \/ UNCHANGED <<inflight, calls>>
  BY <1>7 DEF Fill
<1>8. ASSUME NEW c \in Cmds, Push(c)
      PROVE  Channel!Next \/ UNCHANGED <<inflight, calls>>
  <2>1. c \notin inflight /\ inflight' = inflight \union {c} /\ calls' = calls
    BY <1>8, <1>0 DEF Push, SendInv
  <2>2. QED
    BY <2>1 DEF Channel!Next, Channel!Submit
<1>9. ASSUME NEW c \in Cmds, PushRefused(c)
      PROVE  Channel!Next \/ UNCHANGED <<inflight, calls>>
  BY <1>9 DEF PushRefused, ListRemove
<1>10. ASSUME NEW c \in Cmds, Ring(c)
       PROVE  Channel!Next \/ UNCHANGED <<inflight, calls>>
  BY <1>10 DEF Ring
<1>11. ASSUME NEW c \in Cmds, Again(c)
       PROVE  Channel!Next \/ UNCHANGED <<inflight, calls>>
  BY <1>11 DEF Again, TakeEntry
<1>12. ASSUME NEW c \in Cmds, AgainFails(c)
       PROVE  Channel!Next \/ UNCHANGED <<inflight, calls>>
  BY <1>12 DEF AgainFails
<1>13. CASE TestSend
  BY <1>13 DEF TestSend, TakeEntry
<1>14. CASE TestGivesUp
  BY <1>14 DEF TestGivesUp
<1>15. CASE TestRing
  BY <1>15 DEF TestRing
<1>16. ASSUME NEW a \in Actors, RingAgain(a)
       PROVE  Channel!Next \/ UNCHANGED <<inflight, calls>>
  BY <1>16 DEF RingAgain
<1>17. CASE IsrRead
  BY <1>17 DEF IsrRead
<1>18. CASE IsrEnd
  BY <1>18 DEF IsrEnd
<1>19. ASSUME NEW l \in Lists, WorkStart(l)
       PROVE  Channel!Next \/ UNCHANGED <<inflight, calls>>
  BY <1>19 DEF WorkStart
<1>20. ASSUME NEW l \in Lists, WorkPull(l)
       PROVE  Channel!Next \/ UNCHANGED <<inflight, calls>>
  BY <1>20 DEF WorkPull
<1>21. ASSUME NEW l \in Lists, WorkReply(l)
       PROVE  Channel!Next \/ UNCHANGED <<inflight, calls>>
  <2> DEFINE c == reply[l].cmd
  <2>1. life \notin Probing /\ wpc[l] = "reply"
    BY <1>21, <1>0 DEF WorkReply, QuietInv
  <2>2. EntriesInv(l) /\ MessagesInv(l)
    BY <1>21, <1>0, <2>1 DEF ListInv
  <2>3. c \in inflight /\ ListOf[c] = l /\ reply[l].id = pos[c]
    BY <2>1, <2>2 DEF MessagesInv, Answers
  <2>4. c \in Cmds /\ c \in Filled(l)
    BY <1>0, <2>3 DEF TypeInv, UserType, SendInv, Filled, Holding
  <2>5. lists[l].command[pos[c]] = c /\ c # None
    BY <2>2, <2>4, CmdAssumption DEF EntriesInv
  <2>6. Callback(l, l, pos[c])
    BY <1>21, <1>0, <2>1, <2>3, ReplyPosition DEF WorkReply, TypeInv
  <2> HIDE DEF c
  <2>7. inflight' = inflight \ {c} /\ calls' = [calls EXCEPT ![c] = ~@]
    BY <2>5, <2>6 DEF Callback
  <2>8. QED
    BY <2>3, <2>4, <2>7 DEF Channel!Next, Channel!Complete
<1>22. ASSUME NEW l \in Lists, WorkEnd(l)
       PROVE  Channel!Next \/ UNCHANGED <<inflight, calls>>
  BY <1>22 DEF WorkEnd
<1>23. ASSUME NEW k \in Kinds, AsyncRequest(k)
       PROVE  Channel!Next \/ UNCHANGED <<inflight, calls>>
  BY <1>23 DEF AsyncRequest
<1>24. ASSUME NEW k \in Kinds, AsyncAccepted(k)
       PROVE  Channel!Next \/ UNCHANGED <<inflight, calls>>
  BY <1>24 DEF AsyncAccepted
<1>25. ASSUME NEW k \in Kinds, AsyncDone(k)
       PROVE  Channel!Next \/ UNCHANGED <<inflight, calls>>
  BY <1>25 DEF AsyncDone, StartFlush
<1>26. ASSUME NEW k \in Kinds, AsyncEnd(k)
       PROVE  Channel!Next \/ UNCHANGED <<inflight, calls>>
  BY <1>26 DEF AsyncEnd
<1>27. ASSUME NEW k \in Flushers, FlushEntry(k)
       PROVE  Channel!Next \/ UNCHANGED <<inflight, calls>>
  <2>1. QED
    BY <1>27, <1>0, TodoHead DEF FlushEntry, TypeInv
<1>28. CASE CleanIntr
  BY <1>28 DEF CleanIntr
<1>29. CASE CleanWork
  BY <1>29 DEF CleanWork
<1>30. CASE CleanIrq
  BY <1>30 DEF CleanIrq, StartFlush
<1>31. CASE CleanEnd
  BY <1>31 DEF CleanEnd
<1>32. CASE DeviceIdle
  BY <1>32 DEF DeviceIdle
<1>33. CASE DeviceAccept
  BY <1>33 DEF DeviceAccept
<1>34. ASSUME NEW l \in Lists, DeviceReply(l)
       PROVE  Channel!Next \/ UNCHANGED <<inflight, calls>>
  BY <1>34 DEF DeviceReply
<1>35. ASSUME NEW k \in Kinds, DeviceDone(k)
       PROVE  Channel!Next \/ UNCHANGED <<inflight, calls>>
  BY <1>35 DEF DeviceDone
<1>36. CASE UNCHANGED vars
  BY <1>36 DEF vars
<1>37. QED
  BY <1>1, <1>2, <1>3, <1>4, <1>5, <1>6, <1>7, <1>8, <1>9, <1>10, <1>11, <1>12,
     <1>13, <1>14, <1>15, <1>16, <1>17, <1>18, <1>19, <1>20, <1>21, <1>22,
     <1>23, <1>24, <1>25, <1>26, <1>27, <1>28, <1>29, <1>30, <1>31, <1>32,
     <1>33, <1>34, <1>35, <1>36
     DEF Next, Probe, Send, Test, Work, Async, Cleanup, Device, Flushers

(* Until the first flush the driver is a channel: a command is accepted    *)
(* only while it is not in flight, and a callback is called only for one   *)
(* that is, once each time (the promise of mxvp_bspec.h).                  *)
THEOREM AnsweredOnce == Spec => IsChannel
<1>1. Init => Channel!Init
  BY DEF Init, Channel!Init
<1>2. Inv /\ [Next]_vars => [Channel!Next \/ flushed # {}]_<<inflight, calls>>
  BY ChannelStep
<1>3. QED
  BY Invariance, <1>1, <1>2, PTL DEF Spec, IsChannel

-----------------------------------------------------------------------------
(* A flush is yet to come to the entry of a command.                       *)
Ahead(k, c) == \E i \in DOMAIN todo[k] : todo[k][i] = <<ListOf[c], pos[c]>>

(* The entry of a command is its own, and not on the chain: which is all   *)
(* that is left to say once a flush has put free entries there again.      *)
OwnsEntry(c) ==
    /\ c \in inflight
    /\ lists[ListOf[c]].command[pos[c]] = c /\ pos[c] \notin FreeEntries(ListOf[c])
    /\ \A d \in Holding(ListOf[c]) : pos[d] = pos[c] => d = c

(* What a first flush is due to reach.                                     *)
DueInv == \A k \in Flushers : \A c \in due[k] : Ahead(k, c) /\ OwnsEntry(c)

(* A step that leaves list and positions alone.                            *)
LEMMA OwnsKept ==
    ASSUME NEW c \in Cmds, OwnsEntry(c), lists'[ListOf[c]] = lists[ListOf[c]], pos' = pos,
           c \in inflight', Holding(ListOf[c])' \subseteq Holding(ListOf[c])
    PROVE  OwnsEntry(c)'
<1> DEFINE l == ListOf[c]
<1>1. FreeEntries(l)' = FreeEntries(l)
  BY DEF FreeEntries
<1>2. QED
  BY <1>1 DEF OwnsEntry

(* A removal at another entry leaves it with its command.                  *)
LEMMA OwnsRemove ==
    ASSUME ListType, NEW c \in Cmds, OwnsEntry(c), NEW m \in Lists, NEW p \in Positions,
           ListRemove(m, p), m = ListOf[c] => p # pos[c], pos' = pos, c \in inflight',
           Holding(ListOf[c])' \subseteq Holding(ListOf[c])
    PROVE  OwnsEntry(c)'
<1> DEFINE l == ListOf[c]
<1>1. l \in Lists /\ pos[c] \in Positions /\ lists[l].command \in [Positions -> Cmds \union {None}]
      /\ lists[l].next \in [Positions -> Positions \union {NULL}]
  BY CmdAssumption DEF ListType, ListTypes
<1>2. CASE m # l
  <2>1. lists'[l] = lists[l]
    BY <1>1, <1>2, RemoveIs DEF ListType
  <2>2. QED
    BY <2>1, OwnsKept
<1>3. CASE m = l
  <2>1. /\ lists'[l].command = [lists[l].command EXCEPT ![p] = None]
        /\ lists'[l].next = [lists[l].next EXCEPT ![p] = lists[l].free]
        /\ lists'[l].free = p
    BY <1>3, RemoveIs DEF ListType
  <2>2. FreeEntries(l)' \subseteq FreeEntries(l) \union {p}
    BY <1>1, <2>1, FreePush
  <2>3. pos[c] \notin FreeEntries(l)'
    BY <1>3, <2>2 DEF OwnsEntry
  <2>4. lists'[l].command[pos[c]] = c
    BY <1>1, <1>3, <2>1 DEF OwnsEntry
  <2>5. QED
    BY <2>3, <2>4 DEF OwnsEntry
<1>4. QED
  BY <1>2, <1>3

(* An entry that is taken was free: not that of a command in flight.       *)
LEMMA OwnsTake ==
    ASSUME ListType, UserType, NEW c \in Cmds, OwnsEntry(c), NEW d \in Cmds, d # c, TakeEntry(d)
    PROVE  OwnsEntry(c)' /\ pos'[c] = pos[c]
<1> DEFINE l == ListOf[c]
           p == lists[ListOf[d]].free
<1>1. /\ lists' \in [Lists -> ListTypes]
      /\ \A m \in Lists \ {ListOf[d]} : lists'[m] = lists[m]
      /\ lists'[ListOf[d]].command = lists[ListOf[d]].command
      /\ lists'[ListOf[d]].next = lists[ListOf[d]].next
      /\ p \in Positions /\ lists'[ListOf[d]].free = lists[ListOf[d]].next[p]
      /\ pos' = [pos EXCEPT ![d] = p]
  BY TakeIs DEF ListType
<1>2. /\ l \in Lists /\ ListOf[d] \in Lists /\ pos'[c] = pos[c]
      /\ \A e \in Cmds : e # d => pos'[e] = pos[e]
  BY <1>1, CmdAssumption DEF ListType
<1>3. /\ inflight' = inflight /\ pc' = [pc EXCEPT ![d] = "fill"]
  BY DEF TakeEntry, userVars
<1>4. \A e \in Holding(l)' : e # d => e \in Holding(l)
  BY <1>3 DEF Holding, UserType
<1>5. lists'[l].command[pos[c]] = c
  BY <1>1, <1>2 DEF OwnsEntry
<1>6. FreeEntries(l)' \subseteq FreeEntries(l)
  <2>1. CASE ListOf[d] = l
    BY <1>1, <1>2, <2>1, FreePop
  <2>2. CASE ListOf[d] # l
    <3>1. lists'[l] = lists[l]
      BY <1>1, <1>2, <2>2
    <3>2. QED
      BY <3>1 DEF FreeEntries
  <2>3. QED
    BY <2>1, <2>2
<1>7. d \in Holding(l)' => p # pos[c]
  <2>1. SUFFICES ASSUME ListOf[d] = l PROVE p # pos[c]
    BY DEF Holding
  <2>2. p \in FreeEntries(l)
    BY <1>1, <1>2, <2>1, FirstIsFree
  <2>3. QED
    BY <2>2 DEF OwnsEntry
<1>8. \A e \in Holding(l)' : pos'[e] = pos'[c] => e = c
  <2>1. SUFFICES ASSUME NEW e \in Holding(l)', pos'[e] = pos'[c] PROVE e = c
    OBVIOUS
  <2>2. CASE e = d
    BY <1>1, <1>2, <1>7, <2>1, <2>2 DEF ListType
  <2>3. CASE e # d
    <3>1. e \in Holding(l) /\ pos[e] = pos[c]
      BY <1>2, <1>4, <2>1, <2>3, HoldingAre
    <3>2. QED
      BY <3>1 DEF OwnsEntry
  <2>4. QED
    BY <2>2, <2>3
<1>9. QED
  BY <1>2, <1>3, <1>5, <1>6, <1>8 DEF OwnsEntry

(* A sender fills in the entry it has.                                     *)
LEMMA OwnsFill ==
    ASSUME ListType, UserType, SendInv, NEW c \in Cmds, OwnsEntry(c), NEW d \in Cmds, Fill(d)
    PROVE  OwnsEntry(c)'
<1> DEFINE l == ListOf[c]
           m == ListOf[d]
<1>1. /\ pc[d] = "fill" /\ pc' = [pc EXCEPT ![d] = "push"] /\ inflight' = inflight /\ pos' = pos
      /\ d \notin inflight /\ d # c
  BY DEF Fill, SendInv, OwnsEntry, userVars
<1>2. /\ l \in Lists /\ m \in Lists /\ pos[c] \in Positions
      /\ lists[l].command \in [Positions -> Cmds \union {None}]
  BY CmdAssumption DEF ListType, ListTypes
<1>3. Holding(l)' = Holding(l)
  BY <1>1 DEF Holding, UserType
<1>4. CASE m # l
  <2>1. lists'[l] = lists[l]
    BY <1>2, <1>4, FillIs DEF ListType
  <2>2. c \in inflight'
    BY <1>1 DEF OwnsEntry
  <2>3. QED
    BY <1>1, <1>3, <2>1, <2>2, OwnsKept
<1>5. CASE m = l
  <2>1. /\ lists'[l].command = [lists[l].command EXCEPT ![pos[d]] = d]
        /\ lists'[l].next = lists[l].next /\ lists'[l].free = lists[l].free
    BY <1>5, FillIs DEF ListType
  <2>2. d \in Holding(l)
    BY <1>1, <1>5 DEF Holding
  <2>3. pos[d] # pos[c]
    BY <1>1, <2>2 DEF OwnsEntry
  <2>4. lists'[l].command[pos[c]] = c
    BY <1>2, <2>1, <2>3 DEF OwnsEntry
  <2>5. FreeEntries(l)' = FreeEntries(l)
    BY <2>1 DEF FreeEntries
  <2>6. QED
    BY <1>1, <1>3, <2>4, <2>5 DEF OwnsEntry
<1>6. QED
  BY <1>4, <1>5

(* A flush that starts on a list no flush was started on finds every       *)
(* command in flight there.                                                *)
LEMMA OwnsAtFirst ==
    ASSUME TypeInv, SendInv, NEW l \in Lists, EntriesInv(l), NEW c \in inflight, ListOf[c] = l
    PROVE  OwnsEntry(c)
<1>1. c \in Cmds /\ c \in Holding(l) /\ c \in Filled(l)
  BY DEF TypeInv, UserType, SendInv, Holding, Filled
<1>2. FreeEntries(l) = Unheld(l)
  <2>1. Unheld(l) \in SUBSET Positions
    BY DEF Unheld
  <2>2. Chain(lists[l].next, lists[l].free, Unheld(l))
    BY DEF EntriesInv
  <2>3. QED
    BY <2>1, <2>2, FreeOf
<1>3. QED
  BY <1>1, <1>2 DEF EntriesInv, Unheld, OwnsEntry

(* A flush that starts has all its commands ahead of it.                   *)
LEMMA DueAtFirst ==
    ASSUME Inv, NEW k \in Flushers, NEW flush \in SUBSET Lists, StartFlush(k, flush),
           DueInv, life \notin Probing, UNCHANGED <<lists, sendVars, inflight>>
    PROVE  DueInv'
<1>1. TypeInv /\ SendInv /\ \A l \in Lists : ListInv(l)
  BY DEF Inv
<1>2. /\ todo' = [todo EXCEPT ![k] = FlushOrder(flush)]
      /\ due' = [due EXCEPT ![k] = {c \in inflight : ListOf[c] \in flush \ flushed}]
      /\ pos' = pos /\ pc' = pc /\ inflight' = inflight /\ lists' = lists
  BY DEF StartFlush, sendVars
<1>3. \A c \in Cmds : OwnsEntry(c) => OwnsEntry(c)'
  BY <1>2 DEF OwnsEntry, Holding, FreeEntries
<1>4. inflight \subseteq Cmds /\ \A j \in Flushers : due[j] \subseteq Cmds
  BY <1>1 DEF TypeInv, UserType
<1>5. ASSUME NEW c \in due'[k]
      PROVE  (Ahead(k, c) /\ OwnsEntry(c))'
  <2>1. c \in inflight /\ ListOf[c] \in flush \ flushed
    BY <1>1, <1>2, <1>5 DEF TypeInv, UserType
  <2>2. EntriesInv(ListOf[c])
    BY <1>1, <2>1 DEF ListInv
  <2>3. OwnsEntry(c)
    BY <1>1, <2>1, <2>2, OwnsAtFirst
  <2>4. pos[c] \in Positions
    BY <1>1, <1>4, <2>1 DEF TypeInv, ListType
  <2>5. \E i \in DOMAIN FlushOrder(flush) : FlushOrder(flush)[i] = <<ListOf[c], pos[c]>>
    <3>1. \A l \in flush, p \in Positions :
              \E i \in DOMAIN FlushOrder(flush) : FlushOrder(flush)[i] = <<l, p>>
      BY FlushOrderIs
    <3>2. QED
      BY <2>1, <2>4, <3>1
  <2>6. Ahead(k, c)'
    BY <1>1, <1>2, <2>5 DEF Ahead, TypeInv, FlushType
  <2>7. QED
    BY <1>3, <1>4, <2>1, <2>3, <2>6
<1>6. ASSUME NEW j \in Flushers, j # k, NEW c \in due'[j]
      PROVE  (Ahead(j, c) /\ OwnsEntry(c))'
  <2>1. todo'[j] = todo[j] /\ c \in due[j]
    BY <1>1, <1>2, <1>6 DEF TypeInv, UserType, FlushType
  <2>2. Ahead(j, c) /\ OwnsEntry(c) /\ c \in Cmds
    BY <1>4, <2>1 DEF DueInv
  <2>3. QED
    BY <1>2, <1>3, <2>1, <2>2 DEF Ahead
<1>7. QED
  BY <1>5, <1>6 DEF DueInv

(* A removal with its callback leaves what is still due as it was.         *)
LEMMA DueCallback ==
    ASSUME TypeInv, SendInv, CommandInv, DueInv, NEW a, NEW m \in Lists, NEW p \in Positions,
           ListRemove(m, p), Callback(a, m, p), pos' = pos,
           NEW k \in Flushers, NEW c \in due'[k]
    PROVE  /\ c \in due[k] /\ OwnsEntry(c)' /\ pos'[c] = pos[c]
           /\ <<m, p>> # <<ListOf[c], pos[c]>>
<1>1. PICK d : d = lists[m].command[p]
  OBVIOUS
<1>2. /\ d = None => due' = due
      /\ d # None => due'[k] = due[k] \ {d}
      /\ \A e \in Cmds : pc'[e] # pc[e] => pc[e] = "idle" /\ pc'[e] = "again"
      /\ inflight' = inflight \ {d}
  <2>1. UserType
    BY DEF TypeInv
  <2>2. QED
    BY <1>1, <2>1, CallbackIs
<1>3. c \in due[k] /\ due[k] \subseteq Cmds
  BY <1>2 DEF TypeInv, UserType
<1>4. c \in Cmds /\ Ahead(k, c) /\ OwnsEntry(c)
  BY <1>3 DEF DueInv
<1>5. c # d
  BY <1>2, <1>3, <1>4, CmdAssumption
<1>6. m = ListOf[c] => p # pos[c]
  BY <1>1, <1>4, <1>5 DEF OwnsEntry
<1>7. c \in inflight'
  BY <1>2, <1>4, <1>5 DEF OwnsEntry
<1>8. Holding(ListOf[c])' \subseteq Holding(ListOf[c])
  BY <1>2 DEF Holding
<1>9. OwnsEntry(c)'
  BY <1>4, <1>6, <1>7, <1>8, OwnsRemove DEF TypeInv
<1>10. QED
  BY <1>3, <1>6, <1>9

(* A step that touches nothing a flush is about.                           *)
LEMMA DueStays ==
    ASSUME DueInv, UserType, UNCHANGED <<lists, pc, pos, inflight, todo, due>>
    PROVE  DueInv'
<1>1. ASSUME NEW k \in Flushers, NEW c \in due[k]
      PROVE  Ahead(k, c)' /\ OwnsEntry(c)'
  BY <1>1 DEF DueInv, Ahead, OwnsEntry, Holding, FreeEntries
<1>2. QED
  BY <1>1 DEF DueInv

(* A step that leaves flushes alone and takes no entry from its owner.     *)
LEMMA DueFrom ==
    ASSUME DueInv, UserType, due' = due, todo' = todo,
           \A c \in Cmds : OwnsEntry(c) => OwnsEntry(c)' /\ pos'[c] = pos[c]
    PROVE  DueInv'
<1>1. ASSUME NEW k \in Flushers, NEW c \in due[k]
      PROVE  Ahead(k, c)' /\ OwnsEntry(c)'
  <2>1. c \in Cmds /\ Ahead(k, c) /\ OwnsEntry(c)
    BY <1>1 DEF DueInv, UserType
  <2>2. QED
    BY <2>1 DEF Ahead
<1>2. QED
  BY <1>1 DEF DueInv

(* Every step preserves DueInv: a command leaves due with its callback,    *)
(* and a flush that passes its entry calls that.                           *)
LEMMA DueStep ==
    ASSUME Inv, DueInv, [Next]_vars
    PROVE  DueInv'
<1>0. /\ TypeInv /\ SendInv /\ CommandInv /\ TodoInv /\ QuietInv
      /\ ListType /\ UserType /\ QueueType /\ FlushType
  BY DEF Inv, TypeInv
<1> USE DEF sendVars, userVars, queueVars, intrVars, workVars, asyncVars, flushVars
<1>1. CASE ModuleInit
  BY <1>1, <1>0, DueStays DEF ModuleInit, ProbeStep
<1>2. CASE PciInit
  BY <1>2, <1>0, DueStays DEF PciInit, ProbeStep
<1>3. CASE EventsInit
  BY <1>3, <1>0, DueStays DEF EventsInit, ProbeStep
<1>4. CASE StartupCheck
  BY <1>4, <1>0, DueStays DEF StartupCheck, ProbeStep
<1>5. CASE ListsInit
  BY <1>5, <1>0 DEF ListsInit, ProbeStep, QuietInv, DueInv, Probing
<1>6. ASSUME NEW c \in Cmds, Add(c)
      PROVE  DueInv'
  <2>1. c \notin inflight /\ TakeEntry(c) /\ todo' = todo /\ due' = due
    BY <1>6, <1>0 DEF Add, TakeEntry, SendInv
  <2>2. ASSUME NEW d \in Cmds, OwnsEntry(d)
        PROVE  OwnsEntry(d)' /\ pos'[d] = pos[d]
    BY <1>0, <2>1, <2>2, OwnsTake DEF OwnsEntry
  <2>3. QED
    BY <1>0, <2>1, <2>2, DueFrom
<1>7. ASSUME NEW c \in Cmds, Fill(c)
      PROVE  DueInv'
  <2>1. pos' = pos /\ todo' = todo /\ due' = due
    BY <1>7 DEF Fill
  <2>2. \A d \in Cmds : OwnsEntry(d) => OwnsEntry(d)'
    BY <1>7, <1>0, OwnsFill
  <2>3. QED
    BY <1>0, <2>1, <2>2, DueFrom
<1>8. ASSUME NEW c \in Cmds, Push(c)
      PROVE  DueInv'
  <2>1. /\ pos' = pos /\ lists' = lists /\ inflight \subseteq inflight'
        /\ todo' = todo /\ due' = due
        /\ \A d \in Cmds : d # c => pc'[d] = pc[d]
        /\ pc[c] = "push" /\ pc'[c] \in {"idle", "ring"} /\ inflight' = inflight \union {c}
    BY <1>8, <1>0 DEF Push, UserType
  <2>2. \A l \in Lists : Holding(l)' \subseteq Holding(l)
    BY <2>1 DEF Holding
  <2>3. ASSUME NEW d \in Cmds, OwnsEntry(d)
        PROVE  OwnsEntry(d)' /\ pos'[d] = pos[d]
    <3>1. ListOf[d] \in Lists /\ d \in inflight'
      BY <2>1, <2>3, CmdAssumption DEF OwnsEntry
    <3>2. QED
      BY <2>1, <2>2, <2>3, <3>1, OwnsKept
  <2>4. QED
    BY <1>0, <2>1, <2>3, DueFrom
<1>9. ASSUME NEW c \in Cmds, PushRefused(c)
      PROVE  DueInv'
  <2>1. /\ pc[c] = "push" /\ pc'[c] = "idle" /\ pos' = pos /\ inflight' = inflight
        /\ todo' = todo /\ due' = due /\ ListRemove(ListOf[c], pos[c]) /\ c \notin inflight
        /\ \A d \in Cmds : d # c => pc'[d] = pc[d]
    BY <1>9, <1>0 DEF PushRefused, UserType, SendInv
  <2>2. ListOf[c] \in Lists /\ pos[c] \in Positions
    BY <1>0, CmdAssumption DEF ListType
  <2>3. \A l \in Lists : Holding(l)' \subseteq Holding(l)
    BY <2>1 DEF Holding
  <2>4. ASSUME NEW d \in Cmds, OwnsEntry(d)
        PROVE  OwnsEntry(d)'
    <3>1. ListOf[d] \in Lists /\ d \in inflight' /\ d # c
      BY <2>1, <2>4, CmdAssumption DEF OwnsEntry
    <3>2. c \in Holding(ListOf[c])
      BY <2>1 DEF Holding
    <3>3. ListOf[c] = ListOf[d] => pos[c] # pos[d]
      BY <2>4, <3>1, <3>2 DEF OwnsEntry
    <3>4. QED
      BY <1>0, <2>1, <2>2, <2>3, <2>4, <3>1, <3>3, OwnsRemove
  <2>5. QED
    BY <1>0, <2>1, <2>4, DueFrom
<1>10. ASSUME NEW c \in Cmds, Ring(c)
       PROVE  DueInv'
  <2>1. /\ pos' = pos /\ lists' = lists /\ inflight \subseteq inflight'
        /\ todo' = todo /\ due' = due
        /\ \A d \in Cmds : d # c => pc'[d] = pc[d]
        /\ pc[c] = "ring" /\ pc'[c] = "idle" /\ inflight' = inflight
    BY <1>10, <1>0 DEF Ring, UserType
  <2>2. \A l \in Lists : Holding(l)' \subseteq Holding(l)
    BY <2>1 DEF Holding
  <2>3. ASSUME NEW d \in Cmds, OwnsEntry(d)
        PROVE  OwnsEntry(d)' /\ pos'[d] = pos[d]
    <3>1. ListOf[d] \in Lists /\ d \in inflight'
      BY <2>1, <2>3, CmdAssumption DEF OwnsEntry
    <3>2. QED
      BY <2>1, <2>2, <2>3, <3>1, OwnsKept
  <2>4. QED
    BY <1>0, <2>1, <2>3, DueFrom
<1>11. ASSUME NEW c \in Cmds, Again(c)
       PROVE  DueInv'
  <2>1. c \notin inflight /\ TakeEntry(c) /\ todo' = todo /\ due' = due
    BY <1>11, <1>0 DEF Again, TakeEntry, SendInv
  <2>2. ASSUME NEW d \in Cmds, OwnsEntry(d)
        PROVE  OwnsEntry(d)' /\ pos'[d] = pos[d]
    BY <1>0, <2>1, <2>2, OwnsTake DEF OwnsEntry
  <2>3. QED
    BY <1>0, <2>1, <2>2, DueFrom
<1>12. ASSUME NEW c \in Cmds, AgainFails(c)
       PROVE  DueInv'
  <2>1. /\ pos' = pos /\ lists' = lists /\ inflight \subseteq inflight'
        /\ todo' = todo /\ due' = due
        /\ \A d \in Cmds : d # c => pc'[d] = pc[d]
        /\ pc[c] = "again" /\ pc'[c] = "idle" /\ inflight' = inflight
    BY <1>12, <1>0 DEF AgainFails, UserType
  <2>2. \A l \in Lists : Holding(l)' \subseteq Holding(l)
    BY <2>1 DEF Holding
  <2>3. ASSUME NEW d \in Cmds, OwnsEntry(d)
        PROVE  OwnsEntry(d)' /\ pos'[d] = pos[d]
    <3>1. ListOf[d] \in Lists /\ d \in inflight'
      BY <2>1, <2>3, CmdAssumption DEF OwnsEntry
    <3>2. QED
      BY <2>1, <2>2, <2>3, <3>1, OwnsKept
  <2>4. QED
    BY <1>0, <2>1, <2>3, DueFrom
<1>13. CASE TestSend
  <2> DEFINE c == Throughput[nth + 1]
  <2>1. c \in Cmds /\ c \in Unsent /\ TakeEntry(c) /\ todo' = todo /\ due' = due
    BY <1>13, <1>0, NextSent, UnsentSend DEF TestSend, TakeEntry, UserType
  <2>2. c \notin inflight
    BY <1>0, <2>1 DEF SendInv
  <2> HIDE DEF c
  <2>3. ASSUME NEW d \in Cmds, OwnsEntry(d)
        PROVE  OwnsEntry(d)' /\ pos'[d] = pos[d]
    BY <1>0, <2>1, <2>2, <2>3, OwnsTake DEF OwnsEntry
  <2>4. QED
    BY <1>0, <2>1, <2>3, DueFrom
<1>14. CASE TestGivesUp
  BY <1>14, <1>0, DueStays DEF TestGivesUp
<1>15. CASE TestRing
  BY <1>15, <1>0, DueStays DEF TestRing
<1>16. ASSUME NEW a \in Actors, RingAgain(a)
       PROVE  DueInv'
  BY <1>16, <1>0, DueStays DEF RingAgain
<1>17. CASE IsrRead
  BY <1>17, <1>0, DueStays DEF IsrRead
<1>18. CASE IsrEnd
  BY <1>18, <1>0, DueStays DEF IsrEnd
<1>19. ASSUME NEW l \in Lists, WorkStart(l)
       PROVE  DueInv'
  BY <1>19, <1>0, DueStays DEF WorkStart
<1>20. ASSUME NEW l \in Lists, WorkPull(l)
       PROVE  DueInv'
  BY <1>20, <1>0, DueStays DEF WorkPull
<1>21. ASSUME NEW l \in Lists, WorkReply(l)
       PROVE  DueInv'
  <2>1. /\ reply[l].id \in Positions /\ ListRemove(l, reply[l].id) /\ Callback(l, l, reply[l].id)
        /\ pos' = pos /\ todo' = todo
    BY <1>21, <1>0, ReplyPosition DEF WorkReply
  <2>2. ASSUME NEW k \in Flushers, NEW c \in due'[k]
        PROVE  (Ahead(k, c) /\ OwnsEntry(c))'
    <3>1. c \in due[k] /\ OwnsEntry(c)' /\ pos'[c] = pos[c]
      BY <1>0, <2>1, <2>2, DueCallback
    <3>2. QED
      BY <2>1, <3>1 DEF DueInv, Ahead
  <2>3. QED
    BY <2>2 DEF DueInv
<1>22. ASSUME NEW l \in Lists, WorkEnd(l)
       PROVE  DueInv'
  BY <1>22, <1>0, DueStays DEF WorkEnd
<1>23. ASSUME NEW k \in Kinds, AsyncRequest(k)
       PROVE  DueInv'
  BY <1>23, <1>0, DueStays DEF AsyncRequest
<1>24. ASSUME NEW k \in Kinds, AsyncAccepted(k)
       PROVE  DueInv'
  BY <1>24, <1>0, DueStays DEF AsyncAccepted
<1>25. ASSUME NEW k \in Kinds, AsyncDone(k)
       PROVE  DueInv'
  <2>1. k \in Flushers /\ FlushOf[k] \in SUBSET Lists /\ life \notin Probing
    BY <1>25, <1>0, FlushOfIs DEF Flushers, AsyncDone, QuietInv
  <2>2. StartFlush(k, FlushOf[k]) /\ UNCHANGED <<lists, sendVars, inflight>>
    BY <1>25 DEF AsyncDone
  <2>3. QED
    BY <2>1, <2>2, DueAtFirst
<1>26. ASSUME NEW k \in Kinds, AsyncEnd(k)
       PROVE  DueInv'
  BY <1>26, <1>0, DueStays DEF AsyncEnd
<1>27. ASSUME NEW k \in Flushers, FlushEntry(k)
       PROVE  DueInv'
  <2> DEFINE m == Head(todo[k])[1]
             p == Head(todo[k])[2]
  <2>1. m \in Lists /\ p \in Positions /\ Head(todo[k]) = <<m, p>> /\ todo[k] # <<>>
    BY <1>27, <1>0, TodoEntry DEF FlushEntry
  <2>2. /\ ListRemove(m, p) /\ Callback(k, m, p) /\ pos' = pos
        /\ todo' = [todo EXCEPT ![k] = Tail(todo[k])]
    BY <1>27 DEF FlushEntry
  <2>3. Head(todo[k]) = todo[k][1]
    BY <1>0, <2>1, HeadTailProperties DEF FlushType
  <2>4. \A i \in DOMAIN todo[k] : i # 1 =>
            \E j \in DOMAIN Tail(todo[k]) : Tail(todo[k])[j] = todo[k][i]
    BY <1>0, <2>1, TodoTail
  <2> HIDE DEF m, p
  <2>5. ASSUME NEW j \in Flushers, NEW c \in due'[j]
        PROVE  (Ahead(j, c) /\ OwnsEntry(c))'
    <3>1. /\ c \in due[j] /\ OwnsEntry(c)' /\ pos'[c] = pos[c] /\ <<m, p>> # <<ListOf[c], pos[c]>>
      <4>1. ListRemove(m, p) /\ Callback(k, m, p) /\ pos' = pos /\ c \in due'[j]
        BY <2>2, <2>5
      <4>2. QED
        BY <1>0, <2>1, <4>1, DueCallback
    <3>2. Ahead(j, c)
      BY <3>1 DEF DueInv
    <3>3. CASE j = k
      <4>1. todo'[k] = Tail(todo[k])
        BY <1>0, <2>2 DEF FlushType
      <4>2. PICK i \in DOMAIN todo[k] : todo[k][i] = <<ListOf[c], pos[c]>>
        BY <3>2, <3>3 DEF Ahead
      <4>3. i # 1
        BY <2>1, <2>3, <3>1, <4>2
      <4>4. QED
        BY <2>4, <3>1, <3>3, <4>1, <4>2, <4>3 DEF Ahead
    <3>4. CASE j # k
      <4>1. todo'[j] = todo[j]
        BY <2>2, <3>4
      <4>2. QED
        BY <3>1, <3>2, <4>1 DEF Ahead
    <3>5. QED
      BY <3>3, <3>4
  <2>6. QED
    BY <2>5 DEF DueInv
<1>28. CASE CleanIntr
  BY <1>28, <1>0, DueStays DEF CleanIntr
<1>29. CASE CleanWork
  BY <1>29, <1>0, DueStays DEF CleanWork
<1>30. CASE CleanIrq
  <2>1. "cleanup" \in Flushers /\ life \notin Probing
    BY <1>30 DEF Flushers, CleanIrq, Probing
  <2>2. StartFlush("cleanup", Lists) /\ UNCHANGED <<lists, sendVars, inflight>>
    BY <1>30 DEF CleanIrq
  <2>3. QED
    BY <2>1, <2>2, DueAtFirst
<1>31. CASE CleanEnd
  BY <1>31, <1>0, DueStays DEF CleanEnd
<1>32. CASE DeviceIdle
  BY <1>32, <1>0, DueStays DEF DeviceIdle
<1>33. CASE DeviceAccept
  BY <1>33, <1>0, DueStays DEF DeviceAccept
<1>34. ASSUME NEW l \in Lists, DeviceReply(l)
       PROVE  DueInv'
  BY <1>34, <1>0, DueStays DEF DeviceReply
<1>35. ASSUME NEW k \in Kinds, DeviceDone(k)
       PROVE  DueInv'
  BY <1>35, <1>0, DueStays DEF DeviceDone
<1>36. CASE UNCHANGED vars
  BY <1>36, <1>0, DueStays DEF vars
<1>37. QED
  BY <1>1, <1>2, <1>3, <1>4, <1>5, <1>6, <1>7, <1>8, <1>9, <1>10, <1>11, <1>12,
     <1>13, <1>14, <1>15, <1>16, <1>17, <1>18, <1>19, <1>20, <1>21, <1>22,
     <1>23, <1>24, <1>25, <1>26, <1>27, <1>28, <1>29, <1>30, <1>31, <1>32,
     <1>33, <1>34, <1>35, <1>36
     DEF Next, Probe, Send, Test, Work, Async, Cleanup, Device, Flushers

(* The first flush of a list, by an async command or by                    *)
(* mxvp_bspec_cleanup, is over only when the callback of every command     *)
(* that was in flight as it started has been called, however replies,      *)
(* sends and other flushes come in its way.                                *)
THEOREM FirstFlushIsComplete == Spec => []FirstFlushReachesAll
<1>1. Init => DueInv
  BY DEF Init, DueInv, Flushers
<1>2. Inv /\ DueInv /\ [Next]_vars => DueInv'
  BY DueStep
<1>3. ASSUME Inv, DueInv
      PROVE  FirstFlushReachesAll
  <2>1. DOMAIN todo = Flushers
    BY <1>3 DEF Inv, TypeInv, FlushType
  <2>2. ASSUME NEW k \in Flushers, todo[k] = <<>>, NEW c \in due[k]
        PROVE  FALSE
    <3>1. DOMAIN todo[k] = {}
      BY <2>2
    <3>2. QED
      BY <1>3, <2>2, <3>1 DEF DueInv, Ahead
  <2>3. QED
    BY <2>1, <2>2 DEF FirstFlushReachesAll
<1>4. QED
  BY Invariance, <1>1, <1>2, <1>3, PTL DEF Spec
=============================================================================
