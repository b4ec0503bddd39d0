---------------------------- MODULE SerialProofs ----------------------------
(***************************************************************************)
(* What is proved of the serial link used both ways: by the demonstration  *)
(* (SerialDemo), and in the driver (MxlkLink).                             *)
(*                                                                         *)
(* In the demonstration no reader counts a wrong number before a call of   *)
(* the driver has failed.  What that rests on is where a chunk starts on   *)
(* the link: the reader and the writer each move whole chunks in calls of  *)
(* any size, so the two only agree if the parts are counted from the start *)
(* of the chunk the reader is in (InStep).                                 *)
(*                                                                         *)
(* In the driver each direction is used as its module has it although the  *)
(* two share a work item and an interrupt: all that one sees of the other  *)
(* is OtherDirection.  So what is proved of each holds of both at once.    *)
(***************************************************************************)
EXTENDS SerialDemo, MxlkLink, TLAPS

-----------------------------------------------------------------------------
(* The demonstration: the inductive invariant.                             *)

(* The sequence numbers, what may be left of a chunk, and the type of each *)
(* variable.                                                               *)
Words  == 0 .. Numbers - 1
Counts == 0 .. Parts

DemoTypes ==
    /\ link \in [Ends -> Seq(Words)]
    /\ reading \in [Ends -> BOOLEAN] /\ writing \in [Ends -> BOOLEAN]
    /\ toRead \in [Ends -> Counts] /\ toWrite \in [Ends -> Counts]
    /\ first \in [Ends -> Words] /\ expect \in [Ends -> Words] /\ seqno \in [Ends -> Words]
    /\ rx_error \in [Ends -> BOOLEAN]
    /\ running \in BOOLEAN /\ calculating \in BOOLEAN
    /\ pc \in {"wait", "reader", "writer", "calculator", "watch"}
    /\ errors \in Nat

(* The parts of its chunk that a reader has, and the number of the k-th    *)
(* chunk after that one.                                                   *)
Moved(e) == IF reading[e] THEN Parts - toRead[e] ELSE 0
Later(x, k)  == (x + k) % Numbers
Number(e, k) == Later(expect[e], k)

(* Where a chunk starts, counted in parts from the start of the reader's   *)
(* chunk, the link has its number...                                       *)
ChunksInLink(e) ==
    \A j \in 1 .. Len(link[e]), k \in Nat :
        Moved(e) + j - 1 = Parts * k => link[e][j] = Number(e, k)

(* ...and with what the writer has left the chunks are whole.              *)
WriterAhead(e) ==
    \E k \in Nat : /\ Moved(e) + Len(link[e]) + toWrite[Peer(e)] = Parts * k
                   /\ seqno[Peer(e)] = Number(e, k)

InStep(e) ==
    /\ ChunksInLink(e) /\ WriterAhead(e)
    /\ Moved(e) > 0 => first[e] = expect[e]
    /\ ~rx_error[e]

(* What has been started, and has not ended.                               *)
Started ==
    /\ \A e \in Ends : ~reading[e] => expect[e] = 0
    /\ \A e \in Ends : ~writing[e] => toWrite[e] = 0 /\ seqno[e] = 0
    /\ running <=> pc # "wait"
    /\ reading["leon"] <=> pc \in {"writer", "calculator", "watch"}
    /\ writing["leon"] <=> pc \in {"calculator", "watch"}

DemoInv == DemoTypes /\ (errors = 0 => Started /\ \A e \in Ends : InStep(e))

-----------------------------------------------------------------------------
(* Arithmetic of chunks and of sequence numbers.                           *)

(* The only multiple of P below P.                                         *)
LEMMA SameMultiple ==
  ASSUME NEW P \in Nat \ {0}, NEW a \in Int, NEW r \in 0 .. P - 1, P * a = r
  PROVE  a = 0
<1>1. CASE a >= 1
  <2>1. P * a >= P
    BY <1>1
  <2>2. QED
    BY <2>1
<1>2. CASE a <= 0 - 1
  <2>1. P * a <= 0 - P
    BY <1>2
  <2>2. QED
    BY <2>1
<1>3. QED
  BY <1>1, <1>2

(* A multiple of P without one P.                                          *)
LEMMA OneLess ==
  ASSUME NEW P \in Nat \ {0}, NEW a \in Nat, NEW k \in Nat, P + a = P * k
  PROVE  \E m \in Nat : k = m + 1 /\ a = P * m
<1>1. k # 0
  OBVIOUS
<1>2. k - 1 \in Nat /\ k = (k - 1) + 1 /\ a = P * (k - 1)
  BY <1>1
<1>3. QED
  BY <1>2

(* The remainder of a sum that is written out.                             *)
LEMMA ModUnique ==
  ASSUME NEW N \in Nat \ {0}, NEW q \in Int, NEW r \in 0 .. N - 1
  PROVE  (N * q + r) % N = r
OBVIOUS

(* A remainder may be taken before adding.                                 *)
LEMMA ModSum ==
  ASSUME NEW N \in Nat \ {0}, NEW a \in Int, NEW b \in Int
  PROVE  ((a % N) + b) % N = (a + b) % N
<1> DEFINE q == a \div N
           r == a % N
           p == (r + b) \div N
           s == (r + b) % N
<1>1. a = N * q + r /\ r + b = N * p + s
  OBVIOUS
<1>2. q \in Int /\ r \in Int /\ p \in Int /\ s \in 0 .. N - 1
  OBVIOUS
<1> HIDE DEF q, r, p, s
<1>3. a + b = N * (q + p) + s
  BY <1>1, <1>2
<1>4. (N * (q + p) + s) % N = s
  BY <1>2, ModUnique
<1>5. QED
  BY <1>3, <1>4 DEF s, r

(* A remainder is below what divides.                                      *)
LEMMA ModRange ==
  ASSUME NEW N \in Nat \ {0}, NEW a \in Int
  PROVE  a % N \in 0 .. N - 1
OBVIOUS

(* What is below what divides is its own remainder.                        *)
LEMMA ModSmall ==
  ASSUME NEW N \in Nat \ {0}, NEW a \in 0 .. N - 1
  PROVE  a % N = a
OBVIOUS

(* The number of the chunk that is being read, of the one after a number,  *)
(* and of the one before: Succ and Pred.                                   *)
LEMMA Numbering ==
  ASSUME NEW x \in Words, NEW k \in Int
  PROVE  /\ Succ(x) \in Words /\ Pred(x) \in Words
         /\ Later(x, k) \in Words /\ Later(x, 0) = x
         /\ Later(Succ(x), k) = Later(x, k + 1)
         /\ Succ(Later(x, k)) = Later(x, k + 1)
         /\ Pred(Later(x, k)) = Later(x, k - 1)
<1>1. Numbers \in Nat \ {0} /\ x \in 0 .. Numbers - 1
  BY DemoAssumption DEF Words
<1>2. (x + k) % Numbers \in 0 .. Numbers - 1 /\ (x + 0) % Numbers = x
  <2>1. x + k \in Int /\ x + 0 = x
    BY <1>1
  <2>2. (x + k) % Numbers \in 0 .. Numbers - 1
    BY <1>1, <2>1, ModRange
  <2>3. x % Numbers = x
    BY <1>1, ModSmall
  <2>4. QED
    BY <2>1, <2>2, <2>3
<1>3. Succ(x) \in 0 .. Numbers - 1 /\ Pred(x) \in 0 .. Numbers - 1
  <2>1. x + 1 \in Int /\ x + Numbers - 1 \in Int
    BY <1>1
  <2>2. QED
    BY <1>1, <2>1, ModRange DEF Succ, Pred
<1>4. (Succ(x) + k) % Numbers = (x + (k + 1)) % Numbers
  <2>1. x + 1 \in Int /\ (x + 1) + k = x + (k + 1)
    BY <1>1
  <2>2. (((x + 1) % Numbers) + k) % Numbers = ((x + 1) + k) % Numbers
    BY <1>1, <2>1, ModSum
  <2>3. Succ(x) = (x + 1) % Numbers
    BY DEF Succ
  <2>4. QED
    BY <2>1, <2>2, <2>3
<1>5. Succ((x + k) % Numbers) = (x + (k + 1)) % Numbers
  <2>1. x + k \in Int /\ (x + k) + 1 = x + (k + 1)
    BY <1>1
  <2>2. ASSUME NEW y \in Int PROVE Succ(y % Numbers) = (y + 1) % Numbers
    <3>1. \A b \in Int : ((y % Numbers) + b) % Numbers = (y + b) % Numbers
      BY <1>1, ModSum
    <3>2. ((y % Numbers) + 1) % Numbers = (y + 1) % Numbers
      BY <3>1
    <3>3. QED
      BY <3>2 DEF Succ
  <2>3. QED
    BY <2>1, <2>2
<1>6. Pred((x + k) % Numbers) = (x + (k - 1)) % Numbers
  <2>0. x + k \in Int /\ Numbers - 1 \in Int
    BY <1>1
  <2>1. Pred((x + k) % Numbers) = (((x + k) % Numbers) + (Numbers - 1)) % Numbers
    <3>1. ((x + k) % Numbers) + Numbers - 1 = ((x + k) % Numbers) + (Numbers - 1)
      BY <1>1, <1>2
    <3>2. QED
      BY <3>1 DEF Pred
  <2>2. (((x + k) % Numbers) + (Numbers - 1)) % Numbers = ((x + k) + (Numbers - 1)) % Numbers
    BY <1>1, <2>0, ModSum
  <2> DEFINE r == (x + (k - 1)) % Numbers
             q == (x + (k - 1)) \div Numbers
  <2>3. x + (k - 1) = Numbers * q + r /\ q \in Int /\ r \in 0 .. Numbers - 1
    BY <1>1
  <2> HIDE DEF r, q
  <2>4. (x + k) + (Numbers - 1) = Numbers * (q + 1) + r
    BY <1>1, <2>3
  <2>5. (Numbers * (q + 1) + r) % Numbers = r
    BY <1>1, <2>3, ModUnique
  <2>6. QED
    BY <2>1, <2>2, <2>4, <2>5 DEF r
<1>7. QED
  BY <1>2, <1>3, <1>4, <1>5, <1>6 DEF Later, Words

-----------------------------------------------------------------------------
(* Each end has one peer, and is its peer's.                               *)
LEMMA PeerOf ==
  /\ \A e \in Ends : Peer(e) \in Ends /\ Peer(e) # e /\ Peer(Peer(e)) = e
  /\ \A e, f \in Ends : f # e => f = Peer(e)
BY DEF Ends, Peer

(* What the assumption says of the constants and the sets.                 *)
LEMMA Bounds ==
  /\ Parts \in Nat \ {0} /\ Numbers \in Nat \ {0}
  /\ 0 \in Words /\ 0 \in Counts /\ Parts \in Counts
  /\ "host" \in Ends /\ "leon" \in Ends
BY DemoAssumption DEF Words, Counts, Ends

(* Where a reader stands, and the types of what surrounds it.              *)
LEMMA MovedIs ==
  ASSUME DemoTypes, NEW e \in Ends
  PROVE  Moved(e) \in 0 .. Parts /\ Parts \in Nat \ {0} /\ expect[e] \in Words
         /\ toRead[e] \in 0 .. Parts /\ toWrite[e] \in 0 .. Parts /\ Len(link[e]) \in Nat
<1>1. toRead[e] \in 0 .. Parts /\ toWrite[e] \in 0 .. Parts
  BY DEF DemoTypes, Counts
<1>2. expect[e] \in Words /\ link[e] \in Seq(Words)
  BY DEF DemoTypes
<1>3. Moved(e) \in 0 .. Parts
  BY <1>1, Bounds DEF Moved
<1>4. QED
  BY <1>1, <1>2, <1>3, Bounds

(* A step that has nothing to do with the chunks on their way to an end.   *)
LEMMA SameStep ==
  ASSUME NEW e \in Ends, InStep(e),
         link'[e] = link[e], Moved(e)' = Moved(e), expect'[e] = expect[e],
         first'[e] = first[e], rx_error'[e] = rx_error[e],
         toWrite'[Peer(e)] = toWrite[Peer(e)], seqno'[Peer(e)] = seqno[Peer(e)]
  PROVE  InStep(e)'
<1>1. ChunksInLink(e)'
  BY DEF InStep, ChunksInLink, Number
<1>2. WriterAhead(e)'
  BY DEF InStep, WriterAhead, Number
<1>3. QED
  BY <1>1, <1>2 DEF InStep

(* A reader takes n parts: what is left counts from n further on.          *)
LEMMA ReadInStep ==
  ASSUME DemoTypes, NEW e \in Ends, InStep(e), Read(e)
  PROVE  InStep(e)'
<1> DEFINE L == link[e]
<1>1. PICK n \in 1 .. toRead[e] :
        /\ n <= Len(L)
        /\ first' = [first EXCEPT ![e] = IF toRead[e] = Parts THEN L[1] ELSE @]
        /\ link' = [link EXCEPT ![e] = SubSeq(@, n + 1, Len(@))]
        /\ toRead' = [toRead EXCEPT ![e] = @ - n]
  BY DEF Read, Remaining
<1>2. /\ reading[e] /\ reading' = reading /\ expect' = expect /\ rx_error' = rx_error
      /\ toWrite' = toWrite /\ seqno' = seqno
  BY DEF Read, writeVars
<1>3. /\ L \in Seq(Words) /\ Len(L) \in Nat /\ toRead[e] \in 0 .. Parts /\ n \in Nat
      /\ n > 0 /\ Parts \in Nat \ {0} /\ Moved(e) = Parts - toRead[e]
      /\ toWrite[Peer(e)] \in 0 .. Parts /\ Peer(e) \in Ends
  <2>1. L \in Seq(Words) /\ Peer(e) \in Ends /\ Moved(e) = Parts - toRead[e]
    BY <1>2, PeerOf DEF DemoTypes, Moved
  <2>2. toRead[e] \in 0 .. Parts /\ toWrite[Peer(e)] \in 0 .. Parts /\ Parts \in Nat \ {0}
    BY <2>1, MovedIs, Bounds
  <2>3. QED
    BY <1>1, <2>1, <2>2
<1>4. Moved(e)' = Moved(e) + n
  BY <1>1, <1>2, <1>3 DEF Moved, DemoTypes
<1>5. link'[e] = SubSeq(L, n + 1, Len(L))
  BY <1>1 DEF DemoTypes
<1>6. Len(link'[e]) = Len(L) - n /\ \A j \in 1 .. Len(L) - n : link'[e][j] = L[j + n]
  BY <1>1, <1>3, <1>5
<1>7. ChunksInLink(e)'
  <2>1. SUFFICES ASSUME NEW j \in 1 .. Len(L) - n, NEW k \in Nat,
                        Moved(e) + n + j - 1 = Parts * k
                 PROVE  link'[e][j] = Number(e, k)
    BY <1>2, <1>4, <1>6 DEF ChunksInLink, Number
  <2>2. j + n \in 1 .. Len(L) /\ Moved(e) + (j + n) - 1 = Parts * k
    <3>1. j \in 1 .. Len(L) - n /\ n \in Int /\ Len(L) \in Int /\ Moved(e) \in Int /\ n > 0
      BY <1>3
    <3>2. Moved(e) + (j + n) - 1 = Moved(e) + n + j - 1 /\ j + n \in 1 .. Len(L)
      BY <3>1
    <3>3. QED
      BY <2>1, <3>2
  <2>3. L[j + n] = Number(e, k)
    BY <2>2 DEF InStep, ChunksInLink
  <2>4. QED
    BY <1>6, <2>3
<1>8. WriterAhead(e)'
  <2>1. PICK k \in Nat : Moved(e) + Len(L) + toWrite[Peer(e)] = Parts * k
                         /\ seqno[Peer(e)] = Number(e, k)
    BY DEF InStep, WriterAhead
  <2>2. Moved(e)' + Len(link'[e]) + toWrite'[Peer(e)] = Parts * k
    <3>1. Len(link'[e]) = Len(L) - n /\ Len(L) \in Int /\ n \in Int /\ Moved(e) \in Int
      BY <1>3, <1>6
    <3>2. Moved(e)' + Len(link'[e]) = Moved(e) + Len(L)
      BY <1>4, <3>1
    <3>3. QED
      BY <1>2, <2>1, <3>2
  <2>3. QED
    BY <1>2, <2>1, <2>2 DEF WriterAhead, Number
<1>9. first'[e] = expect'[e]
  <2>1. CASE toRead[e] = Parts
    <3>1. first'[e] = L[1]
      BY <1>1, <2>1 DEF DemoTypes
    <3>2. 1 \in 1 .. Len(L) /\ 0 \in Nat /\ Moved(e) + 1 - 1 = Parts * 0
      BY <1>1, <1>3, <2>1
    <3>3. L[1] = Number(e, 0)
      BY <3>2 DEF InStep, ChunksInLink
    <3>4. Number(e, 0) = expect[e]
      BY Numbering, MovedIs DEF Number
    <3>5. QED
      BY <1>2, <3>1, <3>3, <3>4
  <2>2. CASE toRead[e] # Parts
    <3>1. first'[e] = first[e] /\ Moved(e) > 0
      BY <1>1, <1>3, <2>2 DEF DemoTypes
    <3>2. QED
      BY <1>2, <3>1 DEF InStep
  <2>3. QED
    BY <2>1, <2>2
<1>10. QED
  BY <1>2, <1>7, <1>8, <1>9 DEF InStep

(* A reader that goes on finds the number it expects, and the count starts *)
(* from the next chunk.                                                    *)
LEMMA CheckInStep ==
  ASSUME DemoTypes, NEW e \in Ends, InStep(e), Check(e), Going(e)
  PROVE  InStep(e)'
<1>1. /\ reading[e] /\ toRead[e] = 0 /\ reading'[e] = TRUE /\ toRead'[e] = Parts
      /\ link' = link /\ toWrite' = toWrite /\ seqno' = seqno /\ first' = first
      /\ expect'[e] = Succ(first[e]) /\ rx_error'[e] = (rx_error[e] \/ first[e] # expect[e])
  BY DEF Check, DemoTypes, writeVars
<1>2. Moved(e) = Parts /\ Moved(e)' = 0 /\ Parts \in Nat \ {0}
  BY <1>1, MovedIs DEF Moved
<1>3. first[e] = expect[e] /\ ~rx_error[e]
  BY <1>2 DEF InStep
<1>4. expect[e] \in Words /\ expect'[e] = Succ(expect[e])
  BY <1>1, <1>3, MovedIs
<1>5. \A k \in Int : Later(expect'[e], k) = Number(e, k + 1)
  BY <1>4, Numbering DEF Number
<1>6. ChunksInLink(e)'
  <2>1. SUFFICES ASSUME NEW j \in 1 .. Len(link[e]), NEW k \in Nat,
                        Moved(e)' + j - 1 = Parts * k
                 PROVE  link[e][j] = Number(e, k)'
    BY <1>1 DEF ChunksInLink
  <2>2. Moved(e) + j - 1 = Parts * (k + 1) /\ k + 1 \in Nat
    BY <1>2, <2>1
  <2>3. link[e][j] = Number(e, k + 1)
    BY <2>2 DEF InStep, ChunksInLink
  <2>4. Later(expect'[e], k) = link[e][j]
    BY <1>5, <2>3
  <2>5. QED
    BY <2>4 DEF Number
<1>7. WriterAhead(e)'
  <2>1. PICK k \in Nat : Moved(e) + Len(link[e]) + toWrite[Peer(e)] = Parts * k
                         /\ seqno[Peer(e)] = Number(e, k)
    BY DEF InStep, WriterAhead
  <2>2. Len(link[e]) \in Nat /\ toWrite[Peer(e)] \in Nat
    BY PeerOf, MovedIs
  <2>3. Parts + (Len(link[e]) + toWrite[Peer(e)]) = Parts * k
    BY <1>2, <2>1, <2>2
  <2>4. PICK m \in Nat : k = m + 1 /\ Len(link[e]) + toWrite[Peer(e)] = Parts * m
    BY <1>2, <2>2, <2>3, OneLess
  <2>5. Later(expect'[e], m) = Number(e, k)
    BY <1>5, <2>4
  <2>6. seqno'[Peer(e)] = Number(e, m)'
    BY <1>1, <2>1, <2>5 DEF Number
  <2>7. Moved(e)' + Len(link'[e]) + toWrite'[Peer(e)] = Parts * m
    BY <1>1, <1>2, <2>2, <2>4
  <2>8. QED
    BY <2>6, <2>7 DEF WriterAhead
<1>8. ~rx_error'[e]
  BY <1>1, <1>3
<1>9. QED
  BY <1>2, <1>6, <1>7, <1>8 DEF InStep

(* A new chunk to write has the next number.                               *)
LEMMA NextChunkInStep ==
  ASSUME DemoTypes, NEW e \in Ends, InStep(Peer(e)), NextChunk(e), Going(e)
  PROVE  InStep(Peer(e))'
<1> DEFINE r == Peer(e)
<1>1. /\ toWrite[e] = 0 /\ toWrite'[e] = Parts /\ seqno'[e] = Succ(seqno[e])
      /\ link' = link /\ reading' = reading /\ toRead' = toRead /\ first' = first
      /\ expect' = expect /\ rx_error' = rx_error
  BY DEF NextChunk, DemoTypes, readVars
<1>2. r \in Ends /\ Peer(r) = e
  BY PeerOf
<1>3. Moved(r)' = Moved(r) /\ Moved(r) \in Int /\ Parts \in Int /\ Len(link[r]) \in Int
  BY <1>1, <1>2, MovedIs DEF Moved, DemoTypes
<1>4. ChunksInLink(r)'
  BY <1>1, <1>3 DEF InStep, ChunksInLink, Number
<1>5. WriterAhead(r)'
  <2>1. PICK k \in Nat : Moved(r) + Len(link[r]) + toWrite[e] = Parts * k
                         /\ seqno[e] = Number(r, k)
    BY <1>2 DEF InStep, WriterAhead
  <2>2. Moved(r) + Len(link[r]) + toWrite'[e] = Parts * (k + 1)
    BY <1>1, <1>3, <2>1
  <2>3. Succ(Later(expect[r], k)) = Later(expect[r], k + 1)
    <3>1. expect[r] \in Words /\ k \in Int
      BY <1>2, MovedIs
    <3>2. QED
      BY <3>1, Numbering
  <2>4. seqno'[e] = Later(expect[r], k + 1)
    BY <1>1, <2>1, <2>3 DEF Number
  <2>5. PICK m \in Nat : m = k + 1
    BY <2>1
  <2>6. Moved(r)' + Len(link'[r]) + toWrite'[e] = Parts * m
    BY <1>1, <1>3, <2>2, <2>5
  <2>7. seqno'[e] = Number(r, m)'
    BY <1>1, <2>4, <2>5 DEF Number
  <2>8. QED
    BY <1>2, <2>6, <2>7 DEF WriterAhead
<1>6. QED
  BY <1>1, <1>3, <1>4, <1>5 DEF InStep

(* What one call writes of the buffer: the number first, then zeros.       *)
LEMMA BufferParts ==
  ASSUME DemoTypes, NEW e \in Ends, NEW at \in Nat, NEW n \in Nat, at + n <= Parts
  PROVE  /\ SubSeq(writeBuffer(e), at + 1, at + n) \in Seq(Words)
         /\ Len(SubSeq(writeBuffer(e), at + 1, at + n)) = n
         /\ \A i \in 1 .. n : SubSeq(writeBuffer(e), at + 1, at + n)[i] =
                                  IF at + i = 1 THEN Pred(seqno[e]) ELSE 0
<1>1. Parts \in Nat /\ seqno[e] \in Words
  BY Bounds DEF DemoTypes
<1>2. Pred(seqno[e]) \in Words /\ 0 \in Words
  <2>1. \A k \in Int : Pred(seqno[e]) \in Words
    BY <1>1, Numbering
  <2>2. QED
    BY <2>1, Bounds
<1> DEFINE B == [j \in 1 .. Parts |-> IF j = 1 THEN Pred(seqno[e]) ELSE 0]
<1>3. B \in Seq(Words) /\ Len(B) = Parts
  BY <1>1, <1>2
<1>4. \A j \in 1 .. Parts : B[j] = IF j = 1 THEN Pred(seqno[e]) ELSE 0
  OBVIOUS
<1>5. B = writeBuffer(e)
  BY DEF writeBuffer
<1> HIDE DEF B
<1>6. SubSeq(B, at + 1, at + n) \in Seq(Words) /\ Len(SubSeq(B, at + 1, at + n)) = n
  BY <1>1, <1>3
<1>7. ASSUME NEW i \in 1 .. n
      PROVE  SubSeq(B, at + 1, at + n)[i] = IF at + i = 1 THEN Pred(seqno[e]) ELSE 0
  <2>1. SubSeq(B, at + 1, at + n)[i] = B[at + i] /\ at + i \in 1 .. Parts
    BY <1>1, <1>3
  <2>2. QED
    BY <1>4, <2>1
<1>8. QED
  BY <1>5, <1>6, <1>7

(* A sequence that is appended to keeps what it has.                       *)
LEMMA Concatenated ==
  ASSUME NEW S, NEW u \in Seq(S), NEW v \in Seq(S)
  PROVE  /\ Len(u \o v) = Len(u) + Len(v) /\ Len(u) \in Nat
         /\ \A j \in 1 .. Len(u) : (u \o v)[j] = u[j]
         /\ \A i \in 1 .. Len(v) : (u \o v)[Len(u) + i] = v[i]
OBVIOUS

(* What is written goes on where the chunk stands: only its first part can *)
(* be at the start of a chunk, and has the number given last.              *)
LEMMA WriteInStep ==
  ASSUME DemoTypes, NEW e \in Ends, InStep(Peer(e)), Write(e)
  PROVE  InStep(Peer(e))'
<1> DEFINE r  == Peer(e)
           L  == link[r]
           at == Parts - toWrite[e]
<1>1. PICK n \in 1 .. toWrite[e] :
        /\ link' = [link EXCEPT ![r] = @ \o SubSeq(writeBuffer(e), at + 1, at + n)]
        /\ toWrite' = [toWrite EXCEPT ![e] = @ - n]
  BY DEF Write, Remaining
<1>2. /\ reading' = reading /\ toRead' = toRead /\ first' = first /\ expect' = expect
      /\ rx_error' = rx_error /\ seqno' = seqno
  BY DEF Write, readVars
<1>3. r \in Ends /\ Peer(r) = e
  BY PeerOf
<1>4. /\ at \in Nat /\ n \in Nat /\ n > 0 /\ at + n <= Parts /\ Parts \in Nat \ {0}
      /\ toWrite[e] \in Nat /\ toWrite[e] = Parts - at /\ n <= toWrite[e]
  <2>1. toWrite[e] \in 0 .. Parts /\ Parts \in Nat \ {0}
    BY MovedIs, Bounds
  <2>2. QED
    BY <1>1, <2>1
<1> DEFINE new == SubSeq(writeBuffer(e), at + 1, at + n)
<1>5. /\ new \in Seq(Words) /\ Len(new) = n
      /\ \A i \in 1 .. n : new[i] = IF at + i = 1 THEN Pred(seqno[e]) ELSE 0
  BY <1>4, BufferParts
<1>6. link'[r] = L \o new /\ L \in Seq(Words) /\ toWrite'[e] = toWrite[e] - n
  BY <1>1, <1>3 DEF DemoTypes
<1> HIDE DEF new, at
<1>7. /\ Len(link'[r]) = Len(L) + n /\ Len(L) \in Nat
      /\ \A j \in 1 .. Len(L) : link'[r][j] = L[j]
      /\ \A i \in 1 .. n : link'[r][Len(L) + i] = new[i]
  <2>1. /\ Len(L \o new) = Len(L) + Len(new) /\ Len(L) \in Nat
        /\ \A j \in 1 .. Len(L) : (L \o new)[j] = L[j]
        /\ \A i \in 1 .. Len(new) : (L \o new)[Len(L) + i] = new[i]
    <3>1. new \in Seq(Words) /\ L \in Seq(Words)
      BY <1>5, <1>6
    <3> HIDE DEF L
    <3>2. QED
      BY <3>1, Concatenated
  <2>2. Len(new) = n /\ link'[r] = L \o new
    BY <1>5, <1>6
  <2> HIDE DEF L, r
  <2>3. QED
    BY <2>1, <2>2, Zenon
<1>8. Moved(r)' = Moved(r) /\ Moved(r) \in Nat
  BY <1>2, <1>3, MovedIs DEF Moved
<1>9. PICK k \in Nat : Moved(r) + Len(L) + toWrite[e] = Parts * k /\ seqno[e] = Number(r, k)
  BY <1>3 DEF InStep, WriterAhead
<1>10. ChunksInLink(r)'
  <2>1. SUFFICES ASSUME NEW j \in 1 .. Len(L) + n, NEW c \in Nat, Moved(r) + j - 1 = Parts * c
                 PROVE  link'[r][j] = Number(r, c)
    BY <1>2, <1>7, <1>8 DEF ChunksInLink, Number
  <2>2. CASE j \in 1 .. Len(L)
    BY <1>7, <2>1, <2>2 DEF InStep, ChunksInLink
  <2>3. CASE j \notin 1 .. Len(L)
    <3>1. PICK i \in 1 .. n : j = Len(L) + i
      <4>1. j - Len(L) \in 1 .. n /\ j = Len(L) + (j - Len(L))
        <5>1. Len(L) \in Nat /\ n \in Nat /\ j \in 1 .. Len(L) + n
          BY <1>4, <1>7
        <5>2. QED
          BY <2>3, <5>1
      <4>2. QED
        BY <4>1
    <3>2. Parts * (c - (k - 1)) = at + i - 1
      <4>1. Parts * c = Moved(r) + Len(L) + i - 1
        BY <1>7, <1>8, <2>1, <3>1
      <4>2. Parts * c = Parts * k - toWrite[e] + i - 1
        BY <1>4, <1>7, <1>8, <1>9, <4>1
      <4>3. QED
        BY <1>4, <4>2
    <3>3. at + i - 1 \in 0 .. Parts - 1 /\ c - (k - 1) \in Int
      BY <1>4
    <3>4. c - (k - 1) = 0
      BY <1>4, <3>2, <3>3, SameMultiple
    <3>5. at + i = 1 /\ c = k - 1
      BY <1>4, <3>2, <3>4
    <3>6. link'[r][j] = Pred(seqno[e])
      BY <1>5, <1>7, <3>1, <3>5
    <3>7. Pred(Later(expect[r], k)) = Later(expect[r], k - 1)
      <4>1. expect[r] \in Words /\ k \in Int
        BY <1>3, MovedIs
      <4>2. QED
        BY <4>1, Numbering
    <3>8. QED
      BY <1>9, <3>5, <3>6, <3>7 DEF Number
  <2>4. QED
    BY <2>2, <2>3
<1>11. WriterAhead(r)'
  <2>1. Moved(r)' + Len(link'[r]) + toWrite'[e] = Parts * k
    <3>1. Moved(r)' = Moved(r) /\ Len(link'[r]) = Len(L) + n /\ toWrite'[e] = toWrite[e] - n
      BY <1>6, <1>7, <1>8
    <3>2. Moved(r) \in Int /\ Len(L) \in Int /\ toWrite[e] \in Int /\ n \in Int
      BY <1>4, <1>7, <1>8
    <3>3. Moved(r)' + Len(link'[r]) + toWrite'[e] = Moved(r) + Len(L) + toWrite[e]
      BY <3>1, <3>2
    <3>4. QED
      BY <1>9, <3>3
  <2>2. seqno'[e] = Number(r, k)'
    BY <1>2, <1>9 DEF Number
  <2>3. QED
    BY <1>3, <2>1, <2>2 DEF WriterAhead
<1>12. QED
  BY <1>2, <1>8, <1>10, <1>11 DEF InStep

-----------------------------------------------------------------------------
(* The link is empty and nobody has started.                               *)
LEMMA InitDemoInv == Init => DemoInv
<1>1. SUFFICES ASSUME Init PROVE DemoInv
  OBVIOUS
<1>2. 0 \in Words /\ 0 \in Counts /\ Parts \in Nat \ {0}
  BY Bounds
<1>3. DemoTypes
  <2>1. [e \in Ends |-> <<>>] \in [Ends -> Seq(Words)] /\ 0 \in Nat
    OBVIOUS
  <2>2. QED
    BY <1>1, <1>2, <2>1 DEF Init, DemoTypes
<1>4. Started
  <2>1. /\ \A e \in Ends : ~reading[e] /\ ~writing[e] /\ expect[e] = 0
        /\ \A e \in Ends : toWrite[e] = 0 /\ seqno[e] = 0
        /\ running = FALSE /\ pc = "wait"
    BY <1>1 DEF Init
  <2>2. reading["leon"] = FALSE /\ writing["leon"] = FALSE
    BY <1>1, Bounds DEF Init
  <2>3. QED
    BY <2>1, <2>2 DEF Started
<1>5. ASSUME NEW e \in Ends PROVE InStep(e)
  <2>1. /\ Moved(e) = 0 /\ Len(link[e]) = 0 /\ toWrite[Peer(e)] = 0 /\ seqno[Peer(e)] = 0
        /\ expect[e] = 0 /\ ~rx_error[e]
    BY <1>1, PeerOf DEF Init, Moved
  <2>2. Number(e, 0) = 0
    BY <1>2, <2>1, Numbering DEF Number
  <2>3. ChunksInLink(e)
    BY <2>1 DEF ChunksInLink
  <2>4. Moved(e) + Len(link[e]) + toWrite[Peer(e)] = Parts * 0
    BY <1>2, <2>1
  <2>5. WriterAhead(e)
    BY <2>1, <2>2, <2>4 DEF WriterAhead
  <2>6. QED
    BY <2>1, <2>3, <2>5 DEF InStep
<1>6. QED
  BY <1>3, <1>4, <1>5 DEF DemoInv

(* A part of the link is a sequence of numbers, and what is left a count... *)
LEMMA ReadTypes ==
  ASSUME DemoTypes, NEW e \in Ends, Read(e)
  PROVE  DemoTypes'
<1>1. PICK n \in 1 .. toRead[e] :
        /\ n <= Len(link[e])
        /\ first' = [first EXCEPT ![e] = IF toRead[e] = Parts THEN link[e][1] ELSE @]
        /\ link' = [link EXCEPT ![e] = SubSeq(@, n + 1, Len(@))]
        /\ toRead' = [toRead EXCEPT ![e] = @ - n]
  BY DEF Read, Remaining
<1>2. link[e] \in Seq(Words) /\ toRead[e] \in 0 .. Parts /\ Parts \in Nat
  BY MovedIs, Bounds DEF DemoTypes
<1>3. link[e][1] \in Words /\ toRead[e] - n \in Counts
  BY <1>1, <1>2 DEF Counts
<1>4. SubSeq(link[e], n + 1, Len(link[e])) \in Seq(Words)
  BY <1>1, <1>2
<1>5. link' \in [Ends -> Seq(Words)]
  BY <1>1, <1>4 DEF DemoTypes
<1>6. first' \in [Ends -> Words] /\ toRead' \in [Ends -> Counts]
  BY <1>1, <1>3 DEF DemoTypes
<1>7. QED
  BY <1>5, <1>6 DEF Read, DemoTypes, writeVars, leonVars

(* ...and so are a link with a part of a buffer and what is left of that.  *)
LEMMA WriteTypes ==
  ASSUME DemoTypes, NEW e \in Ends, Write(e)
  PROVE  DemoTypes'
<1> DEFINE r  == Peer(e)
           at == Parts - toWrite[e]
<1>1. PICK n \in 1 .. toWrite[e] :
        /\ link' = [link EXCEPT ![r] = @ \o SubSeq(writeBuffer(e), at + 1, at + n)]
        /\ toWrite' = [toWrite EXCEPT ![e] = @ - n]
  BY DEF Write, Remaining
<1>2. r \in Ends
  BY PeerOf
<1>3. /\ at \in Nat /\ n \in Nat /\ at + n <= Parts /\ toWrite[e] - n \in Counts
      /\ link[r] \in Seq(Words)
  <2>1. toWrite[e] \in 0 .. Parts /\ Parts \in Nat /\ link[r] \in Seq(Words)
    BY <1>2, MovedIs, Bounds DEF DemoTypes
  <2>2. toWrite[e] - n \in 0 .. Parts /\ at \in Nat /\ at + n <= Parts
    BY <2>1
  <2>3. QED
    BY <1>1, <2>1, <2>2 DEF Counts
<1> DEFINE new == SubSeq(writeBuffer(e), at + 1, at + n)
<1>4. new \in Seq(Words)
  BY <1>3, BufferParts
<1> HIDE DEF new
<1>5. link[r] \o new \in Seq(Words)
  BY <1>3, <1>4
<1>6. link' \in [Ends -> Seq(Words)]
  BY <1>1, <1>5 DEF new, DemoTypes
<1>7. toWrite' \in [Ends -> Counts]
  BY <1>1, <1>3 DEF DemoTypes
<1>8. QED
  BY <1>6, <1>7 DEF Write, DemoTypes, readVars, leonVars

(* Every step keeps the types.                                             *)
LEMMA NextDemoTypes == DemoTypes /\ [Next]_vars => DemoTypes'
<1>1. SUFFICES ASSUME DemoTypes, [Next]_vars PROVE DemoTypes'
  OBVIOUS
<1>2. 0 \in Words /\ 0 \in Counts /\ Parts \in Counts /\ "host" \in Ends /\ "leon" \in Ends
  BY Bounds
<1>3. ASSUME NEW e \in Ends, Reader(e) \/ Writer(e) PROVE DemoTypes'
  <2>1. first[e] \in Words /\ seqno[e] \in Words /\ Going(e) \in BOOLEAN
    BY <1>1 DEF DemoTypes, Going
  <2>2. \A k \in Int : Succ(first[e]) \in Words /\ Succ(seqno[e]) \in Words
    BY <2>1, Numbering
  <2>3. Succ(first[e]) \in Words /\ Succ(seqno[e]) \in Words
    BY <2>2
  <2>4. CASE Check(e)
    <3>1. rx_error' \in [Ends -> BOOLEAN]
      BY <1>1, <2>4 DEF Check, DemoTypes
    <3>2. expect' \in [Ends -> Words] /\ toRead' \in [Ends -> Counts]
      BY <1>1, <1>2, <2>3, <2>4 DEF Check, DemoTypes
    <3>3. reading' \in [Ends -> BOOLEAN]
      BY <1>1, <2>1, <2>4 DEF Check, DemoTypes
    <3>4. QED
      BY <1>1, <2>4, <3>1, <3>2, <3>3 DEF Check, DemoTypes, writeVars, leonVars
  <2>5. CASE NextChunk(e)
    BY <1>1, <1>2, <2>3, <2>5 DEF NextChunk, DemoTypes, readVars, leonVars
  <2>6. QED
    BY <1>1, <1>3, <2>4, <2>5, ReadTypes, WriteTypes DEF Reader, Writer
<1>4. CASE Fails
  <2>1. errors' \in Nat
    BY <1>1, <1>4 DEF Fails, HostReadFails, HostWriteFails, LeonReadFails, LeonWriteFails, DemoTypes
  <2>2. CASE HostReadFails
    BY <1>1, <1>2, <2>1, <2>2 DEF HostReadFails, DemoTypes, writeVars, leonVars
  <2>3. CASE HostWriteFails
    BY <1>1, <1>2, <2>1, <2>3 DEF HostWriteFails, DemoTypes, readVars, leonVars
  <2>4. CASE LeonReadFails
    BY <1>1, <2>1, <2>4 DEF LeonReadFails, DemoTypes, writeVars
  <2>5. CASE LeonWriteFails
    BY <1>1, <2>1, <2>5 DEF LeonWriteFails, DemoTypes, readVars
  <2>6. QED
    BY <1>4, <2>2, <2>3, <2>4, <2>5 DEF Fails
<1>6. CASE HostStart \/ LeonOpen \/ CalculatorEnds
  BY <1>1, <1>2, <1>6 DEF HostStart, LeonOpen, CalculatorEnds, DemoTypes, readVars, writeVars,
     leonVars
<1>7. CASE StartReader
  <2>1. reading' \in [Ends -> BOOLEAN]
    BY <1>1, <1>7 DEF StartReader, DemoTypes
  <2>2. toRead' \in [Ends -> Counts]
    BY <1>1, <1>2, <1>7 DEF StartReader, DemoTypes
  <2>3. expect' \in [Ends -> Words]
    BY <1>1, <1>2, <1>7 DEF StartReader, DemoTypes
  <2>4. pc' = "writer"
    BY <1>7 DEF StartReader
  <2>5. QED
    BY <1>1, <1>7, <2>1, <2>2, <2>3, <2>4 DEF StartReader, DemoTypes, writeVars
<1>8. CASE StartWriter
  <2>1. writing' \in [Ends -> BOOLEAN]
    BY <1>1, <1>8 DEF StartWriter, DemoTypes, writeVars
  <2>2. toWrite' \in [Ends -> Counts]
    BY <1>1, <1>2, <1>8 DEF StartWriter, DemoTypes, writeVars
  <2>3. seqno' \in [Ends -> Words]
    BY <1>1, <1>2, <1>8 DEF StartWriter, DemoTypes, writeVars
  <2>4. pc' = "calculator"
    BY <1>8 DEF StartWriter
  <2>5. QED
    BY <1>1, <1>8, <2>1, <2>2, <2>3, <2>4 DEF StartWriter, DemoTypes, readVars
<1>9. CASE StartCalculator
  BY <1>1, <1>9 DEF StartCalculator, DemoTypes, readVars, writeVars
<1>10. CASE LeonClose
  <2>1. PICK kept \in SUBSET Ends : link' = [e \in Ends |-> IF e \in kept THEN link[e] ELSE <<>>]
    BY <1>10 DEF LeonClose
  <2>2. link' \in [Ends -> Seq(Words)]
    BY <1>1, <2>1 DEF DemoTypes
  <2>3. QED
    BY <1>1, <1>10, <2>2 DEF LeonClose, DemoTypes, readVars, writeVars
<1>11. CASE UNCHANGED vars
  BY <1>1, <1>11 DEF vars, DemoTypes, readVars, writeVars, leonVars
<1>12. QED
  BY <1>1, <1>3, <1>4, <1>6, <1>7, <1>8, <1>9, <1>10, <1>11 DEF Next, POSIX_Init

(* Without an error every task goes on once it has been started.           *)
LEMMA NextStarted ==
  ASSUME DemoTypes, errors = 0, Started, [Next]_vars, ~Fails
  PROVE  /\ Started' /\ ~LeonClose
         /\ \A e \in Ends : reading[e] \/ writing[e] => Going(e)
         /\ HostStart => ~reading["host"] /\ expect["host"] = 0
         /\ StartReader => ~reading["leon"] /\ expect["leon"] = 0 /\ reading'["leon"]
         /\ StartWriter => toWrite["leon"] = 0 /\ seqno["leon"] = 0
<1>1. "leon" \in Ends /\ "host" \in Ends /\ \A e \in Ends : e = "leon" \/ e = "host"
  BY DEF Ends
<1>2. \A e \in Ends : reading[e] \/ writing[e] => Going(e)
  BY <1>1 DEF Started, Going
<1>3. ~LeonClose
  BY DEF LeonClose, Started
<1>4. HostStart => ~reading["host"] /\ expect["host"] = 0
  BY <1>1 DEF HostStart, Started
<1>5. StartReader => ~reading["leon"] /\ expect["leon"] = 0 /\ reading'["leon"]
  <2>1. SUFFICES ASSUME StartReader PROVE ~reading["leon"] /\ expect["leon"] = 0 /\ reading'["leon"]
    OBVIOUS
  <2>2. running /\ ~reading["leon"] /\ expect["leon"] = 0
    BY <1>1, <2>1 DEF StartReader, Started
  <2>3. reading'["leon"] = running
    BY <1>1, <2>1 DEF StartReader, DemoTypes
  <2>4. QED
    BY <2>2, <2>3
<1>6. StartWriter => toWrite["leon"] = 0 /\ seqno["leon"] = 0
  BY <1>1 DEF StartWriter, Started
<1>7. ASSUME NEW e \in Ends, Read(e) \/ Write(e) PROVE Started'
  <2>1. CASE Read(e)
    BY <2>1 DEF Read, Started, writeVars, leonVars
  <2>2. CASE Write(e)
    BY <2>2 DEF Write, Started, DemoTypes, readVars, leonVars
  <2>3. QED
    BY <1>7, <2>1, <2>2
<1>8. ASSUME NEW e \in Ends, Check(e) PROVE Started'
  <2>1. Going(e) /\ reading[e]
    BY <1>2, <1>8 DEF Check
  <2>2. reading' = reading
    BY <1>8, <2>1 DEF Check, DemoTypes
  <2>3. \A f \in Ends : f # e => expect'[f] = expect[f]
    BY <1>8 DEF Check, DemoTypes
  <2>4. QED
    BY <1>8, <2>1, <2>2, <2>3 DEF Check, Started, writeVars, leonVars
<1>9. ASSUME NEW e \in Ends, NextChunk(e) PROVE Started'
  <2>1. Going(e) /\ writing[e]
    BY <1>2, <1>9 DEF NextChunk
  <2>2. writing' = writing
    BY <1>9, <2>1 DEF NextChunk
  <2>3. \A f \in Ends : f # e => toWrite'[f] = toWrite[f] /\ seqno'[f] = seqno[f]
    BY <1>9, <2>1 DEF NextChunk, DemoTypes
  <2>4. QED
    BY <1>9, <2>1, <2>2, <2>3 DEF NextChunk, Started, readVars, leonVars
<1>10. ASSUME HostStart PROVE Started'
  <2>1. /\ \A e \in Ends : e # "host" => reading'[e] = reading[e] /\ writing'[e] = writing[e]
        /\ reading'["host"] /\ writing'["host"]
    BY <1>1, <1>10 DEF HostStart, DemoTypes
  <2>2. /\ expect' = expect /\ toWrite' = toWrite /\ seqno' = seqno /\ running' = running
        /\ pc' = pc
    BY <1>10 DEF HostStart, leonVars
  <2>3. "leon" # "host"
    OBVIOUS
  <2>4. reading'["leon"] = reading["leon"] /\ writing'["leon"] = writing["leon"]
    BY <1>1, <2>1, <2>3
  <2>5. QED
    BY <2>1, <2>2, <2>4 DEF Started
<1>11. ASSUME LeonOpen PROVE Started'
  BY <1>11 DEF LeonOpen, Started, readVars, writeVars
<1>12. ASSUME StartReader PROVE Started'
  <2>1. running /\ pc = "reader" /\ pc' = "writer" /\ running' = running
    BY <1>12 DEF StartReader, Started
  <2>2. reading'["leon"] /\ \A e \in Ends : e # "leon" => reading'[e] = reading[e]
    BY <1>1, <1>5, <1>12 DEF StartReader, DemoTypes
  <2>3. expect'["leon"] = 0 /\ \A e \in Ends : e # "leon" => expect'[e] = expect[e]
    BY <1>1, <1>12 DEF StartReader, DemoTypes
  <2>4. writing' = writing /\ toWrite' = toWrite /\ seqno' = seqno
    BY <1>12 DEF StartReader, writeVars
  <2>5. \A e \in Ends : ~reading'[e] => expect'[e] = 0
    BY <2>2, <2>3 DEF Started
  <2>6. ~writing["leon"]
    BY <2>1 DEF Started
  <2>7. QED
    BY <2>1, <2>2, <2>4, <2>5, <2>6 DEF Started
<1>13. ASSUME StartWriter PROVE Started'
  <2>1. running /\ pc = "writer" /\ pc' = "calculator" /\ running' = running
    BY <1>13 DEF StartWriter, Started
  <2>2. writing'["leon"] /\ \A e \in Ends : e # "leon" => writing'[e] = writing[e]
    BY <1>1, <1>13, <2>1 DEF StartWriter, DemoTypes
  <2>3. /\ toWrite'["leon"] = 0 /\ seqno'["leon"] = 0
        /\ \A e \in Ends : e # "leon" => toWrite'[e] = toWrite[e] /\ seqno'[e] = seqno[e]
    BY <1>1, <1>13 DEF StartWriter, DemoTypes
  <2>4. reading' = reading /\ expect' = expect
    BY <1>13 DEF StartWriter, readVars
  <2>5. \A e \in Ends : ~writing'[e] => toWrite'[e] = 0 /\ seqno'[e] = 0
    BY <2>2, <2>3 DEF Started
  <2>6. reading["leon"]
    BY <2>1 DEF Started
  <2>7. QED
    BY <2>1, <2>2, <2>4, <2>5, <2>6 DEF Started
<1>14. ASSUME StartCalculator PROVE Started'
  BY <1>14 DEF StartCalculator, Started, readVars, writeVars
<1>15. ASSUME CalculatorEnds PROVE Started'
  BY <1>15 DEF CalculatorEnds, Started, readVars, writeVars
<1>16. ASSUME UNCHANGED vars PROVE Started'
  BY <1>16 DEF vars, Started, readVars, writeVars, leonVars
<1>17. Started'
  BY <1>3, <1>7, <1>8, <1>9, <1>10, <1>11, <1>12, <1>13, <1>14, <1>15, <1>16
     DEF Next, Reader, Writer, POSIX_Init
<1>18. QED
  BY <1>2, <1>3, <1>4, <1>5, <1>6, <1>17

(* No step but a failing call takes the link out of step.                  *)
LEMMA NextInStep ==
  ASSUME DemoTypes, errors = 0, Started, \A e \in Ends : InStep(e), [Next]_vars, ~Fails
  PROVE  \A e \in Ends : InStep(e)'
<1>1. "leon" \in Ends /\ "host" \in Ends /\ \A e \in Ends : e = "leon" \/ e = "host"
  BY DEF Ends
<1>2. ASSUME NEW e \in Ends, NEW f \in Ends, Read(f) \/ Check(f) PROVE InStep(e)'
  <2>1. CASE e = f
    BY <1>2, <2>1, ReadInStep, CheckInStep, NextStarted DEF Check
  <2>2. CASE e # f
    <3>1. /\ link'[e] = link[e] /\ reading'[e] = reading[e] /\ toRead'[e] = toRead[e]
          /\ expect'[e] = expect[e] /\ first'[e] = first[e] /\ rx_error'[e] = rx_error[e]
          /\ toWrite' = toWrite /\ seqno' = seqno
      BY <1>2, <2>2 DEF Read, Check, DemoTypes, writeVars
    <3>2. Moved(e)' = Moved(e)
      BY <3>1 DEF Moved
    <3>3. QED
      BY <3>1, <3>2, SameStep
  <2>3. QED
    BY <2>1, <2>2
<1>3. ASSUME NEW e \in Ends, NEW f \in Ends, NextChunk(f) \/ Write(f) PROVE InStep(e)'
  <2>1. CASE e = Peer(f)
    BY <1>3, <2>1, NextChunkInStep, WriteInStep, NextStarted DEF NextChunk
  <2>2. CASE e # Peer(f)
    <3>1. e = f /\ Peer(f) # f /\ Peer(f) \in Ends
      BY <2>2, PeerOf
    <3>2. /\ link'[e] = link[e] /\ reading' = reading /\ toRead' = toRead
          /\ expect' = expect /\ first' = first /\ rx_error' = rx_error
      BY <1>3, <3>1 DEF NextChunk, Write, DemoTypes, readVars
    <3>3. toWrite'[Peer(e)] = toWrite[Peer(e)] /\ seqno'[Peer(e)] = seqno[Peer(e)]
      BY <1>3, <3>1 DEF NextChunk, Write, DemoTypes
    <3>4. Moved(e)' = Moved(e)
      BY <3>2 DEF Moved
    <3>5. QED
      BY <3>2, <3>3, <3>4, SameStep
  <2>3. QED
    BY <2>1, <2>2
<1>4. ASSUME NEW e \in Ends, HostStart \/ StartReader PROVE InStep(e)'
  <2>1. Moved(e)' = Moved(e) /\ expect'[e] = expect[e]
    <3>1. CASE HostStart
      <4>1. CASE e = "host"
        <5>1. ~reading[e] /\ reading'[e] /\ toRead'[e] = Parts /\ expect' = expect
          BY <3>1, <4>1 DEF HostStart, DemoTypes
        <5>2. QED
          BY <5>1, Bounds DEF Moved
      <4>2. CASE e # "host"
        BY <3>1, <4>2 DEF HostStart, DemoTypes, Moved
      <4>3. QED
        BY <4>1, <4>2
    <3>2. CASE StartReader
      <4>1. CASE e = "leon"
        <5>1. ~reading[e] /\ reading'[e] /\ expect[e] = 0
          BY <3>2, <4>1, NextStarted
        <5>2. toRead'[e] = Parts /\ expect'[e] = 0
          BY <3>2, <4>1 DEF StartReader, DemoTypes
        <5>3. QED
          BY <5>1, <5>2, Bounds DEF Moved
      <4>2. CASE e # "leon"
        BY <3>2, <4>2 DEF StartReader, DemoTypes, Moved
      <4>3. QED
        BY <4>1, <4>2
    <3>3. QED
      BY <1>4, <3>1, <3>2
  <2>2. /\ link' = link /\ first' = first /\ rx_error' = rx_error
        /\ toWrite' = toWrite /\ seqno' = seqno
    BY <1>4 DEF HostStart, StartReader, writeVars
  <2>3. QED
    BY <2>1, <2>2, SameStep
<1>5. ASSUME NEW e \in Ends, StartWriter PROVE InStep(e)'
  <2>1. toWrite'[Peer(e)] = toWrite[Peer(e)] /\ seqno'[Peer(e)] = seqno[Peer(e)]
    <3>1. CASE Peer(e) = "leon"
      <4>1. toWrite["leon"] = 0 /\ seqno["leon"] = 0
        BY <1>5, NextStarted
      <4>2. toWrite'["leon"] = 0 /\ seqno'["leon"] = 0
        BY <1>1, <1>5 DEF StartWriter, DemoTypes
      <4>3. QED
        BY <3>1, <4>1, <4>2
    <3>2. CASE Peer(e) # "leon"
      BY <1>5, <3>2, PeerOf DEF StartWriter, DemoTypes
    <3>3. QED
      BY <3>1, <3>2
  <2>2. /\ link' = link /\ reading' = reading /\ toRead' = toRead /\ first' = first
        /\ expect' = expect /\ rx_error' = rx_error
    BY <1>5 DEF StartWriter, readVars
  <2>3. Moved(e)' = Moved(e)
    BY <2>2 DEF Moved
  <2>4. QED
    BY <2>1, <2>2, <2>3, SameStep
<1>6. ASSUME NEW e \in Ends,
             LeonOpen \/ StartCalculator \/ CalculatorEnds \/ UNCHANGED vars
      PROVE  InStep(e)'
  <2>1. /\ link' = link /\ reading' = reading /\ toRead' = toRead /\ first' = first
        /\ expect' = expect /\ rx_error' = rx_error /\ toWrite' = toWrite /\ seqno' = seqno
    BY <1>6 DEF LeonOpen, StartCalculator, CalculatorEnds, vars, readVars, writeVars
  <2>2. Moved(e)' = Moved(e)
    BY <2>1 DEF Moved
  <2>3. QED
    BY <2>1, <2>2, SameStep
<1>7. ~LeonClose
  BY NextStarted
<1>8. QED
  BY <1>2, <1>3, <1>4, <1>5, <1>6, <1>7 DEF Next, Reader, Writer, POSIX_Init

(* The invariant is inductive: what it says of the numbers is only said    *)
(* while no call has failed, and only a failing call counts one.           *)
LEMMA NextDemoInv == DemoInv /\ [Next]_vars => DemoInv'
<1>1. SUFFICES ASSUME DemoInv, [Next]_vars PROVE DemoInv'
  OBVIOUS
<1>2. DemoTypes /\ DemoTypes'
  BY <1>1, NextDemoTypes DEF DemoInv
<1>3. ASSUME errors' = 0 PROVE errors = 0 /\ ~Fails
  <2>1. errors \in Nat
    BY <1>2 DEF DemoTypes
  <2>2. ~Fails
    BY <1>3, <2>1 DEF Fails, HostReadFails, HostWriteFails, LeonReadFails, LeonWriteFails
  <2>3. errors' = errors
    BY <1>1, <2>2 DEF Next, Reader, Writer, POSIX_Init, Read, Check, NextChunk, Write, HostStart,
       LeonOpen, StartReader, StartWriter, StartCalculator, CalculatorEnds, LeonClose, vars
  <2>4. QED
    BY <1>3, <2>2, <2>3
<1>4. ASSUME errors' = 0 PROVE Started' /\ \A e \in Ends : InStep(e)'
  <2>1. errors = 0 /\ ~Fails /\ Started /\ \A e \in Ends : InStep(e)
    BY <1>1, <1>3, <1>4 DEF DemoInv
  <2>2. Started'
    BY <1>1, <1>2, <2>1, NextStarted
  <2>3. QED
    BY <1>1, <1>2, <2>1, <2>2, NextInStep
<1>5. QED
  BY <1>2, <1>4 DEF DemoInv

(* The link is in step for as long as no call of the driver has failed.    *)
THEOREM DemoHolds == Spec => []DemoInv
BY InitDemoInv, NextDemoInv, PTL DEF Spec

(* Neither end of the demonstration counts a wrong number before a call of *)
(* the driver has failed, into whatever parts the calls divide the chunks. *)
THEOREM NumbersAgree == Spec => []MismatchOnlyAfterError
<1>1. DemoInv => MismatchOnlyAfterError
  <2>1. SUFFICES ASSUME DemoInv, NEW e \in Ends, rx_error[e] PROVE errors > 0
    BY DEF MismatchOnlyAfterError
  <2>2. errors \in Nat /\ errors # 0
    BY <2>1 DEF DemoInv, DemoTypes, InStep
  <2>3. QED
    BY <2>2
<1>2. QED
  BY <1>1, DemoHolds, PTL
-----------------------------------------------------------------------------
(* Both directions at once.                                                *)

(* What the directions both write.                                         *)
SharedTypes == dbPending \in BOOLEAN /\ msi \in BOOLEAN

(* Nothing is queued or on its way.                                        *)
LEMMA InitShared == LinkInit => SharedTypes
BY DEF LinkInit, Tx!Init, SharedTypes

(* Of what the transmit path and the device do for it, the receive path    *)
(* sees that the doorbell item gets queued, that an interrupt is raised by *)
(* a device that is up, or nothing.                                        *)
LEMMA TxStepSeen ==
  ASSUME SharedTypes, TxStep
  PROVE  SharedTypes' /\ (Rx!OtherDirection \/ UNCHANGED Rx!vars)
<1>1. UNCHANGED <<rxVars, up>>
  BY DEF TxStep, Tx!TxHandler, Tx!TxBegin, Tx!TxClean, Tx!TxFill, Tx!TxMapError,
     Tx!TxFillDone, Tx!TxPublish, Tx!TxBell, Tx!TxWake, Tx!DeviceWork, Tx!DeviceConsume,
     Tx!DeviceDone, Tx!Write, Tx!WriteCall, Tx!WriteAlloc, Tx!WriteCopy, Tx!WriteStop,
     Tx!WritePut, Tx!WriteStart, Tx!PollSleep, Tx!device
<1>2. \/ UNCHANGED <<dbPending, msi>>
      \/ dbPending' = TRUE /\ msi' = msi
      \/ up /\ msi' \in BOOLEAN /\ (msi => msi') /\ dbPending' = dbPending
  <2>1. CASE Tx!TxHandler
    BY <2>1, Zenon DEF Tx!TxHandler, Tx!TxBegin, Tx!TxClean, Tx!TxFill, Tx!TxMapError,
       Tx!TxFillDone, Tx!TxPublish, Tx!TxBell, Tx!TxWake, Tx!device, Tx!work
  <2>2. CASE Tx!DeviceWork
    BY <2>2 DEF SharedTypes, Tx!DeviceWork, Tx!DeviceConsume, Tx!DeviceDone, Tx!work
  <2>3. ASSUME NEW i \in Interfaces,
               \/ \E n \in 0 .. MaxLen : Tx!Write(i, n)
               \/ Tx!WriteCall(i) \/ Tx!PollSleep(i)
        PROVE  UNCHANGED <<dbPending, msi>>
    BY <2>3 DEF Tx!Write, Tx!WriteCall, Tx!WriteAlloc, Tx!WriteCopy, Tx!WriteStop,
       Tx!WritePut, Tx!WriteStart, Tx!PollSleep, Tx!device, Tx!work
  <2>4. QED
    BY <2>1, <2>2, <2>3 DEF TxStep
<1>3. QED
  BY <1>1, <1>2 DEF SharedTypes, rxVars, Rx!OtherDirection, Rx!vars, Rx!device, Rx!lists,
     Rx!work, Rx!handler, Rx!calls, Rx!history

(* The same with the directions exchanged.                                 *)
LEMMA RxStepSeen ==
  ASSUME SharedTypes, RxStep
  PROVE  SharedTypes' /\ (Tx!OtherDirection \/ UNCHANGED Tx!vars)
<1>1. UNCHANGED <<txVars, up>>
  BY DEF RxStep, Rx!RxHandler, Rx!RxBegin, Rx!RxTake, Rx!RxNoReplacement, Rx!RxTakenAll,
     Rx!RxPublish, Rx!RxBell, Rx!RxEnd, Rx!DeviceWork, Rx!DeviceSend, Rx!DeviceStall,
     Rx!DeviceSignal, Rx!Read, Rx!ReadCall, Rx!ReadCopy, Rx!ReadNext, Rx!ReadEnd,
     Rx!PollSleep, Rx!device
<1>2. \/ UNCHANGED <<dbPending, msi>>
      \/ dbPending' = TRUE /\ msi' = msi
      \/ up /\ msi' \in BOOLEAN /\ (msi => msi') /\ dbPending' = dbPending
  <2>1. CASE Rx!RxHandler
    BY <2>1 DEF Rx!RxHandler, Rx!RxBegin, Rx!RxTake, Rx!RxNoReplacement, Rx!RxTakenAll,
       Rx!RxPublish, Rx!RxBell, Rx!RxEnd, Rx!device, Rx!work
  <2>2. CASE Rx!DeviceWork
    BY <2>2 DEF SharedTypes, Rx!DeviceWork, Rx!DeviceSend, Rx!DeviceStall,
       Rx!DeviceSignal, Rx!work
  <2>3. ASSUME NEW i \in Interfaces,
               \/ \E n \in 0 .. MaxRead : Rx!Read(i, n)
               \/ Rx!ReadCall(i) \/ Rx!PollSleep(i)
        PROVE  UNCHANGED <<dbPending, msi>>
    BY <2>3 DEF Rx!Read, Rx!ReadCall, Rx!ReadCopy, Rx!ReadNext, Rx!ReadEnd,
       Rx!PollSleep, Rx!device, Rx!work
  <2>4. QED
    BY <2>1, <2>2, <2>3 DEF RxStep
<1>3. QED
  BY <1>1, <1>2 DEF SharedTypes, txVars, Tx!OtherDirection, Tx!vars, Tx!device, Tx!lists,
     Tx!work, Tx!handler, Tx!calls, Tx!history

(* So every step of the link is a step of each direction, or none.         *)
LEMMA NextLink ==
  ASSUME SharedTypes, [LinkNext]_linkVars
  PROVE  SharedTypes' /\ [Tx!Next]_(Tx!vars) /\ [Rx!Next]_(Rx!vars)
<1>1. CASE TxStep
  <2>1. Tx!Next
    BY <1>1 DEF TxStep, Tx!Next
  <2>2. SharedTypes' /\ [Rx!Next]_(Rx!vars)
    BY <1>1, TxStepSeen DEF Rx!Next
  <2>3. QED
    BY <2>1, <2>2
<1>2. CASE RxStep
  <2>1. Rx!Next
    BY <1>2 DEF RxStep, Rx!Next
  <2>2. SharedTypes' /\ [Tx!Next]_(Tx!vars)
    BY <1>2, RxStepSeen DEF Tx!Next
  <2>3. QED
    BY <2>1, <2>2
<1>3. CASE SendDoorbell \/ Interrupt \/ DeviceDown
  <2>1. Tx!Next /\ Rx!Next
    BY <1>3 DEF SendDoorbell, Interrupt, DeviceDown, Tx!Next, Rx!Next
  <2>2. SharedTypes'
    BY <1>3 DEF SharedTypes, SendDoorbell, Interrupt, DeviceDown, Tx!SendDoorbell,
       Tx!Interrupt, Tx!DeviceDown, Tx!work
  <2>3. QED
    BY <2>1, <2>2
<1>4. CASE UNCHANGED linkVars
  BY <1>4 DEF SharedTypes, linkVars, shared, txVars, rxVars, Tx!vars, Tx!device, Tx!lists,
     Tx!work, Tx!handler, Tx!calls, Tx!history, Rx!vars, Rx!device, Rx!lists, Rx!work,
     Rx!handler, Rx!calls, Rx!history
<1>5. QED
  BY <1>1, <1>2, <1>3, <1>4 DEF LinkNext

(* The driver with both directions in use behaves as the transmit path and *)
(* as the receive path do: one doorbell item and one interrupt for the two *)
(* directions are enough.                                                  *)
THEOREM LinkIsBoth == LinkSpec => Tx!Spec /\ Rx!Spec
<1>1. LinkInit => Tx!Init /\ Rx!Init
  BY DEF LinkInit
<1>2. QED
  BY <1>1, InitShared, NextLink, PTL DEF LinkSpec, Tx!Spec, Rx!Spec

(* Both ways at once, fragments leave in the order of the writes, once and *)
(* unaltered (PipelineInOrder, IsFifo), and what is read is the stream the *)
(* device sent (StreamInOrder).                                            *)
THEOREM LinkKeepsOrder ==
  ASSUME LinkAssumption
  PROVE  LinkSpec => [](Tx!PipelineInOrder /\ Rx!StreamInOrder) /\ Tx!IsFifo
<1>1. Tx!Spec => []Tx!PipelineInOrder
  BY Tx!FragmentsStayInOrder DEF LinkAssumption
<1>2. Tx!Spec => Tx!IsFifo
  BY Tx!TransmitIsFifo DEF LinkAssumption
<1>3. Rx!Spec => []Rx!StreamInOrder
  BY Rx!BytesStayInOrder DEF LinkAssumption
<1>4. QED
  BY <1>1, <1>2, <1>3, LinkIsBoth, PTL

(* Both ways at once, no signal is lost in the parts the directions share: *)
(* a run of the doorbell item that one of them asked for serves the other, *)
(* and so does an interrupt (DoorbellNotLost, StallNotForgotten,           *)
(* DescriptorsNotForgotten, SleeperWillBeWoken).                           *)
THEOREM LinkLosesNoSignal ==
  ASSUME LinkAssumption
  PROVE  LinkSpec => [](/\ Tx!DoorbellNotLost /\ Tx!SleeperWillBeWoken
                        /\ Rx!StallNotForgotten /\ Rx!DescriptorsNotForgotten)
<1>1. Tx!Spec => []Tx!DoorbellNotLost
  BY Tx!DoorbellRings DEF LinkAssumption
<1>2. Tx!Spec => []Tx!SleeperWillBeWoken
  BY Tx!SleeperIsWoken DEF LinkAssumption
<1>3. Rx!Spec => []Rx!StallNotForgotten
  BY Rx!StallIsRungOff DEF LinkAssumption
<1>4. Rx!Spec => []Rx!DescriptorsNotForgotten
  BY Rx!DescriptorsAreSeen DEF LinkAssumption
<1>5. QED
  BY <1>1, <1>2, <1>3, <1>4, LinkIsBoth, PTL

(* Both ways at once, a buffer has one owner (OneOwner), and the device    *)
(* finds mapped buffers in its windows of both rings (DeviceWindowFilled,  *)
(* DeviceWindowMapped), of which the one to read from stays as it is       *)
(* (DeviceWindowStable).                                                   *)
THEOREM LinkSharesNoBuffer ==
  ASSUME LinkAssumption
  PROVE  LinkSpec => /\ [](Tx!OneOwner /\ Rx!OneOwner)
                     /\ [](Tx!DeviceWindowFilled /\ Rx!DeviceWindowMapped)
                     /\ Tx!DeviceWindowStable
<1>1. Tx!Spec => []Tx!OneOwner
  BY Tx!BuffersHaveOneOwner DEF LinkAssumption
<1>2. Rx!Spec => []Rx!OneOwner
  BY Rx!BuffersHaveOneOwner DEF LinkAssumption
<1>3. Tx!Spec => []Tx!DeviceWindowFilled
  BY Tx!DeviceReadsFilledSlots DEF LinkAssumption
<1>4. Rx!Spec => []Rx!DeviceWindowMapped
  BY Rx!WindowStaysMapped DEF LinkAssumption
<1>5. Tx!Spec => Tx!DeviceWindowStable
  BY Tx!DeviceWindowUntouched DEF LinkAssumption
<1>6. QED
  BY <1>1, <1>2, <1>3, <1>4, <1>5, LinkIsBoth, PTL
=============
