----------------------------- MODULE SerialDemo -----------------------------
(***************************************************************************)
(* The demonstration of the serial link (examples/PcieSerialDrvDemo): a    *)
(* program on the host and an application on the device each send numbered *)
(* chunks to the other and check the numbers they receive, all at once.    *)
(*                                                                         *)
(* The driver below is the link: parts come out in the order in which they *)
(* went in (MxlkFifo), in calls that move any number of them, and a call   *)
(* may fail.  The throughput counters, only printed, are left out.  A task *)
(* of the application runs ahead of its main thread, which has a lower     *)
(* priority.                                                               *)
(***************************************************************************)
EXTENDS Integers, Sequences

CONSTANTS
    Parts,           \* parts of a chunk, which is BUFLEN bytes
    Room,            \* parts the link holds each way
    Numbers,         \* 2^32, how many sequence numbers there are
    MaxErrors        \* bound: driver calls that fail

ASSUME DemoAssumption ==
    /\ Parts \in Nat \ {0} /\ Room \in Nat \ {0} /\ Numbers \in Nat \ {0}
    /\ MaxErrors \in Nat

VARIABLES
    link,            \* what is on its way to each end
    (* The reader of each end: rx_running, what readStream has still to    *)
    (* read, the first word of readBuffer, expect, and whether rx_error    *)
    (* has counted a wrong number.                                         *)
    reading, toRead, first, expect, rx_error,
    (* The writer: tx_running, what writeStream has still to write, seqno. *)
    writing, toWrite, seqno,
    (* The application: running, cc_running, where POSIX_Init stands.      *)
    running, calculating, pc,
    errors           \* driver calls that failed so far

readVars  == <<reading, toRead, first, expect, rx_error>>
writeVars == <<writing, toWrite, seqno>>
leonVars  == <<running, calculating, pc>>
vars == <<link, readVars, writeVars, leonVars, errors>>

Ends == {"host", "leon"}
Peer(e) == IF e = "host" THEN "leon" ELSE "host"

Init ==
    /\ link = [e \in Ends |-> <<>>]
    /\ reading = [e \in Ends |-> FALSE] /\ writing = [e \in Ends |-> FALSE]
    /\ toRead = [e \in Ends |-> 0] /\ toWrite = [e \in Ends |-> 0]
    /\ first = [e \in Ends |-> 0] /\ rx_error = [e \in Ends |-> FALSE]
    /\ expect = [e \in Ends |-> 0] /\ seqno = [e \in Ends |-> 0]
    /\ running = FALSE /\ calculating = FALSE /\ pc = "wait"
    /\ errors = 0

Succ(n) == (n + 1) % Numbers
Pred(n) == (n + Numbers - 1) % Numbers

(* `running`, which nothing resets on the host.                            *)
Going(e) == e = "host" \/ running

(* `remaining` after a call that moved k parts.                            *)
Bug_OneCallIsEnough(left, k) == 0 * (left + k)
Bug_SameAgain(left, k) == left
Remaining(left, k) == left - k

-----------------------------------------------------------------------------
(* readStream: a call gives what there is, up to what was asked for.       *)
Read(e) ==
    /\ reading[e] /\ toRead[e] > 0
    /\ \E k \in 1 .. toRead[e] :
        /\ k <= Len(link[e])
        /\ first' = [first EXCEPT ![e] = IF toRead[e] = Parts THEN link[e][1] ELSE @]
        /\ link' = [link EXCEPT ![e] = SubSeq(@, k + 1, Len(@))]
        /\ toRead' = [toRead EXCEPT ![e] = Remaining(@, k)]
    /\ UNCHANGED <<reading, expect, rx_error, writeVars, leonVars, errors>>

(* An error: the host stops reading and returns how far it came, which is  *)
(* no error to its caller...                                               *)
HostReadFails ==
    /\ errors < MaxErrors /\ errors' = errors + 1
    /\ reading["host"] /\ toRead["host"] > 0
    /\ toRead' = [toRead EXCEPT !["host"] = 0]
    /\ UNCHANGED <<link, reading, first, expect, rx_error, writeVars, leonVars>>

(* ...and the application's reader ends, and the others with it.           *)
LeonReadFails ==
    /\ errors < MaxErrors /\ errors' = errors + 1
    /\ reading["leon"] /\ toRead["leon"] > 0
    /\ reading' = [reading EXCEPT !["leon"] = FALSE]
    /\ running' = FALSE
    /\ UNCHANGED <<link, toRead, first, expect, rx_error, writeVars, calculating, pc>>

(* The reader checks the number, goes on from the one it got, and reads    *)
(* another chunk or ends.                                                  *)
Check(e) ==
    /\ reading[e] /\ toRead[e] = 0
    /\ rx_error' = [rx_error EXCEPT ![e] = @ \/ first[e] # expect[e]]
    /\ expect' = [expect EXCEPT ![e] = Succ(first[e])]
    /\ reading' = [reading EXCEPT ![e] = Going(e)]
    /\ toRead' = [toRead EXCEPT ![e] = Parts]
    /\ UNCHANGED <<link, first, writeVars, leonVars, errors>>

-----------------------------------------------------------------------------
(* The writer numbers its buffer, the rest of which stays zero, or ends.   *)
NextChunk(e) ==
    /\ writing[e] /\ toWrite[e] = 0
    /\ IF Going(e)
       THEN /\ seqno' = [seqno EXCEPT ![e] = Succ(@)]
            /\ toWrite' = [toWrite EXCEPT ![e] = Parts]
            /\ UNCHANGED writing
       ELSE writing' = [writing EXCEPT ![e] = FALSE] /\ UNCHANGED <<toWrite, seqno>>
    /\ UNCHANGED <<link, readVars, leonVars, errors>>

writeBuffer(e) == [j \in 1 .. Parts |-> IF j = 1 THEN Pred(seqno[e]) ELSE 0]

(* writeStream: a call takes some of what is left.                         *)
Write(e) ==
    /\ writing[e] /\ toWrite[e] > 0
    /\ \E k \in 1 .. toWrite[e] :
        /\ Len(link[Peer(e)]) + k <= Room
        /\ LET at == Parts - toWrite[e]
           IN  link' = [link EXCEPT ![Peer(e)] =
                            @ \o SubSeq(writeBuffer(e), at + 1, at + k)]
        /\ toWrite' = [toWrite EXCEPT ![e] = Remaining(@, k)]
    /\ UNCHANGED <<readVars, writing, seqno, leonVars, errors>>

HostWriteFails ==
    /\ errors < MaxErrors /\ errors' = errors + 1
    /\ writing["host"] /\ toWrite["host"] > 0
    /\ toWrite' = [toWrite EXCEPT !["host"] = 0]
    /\ UNCHANGED <<link, readVars, writing, seqno, leonVars>>

LeonWriteFails ==
    /\ errors < MaxErrors /\ errors' = errors + 1
    /\ writing["leon"] /\ toWrite["leon"] > 0
    /\ writing' = [writing EXCEPT !["leon"] = FALSE]
    /\ running' = FALSE
    /\ UNCHANGED <<link, readVars, toWrite, seqno, calculating, pc>>

-----------------------------------------------------------------------------
(* main of the host, once the device has been opened.                      *)
HostStart ==
    /\ ~reading["host"]
    /\ reading' = [reading EXCEPT !["host"] = TRUE]
    /\ writing' = [writing EXCEPT !["host"] = TRUE]
    /\ toRead' = [toRead EXCEPT !["host"] = Parts]
    /\ UNCHANGED <<link, first, expect, rx_error, toWrite, seqno, leonVars, errors>>

(* POSIX_Init: when the host is up it opens the link...                    *)
LeonOpen ==
    /\ pc = "wait"
    /\ running' = TRUE
    /\ pc' = "reader"
    /\ UNCHANGED <<link, readVars, writeVars, calculating, errors>>

(* ...and starts the tasks.  One that has ended before may be refused.     *)
StartReader ==
    /\ pc = "reader" /\ pc' = "writer"
    /\ \/ /\ reading' = [reading EXCEPT !["leon"] = running]
          /\ toRead' = [toRead EXCEPT !["leon"] = Parts]
          /\ expect' = [expect EXCEPT !["leon"] = 0]
       \/ errors > 0 /\ UNCHANGED <<reading, toRead, expect>>
    /\ UNCHANGED <<link, first, rx_error, writeVars, running, calculating, errors>>

StartWriter ==
    /\ pc = "writer" /\ pc' = "calculator"
    /\ \/ /\ writing' = [writing EXCEPT !["leon"] = running]
          /\ toWrite' = [toWrite EXCEPT !["leon"] = 0]
          /\ seqno' = [seqno EXCEPT !["leon"] = 0]
       \/ errors > 0 /\ UNCHANGED writeVars
    /\ UNCHANGED <<link, readVars, running, calculating, errors>>

StartCalculator ==
    /\ pc = "calculator" /\ pc' = "watch"
    /\ calculating' \in {running} \union (IF errors > 0 THEN {FALSE} ELSE {})
    /\ UNCHANGED <<link, readVars, writeVars, running, errors>>

CalculatorEnds ==
    /\ calculating /\ ~running
    /\ calculating' = FALSE
    /\ UNCHANGED <<link, readVars, writeVars, running, pc, errors>>

(* With no task left it closes the link, which may drop what is on it, and *)
(* starts again.                                                           *)
LeonClose ==
    /\ pc = "watch" /\ ~reading["leon"] /\ ~writing["leon"] /\ ~calculating
    /\ pc' = "wait"
    /\ \E kept \in SUBSET Ends :
        link' = [e \in Ends |-> IF e \in kept THEN link[e] ELSE <<>>]
    /\ UNCHANGED <<readVars, writeVars, running, calculating, errors>>

-----------------------------------------------------------------------------
Reader(e) == Read(e) \/ Check(e)
Writer(e) == NextChunk(e) \/ Write(e)

Fails == HostReadFails \/ LeonReadFails \/ HostWriteFails \/ LeonWriteFails

POSIX_Init ==
    LeonOpen \/ StartReader \/ StartWriter \/ StartCalculator \/ LeonClose

Next ==
    \/ \E e \in Ends : Reader(e) \/ Writer(e)
    \/ Fails \/ HostStart \/ POSIX_Init \/ CalculatorEnds

Spec == Init /\ [][Next]_vars

(* The threads of both ends run, and what is on the link arrives.          *)
Fairness ==
    /\ \A e \in Ends : WF_vars(Reader(e)) /\ WF_vars(Writer(e))
    /\ WF_vars(POSIX_Init) /\ WF_vars(CalculatorEnds)

FairSpec == Spec /\ Fairness

-----------------------------------------------------------------------------
(* A wrong sequence number is counted only after a driver call has failed: *)
(* calls that move a part of a chunk, at either end, do not shift what the *)
(* reader takes for the start of one.                                      *)
MismatchOnlyAfterError == \A e \in Ends : rx_error[e] => errors > 0

(* As both ends read while they write, neither waits for the other for     *)
(* ever: unless a call fails, chunks keep arriving both ways once the host *)
(* program runs.                                                           *)
ChunksKeepArriving ==
    \A e \in Ends :
        \/ []<>(errors > 0 \/ ~reading["host"])
        \/ []<><<Check(e)>>_vars
=============================================================================
