------------------------------ MODULE Counters ------------------------------
(***************************************************************************)
(* Round-trip counting: the counted connection of internal/rtcount, the    *)
(* goroutine that reads from it, and the recording of one number per       *)
(* iteration by a benchmark mode at --concurrency 1 (bench.counters), down *)
(* to the median that the result reports (stats.medianInts).               *)
(*                                                                         *)
(* An iteration makes a number of exchanges, a request and its response.   *)
(* The client goroutine writes; another goroutine (the SSH mux, the read   *)
(* loop of net/http, gRPC or QUIC) sits in Read most of the time and hands *)
(* the response over.  A trip is counted when a Read begins after a Write. *)
(* The counts of Read and Write calls, which are recorded in the same way, *)
(* are left out.                                                           *)
(***************************************************************************)
EXTENDS Integers, Sequences, FiniteSets, SequencesExt

CONSTANTS
    Iterations,     \* iterations of the mode
    Exchanges,      \* exchanges of an iteration
    Handshake,      \* trips the dialling goroutine makes before the connection is used
    MaxSegments,    \* bound: Reads that a response may take
    MaxFaults       \* bound: connections that break and writes of the protocol itself
                    \* (window updates, acknowledgements)

ASSUME IterationsAssumption == Iterations \in Nat \ {0}
ASSUME ExchangesAssumption == Exchanges \in Nat \ {0}
ASSUME HandshakeAssumption == Handshake \in Nat
ASSUME BoundsAssumption == MaxSegments \in Nat \ {0} /\ MaxFaults \in Nat

\* How a mode uses and records its connections:
\*   shared     one connection, which is gone when it breaks (SSH)
\*   redialled  one connection, which the transport replaces when it breaks
\*   fresh      one per iteration (sshFreshBench and others)
\*   each       one per exchange, all recorded (HTTPS fresh-conn)
\*   last       one per exchange, the last recorded (RESTCONF fresh-conn)
Kinds == {"shared", "redialled", "fresh", "each", "last"}
OneConn == {"shared", "redialled"}
PerExchange == {"each", "last"}

VARIABLES
    kind,       \* the mode
    idx,        \* the iteration; 0 is the warm-up
    pc,         \* the client goroutine
    sent,       \* exchanges of this iteration that have been answered
    conn,       \* the counted connection: "none", "up" or "broken"
    trips,      \* its counter
    lastDir,    \* its last direction: 0 none, 1 read, 2 write
    reader,     \* the goroutine in Read
    due,        \* segments of the response that Read has yet to return
    bt,         \* the baseline of this iteration
    past,       \* trips of this iteration's earlier connections
    faults,     \* breaks and protocol writes so far
    note,       \* history of this iteration: protocol writes, whether it has dialled, whether
                \* the reader was late, whether the new connection has yet to answer
    recorded,   \* recorded[i]: what the iterations so far recorded, and how they went
    result      \* RoundTrips of the mode, -1 until it is summarised

wire == <<conn, trips, lastDir, reader, due>>
vars == <<kind, idx, pc, sent, wire, bt, past, faults, note, recorded, result>>

Notes == [extra : Nat, dialled : BOOLEAN, late : BOOLEAN, unused : BOOLEAN]
NoNote == [extra |-> 0, dialled |-> FALSE, late |-> FALSE, unused |-> FALSE]

TypeOK ==
    /\ kind \in Kinds
    /\ idx \in 0..Iterations
    /\ pc \in {"begin", "dial", "store", "write", "await", "record", "summarize", "end"}
    /\ sent \in 0..Exchanges
    /\ conn \in {"none", "up", "broken"}
    /\ trips \in Nat
    /\ lastDir \in 0..2
    /\ reader \in {"none", "swap", "count", "read"}
    /\ due \in 0..MaxSegments
    /\ bt \in Nat
    /\ past \in Nat
    /\ faults \in 0..MaxFaults
    /\ note \in Notes
    /\ recorded \in Seq([trips : Int, ok : BOOLEAN, note : Notes])
    /\ result \in Int

\* Modes that share a connection warm it up first; the others start at once.
Init ==
    /\ kind \in Kinds
    /\ idx = IF kind \in OneConn THEN 0 ELSE 1
    /\ pc = "dial"
    /\ sent = 0
    /\ conn = "none"
    /\ trips = 0
    /\ lastDir = 0
    /\ reader = "none"
    /\ due = 0
    /\ bt = 0
    /\ past = 0
    /\ faults = 0
    /\ note = NoNote
    /\ recorded = <<>>
    /\ result = -1

-----------------------------------------------------------------------------
(* rtcount.Conn *)

\* Mutant: the direction is looked at and not changed.
ReadSwapKeepsDir ==
    /\ reader = "swap"
    /\ reader' = IF lastDir = 2 THEN "count" ELSE "read"
    /\ UNCHANGED <<kind, idx, pc, sent, conn, trips, lastDir, due, bt, past, faults, note, recorded, result>>

\* Read: c.lastDir.Swap(1) == 2
ReadSwap ==
    /\ reader = "swap"
    /\ reader' = IF lastDir = 2 THEN "count" ELSE "read"
    /\ lastDir' = 1
    /\ UNCHANGED <<kind, idx, pc, sent, conn, trips, due, bt, past, faults, note, recorded, result>>

\* Read: c.trips.Add(1)
ReadCount ==
    /\ reader = "count"
    /\ reader' = "read"
    /\ trips' = trips + 1
    /\ UNCHANGED <<kind, idx, pc, sent, conn, lastDir, due, bt, past, faults, note, recorded, result>>

\* The read returns a segment and its goroutine reads on; with
\* DisableKeepAlives it ends with the response.
ReadReturns ==
    /\ reader = "read"
    /\ due > 0
    /\ due' = due - 1
    /\ reader' = IF due = 1 /\ kind \in PerExchange THEN "none" ELSE "swap"
    /\ UNCHANGED <<kind, idx, pc, sent, conn, trips, lastDir, bt, past, faults, note, recorded, result>>

\* The reader is behind if it is not in the Read that will get the next response.
Late == [note EXCEPT !.late = @ \/ reader # "read"]

\* Write: c.lastDir.Store(2)
Store ==
    /\ pc = "store"
    /\ conn = "up"
    /\ pc' = "write"
    /\ lastDir' = 2
    /\ note' = Late
    /\ UNCHANGED <<kind, idx, sent, conn, trips, reader, due, bt, past, faults, recorded, result>>

\* Write: c.Conn.Write(b); the server will answer in some segments.
Write ==
    /\ pc = "write"
    /\ conn = "up"
    /\ pc' = "await"
    /\ due' \in 1..MaxSegments
    /\ UNCHANGED <<kind, idx, sent, conn, trips, lastDir, reader, bt, past, faults, note, recorded, result>>

\* The protocol writes on its own account (both atomic steps of Write at once).
ProtocolWrite ==
    /\ conn = "up"
    /\ kind \notin PerExchange
    /\ pc \notin {"summarize", "end"}
    /\ faults < MaxFaults
    /\ faults' = faults + 1
    /\ lastDir' = 2
    /\ note' = [note EXCEPT !.extra = @ + 1]
    /\ UNCHANGED <<kind, idx, pc, sent, conn, trips, reader, due, bt, past, recorded, result>>

\* The connection breaks, in use or idle.
Break ==
    /\ conn = "up"
    /\ pc \notin {"summarize", "end"}
    /\ pc = "await" => due > 0
    /\ faults < MaxFaults
    /\ faults' = faults + 1
    /\ conn' = "broken"
    /\ reader' = "none"
    /\ due' = 0
    /\ UNCHANGED <<kind, idx, pc, sent, trips, lastDir, bt, past, note, recorded, result>>

-----------------------------------------------------------------------------
(* The client goroutine: one iteration after the other *)

\* rtcount.Wrap around a new connection.  The handshake counts its own trips;
\* it ends with a read, or with a write as TLS 1.3 does.
Dial ==
    /\ pc = "dial"
    /\ conn' = "up"
    /\ trips' = Handshake
    /\ lastDir' \in {1, 2}
    /\ reader' = "swap"
    /\ due' = 0
    /\ pc' = "store"
    /\ note' = [note EXCEPT !.dialled = TRUE, !.late = @ \/ lastDir' = 2, !.unused = TRUE]
    /\ UNCHANGED <<kind, idx, sent, bt, past, faults, recorded, result>>

\* The exchange finds its connection broken, or it breaks under a request that
\* net/http may repeat: the transport dials again, unless the connection was new.
Redial ==
    /\ pc \in {"store", "write", "await"}
    /\ conn = "broken"
    /\ kind = "redialled"
    /\ ~note.unused
    /\ pc' = "dial"
    /\ UNCHANGED <<kind, idx, sent, wire, bt, past, faults, note, recorded, result>>

\* bt = cc.Trips(), 0 while there is no connection
Begin ==
    /\ pc = "begin"
    /\ bt' = IF kind \in OneConn /\ conn # "none" THEN trips ELSE 0
    /\ pc' = IF kind \in OneConn /\ conn # "none" THEN "store" ELSE "dial"
    /\ note' = [NoNote EXCEPT !.late = kind \in OneConn /\ reader # "read"]
    /\ past' = 0
    /\ UNCHANGED <<kind, idx, sent, wire, faults, recorded, result>>

\* The response is complete.
Reply ==
    /\ pc = "await"
    /\ conn = "up"
    /\ due = 0
    /\ sent' = sent + 1
    /\ pc' = IF sent' = Exchanges \/ idx = 0 THEN "record"
             ELSE IF kind \in PerExchange THEN "dial"
             ELSE "store"
    \* A new connection is about to take over cc.
    /\ past' = IF pc' = "dial" THEN past + trips ELSE past
    /\ note' = [note EXCEPT !.unused = FALSE]
    /\ UNCHANGED <<kind, idx, wire, bt, faults, recorded, result>>

NextIteration ==
    /\ idx' = IF idx < Iterations THEN idx + 1 ELSE idx
    /\ pc' = IF idx < Iterations THEN "begin" ELSE "summarize"
    /\ sent' = 0

\* Mutant: the baseline is forgotten.
TripsNoBaseline == IF kind = "each" THEN past + trips ELSE trips

\* recordConnDelta; recordConns, which adds the connections up; recordConn of cc
Trips ==
    IF kind \in OneConn THEN trips - bt
    ELSE IF kind = "each" THEN past + trips
    ELSE trips

Record ==
    /\ pc = "record"
    /\ recorded' = IF idx = 0 THEN recorded
                   ELSE Append(recorded, [trips |-> Trips, ok |-> TRUE, note |-> Late])
    /\ NextIteration
    /\ UNCHANGED <<kind, wire, bt, past, faults, note, result>>

\* The exchange fails: return errDuration, which leaves the zero of makeCounters.
\* The connection broke (a transport dials again only for one it has used
\* before, and not for every request), the dial failed, or the answer is an error and the connection stays.
Fail ==
    /\ \/ pc \in {"write", "await"} /\ conn = "broken"
       \/ pc = "store" /\ conn = "broken" /\ (kind # "redialled" \/ note.unused)
       \/ pc = "dial" /\ (idx > 0 \/ kind = "redialled")
       \/ pc = "await" /\ due = 0
    /\ recorded' = IF idx = 0 THEN recorded
                   ELSE Append(recorded, [trips |-> 0, ok |-> FALSE, note |-> note])
    /\ NextIteration
    /\ UNCHANGED <<kind, wire, bt, past, faults, note, result>>

\* sort.Ints: the numbers in ascending order
sortInts(s) ==
    LET p == CHOOSE p \in Bijection(DOMAIN s, DOMAIN s) :
                \A i, j \in DOMAIN s : i < j => s[p[i]] <= s[p[j]]
    IN  [i \in DOMAIN s |-> s[p[i]]]

\* Mutant: the element below the middle.
medianIntsLow(s) ==
    LET c == sortInts(s)
        n == Len(s)
    IN  IF n = 0 THEN 0 ELSE c[IF n \div 2 = 0 THEN 1 ELSE n \div 2]

\* Go's / truncates towards zero, \div rounds down.
Half(x) == IF x >= 0 THEN x \div 2 ELSE -((-x) \div 2)

\* stats.medianInts (Go's c[n/2] is TLA+'s c[n \div 2 + 1])
medianInts(s) ==
    LET c == sortInts(s)
        n == Len(s)
    IN  IF n = 0 THEN 0
        ELSE IF n % 2 = 1 THEN c[n \div 2 + 1]
        ELSE Half(c[n \div 2] + c[n \div 2 + 1])

\* Summarize: RoundTrips is 0 if no iteration succeeded, else the median over
\* all iterations, the zeros of the failed ones included.
Summarize ==
    /\ pc = "summarize"
    /\ result' = IF \E i \in DOMAIN recorded : recorded[i].ok
                 THEN medianInts([i \in DOMAIN recorded |-> recorded[i].trips])
                 ELSE 0
    /\ pc' = "end"
    /\ UNCHANGED <<kind, idx, sent, wire, bt, past, faults, note, recorded>>

-----------------------------------------------------------------------------

Reader == ReadSwap \/ ReadCount \/ ReadReturns

Client == Store \/ Write \/ Dial \/ Redial \/ Begin \/ Reply \/ Record \/ Fail \/ Summarize

Ended == pc = "end" /\ UNCHANGED vars

Next == Reader \/ Client \/ ProtocolWrite \/ Break \/ Ended

Spec == Init /\ [][Next]_vars

-----------------------------------------------------------------------------
(* Properties *)

Succeeded == {i \in DOMAIN recorded : recorded[i].ok}

\* On a shared connection that stays, a late reader distorts an iteration, but
\* only so far.  Two requests that it overtakes together count once, so half of
\* the trips may be lost, never more; and the one trip that it owes when an
\* iteration is recorded is counted in the next.  Protocol writes come on top.
DeltaBounds ==
    kind \in OneConn =>
        \A i \in Succeeded : ~recorded[i].note.dialled =>
            /\ recorded[i].trips >= Exchanges \div 2
            /\ recorded[i].trips <= Exchanges + 1 + recorded[i].note.extra

\* If the reader is back in Read before the client writes and records, and the
\* protocol writes nothing by itself, the number is exact: so the only sources
\* of error are a late reader, writes of the protocol and a redial.
ExactWhenReaderKeepsUp ==
    \A i \in Succeeded :
        ~recorded[i].note.late /\ recorded[i].note.extra = 0 =>
            /\ kind = "fresh" => recorded[i].trips = Handshake + Exchanges
            /\ kind \in OneConn /\ ~recorded[i].note.dialled => recorded[i].trips = Exchanges

\* The report survives what happens to the minority: failed iterations enter the
\* median as zeros, and one that dialled again may record a negative number, but
\* as long as these are fewer than half, the reported number lies between the
\* numbers of two others -- of any majority of the successful ones, so of those
\* that kept their connection, if they are one.
MedianOfSuccesses ==
    pc = "end" =>
        \A G \in SUBSET Succeeded : 2 * Cardinality(G) > Iterations =>
            /\ \E i \in G : recorded[i].trips <= result
            /\ \E i \in G : result <= recorded[i].trips
=============================================================================
