------------------------------- MODULE Sweep -------------------------------
(***************************************************************************)
(* The connection-scaling sweep (internal/bench/scale.go): for each        *)
(* selected transport and each level n, n goroutines open a connection     *)
(* each, all of them are held, every one runs its workload after a common  *)
(* barrier, and all are closed.  Opening, running and losing a connection  *)
(* interleave freely.  The timings and the heap are left out.              *)
(***************************************************************************)
EXTENDS Naturals, FiniteSets, Sequences

CONSTANTS
    Selected,     \* the transports given on the command line
    Levels,       \* --concurrency-sweep
    Commands,     \* commands of a workload
    Iterations    \* --iterations, which a sweep does not use

ASSUME LevelsAssumption == Levels \in Seq(Nat)
ASSUME CommandsAssumption == Commands \in Nat \ {0}
ASSUME IterationsAssumption == Iterations \in Nat

\* runSweep goes through the transports in this order.
Order == <<"ssh", "https", "gnmi", "http3", "netconf", "restconf">>

VARIABLES
    t,          \* the transport: an index of Order
    lvl,        \* the level: an index of Levels
    n,          \* connections of the level
    pc,         \* the goroutine of sweepLevel
    opener,     \* opener[i]: the goroutine that opens connection i
    link,       \* link[i]: the network connection
    conns,      \* the list of held connections, whose order does not matter
    errs,       \* connections that could not be opened
    start,      \* whether the channel start is closed
    worker,     \* worker[i]: the goroutine that runs the workload of i
    ran,        \* history: workloads of this level that succeeded in full
    results     \* one result for each level

phase == <<t, lvl, n, pc>>
vars == <<phase, opener, link, conns, errs, start, worker, ran, results>>

Up == {"open", "broken"}    \* a connection that holds a descriptor

\* The fields of stats.Result that matter, then what really happened.
Result ==
    [transport : {Order[k] : k \in DOMAIN Order}, sweepN : Nat, iterations : Nat, errors : Nat, ops : Nat,
     opened : Nat, refused : Nat, ran : Nat]

TypeOK ==
    /\ t \in 1..(Len(Order) + 1)
    /\ lvl \in 1..(Len(Levels) + 1)
    /\ n \in Nat
    /\ pc \in {"next", "open", "exec", "close"}
    /\ opener \in [1..n -> {"dial", "setup", "opened", "failed", "done"}]
    /\ link \in [1..n -> {"none", "open", "broken", "closed"}]
    /\ conns \subseteq 1..n
    /\ errs \in Nat
    /\ start \in BOOLEAN
    /\ worker \in [1..n -> {"none", "barrier", "exec", "ok", "err"}]
    /\ ran \in Nat
    /\ results \in Seq(Result)

Init ==
    /\ t = 1
    /\ lvl = 1
    /\ n = 0
    /\ pc = "next"
    /\ opener = [i \in 1..n |-> "done"]
    /\ link = [i \in 1..n |-> "none"]
    /\ conns = {}
    /\ errs = 0
    /\ start = FALSE
    /\ worker = [i \in 1..n |-> "none"]
    /\ ran = 0
    /\ results = <<>>

-----------------------------------------------------------------------------
(* Sweep: the loops over transports and levels *)

\* The transport is not selected, or its levels are done.
NextTransport ==
    /\ pc = "next"
    /\ t <= Len(Order)
    /\ Order[t] \notin Selected \/ lvl > Len(Levels)
    /\ t' = t + 1
    /\ lvl' = 1
    /\ UNCHANGED <<n, pc, opener, link, conns, errs, start, worker, ran, results>>

AtLevel == pc = "next" /\ t <= Len(Order) /\ Order[t] \in Selected /\ lvl <= Len(Levels)

\* if n < 1 { continue }
SkipLevel ==
    /\ AtLevel
    /\ Levels[lvl] < 1
    /\ lvl' = lvl + 1
    /\ UNCHANGED <<t, n, pc, opener, link, conns, errs, start, worker, ran, results>>

\* sweepLevel starts its openers.
StartLevel ==
    /\ AtLevel
    /\ Levels[lvl] >= 1
    /\ n' = Levels[lvl]
    /\ pc' = "open"
    /\ opener' = [i \in 1..n' |-> "dial"]
    /\ link' = [i \in 1..n' |-> "none"]
    /\ worker' = [i \in 1..n' |-> "none"]
    /\ conns' = {}
    /\ errs' = 0
    /\ start' = FALSE
    /\ ran' = 0
    /\ UNCHANGED <<t, lvl, results>>

-----------------------------------------------------------------------------
(* The opener goroutines *)

Dial(i) ==
    /\ opener[i] = "dial"
    /\ \/ /\ opener' = [opener EXCEPT ![i] = "setup"]
          /\ link' = [link EXCEPT ![i] = "open"]
       \/ /\ opener' = [opener EXCEPT ![i] = "failed"]
          /\ UNCHANGED link
    /\ UNCHANGED <<phase, conns, errs, start, worker, ran, results>>

\* The handshake, or the first request that warms the connection up.  On an
\* error each opener closes what it has dialled.
Setup(i) ==
    /\ opener[i] = "setup"
    /\ \/ /\ link[i] = "open"
          /\ opener' = [opener EXCEPT ![i] = "opened"]
          /\ UNCHANGED link
       \/ /\ opener' = [opener EXCEPT ![i] = "failed"]
          /\ link' = [link EXCEPT ![i] = "closed"]
    /\ UNCHANGED <<phase, conns, errs, start, worker, ran, results>>

\* Mutant: the lists that two openers read at the same time overwrite each other.
EnterRaces(i) ==
    /\ opener[i] \in {"opened", "failed"}
    /\ \E old \in SUBSET conns :
           conns' = IF opener[i] = "opened" THEN old \cup {i} ELSE conns
    /\ errs' = IF opener[i] = "failed" THEN errs + 1 ELSE errs
    /\ opener' = [opener EXCEPT ![i] = "done"]
    /\ UNCHANGED <<phase, link, start, worker, ran, results>>

\* Under mu: append to conns or count the error.
Enter(i) ==
    /\ opener[i] \in {"opened", "failed"}
    /\ conns' = IF opener[i] = "opened" THEN conns \cup {i} ELSE conns
    /\ errs' = IF opener[i] = "failed" THEN errs + 1 ELSE errs
    /\ opener' = [opener EXCEPT ![i] = "done"]
    /\ UNCHANGED <<phase, link, start, worker, ran, results>>

\* The server, or the network, ends a connection.
Break(i) ==
    /\ link[i] = "open"
    /\ link' = [link EXCEPT ![i] = "broken"]
    /\ UNCHANGED <<phase, opener, conns, errs, start, worker, ran, results>>

-----------------------------------------------------------------------------
(* sweepLevel after wg.Wait *)

Failed == {i \in conns : worker[i] = "err"}

\* stats.Summarize counts the errors; failed opens are in no field of their own.
Report ==
    [transport |-> Order[t], sweepN |-> n, iterations |-> Cardinality(conns),
     errors |-> Cardinality(Failed), ops |-> (Cardinality(conns) - Cardinality(Failed)) * Commands,
     opened |-> Cardinality(conns), refused |-> errs, ran |-> ran]

\* summarize with a single errDuration, and nothing to close
NoneOpened ==
    /\ pc = "open"
    /\ \A i \in 1..n : opener[i] = "done"
    /\ conns = {}
    /\ pc' = "close"
    /\ results' = Append(results, [Report EXCEPT !.iterations = Iterations, !.errors = 1])
    /\ UNCHANGED <<t, lvl, n, opener, link, conns, errs, start, worker, ran>>

\* wg.Wait; then a worker for each held connection.
StartWorkers ==
    /\ pc = "open"
    /\ \A i \in 1..n : opener[i] = "done"
    /\ conns # {}
    /\ pc' = "exec"
    /\ worker' = [i \in 1..n |-> IF i \in conns THEN "barrier" ELSE "none"]
    /\ UNCHANGED <<t, lvl, n, opener, link, conns, errs, start, ran, results>>

\* close(start)
Release ==
    /\ pc = "exec"
    /\ ~start
    /\ start' = TRUE
    /\ UNCHANGED <<phase, opener, link, conns, errs, worker, ran, results>>

\* <-start
Pass(i) ==
    /\ worker[i] = "barrier"
    /\ start
    /\ worker' = [worker EXCEPT ![i] = "exec"]
    /\ UNCHANGED <<phase, opener, link, conns, errs, start, ran, results>>

\* The transports of HTTP and gRPC replace a connection that they find broken.
Redial(i) ==
    /\ worker[i] = "exec"
    /\ link[i] = "broken"
    /\ Order[t] \notin {"ssh", "netconf"}
    /\ link' = [link EXCEPT ![i] = "open"]
    /\ UNCHANGED <<phase, opener, conns, errs, start, worker, ran, results>>

\* exec returns; an error may leave the connection as it is.
Exec(i) ==
    /\ worker[i] = "exec"
    /\ \/ /\ link[i] = "open"
          /\ worker' = [worker EXCEPT ![i] = "ok"]
          /\ ran' = ran + 1
       \/ /\ worker' = [worker EXCEPT ![i] = "err"]
          /\ UNCHANGED ran
    /\ UNCHANGED <<phase, opener, link, conns, errs, start, results>>

\* Mutant: every connection that was asked for is taken for a success.
SummarizeAll ==
    /\ pc = "exec"
    /\ \A i \in conns : worker[i] \in {"ok", "err"}
    /\ pc' = "close"
    /\ results' = Append(results, [Report EXCEPT !.ops = (n - Cardinality(Failed)) * Commands])
    /\ UNCHANGED <<t, lvl, n, opener, link, conns, errs, start, worker, ran>>

\* The second wg.Wait, then the result.
Summarize ==
    /\ pc = "exec"
    /\ \A i \in conns : worker[i] \in {"ok", "err"}
    /\ pc' = "close"
    /\ results' = Append(results, Report)
    /\ UNCHANGED <<t, lvl, n, opener, link, conns, errs, start, worker, ran>>

\* The deferred loop closes the held connections.
Close(i) ==
    /\ pc = "close"
    /\ i \in conns
    /\ link[i] \in Up
    /\ link' = [link EXCEPT ![i] = "closed"]
    /\ UNCHANGED <<phase, opener, conns, errs, start, worker, ran, results>>

Return ==
    /\ pc = "close"
    /\ \A i \in conns : link[i] \notin Up
    /\ pc' = "next"
    /\ lvl' = lvl + 1
    /\ UNCHANGED <<t, n, opener, link, conns, errs, start, worker, ran, results>>

-----------------------------------------------------------------------------

Main ==
    \/ NextTransport \/ SkipLevel \/ StartLevel \/ NoneOpened \/ StartWorkers
    \/ Release \/ Summarize \/ Return

Goroutine(i) ==
    Dial(i) \/ Setup(i) \/ Enter(i) \/ Pass(i) \/ Redial(i) \/ Exec(i) \/ Break(i) \/ Close(i)

Ended == pc = "next" /\ t > Len(Order) /\ UNCHANGED vars

Next == Main \/ (\E i \in 1..n : Goroutine(i)) \/ Ended

Spec == Init /\ [][Next]_vars

-----------------------------------------------------------------------------
(* Properties *)

\* A workload runs only while the whole level is held: every opener has
\* finished and no connection of the list has been closed.  Once the openers
\* are done no connection is left outside the list, where nobody would close
\* it, and between two levels none is left at all, however opening and running
\* failed.
HeldTogether ==
    /\ (\E i \in conns : worker[i] = "exec") =>
           /\ \A i \in 1..n : opener[i] = "done"
           /\ \A i \in conns : link[i] \in Up
    /\ pc # "open" => \A i \in 1..n : link[i] \in Up => i \in conns
    /\ pc = "next" => \A i \in 1..n : link[i] \notin Up

\* The operations reported for a level are those of the workloads that really
\* succeeded, and each connection asked for is accounted for: iterations and
\* errors tell the held and the failed ones, and the refused ones, which have
\* no field, are what is missing to the level.  If none could be opened the
\* iterations are those of the command line, and the one error stands for all.
LevelReport ==
    \A k \in DOMAIN results :
        LET r == results[k]
        IN  /\ r.ops = r.ran * Commands
            /\ r.opened + r.refused = r.sweepN
            /\ IF r.opened = 0
               THEN r.errors = 1 /\ r.iterations = Iterations
               ELSE r.iterations = r.sweepN - r.refused /\ r.errors = r.iterations - r.ran
=============================================================================
