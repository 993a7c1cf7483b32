---------------------------- MODULE RunParallel ----------------------------
(***************************************************************************)
(* stats.RunParallel: the worker pool under every benchmark mode.  The     *)
(* calling goroutine takes a slot of the buffered channel `sem' before it  *)
(* starts each worker goroutine, and waits for all of them on a WaitGroup. *)
(* What fn measures is abstracted to whether it succeeded ("ok") or        *)
(* returned ErrDuration ("err"); an unwritten result is Go's zero value.   *)
(***************************************************************************)
EXTENDS Integers, FiniteSets

CONSTANTS
    Iterations,   \* the `iterations' parameter
    Concurrency   \* the `concurrency' parameter, the capacity of sem

ASSUME IterationsAssumption == Iterations \in Nat
\* With a capacity of 0 the first send blocks for ever.
ASSUME ConcurrencyAssumption == Concurrency \in Nat \ {0}

VARIABLES
    pc,       \* the caller: at the loop test, at the send, at `go', in Wait, returned
    i,        \* the loop variable
    sem,      \* elements in the channel sem
    wg,       \* counter of the WaitGroup
    g,        \* g[j]: the worker goroutine of index j
    results   \* results[j]

vars == <<pc, i, sem, wg, g, results>>

Indices == 0..(Iterations - 1)

TypeOK ==
    /\ pc \in {"loop", "send", "go", "wait", "returned"}
    /\ i \in 0..Iterations
    /\ sem \in 0..Concurrency
    /\ wg \in Nat
    /\ g \in [Indices -> {"none", "run", "written", "released", "done"}]
    /\ results \in [Indices -> {"zero", "ok", "err"}]

Init ==
    /\ pc = "loop"
    /\ i = 0
    /\ sem = 0
    /\ wg = 0
    /\ g = [j \in Indices |-> "none"]
    /\ results = [j \in Indices |-> "zero"]

-----------------------------------------------------------------------------
(* The calling goroutine *)

\* Mutant: the counter is not raised before the goroutine exists.
LoopWithoutAdd ==
    /\ pc = "loop"
    /\ i < Iterations
    /\ pc' = "send"
    /\ UNCHANGED <<i, sem, wg, g, results>>

\* wg.Add(1)
Loop ==
    /\ pc = "loop"
    /\ i < Iterations
    /\ wg' = wg + 1
    /\ pc' = "send"
    /\ UNCHANGED <<i, sem, g, results>>

\* Mutant: the pool is one slot larger.
SendOffByOne ==
    /\ pc = "send"
    /\ sem <= Concurrency
    /\ sem' = sem + 1
    /\ pc' = "go"
    /\ UNCHANGED <<i, wg, g, results>>

\* sem <- struct{}{} blocks while the buffer is full.
Send ==
    /\ pc = "send"
    /\ sem < Concurrency
    /\ sem' = sem + 1
    /\ pc' = "go"
    /\ UNCHANGED <<i, wg, g, results>>

\* go func(idx int) {...}(i); i++
Go ==
    /\ pc = "go"
    /\ g' = [g EXCEPT ![i] = "run"]
    /\ i' = i + 1
    /\ pc' = "loop"
    /\ UNCHANGED <<sem, wg, results>>

LoopEnds ==
    /\ pc = "loop"
    /\ i = Iterations
    /\ pc' = "wait"
    /\ UNCHANGED <<i, sem, wg, g, results>>

\* Mutant: the results are returned as soon as all workers are started.
WaitSkipped ==
    /\ pc = "wait"
    /\ pc' = "returned"
    /\ UNCHANGED <<i, sem, wg, g, results>>

\* wg.Wait(); return results
Wait ==
    /\ pc = "wait"
    /\ wg = 0
    /\ pc' = "returned"
    /\ UNCHANGED <<i, sem, wg, g, results>>

-----------------------------------------------------------------------------
(* The worker goroutine of index j *)

\* results[idx] = fn(idx)
Fn(j) ==
    /\ g[j] = "run"
    /\ g' = [g EXCEPT ![j] = "written"]
    /\ \E d \in {"ok", "err"} : results' = [results EXCEPT ![j] = d]
    /\ UNCHANGED <<pc, i, sem, wg>>

\* Mutant: a failed iteration keeps its slot.
ReleaseOnSuccess(j) ==
    /\ g[j] = "written"
    /\ sem > 0
    /\ sem' = IF results[j] = "ok" THEN sem - 1 ELSE sem
    /\ g' = [g EXCEPT ![j] = "released"]
    /\ UNCHANGED <<pc, i, wg, results>>

\* The second deferred call runs first: <-sem.
Release(j) ==
    /\ g[j] = "written"
    /\ sem > 0
    /\ sem' = sem - 1
    /\ g' = [g EXCEPT ![j] = "released"]
    /\ UNCHANGED <<pc, i, wg, results>>

\* wg.Done()
Done(j) ==
    /\ g[j] = "released"
    /\ wg' = wg - 1
    /\ g' = [g EXCEPT ![j] = "done"]
    /\ UNCHANGED <<pc, i, sem, results>>

-----------------------------------------------------------------------------

Caller == Loop \/ Send \/ Go \/ LoopEnds \/ Wait

Worker(j) == Fn(j) \/ Release(j) \/ Done(j)

\* RunParallel has returned; stuttering keeps TLC's deadlock check meaningful.
Returned == pc = "returned" /\ UNCHANGED vars

Next == Caller \/ Returned \/ \E j \in Indices : Worker(j)

Spec == Init /\ [][Next]_vars

\* Goroutines are scheduled and fn is assumed to return: the HTTP clients of
\* the callers give up after 30 s; the SSH, NETCONF and gNMI ones have no
\* timeout and rely on a server that answers or drops the connection.
FairSpec == Spec /\ WF_vars(Caller) /\ \A j \in Indices : WF_vars(Worker(j))

-----------------------------------------------------------------------------
(* Properties *)

\* fn never runs for more than `concurrency' indices at the same time.
ConcurrencyBound == Cardinality({j \in Indices : g[j] = "run"}) <= Concurrency

\* When RunParallel returns, every result is in its slot and no goroutine is
\* left: the caller reads `results', and the slices fn filled, without a lock.
NothingLate ==
    pc = "returned" => \A j \in Indices : g[j] = "done" /\ results[j] # "zero"

\* RunParallel keeps the promise of ParallelMap, and it returns.
Map == INSTANCE ParallelMap WITH
    running  <- {j \in Indices : g[j] = "run"},
    finished <- {j \in Indices : g[j] \in {"written", "released", "done"}},
    returned <- pc = "returned"

ImplementsParallelMap == Map!PMSpec
=============================================================================
