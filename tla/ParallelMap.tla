---------------------------- MODULE ParallelMap ----------------------------
(***************************************************************************)
(* What stats.RunParallel promises its callers: fn runs once for every     *)
(* index, never for more than Concurrency indices at a time, and the call  *)
(* returns once all of them have finished.  In which order they start is   *)
(* not promised.                                                           *)
(***************************************************************************)
EXTENDS Integers, FiniteSets

CONSTANTS Iterations, Concurrency

VARIABLES
    running,    \* indices for which fn is running
    finished,   \* indices for which fn has returned
    returned    \* whether RunParallel has returned

pmvars == <<running, finished, returned>>

Indices == 0..(Iterations - 1)

PMInit ==
    /\ running = {}
    /\ finished = {}
    /\ returned = FALSE

Start(i) ==
    /\ ~returned
    /\ i \notin running \cup finished
    /\ Cardinality(running) < Concurrency
    /\ running' = running \cup {i}
    /\ UNCHANGED <<finished, returned>>

Finish(i) ==
    /\ i \in running
    /\ running' = running \ {i}
    /\ finished' = finished \cup {i}
    /\ UNCHANGED returned

Return ==
    /\ ~returned
    /\ finished = Indices
    /\ returned' = TRUE
    /\ UNCHANGED <<running, finished>>

PMNext == Return \/ \E i \in Indices : Start(i) \/ Finish(i)

PMSafety == PMInit /\ [][PMNext]_pmvars

PMSpec == PMSafety /\ WF_pmvars(PMNext)
=============================================================================
