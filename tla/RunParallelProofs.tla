------------------------- MODULE RunParallelProofs -------------------------
(***************************************************************************)
(* Proofs about RunParallel, for any number of iterations and any positive *)
(* concurrency.                                                            *)
(***************************************************************************)
EXTENDS RunParallel, FiniteSetTheorems, TLAPS

\* The workers that hold a slot of sem, and those the WaitGroup counts.
Holding == {j \in Indices : g[j] \in {"run", "written"}}
Counted == {j \in Indices : g[j] \in {"run", "written", "released"}}

\* The channel holds one element per slot in use, one more between the send and
\* the start of the worker.
SemInv == sem = Cardinality(Holding) + (IF pc = "go" THEN 1 ELSE 0)

\* The WaitGroup counts the workers not yet done, and the one about to start.
WgInv == wg = Cardinality(Counted) + (IF pc \in {"send", "go"} THEN 1 ELSE 0)

\* Workers are started in the order of their indices.
OrderInv ==
    /\ \A j \in Indices : g[j] = "none" <=> j >= i
    /\ pc \in {"send", "go"} => i < Iterations
    /\ pc \in {"wait", "returned"} => i = Iterations

\* A slot is filled exactly when its worker has returned from fn.
ResultInv ==
    \A j \in Indices : g[j] \in {"written", "released", "done"} <=> results[j] # "zero"

\* Nothing runs once RunParallel has returned.
ReturnInv == pc = "returned" => \A j \in Indices : g[j] = "done"

IInv == TypeOK /\ SemInv /\ WgInv /\ OrderInv /\ ResultInv /\ ReturnInv

USE IterationsAssumption, ConcurrencyAssumption

\* Every set of indices is finite, and one index more or less changes its
\* cardinality by one.
LEMMA IndexSets ==
  ASSUME NEW S, S \subseteq Indices
  PROVE  /\ IsFiniteSet(S)
         /\ Cardinality(S) \in Nat
         /\ \A j \in Indices \ S : Cardinality(S \cup {j}) = Cardinality(S) + 1
         /\ \A j \in S : Cardinality(S \ {j}) = Cardinality(S) - 1
         /\ Cardinality(S) = 0 <=> S = {}
  <1>1. IsFiniteSet(Indices)
    BY FS_Interval DEF Indices
  <1>2. IsFiniteSet(S) /\ Cardinality(S) \in Nat
    BY <1>1, FS_Subset, FS_CardinalityType
  <1>3. QED
    BY <1>2, FS_AddElement, FS_RemoveElement, FS_EmptySet

\* RunParallel enters its loop with an empty channel and no worker.
LEMMA InitIInv == Init => IInv
  <1> SUFFICES ASSUME Init PROVE IInv
    OBVIOUS
  <1>1. Holding = {} /\ Counted = {}
    BY DEF Init, Holding, Counted
  <1>2. Cardinality(Holding) = 0 /\ Cardinality(Counted) = 0
    BY <1>1, FS_EmptySet
  <1>3. QED
    BY <1>2 DEF Init, IInv, TypeOK, SemInv, WgInv, OrderInv, ResultInv, ReturnInv, Indices

\* Every step of the caller and of a worker keeps the inductive invariant; a
\* step of the caller that starts no worker leaves both sets alone.
LEMMA NextIInv == IInv /\ [Next]_vars => IInv'
  <1> SUFFICES ASSUME IInv, [Next]_vars PROVE IInv'
    OBVIOUS
  <1> DEFINE H == Cardinality(Holding)
             K == Cardinality(Counted)
  <1>0. /\ Holding \subseteq Indices /\ H \in Nat
        /\ Counted \subseteq Indices /\ K \in Nat
    BY IndexSets DEF Holding, Counted
  <1>1. CASE Loop
    <2>1. Holding' = Holding /\ Counted' = Counted
      BY <1>1 DEF Loop, Holding, Counted
    <2>2. QED
      BY <1>0, <1>1, <2>1
      DEF Loop, IInv, TypeOK, SemInv, WgInv, OrderInv, ResultInv, ReturnInv
  <1>2. CASE Send
    <2>1. Holding' = Holding /\ Counted' = Counted
      BY <1>2 DEF Send, Holding, Counted
    <2>2. QED
      BY <1>0, <1>2, <2>1
      DEF Send, IInv, TypeOK, SemInv, WgInv, OrderInv, ResultInv, ReturnInv
  <1>3. CASE Go
    <2>1. i \in Indices /\ g[i] = "none"
      BY <1>3 DEF Go, IInv, TypeOK, OrderInv, Indices
    <2>2. /\ i \notin Holding /\ Holding' = Holding \cup {i}
          /\ i \notin Counted /\ Counted' = Counted \cup {i}
      BY <1>3, <2>1 DEF Go, IInv, TypeOK, Holding, Counted
    <2>3. Cardinality(Holding') = H + 1 /\ Cardinality(Counted') = K + 1
      BY <1>0, <2>1, <2>2, IndexSets
    <2>4. TypeOK' /\ OrderInv' /\ ResultInv' /\ ReturnInv'
      BY <1>3, <2>1 DEF Go, IInv, TypeOK, OrderInv, ResultInv, ReturnInv, Indices
    <2>5. SemInv' /\ WgInv'
      BY <1>0, <1>3, <2>3 DEF Go, IInv, TypeOK, SemInv, WgInv
    <2>6. QED
      BY <2>4, <2>5 DEF IInv
  <1>4. CASE LoopEnds
    <2>1. Holding' = Holding /\ Counted' = Counted
      BY <1>4 DEF LoopEnds, Holding, Counted
    <2>2. QED
      BY <1>4, <2>1 DEF LoopEnds, IInv, TypeOK, SemInv, WgInv, OrderInv, ResultInv, ReturnInv
  <1>5. CASE Wait
    <2>1. Holding' = Holding /\ Counted' = Counted
      BY <1>5 DEF Wait, Holding, Counted
    \* The counter is 0 and every worker has been started, so all are done.
    <2>2. Counted = {}
      BY <1>0, <1>5, IndexSets DEF Wait, IInv, WgInv
    <2>3. \A j \in Indices : g[j] = "done"
      BY <1>5, <2>2 DEF Wait, IInv, TypeOK, OrderInv, Counted, Indices
    <2>4. QED
      BY <1>5, <2>1, <2>3
      DEF Wait, IInv, TypeOK, SemInv, WgInv, OrderInv, ResultInv, ReturnInv
  <1>6. ASSUME NEW j \in Indices, Fn(j) PROVE IInv'
    <2>1. Holding' = Holding /\ Counted' = Counted
      BY <1>6 DEF Fn, IInv, TypeOK, Holding, Counted
    <2>2. SemInv' /\ WgInv'
      BY <1>6, <2>1 DEF Fn, IInv, SemInv, WgInv
    <2>3. TypeOK' /\ OrderInv' /\ ResultInv' /\ ReturnInv'
      BY <1>6 DEF Fn, IInv, TypeOK, OrderInv, ResultInv, ReturnInv
    <2>4. QED
      BY <2>2, <2>3 DEF IInv
  <1>7. ASSUME NEW j \in Indices, Release(j) PROVE IInv'
    <2>1. j \in Holding /\ Holding' = Holding \ {j} /\ Counted' = Counted
      BY <1>7 DEF Release, IInv, TypeOK, Holding, Counted
    <2>2. Cardinality(Holding') = H - 1
      BY <1>0, <2>1, IndexSets
    <2>3. SemInv' /\ WgInv'
      BY <1>0, <1>7, <2>1, <2>2 DEF Release, IInv, TypeOK, SemInv, WgInv
    <2>4. TypeOK' /\ OrderInv' /\ ResultInv' /\ ReturnInv'
      BY <1>7 DEF Release, IInv, TypeOK, OrderInv, ResultInv, ReturnInv
    <2>5. QED
      BY <2>3, <2>4 DEF IInv
  <1>8. ASSUME NEW j \in Indices, Done(j) PROVE IInv'
    <2>1. j \in Counted /\ Counted' = Counted \ {j} /\ Holding' = Holding
      BY <1>8 DEF Done, IInv, TypeOK, Holding, Counted
    <2>2. Cardinality(Counted') = K - 1 /\ K # 0
      BY <1>0, <2>1, IndexSets
    <2>3. wg > 0
      BY <1>0, <2>2 DEF IInv, WgInv
    <2>4. SemInv' /\ WgInv'
      BY <1>0, <1>8, <2>1, <2>2 DEF Done, IInv, TypeOK, SemInv, WgInv
    <2>5. TypeOK' /\ OrderInv' /\ ResultInv' /\ ReturnInv'
      BY <1>8, <2>3 DEF Done, IInv, TypeOK, OrderInv, ResultInv, ReturnInv
    <2>6. QED
      BY <2>4, <2>5 DEF IInv
  <1>9. CASE UNCHANGED vars
    BY <1>9 DEF vars, IInv, TypeOK, SemInv, WgInv, OrderInv, ResultInv, ReturnInv, Holding, Counted
  <1>10. QED
    BY <1>1, <1>2, <1>3, <1>4, <1>5, <1>6, <1>7, <1>8, <1>9
    DEF Next, Caller, Worker, Returned

\* RunParallel keeps its bookkeeping straight: sem counts the slots in use, wg
\* the workers not yet done, whatever the schedule.
THEOREM RunParallelIInv == Spec => []IInv
  BY InitIInv, NextIInv, PTL DEF Spec

\* Type correctness: in particular neither the channel nor the WaitGroup goes
\* below zero (a negative WaitGroup panics).
THEOREM RunParallelTypeOK == Spec => []TypeOK
  BY RunParallelIInv, PTL DEF IInv

\* At most Concurrency calls of fn at a time, for every Iterations and
\* Concurrency.
THEOREM RunParallelBound == Spec => []ConcurrencyBound
  <1>1. IInv => ConcurrencyBound
    <2> SUFFICES ASSUME IInv PROVE ConcurrencyBound
      OBVIOUS
    <2> DEFINE R == {j \in Indices : g[j] = "run"}
    <2>1. R \subseteq Holding /\ Holding \subseteq Indices
      BY DEF Holding
    <2>2. /\ Cardinality(R) <= Cardinality(Holding)
          /\ Cardinality(R) \in Nat
          /\ Cardinality(Holding) \in Nat
      BY <2>1, IndexSets, FS_Subset
    <2>3. Cardinality(Holding) <= Concurrency
      BY <2>2 DEF IInv, TypeOK, SemInv
    <2>4. QED
      BY <2>2, <2>3 DEF ConcurrencyBound
  <1>2. QED
    BY <1>1, RunParallelIInv, PTL

\* When RunParallel returns, every slot is filled and every worker is gone.
THEOREM RunParallelNothingLate == Spec => []NothingLate
  <1>1. IInv => NothingLate
    BY DEF IInv, ResultInv, ReturnInv, NothingLate
  <1>2. QED
    BY <1>1, RunParallelIInv, PTL

\* RunParallel implements the safety part of ParallelMap.
THEOREM RunParallelImplements == Spec => Map!PMSafety
  <1> DEFINE R == {j \in Indices : g[j] = "run"}
             F == {j \in Indices : g[j] \in {"written", "released", "done"}}
  <1>1. Init => Map!PMInit
    BY DEF Init, Map!PMInit
  <1>2. IInv /\ ConcurrencyBound' /\ [Next]_vars => [Map!PMNext]_(Map!pmvars)
    <2> SUFFICES ASSUME IInv, ConcurrencyBound', [Next]_vars
                 PROVE  [Map!PMNext]_(Map!pmvars)
      OBVIOUS
    <2>0. Map!Indices = Indices
      BY DEF Map!Indices, Indices
    <2>1. CASE Go
      <3>1. i \in Indices /\ g[i] = "none"
        BY <2>1 DEF Go, IInv, TypeOK, OrderInv, Indices
      <3>2. i \notin R \cup F /\ R' = R \cup {i} /\ F' = F
        BY <2>1, <3>1 DEF Go, IInv, TypeOK
      <3>3. Cardinality(R) < Concurrency
        <4>1. Cardinality(R') = Cardinality(R) + 1 /\ Cardinality(R) \in Nat
          BY <3>1, <3>2, IndexSets
        <4>2. QED
          BY <4>1 DEF ConcurrencyBound
      <3>4. PICK k \in Indices : k = i
        BY <3>1
      <3>5. Map!Cardinality(R) = Cardinality(R)
        BY DEF Map!Cardinality, Cardinality, Map!IsFiniteSet, IsFiniteSet
      <3>6. Map!Start(k)
        BY <2>1, <3>2, <3>3, <3>4, <3>5 DEF Go, Map!Start
      <3>7. QED
        BY <2>0, <3>6 DEF Map!PMNext
    <2>2. ASSUME NEW j \in Indices, Fn(j) PROVE Map!PMNext
      <3>1. j \in R /\ R' = R \ {j} /\ F' = F \cup {j}
        BY <2>2 DEF Fn, IInv, TypeOK
      <3>2. Map!Finish(j)
        BY <2>2, <3>1 DEF Fn, Map!Finish
      <3>3. QED
        BY <2>0, <3>2 DEF Map!PMNext
    <2>3. CASE Wait
      <3>1. IInv'
        BY NextIInv, <2>3 DEF Next, Caller
      <3>2. F = Indices /\ F' = F /\ R' = R
        BY <2>3, <3>1 DEF Wait, IInv, ReturnInv
      <3>3. Map!Return
        BY <2>0, <2>3, <3>2 DEF Wait, Map!Return
      <3>4. QED
        BY <3>3 DEF Map!PMNext
    <2>4. CASE Loop \/ Send \/ LoopEnds
      BY <2>4 DEF Loop, Send, LoopEnds, Map!pmvars
    <2>5. ASSUME NEW j \in Indices, Release(j) \/ Done(j) PROVE UNCHANGED Map!pmvars
      <3>1. R' = R /\ F' = F
        BY <2>5 DEF Release, Done, IInv, TypeOK
      <3>2. QED
        BY <2>5, <3>1 DEF Release, Done, Map!pmvars
    <2>6. CASE UNCHANGED vars
      BY <2>6 DEF vars, Map!pmvars
    <2>7. QED
      BY <2>1, <2>2, <2>3, <2>4, <2>5, <2>6 DEF Next, Caller, Worker, Returned
  <1>3. QED
    BY <1>1, <1>2, RunParallelIInv, RunParallelBound, PTL DEF Spec, Map!PMSafety
=============================================================================
