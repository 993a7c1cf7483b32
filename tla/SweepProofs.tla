---------------------------- MODULE SweepProofs ----------------------------
(***************************************************************************)
(* Proofs about Sweep, for any transports, levels and commands.            *)
(***************************************************************************)
EXTENDS Sweep, FiniteSetTheorems, TLAPS

\* The type invariant without the results.
Types ==
    /\ t \in 1..(Len(Order) + 1)
    /\ lvl \in 1..(Len(Levels) + 1)
    /\ n \in Nat
    /\ pc \in {"next", "open", "exec", "close"}
    /\ opener \in [1..n -> {"dial", "setup", "opened", "failed", "done"}]
    /\ link \in [1..n -> {"none", "open", "broken", "closed"}]
    /\ conns \subseteq 1..n
    /\ errs \in Nat
    /\ worker \in [1..n -> {"none", "barrier", "exec", "ok", "err"}]
    /\ ran \in Nat
    /\ pc # "next" => t <= Len(Order) /\ lvl <= Len(Levels)

\* What each opener has done to its connection and to the list.
Opening ==
    \A i \in 1..n :
        /\ opener[i] = "dial" => link[i] = "none"
        /\ opener[i] = "setup" => link[i] \in Up
        /\ opener[i] = "opened" => link[i] \in Up
        /\ opener[i] = "failed" => link[i] \notin Up
        /\ opener[i] = "done" /\ link[i] \in Up => i \in conns
        /\ i \in conns => opener[i] = "done"
        /\ pc # "open" => opener[i] = "done"

\* The list is held until the workers are done, and closed before the next level.
Holding ==
    \A i \in 1..n :
        /\ i \in conns /\ pc \in {"open", "exec"} => link[i] \in Up
        /\ pc = "next" => link[i] \notin Up
        /\ pc = "open" => worker[i] = "none"
        /\ worker[i] \in {"barrier", "exec"} => pc = "exec"
        /\ worker[i] # "none" => i \in conns

IInv == Types /\ Opening /\ Holding

\* Before the first level there is nothing.
LEMMA InitIInv == Init => IInv
<1> SUFFICES ASSUME Init PROVE IInv
  OBVIOUS
<1>1. Len(Levels) \in Nat /\ Len(Order) = 6
  BY LevelsAssumption DEF Order
<1>2. 1..0 = {}
  OBVIOUS
<1> QED
  BY <1>1, <1>2 DEF Init, IInv, Types, Opening, Holding, Up

\* Every step keeps the inductive invariant.
LEMMA StepIInv == IInv /\ [Next]_vars => IInv'
<1> SUFFICES ASSUME IInv, [Next]_vars PROVE IInv'
  OBVIOUS
<1>0. Len(Levels) \in Nat /\ Len(Order) = 6 /\ \A k \in 1..Len(Levels) : Levels[k] \in Nat
  BY LevelsAssumption DEF Order
<1> USE DEF IInv, Types, Opening, Holding, Up, phase
<1>1. CASE NextTransport \/ SkipLevel
  <2>1. /\ t' \in 1..(Len(Order) + 1) /\ lvl' \in 1..(Len(Levels) + 1)
        /\ UNCHANGED <<n, pc, opener, link, conns, errs, start, worker, ran>>
        /\ pc = "next"
    <3>1. CASE NextTransport
      BY <1>0, <3>1 DEF NextTransport
    <3>2. CASE SkipLevel
      BY <1>0, <3>2 DEF SkipLevel, AtLevel
    <3> QED
      BY <1>1, <3>1, <3>2
  <2> QED
    BY <2>1
<1>2. CASE StartLevel
  BY <1>0, <1>2 DEF StartLevel, AtLevel
<1>3. CASE NoneOpened \/ StartWorkers
  <2>1. CASE NoneOpened
    BY <2>1 DEF NoneOpened
  <2>2. CASE StartWorkers
    BY <2>2 DEF StartWorkers
  <2> QED
    BY <1>3, <2>1, <2>2
<1>4. CASE Release \/ Summarize
  <2>1. CASE Release
    BY <2>1 DEF Release
  <2>2. CASE Summarize
    BY <2>2 DEF Summarize
  <2> QED
    BY <1>4, <2>1, <2>2
<1>5. CASE Return
  BY <1>0, <1>5 DEF Return
<1>6. ASSUME NEW i \in 1..n, Goroutine(i) PROVE IInv'
  <2>1. CASE Dial(i)
    <3>1. CASE link' = [link EXCEPT ![i] = "open"] /\ opener' = [opener EXCEPT ![i] = "setup"]
      BY <2>1, <3>1 DEF Dial
    <3>2. CASE link' = link /\ opener' = [opener EXCEPT ![i] = "failed"]
      BY <2>1, <3>2 DEF Dial
    <3> QED
      BY <2>1, <3>1, <3>2 DEF Dial
  <2>2. CASE Setup(i)
    <3>1. CASE link[i] = "open" /\ link' = link /\ opener' = [opener EXCEPT ![i] = "opened"]
      BY <2>2, <3>1 DEF Setup
    <3>2. CASE link' = [link EXCEPT ![i] = "closed"] /\ opener' = [opener EXCEPT ![i] = "failed"]
      BY <2>2, <3>2 DEF Setup
    <3> QED
      BY <2>2, <3>1, <3>2 DEF Setup
  <2>3. CASE Enter(i)
    BY <2>3 DEF Enter
  <2>4. CASE Pass(i)
    BY <2>4 DEF Pass
  <2>5. CASE Redial(i)
    BY <2>5 DEF Redial
  <2>6. CASE Exec(i)
    BY <2>6 DEF Exec
  <2>7. CASE Break(i)
    BY <2>7 DEF Break
  <2>8. CASE Close(i)
    BY <2>8 DEF Close
  <2> QED
    BY <1>6, <2>1, <2>2, <2>3, <2>4, <2>5, <2>6, <2>7, <2>8 DEF Goroutine
<1>7. CASE Ended \/ UNCHANGED vars
  BY <1>7 DEF Ended, vars
<1> QED
  BY <1>1, <1>2, <1>3, <1>4, <1>5, <1>6, <1>7 DEF Next, Main

\* The inductive invariant holds in every state.
THEOREM Invariance == Spec => []IInv
  BY InitIInv, StepIInv, PTL DEF Spec

\* All connections of a level are held while its workloads run, none escapes
\* the list that closes them, and no level inherits one.
THEOREM Held == Spec => []HeldTogether
<1>1. IInv => HeldTogether
  BY DEF IInv, Types, Opening, Holding, HeldTogether
<1> QED
  BY Invariance, <1>1, PTL

-----------------------------------------------------------------------------
(* What a level reports *)

\* The openers that have counted an error, and the workloads that succeeded.
Refused == {i \in 1..n : opener[i] = "done" /\ i \notin conns}
Okay == {i \in 1..n : worker[i] = "ok"}

\* The counters of a level count these sets.
Counted ==
    /\ errs = Cardinality(Refused)
    /\ ran = Cardinality(Okay)
    /\ pc = "exec" => conns # {}

\* What LevelReport says of one result.
GoodReport(r) ==
    /\ r.ops = r.ran * Commands
    /\ r.opened + r.refused = r.sweepN
    /\ IF r.opened = 0
       THEN r.errors = 1 /\ r.iterations = Iterations
       ELSE r.iterations = r.sweepN - r.refused /\ r.errors = r.iterations - r.ran

\* A set of connections is finite, and so are its parts.
LEMMA FiniteParts ==
    ASSUME Types
    PROVE  /\ IsFiniteSet(1..n) /\ Cardinality(1..n) = n
           /\ IsFiniteSet(conns) /\ IsFiniteSet(Refused) /\ IsFiniteSet(Okay) /\ IsFiniteSet(Failed)
           /\ Cardinality(conns) \in Nat /\ Cardinality(Failed) \in Nat
<1>1. n \in Nat /\ conns \subseteq 1..n /\ Failed \subseteq 1..n /\ Refused \subseteq 1..n /\ Okay \subseteq 1..n
  BY DEF Types, Refused, Okay, Failed
<1>2. IsFiniteSet(1..n) /\ Cardinality(1..n) = n
  BY <1>1, FS_Interval
<1>3. IsFiniteSet(conns) /\ IsFiniteSet(Refused) /\ IsFiniteSet(Okay) /\ IsFiniteSet(Failed)
  BY <1>1, <1>2, FS_Subset
<1> QED
  BY <1>2, <1>3, FS_CardinalityType

\* Each step keeps the counters true.
LEMMA CountedStep == IInv /\ Counted /\ [Next]_vars => Counted'
<1> SUFFICES ASSUME IInv, Counted, [Next]_vars PROVE Counted'
  OBVIOUS
<1>0. IsFiniteSet(Refused) /\ IsFiniteSet(Okay)
  BY FiniteParts DEF IInv
<1> USE DEF IInv, Types, Opening, Holding, Counted, phase
<1>1. CASE NextTransport \/ SkipLevel \/ NoneOpened \/ Release \/ Summarize \/ Return \/ Ended \/ UNCHANGED vars
  <2>1. /\ UNCHANGED <<n, opener, conns, worker, errs, ran>>
        /\ pc' = "exec" => pc = "exec"
    BY <1>1 DEF NextTransport, SkipLevel, NoneOpened, Release, Summarize, Return, Ended, vars
  <2> QED
    BY <2>1 DEF Refused, Okay
<1>2. CASE StartLevel
  <2>1. Refused' = {} /\ Okay' = {} /\ errs' = 0 /\ ran' = 0 /\ pc' = "open"
    BY <1>2 DEF StartLevel, Refused, Okay
  <2> QED
    BY <2>1, FS_EmptySet
<1>3. CASE StartWorkers
  <2>1. Refused' = Refused /\ errs' = errs /\ conns' # {} /\ ran' = ran
    BY <1>3 DEF StartWorkers, Refused
  <2>2. Okay = {} /\ Okay' = {}
    BY <1>3 DEF StartWorkers, Okay
  <2> QED
    BY <2>1, <2>2
<1>4. ASSUME NEW i \in 1..n, Goroutine(i) PROVE Counted'
  <2>1. CASE Dial(i) \/ Setup(i)
    <3>1. UNCHANGED <<n, pc, conns, worker, errs, ran>>
      BY <2>1 DEF Dial, Setup
    <3>2. Refused' = Refused
      BY <2>1 DEF Dial, Setup, Refused
    <3> QED
      BY <3>1, <3>2 DEF Okay
  <2>2. CASE Enter(i)
    <3>1. UNCHANGED <<n, pc, worker, ran>> /\ conns \subseteq conns'
      BY <2>2 DEF Enter
    <3>2. CASE opener[i] = "opened"
      <4>1. Refused' = Refused /\ errs' = errs
        BY <2>2, <3>2 DEF Enter, Refused
      <4> QED
        BY <3>1, <4>1 DEF Okay
    <3>3. CASE opener[i] = "failed"
      <4>1. Refused' = Refused \cup {i} /\ i \notin Refused /\ errs' = errs + 1
        BY <2>2, <3>3 DEF Enter, Refused
      <4>2. Cardinality(Refused \cup {i}) = Cardinality(Refused) + 1
        BY <1>0, <4>1, FS_AddElement
      <4> QED
        BY <3>1, <4>1, <4>2 DEF Okay
    <3> QED
      BY <2>2, <3>2, <3>3 DEF Enter
  <2>3. CASE Pass(i)
    <3>1. UNCHANGED <<n, pc, opener, conns, errs, ran>>
      BY <2>3 DEF Pass
    <3>2. Okay' = Okay
      BY <2>3 DEF Pass, Okay
    <3> QED
      BY <3>1, <3>2 DEF Refused
  <2>4. CASE Exec(i)
    <3>1. UNCHANGED <<n, pc, opener, conns, errs>>
      BY <2>4 DEF Exec
    <3>2. CASE worker' = [worker EXCEPT ![i] = "ok"] /\ ran' = ran + 1
      <4>1. Okay' = Okay \cup {i} /\ i \notin Okay
        BY <2>4, <3>1, <3>2 DEF Exec, Okay
      <4>2. Cardinality(Okay \cup {i}) = Cardinality(Okay) + 1
        BY <1>0, <4>1, FS_AddElement
      <4> QED
        BY <3>1, <3>2, <4>1, <4>2 DEF Refused
    <3>3. CASE worker' = [worker EXCEPT ![i] = "err"] /\ ran' = ran
      <4>1. Okay' = Okay
        BY <2>4, <3>1, <3>3 DEF Exec, Okay
      <4> QED
        BY <3>1, <3>3, <4>1 DEF Refused
    <3> QED
      BY <2>4, <3>2, <3>3 DEF Exec
  <2>5. CASE Redial(i) \/ Break(i) \/ Close(i)
    <3>1. UNCHANGED <<n, pc, opener, conns, worker, errs, ran>>
      BY <2>5 DEF Redial, Break, Close
    <3> QED
      BY <3>1 DEF Refused, Okay
  <2> QED
    BY <1>4, <2>1, <2>2, <2>3, <2>4, <2>5 DEF Goroutine
<1> QED
  BY <1>1, <1>2, <1>3, <1>4 DEF Next, Main

\* When the openers are done, each connection is held or refused.
LEMMA HeldOrRefused ==
    ASSUME IInv, Counted, \A i \in 1..n : opener[i] = "done"
    PROVE  Cardinality(conns) + errs = n
<1>1. Refused = (1..n) \ conns
  BY DEF Refused
<1>2. Cardinality((1..n) \ conns) = Cardinality(1..n) - Cardinality((1..n) \cap conns)
  BY FiniteParts, FS_Difference DEF IInv
<1>3. (1..n) \cap conns = conns
  BY DEF IInv, Types
<1>4. n \in Nat
  BY DEF IInv, Types
<1>5. IsFiniteSet(conns)
  BY FiniteParts DEF IInv
<1>6. Cardinality(1..n) = n /\ Cardinality(conns) \in Nat
  BY <1>4, <1>5, FS_Interval, FS_CardinalityType
<1>7. errs = Cardinality(Refused)
  BY DEF Counted
<1>8. errs = n - Cardinality(conns)
  BY <1>1, <1>2, <1>3, <1>6, <1>7
<1> QED
  BY <1>4, <1>6, <1>8

\* When the workers are done, each held connection has succeeded or failed.
LEMMA OkayOrFailed ==
    ASSUME IInv, Counted, \A i \in conns : worker[i] \in {"ok", "err"}
    PROVE  Cardinality(Failed) = Cardinality(conns) - ran
<1>1. Failed = conns \ Okay /\ conns \cap Okay = Okay
  BY DEF Failed, Okay, IInv, Types, Holding
<1>2. Cardinality(conns \ Okay) = Cardinality(conns) - Cardinality(conns \cap Okay)
  BY FiniteParts, FS_Difference DEF IInv
<1> QED
  BY <1>1, <1>2 DEF Counted

\* The result of a level none of whose connections could be opened is good.
LEMMA NoneOpenedGood ==
    ASSUME IInv, Counted, NoneOpened
    PROVE  GoodReport([Report EXCEPT !.iterations = Iterations, !.errors = 1])
<1>1. conns = {} /\ Failed = {} /\ Okay = {}
  BY DEF NoneOpened, Failed, Okay, IInv, Types, Holding
<1>2. Cardinality(conns) = 0 /\ Cardinality(Failed) = 0 /\ ran = 0
  BY <1>1, FS_EmptySet DEF Counted
<1>3. 0 + errs = n
  BY <1>2, HeldOrRefused DEF NoneOpened
<1> QED
  BY <1>2, <1>3, CommandsAssumption DEF GoodReport, Report

\* The result of any other level is good.
LEMMA SummarizeGood ==
    ASSUME IInv, Counted, Summarize
    PROVE  GoodReport(Report)
<1>1. Cardinality(conns) + errs = n
  BY HeldOrRefused DEF Summarize, IInv, Opening
<1>2. Cardinality(Failed) = Cardinality(conns) - ran
  BY OkayOrFailed DEF Summarize
<1>3. Cardinality(conns) \in Nat /\ Cardinality(conns) # 0 /\ errs \in Nat /\ ran \in Nat /\ n \in Nat
  BY FiniteParts, FS_EmptySet DEF IInv, Types, Counted, Summarize
<1>4. Cardinality(conns) - Cardinality(Failed) = ran
  BY <1>2, <1>3
<1> QED
  BY <1>1, <1>2, <1>3, <1>4 DEF GoodReport, Report

\* The results so far are good: a sequence that grows at its end only.
Reported == (\E S : results \in Seq(S)) /\ LevelReport

\* A step adds a good result at most, and changes none.
LEMMA ReportedStep == IInv /\ Counted /\ Reported /\ [Next]_vars => Reported'
<1> SUFFICES ASSUME IInv, Counted, Reported, [Next]_vars PROVE Reported'
  OBVIOUS
<1>1. LevelReport <=> \A k \in DOMAIN results : GoodReport(results[k])
  BY DEF LevelReport, GoodReport
<1>2. LevelReport' <=> \A k \in DOMAIN results' : GoodReport(results'[k])
  BY DEF LevelReport, GoodReport
<1>3. ASSUME NEW r, GoodReport(r), results' = Append(results, r) PROVE Reported'
  <2>1. PICK S : results \in Seq(S)
    BY DEF Reported
  <2>2. results \in Seq(S \cup {r}) /\ r \in S \cup {r}
    BY <2>1
  <2>3. results' \in Seq(S \cup {r})
    BY <1>3, <2>2
  <2>4. \A k \in DOMAIN results' : results'[k] = r \/ (k \in DOMAIN results /\ results'[k] = results[k])
    BY <1>3, <2>2
  <2>5. LevelReport'
    BY <1>1, <1>2, <1>3, <2>4 DEF Reported
  <2> QED
    BY <2>3, <2>5 DEF Reported
<1>4. CASE NoneOpened
  BY <1>3, <1>4, NoneOpenedGood DEF NoneOpened
<1>5. CASE Summarize
  BY <1>3, <1>5, SummarizeGood DEF Summarize
<1>6. CASE results' = results
  BY <1>1, <1>2, <1>6 DEF Reported
<1>7. results' = results \/ NoneOpened \/ Summarize
  BY DEF Next, Main, NextTransport, SkipLevel, StartLevel, StartWorkers, Release, Return, Goroutine,
         Dial, Setup, Enter, Pass, Redial, Exec, Break, Close, Ended, vars
<1> QED
  BY <1>4, <1>5, <1>6, <1>7

\* Each level reports the operations that really succeeded and accounts for
\* every connection it was asked for.
THEOREM Reports == Spec => []LevelReport
<1>1. Init => Counted /\ Reported
  <2> SUFFICES ASSUME Init PROVE Counted /\ Reported
    OBVIOUS
  <2>1. Refused = {} /\ Okay = {}
    BY DEF Init, Refused, Okay
  <2>2. Counted
    BY <2>1, FS_EmptySet DEF Counted, Init
  <2>3. results = <<>>
    BY DEF Init
  <2>4. Reported
    BY <2>3 DEF Reported, LevelReport
  <2> QED
    BY <2>2, <2>4
<1>2. IInv /\ Counted /\ Reported /\ [Next]_vars => (Counted /\ Reported)'
  BY CountedStep, ReportedStep
<1>3. Reported => LevelReport
  BY DEF Reported
<1> QED
  BY <1>1, <1>2, <1>3, Invariance, PTL DEF Spec
-----------------------------------------------------------------------------
(* Type correctness *)

\* What sweepLevel returns has the type of a result.
LEMMA ReportType ==
    ASSUME IInv, pc # "next"
    PROVE  Report \in Result /\ [Report EXCEPT !.iterations = Iterations, !.errors = 1] \in Result
<1>1. Order[t] \in {Order[k] : k \in DOMAIN Order}
  BY DEF IInv, Types, Order
<1>2. /\ IsFiniteSet(conns) /\ Cardinality(conns) \in Nat /\ Cardinality(Failed) \in Nat
      /\ n \in Nat /\ errs \in Nat /\ ran \in Nat
  BY FiniteParts DEF IInv, Types
<1>3. Cardinality(Failed) <= Cardinality(conns)
  BY <1>2, FS_Subset DEF Failed
<1>4. \A a, b \in Nat : a * b \in Nat
  OBVIOUS
<1>5. (Cardinality(conns) - Cardinality(Failed)) * Commands \in Nat
  <2>1. Cardinality(conns) - Cardinality(Failed) \in Nat
    BY <1>2, <1>3
  <2> QED
    BY <1>4, <2>1, CommandsAssumption
<1>6. Report \in Result
  BY <1>1, <1>2, <1>5 DEF Report, Result
<1> QED
  BY <1>6, IterationsAssumption DEF Result

\* What Types leaves out.
RestTypes == start \in BOOLEAN /\ results \in Seq(Result)

\* The variables of the sweep keep their types.
THEOREM TypeCorrect == Spec => []TypeOK
<1>1. Init => RestTypes
  <2>1. Init => start \in BOOLEAN
    BY Zenon DEF Init
  <2>2. Init => results \in Seq(Result)
    BY DEF Init
  <2> QED
    BY <2>1, <2>2 DEF RestTypes
<1>2. start \in BOOLEAN /\ [Next]_vars => start' \in BOOLEAN
  <2>1. [Next]_vars => start' = start \/ start' = TRUE \/ start' = FALSE
    BY Zenon DEF Next, Main, NextTransport, SkipLevel, StartLevel, NoneOpened, StartWorkers, Release,
           Summarize, Return, Goroutine, Dial, Setup, Enter, Pass, Redial, Exec, Break, Close, Ended, vars
  <2> QED
    BY <2>1
<1>3. IInv /\ results \in Seq(Result) /\ [Next]_vars => results' \in Seq(Result)
  <2> SUFFICES ASSUME IInv, results \in Seq(Result), [Next]_vars PROVE results' \in Seq(Result)
    OBVIOUS
  <2>1. CASE NoneOpened
    BY <2>1, ReportType DEF NoneOpened
  <2>2. CASE Summarize
    BY <2>2, ReportType DEF Summarize
  <2>3. results' = results \/ NoneOpened \/ Summarize
    BY DEF Next, Main, NextTransport, SkipLevel, StartLevel, StartWorkers, Release, Return, Goroutine,
           Dial, Setup, Enter, Pass, Redial, Exec, Break, Close, Ended, vars
  <2> QED
    BY <2>1, <2>2, <2>3
<1>4. IInv /\ RestTypes /\ [Next]_vars => RestTypes'
  BY <1>2, <1>3, Zenon DEF RestTypes
<1>5. IInv /\ RestTypes => TypeOK
  BY Zenon DEF IInv, Types, TypeOK, RestTypes
<1> QED
  BY <1>1, <1>4, <1>5, Invariance, PTL DEF Spec
=============================================================================
