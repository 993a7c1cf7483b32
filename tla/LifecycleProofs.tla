-------------------------- MODULE LifecycleProofs --------------------------
(***************************************************************************)
(* Proofs about Lifecycle, for any number of processes and signals.        *)
(***************************************************************************)
EXTENDS Lifecycle, TLAPS

\* The places after Setup and before the deferred Teardown.
Within == {"device", "servers", "counter", "notify", "bench", "output",
           "unnotify", "stop", "join", "teardown"}

\* Nothing on the loopback is newer than the current process.
NotNewer == \A r \in rules : r[2] <= run

\* How far the rules of this process are, for each place of the main goroutine.
Progress ==
    /\ pc \in {"clear", "prio", "wan", "campus"} => Netem
    /\ pc \in {"latency", "clear", "prio", "return"} => rules \cap OwnRules = {}
    /\ pc = "prio" /\ cfg.root => rules = {}
    /\ pc = "wan" => cfg.root /\ rules = {<<"prio", run>>}
    /\ pc = "campus" => cfg.root /\ rules = {<<"prio", run>>, <<"wan", run>>}
    /\ pc \in Within =>
           IF Netem THEN /\ cfg.root
                         /\ rules = OwnRules \/ (handler = "exit" /\ rules = {})
                    ELSE rules \cap OwnRules = {}

\* The signal handler exists only with a packet counter, thus only as root.
HandlerState ==
    /\ handler # "none" => cfg.root /\ pc \in {"bench", "output", "unnotify", "stop",
                                               "join", "teardown", "return"}
    /\ pc = "notify" => cfg.root
    /\ handler = "exit" => rules = {}

IInv == TypeOK /\ NotNewer /\ Progress /\ HandlerState /\ OwnRulesRemoved

\* The Boolean part of the type invariant, and the rest.
Flags ==
    /\ cfg \in [userspace : BOOLEAN, delay : BOOLEAN, root : BOOLEAN]
    /\ counter \in BOOLEAN
    /\ done \in BOOLEAN
    /\ notified \in BOOLEAN
    /\ sigCh \in BOOLEAN

Places ==
    /\ run \in Nat
    /\ pc \in {"latency", "clear", "prio", "wan", "campus", "device", "servers", "counter",
               "notify", "bench", "output", "unnotify", "stop", "join", "teardown", "return", "gone"}
    /\ ret \in {"ok", "error", "panic"}
    /\ rules \subseteq Bands \X Nat
    /\ capture \in {"none", "check", "recv", "returned"}
    /\ handler \in {"none", "wait", "stop", "join", "teardown", "exit"}
    /\ signals \in Nat
    /\ exit \in {"none", "ok", "error", "panic", "handled", "killed", "crashed"}

\* Together they are the type invariant.
LEMMA TypeParts == TypeOK <=> Flags /\ Places
  BY DEF TypeOK, Flags, Places

\* The initial state: no process, no rules.
LEMMA InitIInv == Init => IInv
<1> SUFFICES ASSUME Init PROVE IInv
  OBVIOUS
<1>1. Flags
  BY Zenon DEF Init, Flags
<1>2. Places
  BY DEF Init, Places
<1>3. NotNewer /\ Progress /\ HandlerState /\ OwnRulesRemoved
  BY DEF Init, NotNewer, Progress, HandlerState, OwnRulesRemoved, Within, Alive
<1> QED
  BY <1>1, <1>2, <1>3, TypeParts DEF IInv

\* The Boolean variables and the configuration keep their types.
LEMMA FlagsStep == Flags /\ [Next]_vars => Flags'
<1> SUFFICES ASSUME Flags, [Next]_vars PROVE Flags'
  OBVIOUS
<1> USE DEF Flags, MainOnly, process, counterVars, signalVars, End
<1>1. CASE Start
  BY <1>1, Zenon DEF Start
<1>2. CASE SetupLatency
  BY <1>2, Zenon DEF SetupLatency
<1>3. CASE SetupClears
  BY <1>3, Zenon DEF SetupClears, Teardown
<1>4. CASE AddPrio
  BY <1>4, Zenon DEF AddPrio
<1>5. CASE AddPrioFails
  BY <1>5, Zenon DEF AddPrioFails
<1>6. CASE AddBand("wan", "campus") \/ AddBand("campus", "device")
  BY <1>6, Zenon DEF AddBand
<1>7. CASE AddBandFails("wan") \/ AddBandFails("campus")
  BY <1>7, Zenon DEF AddBandFails, Teardown
<1>8. CASE NewDevice \/ StartServers \/ SetupFails
  BY <1>8, Zenon DEF NewDevice, StartServers, SetupFails
<1>9. CASE StartCounter \/ NoCounter \/ Notify
  BY <1>9, Zenon DEF StartCounter, NoCounter, Notify
<1>10. CASE RunBenchmarks \/ OutputResults \/ SignalStop
  BY <1>10, Zenon DEF RunBenchmarks, OutputResults, SignalStop
<1>11. CASE Stop \/ Join
  BY <1>11, Zenon DEF Stop, Join
<1>12. CASE DeferredTeardown \/ Return
  BY <1>12, Zenon DEF DeferredTeardown, Return, Teardown
<1>13. CASE Capture
  BY <1>13, Zenon DEF Capture, CaptureCheck, CaptureRecv
<1>14. CASE Interrupt \/ Killed
  BY <1>14, Zenon DEF Interrupt, Killed
<1>15. CASE HandlerReceives \/ HandlerStops \/ HandlerPanics
  BY <1>15, Zenon DEF HandlerReceives, HandlerStops, HandlerPanics
<1>16. CASE HandlerJoins \/ HandlerTeardown \/ HandlerExits
  BY <1>16, Zenon DEF HandlerJoins, HandlerTeardown, HandlerExits, Teardown
<1>17. CASE Idle \/ UNCHANGED vars
  BY <1>17, Zenon DEF Idle, vars
<1> QED
  BY <1>1, <1>2, <1>3, <1>4, <1>5, <1>6, <1>7, <1>8, <1>9, <1>10, <1>11, <1>12, <1>13,
     <1>14, <1>15, <1>16, <1>17 DEF Next, Main, Handler

\* The other variables keep theirs.
LEMMA PlacesStep == Places /\ [Next]_vars => Places'
<1> SUFFICES ASSUME Places, [Next]_vars PROVE Places'
  OBVIOUS
<1> USE DEF Places, MainOnly, process, counterVars, signalVars, At, End, Bands, OwnRules
<1>1. CASE Start
  BY <1>1 DEF Start
<1>2. CASE SetupLatency
  BY <1>2 DEF SetupLatency
<1>3. CASE SetupClears
  BY <1>3 DEF SetupClears, Teardown
<1>4. CASE AddPrio
  BY <1>4 DEF AddPrio
<1>5. CASE AddPrioFails
  BY <1>5 DEF AddPrioFails
<1>6. CASE AddBand("wan", "campus") \/ AddBand("campus", "device")
  BY <1>6 DEF AddBand
<1>7. CASE AddBandFails("wan") \/ AddBandFails("campus")
  BY <1>7 DEF AddBandFails, Teardown
<1>8. CASE NewDevice \/ StartServers \/ SetupFails
  BY <1>8 DEF NewDevice, StartServers, SetupFails
<1>9. CASE StartCounter \/ NoCounter \/ Notify
  BY <1>9 DEF StartCounter, NoCounter, Notify
<1>10. CASE RunBenchmarks \/ OutputResults \/ SignalStop
  BY <1>10 DEF RunBenchmarks, OutputResults, SignalStop
<1>11. CASE Stop \/ Join
  BY <1>11 DEF Stop, Join
<1>12. CASE DeferredTeardown \/ Return
  BY <1>12 DEF DeferredTeardown, Return, Teardown
<1>13. CASE Capture
  BY <1>13 DEF Capture, CaptureCheck, CaptureRecv
<1>14. CASE Interrupt \/ Killed
  BY <1>14 DEF Interrupt, Killed
<1>15. CASE HandlerReceives \/ HandlerStops \/ HandlerPanics
  BY <1>15 DEF HandlerReceives, HandlerStops, HandlerPanics
<1>16. CASE HandlerJoins \/ HandlerTeardown \/ HandlerExits
  BY <1>16 DEF HandlerJoins, HandlerTeardown, HandlerExits, Teardown
<1>17. CASE Idle \/ UNCHANGED vars
  BY <1>17 DEF Idle, vars
<1> QED
  BY <1>1, <1>2, <1>3, <1>4, <1>5, <1>6, <1>7, <1>8, <1>9, <1>10, <1>11, <1>12, <1>13,
     <1>14, <1>15, <1>16, <1>17 DEF Next, Main, Handler

\* The rest of the inductive invariant, action by action.
LEMMA RulesStep == IInv /\ [Next]_vars => (NotNewer /\ Progress /\ HandlerState /\ OwnRulesRemoved)'
<1> SUFFICES ASSUME IInv, [Next]_vars PROVE (NotNewer /\ Progress /\ HandlerState /\ OwnRulesRemoved)'
  OBVIOUS
<1> USE DEF IInv, TypeOK, NotNewer, Progress, HandlerState, OwnRulesRemoved, OwnRules, Bands, Within,
            Netem, Alive, MainOnly, process, counterVars, signalVars, At, End
<1>1. CASE Start
  BY <1>1 DEF Start
<1>2. CASE SetupLatency
  BY <1>2 DEF SetupLatency
<1>3. CASE SetupClears
  BY <1>3 DEF SetupClears, Teardown
<1>4. CASE AddPrio
  BY <1>4 DEF AddPrio
<1>5. CASE AddPrioFails
  BY <1>5 DEF AddPrioFails
<1>6. CASE AddBand("wan", "campus") \/ AddBand("campus", "device")
  BY <1>6 DEF AddBand
<1>7. CASE AddBandFails("wan") \/ AddBandFails("campus")
  BY <1>7 DEF AddBandFails, Teardown
<1>8. CASE NewDevice \/ StartServers \/ SetupFails
  BY <1>8 DEF NewDevice, StartServers, SetupFails
<1>9. CASE StartCounter \/ NoCounter \/ Notify
  <2>1. CASE StartCounter
    BY <2>1 DEF StartCounter
  <2>2. CASE NoCounter
    BY <2>2 DEF NoCounter
  <2>3. CASE Notify
    BY <2>3 DEF Notify
  <2> QED
    BY <1>9, <2>1, <2>2, <2>3
<1>10. CASE RunBenchmarks \/ OutputResults \/ SignalStop
  BY <1>10 DEF RunBenchmarks, OutputResults, SignalStop
<1>11. CASE Stop \/ Join
  BY <1>11 DEF Stop, Join
<1>12. CASE DeferredTeardown \/ Return
  BY <1>12 DEF DeferredTeardown, Return, Teardown
<1>13. CASE Capture
  BY <1>13 DEF Capture, CaptureCheck, CaptureRecv
<1>14. CASE Interrupt \/ Killed
  BY <1>14 DEF Interrupt, Killed
<1>15. CASE HandlerReceives \/ HandlerStops \/ HandlerPanics
  BY <1>15 DEF HandlerReceives, HandlerStops, HandlerPanics
<1>16. CASE HandlerJoins \/ HandlerTeardown \/ HandlerExits
  BY <1>16 DEF HandlerJoins, HandlerTeardown, HandlerExits, Teardown
<1>17. CASE Idle \/ UNCHANGED vars
  BY <1>17 DEF Idle, vars
<1> QED
  BY <1>1, <1>2, <1>3, <1>4, <1>5, <1>6, <1>7, <1>8, <1>9, <1>10, <1>11, <1>12, <1>13,
     <1>14, <1>15, <1>16, <1>17 DEF Next, Main, Handler

\* The inductive invariant holds in every state of every behaviour.
THEOREM Invariance == Spec => []IInv
<1>1. IInv /\ [Next]_vars => IInv'
  <2> SUFFICES ASSUME IInv, [Next]_vars PROVE IInv'
    OBVIOUS
  <2>1. Flags /\ Places
    BY TypeParts DEF IInv
  <2>2. Flags' /\ Places'
    BY <2>1, FlagsStep, PlacesStep
  <2>3. TypeOK'
    BY <2>2, Zenon DEF TypeOK, Flags, Places
  <2> QED
    BY <2>3, RulesStep DEF IInv
<1> QED
  BY InitIInv, <1>1, PTL DEF Spec

\* The variables of the processes and the kernel keep their types.
THEOREM TypeCorrect == Spec => []TypeOK
<1>1. IInv => TypeOK
  BY DEF IInv
<1> QED
  BY Invariance, <1>1, PTL

\* A process that ends by itself, or by a signal that its handler caught,
\* leaves none of its netem rules behind.
THEOREM Removed == Spec => []OwnRulesRemoved
<1>1. IInv => OwnRulesRemoved
  BY DEF IInv
<1> QED
  BY Invariance, <1>1, PTL

\* The benchmarks run under the rules of their own process and no other,
\* whatever earlier processes left on the loopback.
THEOREM OwnRulesOnly == Spec => []MeasuredUnderOwnRules
<1>1. IInv => MeasuredUnderOwnRules
  BY DEF IInv, Progress, MeasuredUnderOwnRules, Within
<1> QED
  BY Invariance, <1>1, PTL

\* Who has stopped the counter, while the handler is still to do so: the main
\* goroutine, which has stopped taking signals before.
Stopped ==
    /\ pc \in {"latency", "clear", "prio", "wan", "campus", "device", "servers", "counter", "notify"} => ~done
    /\ pc = "stop" => ~notified
    /\ handler \in {"wait", "stop"} /\ done => pc \in {"join", "teardown", "return"} /\ ~notified

\* Every step keeps it.
LEMMA StoppedStep == IInv /\ Stopped /\ [Next]_vars => Stopped'
<1> SUFFICES ASSUME Places, HandlerState, Stopped, [Next]_vars PROVE Stopped'
  BY TypeParts DEF IInv
<1> USE DEF Places, HandlerState, Stopped, MainOnly, process, counterVars, signalVars, At, End
<1>1. CASE Start
  BY <1>1 DEF Start
<1>2. CASE SetupLatency \/ SetupClears \/ AddPrio \/ AddPrioFails
  BY <1>2 DEF SetupLatency, SetupClears, AddPrio, AddPrioFails
<1>3. CASE AddBand("wan", "campus") \/ AddBand("campus", "device")
  BY <1>3 DEF AddBand
<1>4. CASE AddBandFails("wan") \/ AddBandFails("campus")
  BY <1>4 DEF AddBandFails
<1>5. CASE NewDevice \/ StartServers \/ SetupFails
  BY <1>5 DEF NewDevice, StartServers, SetupFails
<1>6. CASE StartCounter \/ NoCounter \/ Notify
  BY <1>6 DEF StartCounter, NoCounter, Notify
<1>7. CASE RunBenchmarks \/ OutputResults \/ SignalStop
  BY <1>7 DEF RunBenchmarks, OutputResults, SignalStop
<1>8. CASE Stop \/ Join
  BY <1>8 DEF Stop, Join
<1>9. CASE DeferredTeardown \/ Return
  BY <1>9 DEF DeferredTeardown, Return
<1>10. CASE Capture \/ Interrupt \/ Killed
  BY <1>10 DEF Capture, CaptureCheck, CaptureRecv, Interrupt, Killed
<1>11. CASE HandlerReceives \/ HandlerStops \/ HandlerPanics
  BY <1>11 DEF HandlerReceives, HandlerStops, HandlerPanics
<1>12. CASE HandlerJoins \/ HandlerTeardown \/ HandlerExits
  BY <1>12 DEF HandlerJoins, HandlerTeardown, HandlerExits
<1>13. CASE Idle \/ UNCHANGED vars
  BY <1>13 DEF Idle, vars
<1> QED
  BY <1>1, <1>2, <1>3, <1>4, <1>5, <1>6, <1>7, <1>8, <1>9, <1>10, <1>11, <1>12, <1>13 DEF Next, Main, Handler

\* The handler's panic comes only after the results have been written.
THEOREM CrashesLate == Spec => []CrashAfterOutput
<1>1. Init => Stopped
  BY DEF Init, Stopped
<1>2. Stopped => CrashAfterOutput
  BY DEF Stopped, CrashAfterOutput
<1> QED
  BY Invariance, StoppedStep, <1>1, <1>2, PTL DEF Spec
=============================================================================
