----------------------------- MODULE Lifecycle -----------------------------
(***************************************************************************)
(* The life of `clibench bench' processes, one after the other on one      *)
(* host: set-up of the tc netem rules on the loopback interface            *)
(* (internal/netem), start of the servers, the packet counter's goroutine, *)
(* the signal handler, the benchmarks, and the deferred clean-up.  The     *)
(* rules are state of the kernel: they outlive the process that made them. *)
(* What the benchmarks measure is the matter of other modules.             *)
(***************************************************************************)
EXTENDS Naturals

CONSTANTS
    MaxRuns,      \* bound: processes started one after the other
    MaxSignals    \* bound: SIGINT or SIGTERM sent to one process

ASSUME RunsAssumption == MaxRuns \in Nat
ASSUME SignalsAssumption == MaxSignals \in Nat

VARIABLES
    run,        \* number of the current, or last, process
    cfg,        \* its configuration
    pc,         \* its main goroutine in BenchCmd.Run
    ret,        \* how the main goroutine is returning
    rules,      \* the qdiscs on the loopback, each with the run that made it
    counter,    \* whether pc != nil: there is a packet counter
    done,       \* whether Counter.done is closed
    capture,    \* the capture goroutine
    handler,    \* the goroutine that waits on sigCh
    notified,   \* signal.Notify is in effect
    sigCh,      \* a signal is in the channel
    signals,    \* signals sent to this process
    exit        \* how the last process ended

process == <<run, cfg>>
counterVars == <<counter, done, capture>>
signalVars == <<handler, notified, sigCh, signals>>
vars == <<process, pc, ret, rules, counterVars, signalVars, exit>>

Bands == {"prio", "wan", "campus"}
OwnRules == Bands \X {run}

\* The rules are used for a kernel delay only: !b.Userspace && e.delay > 0.
Netem == ~cfg.userspace /\ cfg.delay

\* The places of BenchCmd.Run between the start and the end of the process.
Alive == pc # "gone"

TypeOK ==
    /\ run \in Nat
    /\ cfg \in [userspace : BOOLEAN, delay : BOOLEAN, root : BOOLEAN]
    /\ pc \in {"latency", "clear", "prio", "wan", "campus", "device", "servers", "counter",
               "notify", "bench", "output", "unnotify", "stop", "join", "teardown", "return", "gone"}
    /\ ret \in {"ok", "error", "panic"}
    /\ rules \subseteq Bands \X Nat
    /\ counter \in BOOLEAN
    /\ done \in BOOLEAN
    /\ capture \in {"none", "check", "recv", "returned"}
    /\ handler \in {"none", "wait", "stop", "join", "teardown", "exit"}
    /\ notified \in BOOLEAN
    /\ sigCh \in BOOLEAN
    /\ signals \in Nat
    /\ exit \in {"none", "ok", "error", "panic", "handled", "killed", "crashed"}

Init ==
    /\ run = 0
    /\ cfg = [userspace |-> FALSE, delay |-> FALSE, root |-> FALSE]
    /\ pc = "gone"
    /\ ret = "ok"
    /\ rules = {}
    /\ counter = FALSE
    /\ done = FALSE
    /\ capture = "none"
    /\ handler = "none"
    /\ notified = FALSE
    /\ sigCh = FALSE
    /\ signals = 0
    /\ exit = "none"

\* The process ends and takes its goroutines with it.
End(how) ==
    /\ pc' = "gone"
    /\ exit' = how
    /\ capture' = "none"
    /\ handler' = "none"
    /\ notified' = FALSE
    /\ sigCh' = FALSE
    /\ UNCHANGED <<process, ret, counter, done, signals>>

\* Mutant: only what this process added is deleted.
TeardownOwn == IF cfg.root THEN rules \ OwnRules ELSE rules

\* netem.Teardown deletes the root qdisc, and with it the bands, whoever made
\* them.  Its error, which it has without CAP_NET_ADMIN, is ignored.
Teardown == IF cfg.root THEN {} ELSE rules

-----------------------------------------------------------------------------
(* The main goroutine *)

\* A user starts the next process, as root or not.
Start ==
    /\ pc = "gone"
    /\ run < MaxRuns
    /\ run' = run + 1
    /\ cfg' \in [userspace : BOOLEAN, delay : BOOLEAN, root : BOOLEAN]
    /\ pc' = "latency"
    /\ ret' = "ok"
    /\ counter' = FALSE
    /\ done' = FALSE
    /\ signals' = 0
    /\ exit' = "none"
    /\ UNCHANGED <<rules, capture, handler, notified, sigCh>>

At(place, next) == pc = place /\ pc' = next

MainOnly == UNCHANGED <<process, counterVars, signalVars, exit>>

\* setupLatency
SetupLatency ==
    /\ At("latency", IF Netem THEN "clear" ELSE "device")
    /\ UNCHANGED <<ret, rules>>
    /\ MainOnly

\* netem.Setup starts with Teardown.
SetupClears ==
    /\ At("clear", "prio")
    /\ rules' = Teardown
    /\ UNCHANGED ret
    /\ MainOnly

\* The prio qdisc; the kernel refuses a second root qdisc.
AddPrio ==
    /\ At("prio", "wan")
    /\ cfg.root
    /\ \A r \in rules : r[1] # "prio"
    /\ rules' = rules \cup {<<"prio", run>>}
    /\ UNCHANGED ret
    /\ MainOnly

\* Setup returns the error before Run has deferred Teardown.
AddPrioFails ==
    /\ pc = "prio"
    /\ rules' = rules
    /\ End("error")

\* addNetemBand: the netem qdisc of a band and a filter for each port.
AddBand(band, next) ==
    /\ At(band, next)
    /\ rules' = rules \cup {<<band, run>>}
    /\ UNCHANGED ret
    /\ MainOnly

\* Mutant: Setup returns the error of a band as it is.
AddBandFailsDirty(band) ==
    /\ pc = band
    /\ rules' \in {rules, rules \cup {<<band, run>>}}
    /\ End("error")

\* The qdisc or one of its filters is refused: Setup calls Teardown itself.
AddBandFails(band) ==
    /\ pc = band
    /\ rules' = Teardown
    /\ End("error")

\* device.New
NewDevice ==
    /\ At("device", "servers")
    /\ UNCHANGED <<ret, rules>>
    /\ MainOnly

\* startServers: listen, start, waitReady for up to 10 s each.
StartServers ==
    /\ At("servers", "counter")
    /\ UNCHANGED <<ret, rules>>
    /\ MainOnly

\* No transcripts, or a port that is taken: Run returns, Teardown is deferred.
SetupFails ==
    /\ pc \in {"device", "servers"}
    /\ pc' = "teardown"
    /\ ret' = "error"
    /\ UNCHANGED rules
    /\ MainOnly

\* setupPktCounter: an AF_PACKET socket (it needs root) and its goroutine.
StartCounter ==
    /\ At("counter", "notify")
    /\ ~cfg.userspace
    /\ cfg.root
    /\ counter' = TRUE
    /\ capture' = "check"
    /\ UNCHANGED <<process, ret, rules, done, signalVars, exit>>

\* Without a counter nobody waits for signals.
NoCounter ==
    /\ At("counter", "bench")
    /\ UNCHANGED <<ret, rules>>
    /\ MainOnly

\* signal.Notify and the goroutine that waits on sigCh
Notify ==
    /\ At("notify", "bench")
    /\ notified' = TRUE
    /\ handler' = "wait"
    /\ UNCHANGED <<process, ret, rules, counterVars, sigCh, signals, exit>>

RunBenchmarks ==
    /\ At("bench", "output")
    /\ UNCHANGED <<ret, rules>>
    /\ MainOnly

\* outputResults may fail; the deferred calls are the same.
OutputResults ==
    /\ At("output", IF counter THEN "unnotify" ELSE "teardown")
    /\ ret' \in {"ok", "error"}
    /\ UNCHANGED rules
    /\ MainOnly

\* cleanup: signal.Stop(sigCh) restores the default action.
SignalStop ==
    /\ At("unnotify", "stop")
    /\ notified' = FALSE
    /\ UNCHANGED <<process, ret, rules, counterVars, handler, sigCh, signals, exit>>

\* cleanup: Counter.Stop.  Closing done a second time panics; the panic of the
\* main goroutine still runs the remaining deferred call.
Stop ==
    /\ pc = "stop"
    /\ IF done THEN pc' = "teardown" /\ ret' = "panic"
               ELSE pc' = "join" /\ ret' = ret
    /\ done' = TRUE
    /\ UNCHANGED <<process, rules, counter, capture, signalVars, exit>>

\* c.wg.Wait()
Join ==
    /\ At("join", "teardown")
    /\ capture = "returned"
    /\ UNCHANGED <<ret, rules>>
    /\ MainOnly

\* defer netem.Teardown()
DeferredTeardown ==
    /\ At("teardown", "return")
    /\ rules' = IF Netem THEN Teardown ELSE rules
    /\ UNCHANGED ret
    /\ MainOnly

\* Run has returned to main, or the panic reaches the end of the stack.
Return ==
    /\ pc = "return"
    /\ End(ret)
    /\ UNCHANGED rules

-----------------------------------------------------------------------------
(* The capture goroutine of the packet counter *)

\* The select on c.done at the head of the loop.
CaptureCheck ==
    /\ capture = "check"
    /\ capture' = IF done THEN "returned" ELSE "recv"
    /\ UNCHANGED <<process, pc, ret, rules, counter, done, signalVars, exit>>

\* Mutant: the loop is left only when the socket yields a packet.
CaptureRecvBlocks ==
    /\ capture = "recv"
    /\ ~done
    /\ capture' = "check"
    /\ UNCHANGED <<process, pc, ret, rules, counter, done, signalVars, exit>>

\* Recvfrom returns with a packet, on its timeout of 100 ms or because Stop
\* has closed the descriptor.
CaptureRecv ==
    /\ capture = "recv"
    /\ capture' = "check"
    /\ UNCHANGED <<process, pc, ret, rules, counter, done, signalVars, exit>>

-----------------------------------------------------------------------------
(* Signals and the goroutine that handles them *)

\* SIGINT or SIGTERM arrives: into sigCh, which has room for one, if the
\* process has asked for it; otherwise the process dies on the spot.
Interrupt ==
    /\ Alive
    /\ signals < MaxSignals
    /\ notified
    /\ sigCh' = TRUE
    /\ signals' = signals + 1
    /\ UNCHANGED <<process, pc, ret, rules, counterVars, handler, notified, exit>>

Killed ==
    /\ Alive
    /\ signals < MaxSignals
    /\ ~notified
    /\ rules' = rules
    /\ End("killed")

\* <-sigCh
HandlerReceives ==
    /\ handler = "wait"
    /\ sigCh
    /\ handler' = "stop"
    /\ sigCh' = FALSE
    /\ UNCHANGED <<process, pc, ret, rules, counterVars, notified, signals, exit>>

\* pc.Stop()
HandlerStops ==
    /\ handler = "stop"
    /\ ~done
    /\ handler' = "join"
    /\ done' = TRUE
    /\ UNCHANGED <<process, pc, ret, rules, counter, capture, notified, sigCh, signals, exit>>

\* The main goroutine has closed done already: a panic that no deferred call
\* of the main goroutine sees.
HandlerPanics ==
    /\ handler = "stop"
    /\ done
    /\ rules' = rules
    /\ End("crashed")

HandlerJoins ==
    /\ handler = "join"
    /\ capture = "returned"
    /\ handler' = "teardown"
    /\ UNCHANGED <<process, pc, ret, rules, counterVars, notified, sigCh, signals, exit>>

\* netem.Teardown(), whatever the configuration
HandlerTeardown ==
    /\ handler = "teardown"
    /\ handler' = "exit"
    /\ rules' = Teardown
    /\ UNCHANGED <<process, pc, ret, counterVars, notified, sigCh, signals, exit>>

\* Mutant: for range sigCh, without the exit.
HandlerGoesOn ==
    /\ handler = "exit"
    /\ handler' = "wait"
    /\ UNCHANGED <<process, pc, ret, rules, counterVars, notified, sigCh, signals, exit>>

\* os.Exit(0)
HandlerExits ==
    /\ handler = "exit"
    /\ rules' = rules
    /\ End("handled")

-----------------------------------------------------------------------------

Main ==
    \/ SetupLatency \/ SetupClears \/ AddPrio \/ AddPrioFails
    \/ AddBand("wan", "campus") \/ AddBandFails("wan")
    \/ AddBand("campus", "device") \/ AddBandFails("campus")
    \/ NewDevice \/ StartServers \/ SetupFails \/ StartCounter \/ NoCounter \/ Notify
    \/ RunBenchmarks \/ OutputResults \/ SignalStop \/ Stop \/ Join
    \/ DeferredTeardown \/ Return

Capture == CaptureCheck \/ CaptureRecv

Handler ==
    \/ HandlerReceives \/ HandlerStops \/ HandlerPanics
    \/ HandlerJoins \/ HandlerTeardown \/ HandlerExits

\* The host is left alone.
Idle == ~Alive /\ run = MaxRuns /\ UNCHANGED vars

Next == Start \/ Main \/ Capture \/ Interrupt \/ Killed \/ Handler \/ Idle

Spec == Init /\ [][Next]_vars

\* Goroutines are scheduled.  Nobody has to start a process or to send a signal,
\* and the benchmarks may hang: many of their calls have no timeout.
FairSpec ==
    /\ Spec
    /\ WF_vars(pc # "bench" /\ Main)
    /\ WF_vars(Capture)
    /\ WF_vars(Handler)

-----------------------------------------------------------------------------
(* Properties *)

\* A process that ends by itself -- success, any error on the way, a panic of
\* the main goroutine, a handled signal -- leaves none of its rules on the
\* loopback.  Only a signal outside the reach of the handler ("killed") and
\* the panic of the handler ("crashed", Stop called by both) can leave them.
OwnRulesRemoved ==
    ~Alive /\ exit \in {"ok", "error", "panic", "handled"} => rules \cap OwnRules = {}

\* Rules that a killed process left behind neither stop a later one from
\* setting up its own nor delay its traffic: with a kernel delay the benchmarks
\* run under the rules of this process, all of them and no other -- until the
\* signal handler, which does not wait for the benchmarks, takes them down.
MeasuredUnderOwnRules ==
    /\ pc = "prio" /\ cfg.root => rules = {}
    /\ pc = "bench" /\ Netem /\ handler # "exit" => rules = OwnRules

\* The panic of the handler, which loses the rules, strikes only a process that
\* has written its results: a second close of done needs the main goroutine's own
\* Stop, and nothing else calls it twice, however many signals come.
CrashAfterOutput ==
    handler = "stop" /\ done => pc \in {"join", "teardown", "return"} /\ ~notified

\* A signal that the process catches ends it, even if the benchmarks hang:
\* neither Stop nor the wait for the capture goroutine can block for ever, also
\* if both goroutines stop the counter.
SignalEndsProcess == sigCh ~> ~Alive
=============================================================================
