----------------------------- MODULE BenchModes -----------------------------
(***************************************************************************)
(* The benchmark driver (internal/bench and cmd/clibench runBenchmarks):   *)
(* which modes each transport runs, when the packet counter is reset, when *)
(* shared connections are opened and closed, when each mode's result is    *)
(* summarised, and what a failed dial leaves out.  A transport's benchmark *)
(* function is straight-line code, written here as its plan: the sequence  *)
(* of steps still to execute.  Every step that talks to a server produces  *)
(* packets, tagged with the mode that caused them; the goroutine of the    *)
(* packet counter (internal/pktcount) counts them later, at its own pace.  *)
(* What the iterations of a mode measure is not modelled here.             *)
(***************************************************************************)
EXTENDS Naturals, FiniteSets, SequencesExt

CONSTANTS
    Selected,   \* the transports given on the command line
    Commands,   \* commands per iteration
    MaxLag      \* bound: modes with packets the capture goroutine has yet to see

ASSUME CommandsAssumption == Commands \in Nat \ {0}
ASSUME LagAssumption == MaxLag \in Nat \ {0}

-----------------------------------------------------------------------------
(* Plans.  A step of a plan belongs to a mode.  `via' says of a run or a    *)
(* warm-up what its requests go through; `results' are the modes whose     *)
(* results an early return lists.                                          *)

Step(op, m, via, results) == [op |-> op, mode |-> m, via |-> via, results |-> results]

step(op, m) == <<Step(op, m, "-", <<>>)>>
reset(m) == step("reset", m)
run(m)   == step("run", m)
close(m) == step("close", m)
sum(m)   == step("sum", m)
warm(m)  == step("warm", m)
\* A dial whose failure leaves out the mode, or returns the results listed.
open(m)  == step("open", m)
openElse(m, results) == <<Step("openElse", m, "-", results)>>
\* A request through an http.Transport that keeps its connection.
keep(op, m) == <<Step(op, m, "keep", <<>>)>>
\* A request through an http3.Transport that dials with h3Dial: closed within
\* the iteration, or kept.
h3(op, m) == <<Step(op, m, "h3", <<>>)>>
h3Keep(op, m) == <<Step(op, m, "h3Keep", <<>>)>>

sums(ms) == FlattenSeq([k \in 1..Len(ms) |-> sum(ms[k])])

\* A connection per iteration.
freshMode(m) == reset(m) \o run(m)
\* One connection for all iterations, dialled by the transport when the warm-up
\* (whose error is ignored) or an iteration needs it.
keepAliveMode(m) == reset(m) \o keep("warm", m) \o keep("run", m)
h3FreshMode(m) == reset(m) \o h3("run", m)
h3KeepAliveMode(m) == reset(m) \o h3Keep("warm", m) \o h3Keep("run", m) \o close(m)

\* One connection for all iterations, dialled explicitly; if the dial fails only
\* that mode is left out.
sshReuseMode(m) == reset(m) \o open(m) \o warm(m) \o run(m) \o close(m)

SSH ==
    freshMode("fresh-conn") \o sshReuseMode("reuse-conn") \o freshMode("batch-exec")
    \o sums(<<"fresh-conn", "reuse-conn", "batch-exec">>)
    \o freshMode("pty-fresh") \o sum("pty-fresh")
    \o sshReuseMode("pty-reuse") \o sum("pty-reuse")

\* The keep-alive transports are never closed.
HTTPS ==
    freshMode("fresh-conn") \o keepAliveMode("keep-alive") \o keepAliveMode("batch-post")
    \o sums(<<"fresh-conn", "keep-alive", "batch-post">>)
    \o IF Commands > 1 THEN keepAliveMode("multi-cmd") \o sum("multi-cmd")
                       ELSE reset("multi-cmd")

\* Mutant: the two HTTPS modes are summarised together.
ProxySumsTogether ==
    reset("fresh-ssh") \o keep("run", "fresh-ssh")
    \o reset("pooled-ssh") \o keep("run", "pooled-ssh")
    \o sum("fresh-ssh") \o sum("pooled-ssh")
    \o h3FreshMode("h3-fresh-ssh") \o sum("h3-fresh-ssh")
    \o h3FreshMode("h3-pooled-ssh") \o sum("h3-pooled-ssh")
    \o keepAliveMode("keep-alive") \o sum("keep-alive")
    \o h3KeepAliveMode("h3-keep-alive") \o sum("h3-keep-alive")

\* doProxy makes a transport per iteration and leaves its connection idle;
\* doProxyH3 closes its transport.
Proxy ==
    reset("fresh-ssh") \o keep("run", "fresh-ssh") \o sum("fresh-ssh")
    \o reset("pooled-ssh") \o keep("run", "pooled-ssh") \o sum("pooled-ssh")
    \o h3FreshMode("h3-fresh-ssh") \o sum("h3-fresh-ssh")
    \o h3FreshMode("h3-pooled-ssh") \o sum("h3-pooled-ssh")
    \o keepAliveMode("keep-alive") \o sum("keep-alive")
    \o h3KeepAliveMode("h3-keep-alive") \o sum("h3-keep-alive")

\* The session ticket for 0-RTT comes from a warm-up on a transport of its own.
HTTP3 ==
    h3FreshMode("fresh-conn")
    \o h3KeepAliveMode("keep-alive")
    \o h3KeepAliveMode("batch-post")
    \o sums(<<"fresh-conn", "keep-alive", "batch-post">>)
    \o reset("0rtt-resumption") \o keep("warm", "0rtt-resumption") \o close("0rtt-resumption")
    \o h3("run", "0rtt-resumption") \o sum("0rtt-resumption")

\* Where gNMI and NETCONF fail to open a shared connection they return a list of
\* results written out at that place.
gnmiMode(m, results) == reset(m) \o openElse(m, results) \o warm(m) \o run(m) \o close(m)

GNMI ==
    freshMode("fresh-conn")
    \o gnmiMode("reuse-stream", <<"fresh-conn">>)
    \o gnmiMode("batch-set", <<"fresh-conn", "reuse-stream">>)
    \o gnmiMode("subscribe-once", <<"fresh-conn", "reuse-stream", "batch-set">>)
    \o sums(<<"fresh-conn", "reuse-stream", "batch-set", "subscribe-once">>)

netconfMode(m, results) == reset(m) \o openElse(m, results) \o run(m) \o close(m)

\* Mutant: the batch session is left to the end of the process.
NETCONFLeavesBatch ==
    freshMode("fresh-session")
    \o netconfMode("reuse-session", <<"fresh-session">>)
    \o reset("batch-rpc") \o openElse("batch-rpc", <<"fresh-session", "reuse-session">>) \o run("batch-rpc")
    \o netconfMode("edit-commit", <<"fresh-session", "reuse-session", "batch-rpc">>)
    \o sums(<<"fresh-session", "reuse-session", "batch-rpc", "edit-commit">>)

\* Mutant: the last early return has the list of the one before.
NETCONFStaleList ==
    freshMode("fresh-session")
    \o netconfMode("reuse-session", <<"fresh-session">>)
    \o netconfMode("batch-rpc", <<"fresh-session", "reuse-session">>)
    \o netconfMode("edit-commit", <<"fresh-session", "reuse-session">>)
    \o sums(<<"fresh-session", "reuse-session", "batch-rpc", "edit-commit">>)

NETCONF ==
    freshMode("fresh-session")
    \o netconfMode("reuse-session", <<"fresh-session">>)
    \o netconfMode("batch-rpc", <<"fresh-session", "reuse-session">>)
    \o netconfMode("edit-commit", <<"fresh-session", "reuse-session", "batch-rpc">>)
    \o sums(<<"fresh-session", "reuse-session", "batch-rpc", "edit-commit">>)

RESTCONF ==
    freshMode("fresh-conn")
    \o keepAliveMode("keep-alive") \o close("keep-alive")
    \o keepAliveMode("batch-patch") \o close("batch-patch")
    \o keepAliveMode("json-vs-xml") \o close("json-vs-xml")
    \o sums(<<"fresh-conn", "keep-alive", "batch-patch", "json-vs-xml">>)

\* Mutant: the reset before the batch is forgotten.
TunnelOneReset(op, batch) == freshMode(op) \o sum(op) \o run(batch) \o sum(batch)

\* tunnelModes for one headend.
Tunnel(op, batch) == freshMode(op) \o sum(op) \o freshMode(batch) \o sum(batch)

Plan(t) ==
    CASE t = "ssh"          -> SSH
      [] t = "https"        -> HTTPS
      [] t = "proxy"        -> Proxy
      [] t = "http3"        -> HTTP3
      [] t = "gnmi"         -> GNMI
      [] t = "netconf"      -> NETCONF
      [] t = "restconf"     -> RESTCONF
      [] t = "tunnel-https" -> Tunnel("ssh-https-ssh", "ssh-https-ssh-batch")
      [] t = "tunnel-http3" -> Tunnel("ssh-http3-ssh", "ssh-http3-ssh-batch")

\* The order of runBenchmarks.
Order == <<"ssh", "https", "proxy", "http3", "gnmi", "netconf", "restconf",
           "tunnel-https", "tunnel-http3">>

ASSUME SelectedAssumption == Selected \subseteq ToSet(Order)

-----------------------------------------------------------------------------

VARIABLES
    todo,       \* transports yet to run
    cur,        \* the transport running, "-" before the first
    plan,       \* the steps it has yet to execute
    started,    \* its modes that have talked to a server, in order
    ran,        \* its modes that have been run
    reported,   \* the results it has appended, by mode
    conns,      \* connections the client side has not closed, by mode
    sockets,    \* UDP sockets opened by h3Dial and not closed, by mode
    counter,    \* whether there is a packet counter (it needs root)
    wire,       \* packets sent and not yet seen by capture, by the mode they belong to
    counted,    \* packets counted since the last Reset, by mode
    window,     \* history: the mode the last Reset was for, and what wire was then
    last        \* the latest result of cur: its mode and the packets it claims

vars == <<todo, cur, plan, started, ran, reported, conns, sockets, counter, wire, counted, window, last>>

\* Packets and connections of the transports before cur are not told apart.
Earlier == "earlier"
NoResult == [mode |-> "-", packets |-> {}]

TypeOK ==
    /\ todo \in Seq(Selected)
    /\ cur \in Selected \cup {"-"}
    /\ ran \subseteq ToSet(started)
    /\ counter \in BOOLEAN
    /\ conns \cup sockets \cup wire \cup counted \cup last.packets \subseteq ToSet(started) \cup {Earlier}
    /\ Cardinality(wire) <= MaxLag
    /\ ~counter => wire = {} /\ counted = {}
    /\ window.late \subseteq ToSet(started) \cup {Earlier}

Init ==
    /\ todo = SelectSeq(Order, LAMBDA t : t \in Selected)
    /\ cur = "-"
    /\ plan = <<>>
    /\ started = <<>>
    /\ ran = {}
    /\ reported = <<>>
    /\ conns = {}
    /\ sockets = {}
    /\ counter \in BOOLEAN
    /\ wire = {}
    /\ counted = {}
    /\ window = [mode |-> "-", late |-> {}]
    /\ last = NoResult

\* The next step of the plan is `op'.
At(op) == plan # <<>> /\ Head(plan).op = op
Mode == Head(plan).mode

\* The step talks to a server.
Traffic ==
    /\ started' = IF Contains(started, Mode) THEN started ELSE Append(started, Mode)
    /\ wire' = IF counter THEN wire \cup {Mode} ELSE wire
    /\ Cardinality(wire') <= MaxLag

\* Requests of the step leave behind the connection that a keep-alive transport
\* has dialled, if a dial got through, and the socket of h3Dial whether or not:
\* closing the http3.Transport closes the QUIC connection, but the socket is the
\* caller's, and h3Dial hands it to nobody.
Leave ==
    LET via == Head(plan).via
    IN  /\ \/ UNCHANGED conns
           \/ via \in {"keep", "h3Keep"} /\ conns' = conns \cup {Mode}
        /\ \/ UNCHANGED sockets
           \/ via \in {"h3", "h3Keep"} /\ sockets' = sockets \cup {Mode}

\* runBenchmarks calls the benchmark function of the next transport.
NextTransport ==
    /\ plan = <<>>
    /\ todo # <<>>
    /\ cur' = Head(todo)
    /\ todo' = Tail(todo)
    /\ plan' = Plan(cur')
    /\ started' = <<>>
    /\ ran' = {}
    /\ reported' = <<>>
    /\ conns' = {Earlier : m \in conns}
    /\ sockets' = {Earlier : m \in sockets}
    /\ wire' = {Earlier : m \in wire}
    /\ counted' = {Earlier : m \in counted}
    /\ window' = [mode |-> "-", late |-> {}]
    /\ last' = NoResult
    /\ UNCHANGED counter

\* c.pktReset()
PktReset ==
    /\ At("reset")
    /\ plan' = Tail(plan)
    /\ counted' = {}
    /\ window' = [mode |-> Mode, late |-> wire]
    /\ UNCHANGED <<todo, cur, started, ran, reported, conns, sockets, counter, wire, last>>

\* sshDialCounted, netconfDial or grpc.NewClient succeeds.
Open ==
    /\ At("open") \/ At("openElse")
    /\ plan' = Tail(plan)
    /\ conns' = conns \cup {Mode}
    /\ Traffic
    /\ UNCHANGED <<todo, cur, ran, reported, sockets, counter, counted, window, last>>

\* Mutant: the error of the dial is only logged.
RestIgnoresFailure == Tail(plan)

\* What remains of the plan after a failed dial: the steps of other modes (the
\* mode's result is not summarised if its times are nil), or the results of the
\* early return.
RestAfterFailure ==
    IF At("open") THEN SelectSeq(Tail(plan), LAMBDA s : s.mode # Mode)
                  ELSE sums(Head(plan).results)

OpenFails ==
    /\ At("open") \/ At("openElse")
    /\ plan' = RestAfterFailure
    /\ Traffic
    /\ UNCHANGED <<todo, cur, ran, reported, conns, sockets, counter, counted, window, last>>

\* A warm-up request; whether it succeeds is ignored.
WarmUp ==
    /\ At("warm")
    /\ plan' = Tail(plan)
    /\ Leave
    /\ Traffic
    /\ UNCHANGED <<todo, cur, ran, reported, counter, counted, window, last>>

\* RunParallel over the iterations of the mode.
Run ==
    /\ At("run")
    /\ plan' = Tail(plan)
    /\ ran' = ran \cup {Mode}
    /\ Leave
    /\ Traffic
    /\ UNCHANGED <<todo, cur, reported, counter, counted, window, last>>

\* sharedConn.Close, netconfDial's cleanup, CloseIdleConnections or the Close of an
\* http3.Transport, which leaves the socket of h3Dial open.
Close ==
    /\ At("close")
    /\ plan' = Tail(plan)
    /\ conns' = conns \ {Mode}
    /\ Traffic
    /\ UNCHANGED <<todo, cur, ran, reported, sockets, counter, counted, window, last>>

\* c.summarize(...): the result takes a snapshot of the packet counter.
Summarize ==
    /\ At("sum")
    /\ plan' = Tail(plan)
    /\ reported' = Append(reported, Mode)
    /\ last' = [mode |-> Mode, packets |-> counted]
    /\ UNCHANGED <<todo, cur, started, ran, conns, sockets, counter, wire, counted, window>>

\* The capture goroutine receives packets of a mode, all it is to see or some.
Capture ==
    \E m \in wire :
        /\ counted' = counted \cup {m}
        /\ wire' \in {wire, wire \ {m}}
        /\ UNCHANGED <<todo, cur, plan, started, ran, reported, conns, sockets, counter, window, last>>

\* A connection left open sends TCP keep-alive probes or closing packets.
IdleTraffic ==
    \E m \in conns :
        /\ counter
        /\ wire' = wire \cup {m}
        /\ Cardinality(wire') <= MaxLag
        /\ UNCHANGED <<todo, cur, plan, started, ran, reported, conns, sockets, counter, counted, window, last>>

Finished == todo = <<>> /\ plan = <<>> /\ UNCHANGED vars

Next ==
    \/ NextTransport
    \/ PktReset \/ Open \/ OpenFails \/ WarmUp \/ Run \/ Close \/ Summarize
    \/ Capture \/ IdleTraffic
    \/ Finished

Spec == Init /\ [][Next]_vars

-----------------------------------------------------------------------------
(* Properties *)

\* The packets of the latest result that belong to modes started after its own.
LaterPackets ==
    LET own == CHOOSE k \in 1..Len(started) : started[k] = last.mode
    IN  {k \in (own + 1)..Len(started) : started[k] \in last.packets}

\* A result's packet count never includes traffic of a mode that ran after it:
\* "packets_in | Real wire packets inbound" of that result.
PacketsNotFromLaterModes == Contains(started, last.mode) => LaterPackets = {}

\* The proxy and tunnel benchmarks keep to it: they summarise each mode before
\* they reset the counter for the next, so however far the capture goroutine
\* lags behind, only earlier traffic can slip into a result.
SummarisedBeforeNextReset ==
    cur \in {"proxy", "tunnel-https", "tunnel-http3"} => PacketsNotFromLaterModes

\* Every mode's count starts at a reset of its own, and the reset lets through no
\* more than it must: what a summary finds in the counter is traffic of the mode
\* the reset was for, packets that were under way to the capture goroutine at that
\* moment (Reset zeroes the numbers and leaves what the socket holds), and those
\* of connections left open.
OnlyLateOrIdleSlipsIn ==
    [][last' # last =>
           last'.packets \subseteq {window.mode} \cup window.late \cup conns]_vars

\* A mode is reported once if it ran and not at all otherwise, in the order of
\* the runs, whichever dials failed: the results that gNMI and NETCONF list at
\* each early return are those of the modes run so far.
ReportedIffRan ==
    plan = <<>> => reported = SelectSeq(started, LAMBDA m : m \in ran)

\* Iterations over an explicitly dialled connection run only while it is open;
\* after a failed dial the connection variable is nil.
NoRunWithoutConn ==
    At("run") /\ (\E k \in DOMAIN Plan(cur) : Plan(cur)[k].op \in {"open", "openElse"} /\ Plan(cur)[k].mode = Mode)
        => Mode \in conns

\* When a benchmark function returns, on whatever path, it has closed the
\* shared connections it opened -- but for the HTTPS transports of HTTPS and
\* Proxy, which nothing closes.  Of what the HTTP/3 modes open, the QUIC
\* connections are closed and the sockets of h3Dial are not.
SharedConnsClosed ==
    plan = <<>> =>
        /\ conns \ {Earlier} \subseteq
               CASE cur = "https" -> {"keep-alive", "batch-post", "multi-cmd"}
                 [] cur = "proxy" -> {"fresh-ssh", "pooled-ssh", "keep-alive"}
                 [] OTHER         -> {}
        /\ sockets \ {Earlier} \subseteq
               CASE cur = "http3" -> {"fresh-conn", "keep-alive", "batch-post", "0rtt-resumption"}
                 [] cur = "proxy" -> {"h3-fresh-ssh", "h3-pooled-ssh", "h3-keep-alive"}
                 [] OTHER         -> {}
=============================================================================
