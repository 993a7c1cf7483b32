# Verification of clibench

clibench measures how long it takes to run CLI commands on a (simulated)
network device over SSH, HTTPS, HTTP/3, gNMI, NETCONF, RESTCONF, through a site
proxy and through a headend-and-proxy tunnel. This directory holds TLA+ models
of the parts of it whose correctness depends on ordering, sharing and failure,
the TLC runs that check them and the TLAPS proofs about them. `PROJECT.json`
says for every definition which source lines it models.

## 1. Inventory

| Component | State | Operations | Interacts with |
|---|---|---|---|
| site proxy (`internal/proxy`, `internal/httphandler`) | `mu`, `pool`, `srv`/`h3srv`, `pooled` | `RunCommands` (`getSSH`, `resetPool`), `Close`, `ListenAndServeTLS`/`H3` | one goroutine per HTTP request; SSH to the backend device; called by benchmark clients and the headend |
| worker pool (`stats.RunParallel`) | `results`, `sem`, WaitGroup | start, wait, run `fn`, release | under every benchmark mode; `fn` writes slices the caller reads afterwards |
| benchmark driver (`internal/bench`, `runBenchmarks`) | modes, result list, shared connections | reset counter, dial, warm up, run, close, summarise | all servers; packet counter; RunParallel |
| packet counter (`internal/pktcount`) | two atomic counters, capture goroutine | `Start`, `Reset`, `Snapshot`, `Stop` | driver; signal handler |
| NETCONF (`internal/netconfserver`, `bench/netconf.go`) | framing position of both ends, message counter | hello, chunked read and write, dispatch, close-session | SSH channel shared by the iterations of a mode |
| headend (`internal/headend`) | HTTP client | `handleSession`, `forward` | SSH in, site proxy out |
| round-trip counting (`internal/rtcount`, counters of `bench`) | `trips`, `reads`, `writes`, `lastDir` | `Read`, `Write`, delta recording | every counted connection |
| sweep (`bench/scale.go`) | held connections, error count | open N, barrier, run, close | servers |
| PTY client (`bench/pty.go`) and interactive SSH session | buffer, prompt, timer | `readUntil`, `ptyExecCmds` | SSH server |
| device, gNMI, RESTCONF, HTTPS, HTTP/3 servers | transcripts, read-only | one request, one answer | the transports |
| latency injection, netem, lifecycle of `bench` | delayed connection; kernel qdisc | set up, tear down on return or signal | all servers |
| statistics, report, resource sampling, TLS, command line | none of their own | computing and printing | results |

What is hard here: handlers that share one SSH connection and replace it when
it breaks; `Close` against handlers in flight; a counter that is global while
results are per mode; early returns after partial failure; a stream protocol
whose client never looks at message ids; iterations that share a session under
`--concurrency`; kernel state that outlives a killed process; round trips
inferred from the order of two goroutines; timeouts that leave something
running; requests that are silently repeated; a terminal that is understood by
searching its text. The list `hazards` in `PROJECT.json` has each of these at
its line, with the properties that guard it or, where nothing does, why.

What makes the components correct:

* proxy: no use of a closed connection, at most one pooled connection, none
  lost, a broken one replaced after one failure, answers that match what the
  device did, handlers and `Close` that return;
* RunParallel: the bound, completeness at return, termination;
* driver: every mode that ran reported exactly once, no run over a connection
  that failed to open, shared connections closed, packets credited to the mode
  that caused them;
* NETCONF: replies matched to requests, both ends aligned after a success,
  failure only on a broken channel, termination of both ends;
* lifecycle of `bench`: no netem rule left by an orderly end, measurements under
  the process's own rules only, a signal that ends the process;
* round trips: a bounded error, none if the reader keeps up, and a median that
  failures do not drag away;
* sweep: a level held as a whole, nothing left to the next, a report that
  accounts for every connection;
* transports: the device runs what was asked for, at most once and in order,
  and gives the same answer over each of them; the tunnel answers;
* PTY: success only if every line was run; a client that returns whatever the
  server does.

## 2. Modules

| Module | Models |
|---|---|
| `Proxy`, `MCProxy` | the site proxy, its handlers, `Close` and a backend that fails |
| `ProxyProofs` | inductive invariant and safety theorems of `Proxy` |
| `ParallelMap` | abstract specification: what RunParallel promises |
| `RunParallel` | the worker pool, statement by statement |
| `RunParallelProofs` | its safety theorems and the refinement of `ParallelMap` |
| `BenchModes`, `MCBenchModes` | the benchmark functions as plans of steps, the packet counter |
| `NetconfSession` | one NETCONF session with the iterations that share it |
| `NetconfProofs` | framing, streams, inductive invariant and safety theorems of `NetconfSession` |
| `Lifecycle` | `bench` processes one after the other: netem, packet counter, signals, clean-up |
| `LifecycleProofs` | inductive invariant and safety theorems of `Lifecycle` |
| `Counters` | a counted connection, its reader, and the trips recorded per iteration |
| `CountersProofs` | sorting and medians, inductive invariant and safety theorems of `Counters` |
| `Sweep`, `MCSweep` | the connection-scaling sweep |
| `SweepProofs` | inductive invariant, safety and type theorems of `Sweep` |
| `Transports`, `MCTransports` | one request from client to device over twelve routes, headend and proxy included |
| `TransportsProofs` | recursion, decodings, the device's loop, inductive invariant and safety theorems of `Transports` |
| `Pty`, `MCPty` | the terminal-scraping client against the interactive SSH session |
| `PtyProofs` | inductive invariant and safety theorems of `Pty` |

**Proxy.** One process per HTTP request, named `r`; `pc[r]` is its place in
`RunCommands`, each wait for another party (mutex, dial, session, output) a
step of its own. A handler dials at most once, so an SSH connection is named
after its request; `ssh[c]` is `open`, `dead` (broken, neither side closed it)
or `closed` by the client side. Outputs are counted: `got` what the handler has
collected, `ran` what the device has executed; the two differ when the
connection breaks after execution. `pooled` is chosen in `Init`, so both kinds
of proxy are covered, and HTTP/3 instances have the same handlers. `Close` is
three steps: stop the server, take the mutex, empty the pool. It may run before
`ListenAndServeTLS` has assigned `s.srv`, since the latter runs in its own
goroutine. Request parsing, authentication and 4xx answers precede
`RunCommands` and change nothing.

**RunParallel.** The caller's statements and each worker's deferred calls in
the order Go runs them. `fn` yields `ok` or `err`.

**BenchModes.** The benchmark functions are straight-line code with early
returns. Each is written as its *plan*, a sequence of steps (`reset`, `open`,
`warm`, `run`, `close`, `sum`) tagged with their mode; the actions execute the
head of the plan. A failed `open` removes the mode's steps (SSH) or returns the
results that the code lists at that place: every `openElse` of gNMI and NETCONF
carries its own list, transcribed from its early return. `conns` are connections
the client side has not closed; `sockets` the UDP sockets of `h3Dial`, which
quic-go leaves to a caller that keeps no reference to them. Packets are sets of the
modes that caused them. `wire` holds what the capture goroutine has not yet
seen; it may be cleared and counted across a `Reset`, as in the code. `window` is
history: the mode of the last `Reset` and what was on `wire` then. Whether
there is a counter at all (it needs root) is chosen in `Init`.

**NetconfSession.** Both directions are streams of tokens, read one at a time
as `readChunked` reads bytes. The output of a command looks like framing
(`\n##\n`) and goes through `xmlEscape`; an `<edit-config>` body contains bare
newlines. Writers append whole frames: `writeChunked` makes one `Write`.
`msgCounter++` is a load and a store. `Break` cuts both streams at any token.
A request is never malformed nor unknown, because the clients of the repository
send none; the `rpc-error` branches of `dispatch` are therefore not modelled.

**Lifecycle.** `rules` is the set of qdiscs on the loopback, each tagged with
the process (`run`) that made it, so that what one process leaves is still there
for the next. `pc` follows `BenchCmd.Run` through `setupLatency`, `netem.Setup`
(root qdisc and two bands, any of which the kernel may refuse), the servers, the
packet counter and its goroutine, the benchmarks and the deferred calls.
`handler` is the goroutine that waits on `sigCh`. A signal goes into the channel
(capacity one) while `signal.Notify` is in effect and kills otherwise. Closing
`done` a second time panics: in the main goroutine the remaining deferred call
still runs (`panic`), in the handler nothing does (`crashed`).

**Counters.** The two atomic operations of `Conn.Read` and the one of
`Conn.Write` are steps; the client goroutine writes requests, another one reads
responses of several segments and may be late. `kind` says how a mode uses its
connections: one shared (SSH), one that the transport replaces when it breaks
(HTTP), one per iteration, one per command with all or only the last of them
recorded (HTTPS and RESTCONF fresh-conn). `Redial` is the transport's new
connection, for the next request or for one under way whose connection broke
before anything came back and that net/http sends again; a request that was the
first on its connection is not repeated. `note` is history for the properties.
An exchange stands for whatever a protocol sends and waits for once; writes of
the protocol on its own account come in between. `sort.Ints` is `sortInts`, the
numbers in the order of a permutation that sorts them: with that definition one
can prove something about `medianInts`, and TLC can still evaluate it.

**Sweep.** `opener[i]` and `worker[i]` are the two goroutines of connection `i`,
`link[i]` the connection, `conns` the list under `mu`. The six openers differ in
what they dial and how they warm up; they have in common that a failure closes
what was dialled, and that HTTP and gRPC clients dial again. The last three
fields of a result are history: how many connections were opened and refused,
and how many workloads ran.

**Transports.** A command is a sequence of words, a line is tidy if its words
are one space apart, and which word contains a separator is given by constants
(`SlashParts`, `PlusParts`). Loops over words, lines and the device's commands
are flattenings of sequences and functions of the position, so that one can
prove what they compute. Each route has its encoding and decoding: lines of
text, the path of an exec URL, gNMI paths, RESTCONF paths and edits. The device
goes through its commands in every order. A tunnel's request passes the headend,
which makes a GET of one line and a POST of several, and the site proxy, whose
backend may fail before or after a command has run. A handler that nobody waits
for runs on. `Repeat` is net/http's own retry of a GET on a connection that it
had used before. An exec path is refused if it is empty once the mux has merged
its slashes; a path of plus signs alone is a list of no commands and succeeds. Of
a blank line the text and HTTP routes make no command, while gNMI asks the device
and answers with an empty value.

**Pty.** The stream in each direction is a sequence of texts; `Read` returns any
non-empty part of what has arrived. `Plan` is the sequence of sends and waits of
`ptyExecCmds`, given by its places (the first prompt, three steps for each line,
the exit); the actions execute it as `readUntil` does, with the reading
goroutine, the buffered result channel and the timer as separate steps. The
output of `show version` is a constant, so that outputs with prompts and command
texts in them can be tried.

## 3. Runs

| Run | Bounds | States | Result |
|---|---|---|---|
| `proxy` | 3 requests of 2, 1, 0 commands; 1 fault; `Close` any time; both kinds of proxy | 358 k | passes |
| `proxy_close` | same, no fault | stops early | `CloseReleases` violated |
| `run_parallel` | 5 iterations, concurrency 2 | 19 k | passes |
| `bench_modes` | all 9 transports, 2 commands, lag of 1 mode | 1.4 M | passes |
| `bench_packets` | SSH only | stops early | `PacketsNotFromLaterModes` violated |
| `netconf` | 3 iterations, concurrency 1, 2 commands, 3 modes | 70 k | passes |
| `netconf_concurrent` | 2 iterations at once, 1 command | stops early | `OwnReplies` violated |
| `lifecycle` | 3 processes, 2 signals each | 5 k | passes |
| `counters` | 3 iterations of 3 exchanges, 2 segments, 2 faults (breaks, protocol writes) | 9.1 M | passes |
| `sweep` | levels 0, 1, 3; SSH and HTTPS; 2 commands | 305 k | passes |
| `transports` | 12 routes, 44 payloads of up to 2 lines, a device of 4 commands | 17 k | passes |
| `pty` | 3 commands, 4 outputs | 13 k | passes |

*Why the bounds are enough.* `proxy`: three requests allow one that uses the
pool, one that waits for the mutex and one that comes later; two commands put a
failure before, between and after commands, and an empty request exercises the
loop that runs zero times; a single fault already kills the pooled connection
under any handler, and the proofs cover any number of everything.
`run_parallel`: more iterations than slots, so that the caller blocks and slots
are reused; the proofs cover the rest. `bench_modes`: there is nothing to scale
but the lag (`MaxLag`, the number of modes with packets not yet captured); one
is enough for packets to cross a reset, and two have been checked as well, on
subsets of the transports that cover all nine, as has a single command per
iteration. `netconf`: three iterations, so that a misaligned one is followed by
others; two RPCs per iteration, so that a batch is pipelined. `lifecycle`: one
process leaves rules, the next meets them, a third comes after its clean-up; the
proofs cover any number. `counters`: an odd number of exchanges, so that merged
trips round down; three iterations, so that one can fail and the median still
has a majority, and a trip can be carried over twice. The median of an even
number of values, an average, is not met with three iterations: it is the theorem
`MedianHolds` that covers it. `sweep`: three connections allow one refused, one failing
and one successful; the others of the six transports behave as one of the two.
`transports`: single lines show every encoding, two show order and partial
failure. `pty`: after a prompt in the output the client is one line ahead, and
three commands leave room to fall back in step or to stay ahead to the end.

*Fairness.* Weak fairness of goroutine steps: Go's scheduler is preemptive and
`sync.Mutex` hands over to a waiter after 1 ms of starvation, so a waiter is
not overtaken for ever; with finitely many requests weak fairness suffices. The
device answers a command unless its connection breaks: nothing in the code
bounds `sess.Output` or the NETCONF reads, and without that assumption
`HandlersReturn`, `CloseReturns` and `SessionEnds` do not hold. Requests,
`Close`, faults and restarts are never forced to happen. `Lifecycle`: goroutines
run, `Recvfrom` returns (it has a timeout of 100 ms), but the benchmarks may
hang. `Transports`: the headend forwards and relays, and its 30 s timer fires;
the site proxy's handlers need not do anything. `Pty`: the client's goroutines
and its timer; the server need not do anything once the shell is granted
(`RequestPty` and `Shell` have no timeout), and what the client has opened it
closes in the end, which is what frees a reader left behind.

*What the violations show.*

1. `proxy_close`: a handler waits for `mu`, `Close` stops the server, takes the
   mutex, empties the pool and returns; the handler then gets the mutex, finds
   no connection, dials one and pools it. Nothing ever closes it, although the
   comment on `Close` (proxy.go:71) promises to release all resources.
2. `bench_packets`: `SSH` resets the counter before each mode but summarises
   its first three modes together, so the result of `fresh-conn` carries
   packets of later modes, while results/README.md:79 documents `packets_in`
   per result. HTTPS, HTTP/3, gNMI, NETCONF and RESTCONF have the same shape;
   the proxy and tunnel benchmarks do not (`SummarisedBeforeNextReset`). In
   results/v0.8.0 the first three SSH modes of a file carry equal counts (375 in
   netem-regional-n20-5cmd.json).
3. `netconf_concurrent`: with two iterations at once, one reads tokens of the
   other's reply, although the comment (netconf.go:152) speaks of sequential
   RPCs. With `--concurrency 1`, the default, `OwnReplies` holds.

*Where the code departs from its documents, and how far.* The properties of the
passing runs hold with their exceptions stated. An exception that a comment or a
document contradicts is a disagreement like the three above; here is each with
the property that bounds it, or without one:

* *Late packets.* results/README.md:79 documents a mode's "Real wire packets
  inbound", but `Reset` (pktcount.go:72) zeroes the numbers and leaves what the
  socket holds: the last packets of one mode are counted for the next.
  `OnlyLateOrIdleSlipsIn` says that beyond these only idle connections
  contribute.
* *Rules after a crash.* "Signal handler for clean shutdown" (bench.go:322) and
  "tears it down on exit" (README.md:186) do not hold if the handler has taken
  the signal out of the channel when `cleanup` stops the counter: its own `Stop`
  closes the same channel again, and the panic ends the process before either
  `Teardown`. `CrashAfterOutput`: this only happens after the results have been
  written.
* *Rules after a kill.* A process killed before `signal.Notify` or after
  `signal.Stop`, or run without a packet counter, leaves its rules as well
  (`OwnRulesRemoved` lists the ends that do not). A next process with a kernel
  delay clears them first (`MeasuredUnderOwnRules`). One with the profile
  `local`, "0ms | Co-located / loopback | Baseline" (README.md:151), never calls
  `netem.Setup` and measures under them; no property bounds that.
* *Connections of fresh-conn.* README.md:116 ("New TCP + TLS handshake per
  iteration"), restconf.go:72 and bench.go:393 speak of one connection per
  iteration. `DisableKeepAlives` makes one per command, so with `--commands`
  above 1 HTTPS and RESTCONF make several, where HTTP/3 makes one.
* *Round trips of RESTCONF fresh-conn.* results/README.md:76 documents
  `round_trips` as "Median write→read direction changes". Of the connections of
  an iteration RESTCONF records the last one's only, whatever the number of
  commands, while HTTPS adds them up (theorem `PerCommand`).
* *Round trips after a redial.* The baseline of one connection is subtracted from
  the count of another; the difference can be negative. `DeltaBounds` excludes
  such an iteration, and `MedianOfSuccesses` keeps it out of the report while
  most iterations kept their connection. Otherwise an iteration loses up to half
  of its trips to a late reader, and no more.
* *Errors in the tunnel.* headend.go:3 calls the tunnel transparent, but if the
  headend's request fails its text goes to the SSH client with exit status 0
  (headend.go:109): nothing may have run, and the benchmark counts the iteration
  as a success. `RunsWhatWasAsked` and `SameAnswer` except that text, and no
  property bounds it.

*What else the properties leave open.*

* `ReportedIffRan` is about which results are listed, not about the numbers in
  them.
* `LevelReport`: the refused connections of a level are in no field.
* `RunsWhatWasAsked`: a command with a slash in a word cannot be carried by an
  exec path, a RESTCONF path or an edit; a repeated GET runs twice. `SameAnswer` is about tidy lines:
  an exact command with an extra space is only matched by prefix and may become
  ambiguous, and transports differ in whether they keep the extra space.
* `SuccessMeansExecuted`: output with the prompt followed by the next command
  passes for an echo.

`SharedConnsClosed` names its exceptions: the `http.Transport`s of `HTTPS` and
of the HTTPS modes of `Proxy` are never closed and keep an idle connection, and
the UDP sockets of the HTTP/3 modes stay open although their connections are
closed.

## 4. Proofs

`ProxyProofs` proves, for every set of requests, every number of commands and
every number of faults, `TypeOK`, `NoUseAfterClose`, `OneBackendConn`,
`NoConnLost`, `OneFailurePerConn` and `AnswerIsTruthful`. None is inductive
alone. The inductive invariant `IInv` adds

* `LockInv`: a pooled handler past `Lock` owns the mutex, and so does `Close`
  while it empties the pool -- the reason why nobody else touches `pool`;
* `PoolInv`: the pooled connection is not closed, and a handler that found the
  pool empty finds it empty still when its dial ends, since it has the mutex;
* `ConnInv`: which connection a handler has at each point;
* `LiveInv`: the only unclosed connection of a pooled proxy is the pooled one,
  of a fresh proxy those of handlers that have yet to return;
* `FailInv`: a handler that failed on a pooled connection has closed it, hence
  no other handler can fail on it;
* `CountInv`: outputs, executions and errors go together.

`RunParallelProofs` proves, for every `Iterations` and every positive
`Concurrency`, `TypeOK`, `ConcurrencyBound`, `NothingLate` and
`Spec => Map!PMSafety`. `IInv` says that `sem` is the number of workers
between start and release (plus the slot just taken) and `wg` the number not yet done
(plus the one about to start), that workers start in order, and that a slot is
filled exactly when its worker has left `fn`. `IndexSets` collects the facts on
cardinalities. The assumptions are those on the constants: names are distinct,
`Cmds` maps requests to naturals, `Concurrency` is positive.

`LifecycleProofs` proves, for any number of processes and signals, type
correctness, `OwnRulesRemoved`, `MeasuredUnderOwnRules` and `CrashAfterOutput`. `IInv` adds how far
the rules of the current process are at each place of `Run` (`Progress`: between
`Setup` and the deferred `Teardown` they are exactly its own, or gone because the
handler is about to exit), that no rule is newer than the current process
(`NotNewer`: so the rules of the next one start out absent), and that a handler
exists only with a packet counter, thus only with the rights that `Teardown`
needs (`HandlerState`). For the last of the four, `Stopped` adds who has closed
`done` while the handler is yet to do it: the main goroutine, past
`signal.Stop`. The type invariant is proved in two halves, the Boolean
variables by Zenon and the rest by SMT.

`SweepProofs` proves, for any transports, levels and commands, type correctness,
`HeldTogether` and `LevelReport`. `IInv` relates each opener to its connection
and to the list (`Opening`) and says until when the list is held (`Holding`).
`LevelReport` needs in addition that `errs` and the successes count sets
(`Counted`): from the cardinality of a difference it follows that refused and
held connections add up to the level (`HeldOrRefused`), and failed and successful
workloads to the list (`OkayOrFailed`).

`CountersProofs` proves, for any numbers of iterations, exchanges, segments and
faults, type correctness, `DeltaBounds`, `ExactWhenReaderKeepsUp`,
`MedianOfSuccesses` and `FreshConnTrips`, the exact number that a mode with a
connection per command records: with it the theorem `PerCommand` says for every
handshake and number of commands what the two `fresh-conn` modes report. `IInv` bounds the counter from both
sides at every place of client and reader. `Upper`: `trips` is at most the
baseline, plus the writes of client and protocol, plus one trip left over from
the iteration before. `Lower`: the reader is behind by at most every second request, since a
request counted together with the one before must have overtaken the reader
between its two atomic operations, and the next one cannot do so again before
that trip is counted. `Exact`: a reader that is in `Read` when the client writes
has counted exactly the requests answered. `PerConn`: a connection per command,
with the sum of the earlier ones. The median needs facts about permutations: a
sorting permutation exists (`Sortable`, by inserting the last number into the
sorted others), and of more than half of the places of a permutation some are
below the middle and some above (`MedianOfMajority`, by counting). The induction
over the length in `Sortable` is by a least counterexample (`LeastNat`), which
needs no induction theorem with an operator parameter.

`NetconfProofs` proves, for any numbers of iterations and commands and all three
modes, type correctness, `OwnReplies`, `SessionAligned` and `FailsOnlyIfBroken`,
under the hypothesis `Concurrency = 1`. That is the default of `--concurrency`,
and the hypothesis cannot go: `netconf_concurrent` violates `OwnReplies` with
two iterations at once. The proof has three layers.

* *Frames.* `Inside(b, k)` is the state of `readChunked` after `k` tokens of the
  frame of body `b`. `FeedInside` shows that each token leads from one to the
  next, for every body -- newlines and `#`s in it do not matter, because a body
  is read by its length. `InsideEnds`: the frame ends with its last token.
* *Streams.* `Window(q, F, off, n, x, lk)`: the tokens `q` under way are what
  follows the first `x` tokens of a stream of the frames `F`, all of the rest if
  the channel is up and a part of it if it broke. The `Window` lemmas say what
  reading a token, appending a frame and breaking do to it, and `RequestRead` and
  `ReplyRead` that a reader inside a frame gets the token that belongs there.
* *Session.* `Connected` puts both directions together: the server has answered
  `a` requests and is `k` tokens into the next, the client has read `g` replies
  and is `c` tokens into the next. In `IInv`, `Placed` names the iteration that
  started last: the ones before it have ended, and as long as none has failed the
  session is `Connected` for what this one has sent and got. `Failing` and `Kept`
  say that a failure means a broken channel, which the server never closes
  first; `Progressing` relates the place of an iteration to its counts.

`PtyProofs` proves, for any number of commands and any outputs, type correctness
and `SuccessMeansExecuted`. The invariant is about `Pending`, the concatenation
of the client's buffer, the result of a `Read` and the channel: reading only
moves the borders in it, a match cuts off its beginning, the server adds to its
end. `InStep` says what it holds when the client waits for a prompt after line
`c` (nothing in which a prompt is followed by line `c + 1`), sends line `c + 1`
(no such line) and waits for its echo (no such line, or the echo and after it
only what the server wrote about that line), and `Queued` that the lines reach
the server in order. Together client and server are never more than one line
apart. `Misleading` outputs are exactly those that break the first of these.

`TransportsProofs` proves, for every finite device table, every meaning of
prefixes and separators and all payloads, `RunsWhatWasAsked` and `SameAnswer`.
It has four layers.

* *Recursion.* The library's induction theorems take an operator as a parameter
  and cannot be used. `UpTo` states induction over the numbers up to `n` for
  membership in a set; `LoopExists` uses it to show that a loop of `n` rounds has
  a function of its intermediate values; from that follows what a recursive
  function is that TLA+ defines by CHOOSE. `Flattens` and `FlattenCat` say so of
  the library's `FlattenSeq`.
* *Decodings.* The `Lines` lemmas: dropping blank lines is a homomorphism,
  idempotent (the headend and the site proxy both do it), and depends on words
  only. `CommandsSame`, `PathSame`, `PathRoundTrip`: a payload without separators
  in its words survives the path of an exec and a gNMI path. `Decoding` puts the
  routes together: if the route can express the payload, the server decodes the
  words of the lines asked for, and the very lines if they are tidy.
* *The device.* `VerdictStep` and `LoopVerdict`: after `i` rounds the loop of
  `device.Exec` holds "unknown", the only match so far, or "ambiguous".
  `ExecMeaning`: an order lists every command once, so the outcome is `Meaning`,
  which knows no order.
* *The request.* In `IInv`, `Counted` gives for each of the two handlers the
  number of commands that it has run and relates its `todo` to that number
  (`Did`); `ran` has as many lines as the two together, each of them one
  that was to run, and with a single handler they are the first ones in order.
  `Staged` says which handlers exist at each stage, and that a second one only
  comes of a GET; `Honest` that an answer that is neither an error nor the
  headend's text is that of the handler of the last attempt, and that it is done.
  `InPlace` has the outputs: a handler has answered a first part of what it has
  decoded, each line at its own place, a blank one with nothing.
  Without `Did` and `Counted` neither property is inductive: nothing would relate
  what a handler has yet to do to what the device has done.

Dropping blank lines is written as a flattening because `SelectSeq` is built into
the prover without any fact about it. In a few operators of `Counters`, `NetconfSession` and `Transports`, a CASE with
overlapping guards has been replaced by IF and ELSE: TLA+ leaves open which of
two true guards of a CASE is taken, TLC takes the first, and a proof may assume
neither.

Only model-checked:

* every liveness property, and with it the fairness part of
  `ImplementsParallelMap` (`PMSpec`), since the prover handles neither fairness
  nor ENABLED;
* `BenchModes`: its four invariants and its action property. The plans are constants, sequences of up to
  thirty steps, and what a failed dial leaves of them is selected with
  `SelectSeq`; there is little to generalise, as only the selection of
  transports, one command or more, and the lag vary, and TLC has gone through
  all transports with one and two commands and a lag of one mode, and through
  subsets that cover them all with a lag of two.

The `TypeOK` of `BenchModes`, `Counters`, `Transports` and `Pty` documents their
variables and is not part of a run; those of `Counters` and `Pty` are proved, the
other two hold on the instances of the runs.

## 5. Not modelled

* latency injection (`internal/latency`): which calls sleep and for how long.
  Writers of one connection are serialised by its callers, so that its one
  ordering question does not arise;
* averages, deviations and percentiles (floating-point arithmetic), reports and
  their formatting, classification;
* TLS, resource sampling, flag parsing, IP header parsing; the commands
  `server`, `smoketest` and `report`, which are straight-line code;
* accept loops and `Close` of the servers other than the proxy: `bench` never
  closes them;
* NETCONF requests that no client of the repository sends;
* the characters `?`, `%` and `#` in a word: neither the headend (headend.go:123)
  nor the benchmark escapes the URL it puts a command into, so that the path would
  end or be decoded there. `Words` is a set of words without them, as are the
  commands of the device.
