----------------------------- MODULE Transports -----------------------------
(***************************************************************************)
(* One request from a client to the simulated device and back, over any of *)
(* the transports: how the commands are encoded into the request, decoded  *)
(* by the server, run one after the other by device.Exec, and answered --  *)
(* directly, through the site proxy, or through the headend and the site   *)
(* proxy.  Connections break, backends fail, the headend's HTTP client     *)
(* gives up after its timeout, and net/http repeats a GET whose connection *)
(* broke; a handler that nobody waits for any more runs on.                *)
(***************************************************************************)
EXTENDS Naturals, FiniteSets, SequencesExt

CONSTANTS
    Words,        \* the words of command lines; without ?, % and #, which no client escapes
    Table,        \* the device's commands: sequences of words (its transcripts)
    HasPrefix,    \* pairs <<w, p>> of words: strings.HasPrefix(w, p)
    SlashParts,   \* SlashParts[w]: the words between the slashes of w
    PlusParts,    \* PlusParts[w]: the words between the plus signs of w
    Payloads      \* what a client may ask for: sequences of lines

\* A line of a payload; it is tidy if its words are one space apart.
Line == [words : Seq(Words), tidy : BOOLEAN]

ASSUME TableAssumption == IsFiniteSet(Table) /\ Table \subseteq Seq(Words) \ {<<>>}
ASSUME PrefixAssumption == HasPrefix \subseteq Words \X Words /\ \A w \in Words : <<w, w>> \in HasPrefix
ASSUME PartsAssumption == SlashParts \in [Words -> Seq(Words)] /\ PlusParts \in [Words -> Seq(Words)]
ASSUME PayloadsAssumption == Payloads \subseteq Seq(Line)

\* The routes, by what the client sends and whom it sends it to.
Direct == {"ssh", "get", "post", "gnmi-get", "gnmi-set", "gnmi-sub", "restconf", "patch", "edits"}
Proxied == {"proxy-get", "proxy-post", "tunnel"}
Routes == Direct \cup Proxied

-----------------------------------------------------------------------------
(* device.Exec *)

prefixMatch(input, full) ==
    /\ Len(input) = Len(full)
    /\ \A i \in DOMAIN full : <<full[i], input[i]>> \in HasPrefix

Output(cmd) == [text |-> "output", of |-> cmd, tidy |-> TRUE]
Error(text, l) == [text |-> text, of |-> l.words, tidy |-> l.tidy]
Nothing == [text |-> "", of |-> <<>>, tidy |-> TRUE]

\* Mutant: the last command that matches wins.
LoopLast(order, l) ==
    LET visit(match, cmd) == IF prefixMatch(l.words, cmd) THEN Output(cmd) ELSE match
    IN  FoldLeft(visit, Error("unknown", l), order)

\* The loop over the map of commands, whose order Go leaves open.
Loop(order, l) ==
    LET visit(match, cmd) ==
            IF match.text = "ambiguous" \/ ~prefixMatch(l.words, cmd) THEN match
            ELSE IF match.text = "output" THEN Error("ambiguous", l)
            ELSE Output(cmd)
        matchAfter[i \in 0..Len(order)] ==
            IF i = 0 THEN Error("unknown", l) ELSE visit(matchAfter[i - 1], order[i])
    IN  matchAfter[Len(order)]

NotBlank(l) == l.words # <<>>

Exec(order, l) ==
    IF ~NotBlank(l) THEN Nothing
    ELSE IF l.tidy /\ l.words \in Table THEN Output(l.words)
    ELSE Loop(order, l)

-----------------------------------------------------------------------------
(* Encoding by the client, decoding by the server *)

Split(parts, ws) == FlattenSeq([i \in DOMAIN ws |-> parts[ws[i]]])
Tidy(ws) == [words |-> ws, tidy |-> TRUE]

\* SSH exec, configHandler and the fallback of handleJSONPatch: one command a line,
\* blank lines are dropped.
Lines(ls) == FlattenSeq([i \in DOMAIN ls |-> IF NotBlank(ls[i]) THEN <<ls[i]>> ELSE <<>>])

\* The commands a slash makes of a line: every part of a word but the first
\* begins a command.
Commands(l) ==
    LET AddWord(cmds, w) ==
            LET p == SlashParts[w]
                last == Append(cmds[Len(cmds)], p[1])
            IN  [cmds EXCEPT ![Len(cmds)] = last] \o [k \in 1..(Len(p) - 1) |-> <<p[k + 1]>>]
        cmdsAfter[i \in 0..Len(l.words)] ==
            IF i = 0 THEN <<<<>>>> ELSE AddWord(cmdsAfter[i - 1], l.words[i])
    IN  cmdsAfter[Len(l.words)]

\* execHandler: spaces travel as "+", and "/" separates commands.
PathCommands(payload) ==
    LET decode(l) ==
            LET cs == Commands(l)
            IN  [k \in DOMAIN cs |-> [words |-> Split(PlusParts, cs[k]), tidy |-> l.tidy]]
    IN  Lines(FlattenSeq([i \in DOMAIN payload |-> decode(payload[i])]))

\* gNMI: CommandToPath makes an element of each word, after the element "cli",
\* and pathToCommand joins them with single spaces.
CommandToPath(l) == <<"cli">> \o l.words
pathToCommand(path) == Tidy(IF path[1] = "cli" THEN Tail(path) ELSE path)
GnmiCommands(payload) == [i \in DOMAIN payload |-> pathToCommand(CommandToPath(payload[i]))]

\* RESTCONF: words joined by slashes, and every slash a space again; the empty
\* path stands for "show version".
UrlCommand(l) == Tidy(IF NotBlank(l) THEN Split(SlashParts, l.words) ELSE <<"show", "version">>)
UrlCommands(payload) == [i \in DOMAIN payload |-> UrlCommand(payload[i])]

\* The targets of the edits of a YANG patch, in JSON or XML, in order.
EditCommands(payload) == [i \in DOMAIN payload |-> Tidy(Split(SlashParts, payload[i].words))]

\* headend.forward: a single line is a GET, more are a POST.
TunnelGet(payload) == Len(Lines(payload)) <= 1

UsesGet(via, payload) ==
    \/ via \in {"get", "proxy-get", "restconf"}
    \/ via = "tunnel" /\ TunnelGet(payload)

Decoded(via, payload) ==
    CASE via \in {"ssh", "post", "patch", "proxy-post"}    -> Lines(payload)
      [] via \in {"get", "proxy-get"}                      -> PathCommands(payload)
      [] via \in {"gnmi-get", "gnmi-set", "gnmi-sub"}      -> GnmiCommands(payload)
      [] via = "restconf"                                  -> UrlCommands(payload)
      [] via = "edits"                                     -> EditCommands(payload)
      [] via = "tunnel" /\ TunnelGet(payload)              -> PathCommands(Lines(payload))
      [] via = "tunnel" /\ ~TunnelGet(payload)             -> Lines(payload)

-----------------------------------------------------------------------------

VARIABLES
    via,        \* the route
    payload,    \* what the client asks for
    auth,       \* the client has the right password
    stage,      \* where the request is: "client", "headend", "waiting", "answered"
    attempt,    \* 1, or 2 after a GET has been repeated
    handler,    \* handler[k]: the handler of attempt k
    ran,        \* the lines that device.Exec has run, in order
    outcome,    \* what the client gets: "none", "ok", "error"
    answer      \* the outputs in the answer, or the headend's error text

vars == <<via, payload, auth, stage, attempt, handler, ran, outcome, answer>>
request == <<via, payload, auth>>

\* What the headend writes if forward has failed.
Masked == <<Error("headend", Tidy(<<>>))>>

NoHandler == [status |-> "none", todo |-> <<>>, out |-> <<>>]

\* A benchmark client sends one command in a RESTCONF GET.
Init ==
    /\ via \in Routes
    /\ payload \in Payloads
    /\ via = "restconf" => Len(payload) = 1
    /\ auth \in BOOLEAN
    /\ stage = "client"
    /\ attempt = 1
    /\ handler = [k \in 1..2 |-> NoHandler]
    /\ ran = <<>>
    /\ outcome = "none"
    /\ answer = <<>>

Answered(o, a) == stage' = "answered" /\ outcome' = o /\ answer' = a

\* The password is checked by the SSH handshake or by authMiddleware; the gNMI
\* server does not ask for one.
Accepted == auth \/ via \in {"gnmi-get", "gnmi-set", "gnmi-sub"}

Refuse ==
    /\ stage = "client"
    /\ ~Accepted
    /\ Answered("error", <<>>)
    /\ UNCHANGED <<request, attempt, handler, ran>>

\* The first server gets the request.  An SSH exec without a payload is answered
\* at once by the headend, and runs nothing on the SSH server.
SendToHeadend ==
    /\ stage = "client"
    /\ Accepted
    /\ via = "tunnel"
    /\ IF payload = <<>> THEN Answered("ok", <<>>)
                         ELSE stage' = "headend" /\ UNCHANGED <<outcome, answer>>
    /\ UNCHANGED <<request, attempt, handler, ran>>

\* Nothing comes after /admin/exec/, once net/http's mux has merged the slashes.
\* The headend trims what it has got; the spaces of another client travel as "+".
EmptyPath ==
    \/ via = "tunnel" /\ Lines(payload) = <<>>
    \/ via \in {"get", "proxy-get"} /\ ToSet(payload) \subseteq {Tidy(<<>>)}

\* A handler starts.  An empty exec path is a bad request; one of separators
\* alone is a list of no commands.
StartHandler(k) ==
    handler' = [handler EXCEPT ![k] =
        IF EmptyPath THEN [NoHandler EXCEPT !.status = "failed"]
                     ELSE [status |-> "run", todo |-> Decoded(via, payload), out |-> <<>>]]

\* The client's request to a server, or forward's to the site proxy.
Deliver ==
    /\ \/ stage = "client" /\ Accepted /\ via # "tunnel"
       \/ stage = "headend"
    /\ stage' = "waiting"
    /\ StartHandler(1)
    /\ UNCHANGED <<request, attempt, ran, outcome, answer>>

Orders == SetToSeqs(Table)

\* dev.Exec of the next command.  Blank input, which only gNMI and the edits of a
\* patch hand on, is no command; gNMI answers it with an empty value.
RunOne(k) ==
    /\ handler[k].status = "run"
    /\ handler[k].todo # <<>>
    /\ LET l == Head(handler[k].todo)
       IN  /\ \E order \in Orders :
                  handler' = [handler EXCEPT ![k].todo = Tail(@), ![k].out = Append(@, Exec(order, l))]
           /\ ran' = IF NotBlank(l) THEN Append(ran, l) ELSE ran
    /\ UNCHANGED <<request, stage, attempt, outcome, answer>>

Finish(k) ==
    /\ handler[k].status = "run"
    /\ handler[k].todo = <<>>
    /\ handler' = [handler EXCEPT ![k].status = "done"]
    /\ UNCHANGED <<request, stage, attempt, ran, outcome, answer>>

\* The proxy fails to dial the device (also for an empty list), or its session
\* fails, before the command has run or after: 502, and the outputs so far are
\* dropped.
BackendFails(k) ==
    LET todo == handler[k].todo
    IN  /\ via \in Proxied
        /\ handler[k].status = "run"
        /\ todo # <<>> \/ handler[k].out = <<>>
        /\ handler' = [handler EXCEPT ![k] = [NoHandler EXCEPT !.status = "failed"]]
        /\ ran' \in {ran} \cup {Append(ran, todo[i]) : i \in DOMAIN todo \cap {1}}
        /\ UNCHANGED <<request, stage, attempt, outcome, answer>>

\* What the client of the last leg makes of an error: the headend writes it as
\* text and sends exit-status 0.
LegFails == IF via = "tunnel" THEN Answered("ok", Masked) ELSE Answered("error", <<>>)

\* The answers to set and patch say only that it is done.
Silent == {"gnmi-set", "patch", "edits"}

Reply ==
    /\ stage = "waiting"
    /\ handler[attempt].status \in {"done", "failed"}
    /\ IF handler[attempt].status = "failed" THEN LegFails
       ELSE Answered("ok", IF via \in Silent THEN <<>> ELSE handler[attempt].out)
    /\ UNCHANGED <<request, attempt, handler, ran>>

\* The connection of the last leg breaks; the handler does not notice (Subscribe
\* may, at its next Send, and go no further).
LegBreaks ==
    /\ stage = "waiting"
    /\ LegFails
    /\ UNCHANGED <<request, attempt, handler, ran>>

\* Mutant: whatever broke is sent again.
RepeatableAny == attempt = 1 /\ via \notin {"ssh", "gnmi-get", "gnmi-set", "gnmi-sub"}

\* net/http repeats a request without a body if the connection had been used
\* before and breaks before the answer.
Repeatable == attempt = 1 /\ UsesGet(via, payload)

Repeat ==
    /\ stage = "waiting"
    /\ Repeatable
    /\ attempt' = 2
    /\ StartHandler(2)
    /\ UNCHANGED <<request, stage, ran, outcome, answer>>

\* Mutant: a client without a timeout.
TimeoutNever ==
    /\ FALSE
    /\ UNCHANGED vars

\* The timeout of 30 s of the http.Client, in the headend or in the benchmark.
Timeout ==
    /\ stage = "waiting"
    /\ via \notin {"ssh", "gnmi-get", "gnmi-set", "gnmi-sub"}
    /\ LegFails
    /\ UNCHANGED <<request, attempt, handler, ran>>

\* The SSH connection of a tunnel's client breaks.
ClientLoses ==
    /\ via = "tunnel"
    /\ stage \in {"headend", "waiting"}
    /\ Answered("error", <<>>)
    /\ UNCHANGED <<request, attempt, handler, ran>>

Handler(k) == RunOne(k) \/ Finish(k) \/ BackendFails(k)

Over == stage = "answered" /\ (\A k \in 1..2 : handler[k].status # "run") /\ UNCHANGED vars

Next ==
    \/ Refuse \/ SendToHeadend \/ Deliver \/ Reply \/ LegBreaks \/ Repeat \/ Timeout \/ ClientLoses
    \/ \E k \in 1..2 : Handler(k)
    \/ Over

Spec == Init /\ [][Next]_vars

\* The headend forwards what it has got and relays what it gets, and its timer
\* fires; the handlers of the site proxy may hang.
FairSpec == Spec /\ WF_vars(Deliver) /\ WF_vars(Reply) /\ WF_vars(Timeout)

-----------------------------------------------------------------------------
(* Properties *)

TypeOK ==
    /\ via \in Routes
    /\ payload \in Payloads
    /\ auth \in BOOLEAN
    /\ stage \in {"client", "headend", "waiting", "answered"}
    /\ attempt \in 1..2
    /\ \A k \in 1..2 : handler[k].status \in {"none", "run", "done", "failed"}
    /\ ran \in Seq(Line)
    /\ outcome \in {"none", "ok", "error"}

\* The lines a user means to run, and their words.
Asked == Lines(payload)
WordsOf(ls) == [i \in DOMAIN ls |-> ls[i].words]

\* A path cannot carry a slash, nor the path of an exec a plus sign, within a word.
Expressible ==
    \A i \in DOMAIN payload :
        /\ via = "restconf" => NotBlank(payload[i])
        /\ \A w \in ToSet(payload[i].words) :
               /\ UsesGet(via, payload) \/ via = "edits" => SlashParts[w] = <<w>>
               /\ UsesGet(via, payload) /\ via # "restconf" => PlusParts[w] = <<w>>

\* Whatever fails on the way, the device runs the lines that were asked for and
\* no other, in order and each at most once -- but for a GET that net/http has
\* repeated, which runs them again.  An answer other than an error, and other
\* than the text the headend writes in its place, means that all have run.
RunsWhatWasAsked ==
    Expressible =>
        LET did == WordsOf(ran)
            want == WordsOf(Asked)
        IN  /\ ~UsesGet(via, payload) => IsPrefix(did, want)
            /\ \A i \in DOMAIN did : did[i] \in ToSet(want)
            /\ outcome = "ok" /\ answer # Masked /\ attempt = 1 => did = want
            /\ outcome = "ok" /\ answer # Masked => Len(want) <= Len(did) /\ Len(did) <= 2 * Len(want)

\* The answer of the device, defined without an order of its commands.
Meaning(l) ==
    LET matches == {cmd \in Table : prefixMatch(l.words, cmd)}
    IN  CASE ~NotBlank(l) -> Nothing
          [] NotBlank(l) /\ l.tidy /\ l.words \in Table -> Output(l.words)
          [] OTHER -> IF matches = {} THEN Error("unknown", l)
                      ELSE IF Cardinality(matches) > 1 THEN Error("ambiguous", l)
                      ELSE Output(CHOOSE cmd \in matches : TRUE)

\* What is answered: by gNMI every path, by the others every line that is not blank.
Heard == IF via \in {"gnmi-get", "gnmi-sub"} THEN payload ELSE Asked

\* Every transport gives the same answer: to each tidy line what the device means
\* by it, whatever the order in which it goes through its commands.
SameAnswer ==
    /\ Expressible
    /\ outcome = "ok" /\ answer # Masked
    /\ via \notin Silent
    /\ \A i \in DOMAIN payload : payload[i].tidy
    => answer = [i \in DOMAIN Heard |-> Meaning(Heard[i])]

\* A request that has reached the headend is answered even if the site proxy
\* or the device never answers.
TunnelAnswers == (via = "tunnel" /\ stage = "headend") ~> (stage = "answered")
=============================================================================
