-------------------------------- MODULE Pty --------------------------------
(***************************************************************************)
(* An interactive shell session: the client of internal/bench/pty.go,      *)
(* which scrapes a terminal (wait for the prompt, send a line, wait for    *)
(* its echo, wait for the prompt), and the server's interactiveSession.    *)
(* The channel is a byte stream in both directions; here it is a sequence  *)
(* of pieces of text, and the client sees texts only, not who wrote them.  *)
(* A Read runs in a goroutine of its own, against a deadline.              *)
(***************************************************************************)
EXTENDS Naturals, SequencesExt

CONSTANTS
    Commands,     \* commands after the session preparation
    Outputs       \* what "show version" may print: sequences of texts

ASSUME CommandsAssumption == Commands \in Nat

\* The preparation, then the commands.
Lines == <<"length", "width">> \o [i \in 1..Commands |-> "show"]

Texts == {"prompt", "length", "width", "show", "exit", "other"}

ASSUME OutputsAssumption == Outputs \subseteq Seq(Texts)

Send(text) == [op |-> "send", text |-> text]
Wait(text) == [op |-> "wait", text |-> text]

\* The body of ptyExecCmds' loop: a line, its echo, the prompt.
LineSteps(cmd) == <<Send(cmd), Wait(cmd), Wait("prompt")>>

\* ptyExecCmds after the shell has been granted, step by step: the first prompt,
\* three steps for each line, the exit.
Plan ==
    [p \in 1..(3 * Len(Lines) + 2) |->
        IF p = 1 THEN Wait("prompt")
        ELSE IF p = 3 * Len(Lines) + 2 THEN Send("exit")
        ELSE LineSteps(Lines[(p + 1) \div 3])[((p + 1) % 3) + 1]]

VARIABLES
    output,       \* what this device prints for "show version"
    pos,          \* the client's step: 0 is the set-up, an index of Plan, Len(Plan) + 1
    outcome,      \* what ptyExecCmds has returned
    buf,          \* ptyReader.buf
    reader,       \* the goroutine of a Read
    chunk,        \* what it has read
    deadline,     \* deadline.C of this readUntil has fired
    session,      \* the client's session: "open" until sess.Close
    conn,         \* the SSH connection
    toServer,     \* lines on their way
    toClient,     \* text on its way
    server,       \* interactiveSession
    line,         \* the line it works on
    executed      \* commands that the device has run

clientVars == <<pos, outcome, buf, reader, chunk, deadline, session>>
serverVars == <<server, line, executed>>
vars == <<output, clientVars, conn, toServer, toClient, serverVars>>

TypeOK ==
    /\ output \in Outputs
    /\ pos \in 0..(Len(Plan) + 1)
    /\ outcome \in {"none", "ok", "error"}
    /\ buf \in Seq(Texts)
    /\ reader \in {"none", "reading", "read", "eof"}
    /\ chunk \in Seq(Texts)
    /\ deadline \in BOOLEAN
    /\ session \in {"open", "closed"}
    /\ conn \in {"up", "down"}
    /\ toServer \in Seq(Texts)
    /\ toClient \in Seq(Texts)
    /\ server \in {"idle", "start", "read", "exec", "prompt", "returned"}
    /\ line \in Texts
    /\ executed \in 0..Len(Lines)

Init ==
    /\ output \in Outputs
    /\ pos = 0
    /\ outcome = "none"
    /\ buf = <<>>
    /\ reader = "none"
    /\ chunk = <<>>
    /\ deadline = FALSE
    /\ session = "open"
    /\ conn = "up"
    /\ toServer = <<>>
    /\ toClient = <<>>
    /\ server = "idle"
    /\ line = "other"
    /\ executed = 0

Running == outcome = "none" /\ pos \in DOMAIN Plan
Waiting == Running /\ Plan[pos].op = "wait"
Target == Plan[pos].text

-----------------------------------------------------------------------------
(* ptyExecCmds *)

\* StdinPipe, StdoutPipe, RequestPty and Shell, whose replies have no timeout.
Shell ==
    /\ pos = 0
    /\ outcome = "none"
    /\ conn = "up"
    /\ pos' = 1
    /\ server' = "start"
    /\ UNCHANGED <<output, outcome, buf, reader, chunk, deadline, session, conn, toServer, toClient, line, executed>>

ShellFails ==
    /\ pos = 0
    /\ outcome = "none"
    /\ outcome' = "error"
    /\ UNCHANGED <<output, pos, buf, reader, chunk, deadline, session, conn, toServer, toClient, serverVars>>

\* fmt.Fprintf(w, ...), whose error is ignored; after the exit return nil
SendLine ==
    /\ Running
    /\ Plan[pos].op = "send"
    /\ toServer' = IF conn = "up" THEN Append(toServer, Plan[pos].text) ELSE toServer
    /\ pos' = pos + 1
    /\ outcome' = IF pos = Len(Plan) THEN "ok" ELSE "none"
    /\ UNCHANGED <<output, buf, reader, chunk, deadline, session, conn, toClient, serverVars>>

Found == Target \in ToSet(buf)
FirstMatch == Min({i \in DOMAIN buf : buf[i] = Target})

\* Mutant: the buffer keeps what has been read.
MatchKeeps ==
    /\ Waiting
    /\ reader = "none"
    /\ Found
    /\ pos' = pos + 1
    /\ deadline' = FALSE
    /\ UNCHANGED <<output, outcome, buf, reader, chunk, session, conn, toServer, toClient, serverVars>>

\* readUntil: p.buf = p.buf[idx+len(target):]; return nil
Match ==
    /\ Waiting
    /\ reader = "none"
    /\ Found
    /\ buf' = SubSeq(buf, FirstMatch + 1, Len(buf))
    /\ pos' = pos + 1
    /\ deadline' = FALSE
    /\ UNCHANGED <<output, outcome, reader, chunk, session, conn, toServer, toClient, serverVars>>

\* readUntil starts a goroutine to read.
StartRead ==
    /\ Waiting
    /\ reader = "none"
    /\ ~Found
    /\ reader' = "reading"
    /\ UNCHANGED <<output, pos, outcome, buf, chunk, deadline, session, conn, toServer, toClient, serverVars>>

\* case res := <-ch
Receive ==
    /\ Waiting
    /\ reader = "read"
    /\ buf' = buf \o chunk
    /\ chunk' = <<>>
    /\ reader' = "none"
    /\ UNCHANGED <<output, pos, outcome, deadline, session, conn, toServer, toClient, serverVars>>

ReceiveError ==
    /\ Waiting
    /\ reader = "eof"
    /\ reader' = "none"
    /\ outcome' = "error"
    /\ UNCHANGED <<output, pos, buf, chunk, deadline, session, conn, toServer, toClient, serverVars>>

\* The timer of readUntil fires.
Expire ==
    /\ Waiting
    /\ ~deadline
    /\ deadline' = TRUE
    /\ UNCHANGED <<output, pos, outcome, buf, reader, chunk, session, conn, toServer, toClient, serverVars>>

\* Mutant: the deadline is looked at between two reads.
TimeoutAfterRead ==
    /\ Waiting
    /\ deadline
    /\ reader \in {"read", "eof"}
    /\ outcome' = "error"
    /\ UNCHANGED <<output, pos, buf, reader, chunk, deadline, session, conn, toServer, toClient, serverVars>>

\* case <-deadline.C, which select may also choose if there is data; the
\* goroutine stays behind.
Timeout ==
    /\ Waiting
    /\ deadline
    /\ reader # "none"
    /\ outcome' = "error"
    /\ UNCHANGED <<output, pos, buf, reader, chunk, deadline, session, conn, toServer, toClient, serverVars>>

-----------------------------------------------------------------------------
(* The goroutine in Read, and the session's end *)

\* Read returns some of the text that has arrived; ch has room for the result,
\* so that the goroutine ends whether or not anybody waits for it.
ReadReturns ==
    /\ reader = "reading"
    /\ toClient # <<>>
    /\ \E m \in 1..Len(toClient) :
           /\ chunk' = SubSeq(toClient, 1, m)
           /\ toClient' = SubSeq(toClient, m + 1, Len(toClient))
    /\ reader' = "read"
    /\ UNCHANGED <<output, pos, outcome, buf, deadline, session, conn, toServer, serverVars>>

\* The other end has closed the channel, or the connection is gone.
ReadEnds ==
    /\ reader = "reading"
    /\ \/ conn = "down"
       \/ server = "returned" /\ toClient = <<>>
    /\ reader' = "eof"
    /\ UNCHANGED <<output, pos, outcome, buf, chunk, deadline, session, conn, toServer, toClient, serverVars>>

\* defer sess.Close()
CloseSession ==
    /\ outcome # "none"
    /\ session = "open"
    /\ session' = "closed"
    /\ UNCHANGED <<output, pos, outcome, buf, reader, chunk, deadline, conn, toServer, toClient, serverVars>>

\* conn.Close(), at the end of the iteration (pty-fresh) or of the mode (pty-reuse)
CloseConn ==
    /\ session = "closed"
    /\ conn = "up"
    /\ conn' = "down"
    /\ UNCHANGED <<output, clientVars, toServer, toClient, serverVars>>

\* The network or the server ends the connection.
Break ==
    /\ conn = "up"
    /\ outcome = "none"
    /\ conn' = "down"
    /\ UNCHANGED <<output, clientVars, toServer, toClient, serverVars>>

-----------------------------------------------------------------------------
(* interactiveSession *)

ServerOnly == UNCHANGED <<output, clientVars, conn>>

\* io.WriteString(ch, prompt), at the start and after a command
WritePrompt ==
    /\ server \in {"start", "prompt"}
    /\ toClient' = Append(toClient, "prompt")
    /\ server' = "read"
    /\ UNCHANGED <<toServer, line, executed>>
    /\ ServerOnly

\* A line has arrived: its characters are echoed, then the end of the line.
EchoLine ==
    /\ server = "read"
    /\ toServer # <<>>
    /\ line' = Head(toServer)
    /\ toServer' = Tail(toServer)
    /\ toClient' = Append(toClient, line')
    /\ server' = IF line' = "exit" THEN "returned" ELSE "exec"
    /\ UNCHANGED executed
    /\ ServerOnly

\* s.dev.Exec(cmd); the error message for the preparation quotes the line.
ExecLine ==
    /\ server = "exec"
    /\ executed' = executed + 1
    /\ toClient' = toClient \o (IF line = "show" THEN output ELSE <<line>>)
    /\ server' = "prompt"
    /\ UNCHANGED <<toServer, line>>
    /\ ServerOnly

\* ch.Read fails: the client has closed the session or the connection is gone.
ServerEnds ==
    /\ server = "read"
    /\ conn = "down" \/ (session = "closed" /\ toServer = <<>>)
    /\ server' = "returned"
    /\ UNCHANGED <<toServer, toClient, line, executed>>
    /\ ServerOnly

-----------------------------------------------------------------------------

Client == Shell \/ ShellFails \/ SendLine \/ Match \/ StartRead \/ Receive \/ ReceiveError \/ Timeout

Reader == ReadReturns \/ ReadEnds

Server == WritePrompt \/ EchoLine \/ ExecLine \/ ServerEnds

\* Nothing is left to do, or the server hangs in its reply to the set-up.
Idle == outcome # "none" /\ conn = "down" /\ UNCHANGED vars

Next ==
    \/ Client \/ Reader \/ Server
    \/ Expire \/ CloseSession \/ CloseConn \/ Break \/ Idle

Spec == Init /\ [][Next]_vars

\* The client's goroutines run, its timer fires, and what has been opened is
\* closed in the end; the server need not do anything.
FairSpec ==
    /\ Spec
    /\ WF_vars(pos > 0 /\ Client)
    /\ WF_vars(Reader)
    /\ WF_vars(Expire)
    /\ WF_vars(CloseSession)
    /\ WF_vars(CloseConn)

-----------------------------------------------------------------------------
(* Properties *)

\* The device prints the prompt and, later, the command.
Misleading ==
    \E i, j \in DOMAIN output : i < j /\ output[i] = "prompt" /\ output[j] = "show"

\* Success means that the device has run every line: a prompt in the output of
\* a command puts the client ahead of the server, but the wait for the echo
\* brings the two together again -- unless the output has the prompt and after
\* it the next command, which passes for an echo.
SuccessMeansExecuted ==
    outcome = "ok" /\ ~Misleading => executed = Len(Lines)

\* Once the shell is granted, ptyExecCmds returns even if the server never says
\* another word, and the goroutine that a timeout left in Read ends as well.
ReturnsWithoutServer ==
    (pos > 0) ~> (outcome # "none" /\ reader # "reading")
=============================================================================
