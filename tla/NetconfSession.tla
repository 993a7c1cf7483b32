--------------------------- MODULE NetconfSession ---------------------------
(***************************************************************************)
(* One NETCONF session of the reuse-session, batch-rpc and edit-commit     *)
(* benchmark modes: the iterations of internal/bench NETCONF that share    *)
(* it, and the session loop of internal/netconfserver.  The two directions *)
(* of the SSH channel are streams of tokens: "lf" and "hash" stand for the *)
(* bytes '\n' and '#', "num" for the digits of a chunk length, "id" and    *)
(* "op" for the XML of a message.  A reader takes one token at a time, as  *)
(* readChunked reads byte by byte; a writer appends a whole frame, as      *)
(* writeChunked makes a single Write.                                      *)
(***************************************************************************)
EXTENDS Naturals, FiniteSets, SequencesExt

CONSTANTS
    Iterations,    \* iterations of the mode
    Concurrency,   \* iterations RunParallel lets run at once
    Commands,      \* commands per iteration
    Modes          \* the modes to start from

ASSUME SizesAssumption ==
    Iterations \in Nat \ {0} /\ Concurrency \in Nat \ {0} /\ Commands \in Nat \ {0}
ASSUME ModesAssumption == Modes \subseteq {"reuse-session", "batch-rpc", "edit-commit"}

Workers == 1..Iterations

-----------------------------------------------------------------------------
(* Framing *)

LF == <<"lf", 0>>
HASH == <<"hash", 0>>

\* Mutant: the length does not count the first token.
writeChunkedShort(body) ==
    <<LF, HASH, <<"num", Len(body) - 1>>, LF>> \o body \o <<LF, HASH, HASH, LF>>

\* "\n#%d\n%s\n##\n"
writeChunked(body) ==
    <<LF, HASH, <<"num", Len(body)>>, LF>> \o body \o <<LF, HASH, HASH, LF>>

\* The state of a readChunked call: what it expects next, the length line so
\* far, the tokens the chunk still lacks and the message so far.
NewReader == [at |-> "lf", num |-> <<>>, left |-> 0, msg |-> <<>>]

\* readChunked consumes one token.
feed(rd, tok) ==
    CASE rd.at = "lf"   -> [rd EXCEPT !.at = IF tok = LF THEN "hash" ELSE "err"]
      [] rd.at = "hash" -> [rd EXCEPT !.at = IF tok = HASH THEN "num" ELSE "err", !.num = <<>>]
      [] rd.at = "num"  ->
            IF tok # LF THEN [rd EXCEPT !.num = Append(@, tok)]
            ELSE IF rd.num = <<HASH>> THEN [rd EXCEPT !.at = "end"]
            ELSE IF Len(rd.num) = 1 /\ rd.num[1][1] = "num" /\ rd.num[1][2] >= 1
                 THEN [rd EXCEPT !.at = "body", !.left = rd.num[1][2]]
            ELSE [rd EXCEPT !.at = "err"]
      [] rd.at = "body" -> [rd EXCEPT !.msg = Append(@, tok), !.left = @ - 1,
                                      !.at = IF rd.left = 1 THEN "lf" ELSE "body"]

\* The output of a command may look like framing: here it is "\n##\n".
\* xmlEscape writes every '\n' as "&#xA;", token "esc".
Output == <<LF, HASH, HASH, LF>>
xmlEscape(s) == [k \in DOMAIN s |-> IF s[k] = LF THEN <<"esc", 0>> ELSE s[k]]

\* GetRPC, EditConfigRPC, CommitRPC and CloseSessionRPC.  The CLI lines of an
\* <edit-config> are separated by bare newlines.
rpc(id, op) == <<<<"id", id>>, <<"op", op>>>> \o (IF op = "edit-config" THEN <<LF>> ELSE <<>>)
\* handleGet and rpcOK: the message-id is echoed.
reply(id, op) == <<<<"id", id>>, <<"op", op>>>> \o (IF op = "get" THEN xmlEscape(Output) ELSE <<>>)
\* The message-id of a message, 0 if what was read is not a message.
MessageID(msg) == IF msg # <<>> /\ msg[1][1] = "id" THEN msg[1][2] ELSE 0

Hello == <<<<"hello", 0>>, <<"eom", 0>>>>

-----------------------------------------------------------------------------

VARIABLES
    mode,         \* the benchmark mode
    link,         \* the SSH channel: "up", "broken" or "closed"
    c2s, s2c,     \* tokens under way to the server and to the client
    client,       \* the benchmark function: dialling, running the iterations, ended
    server,       \* runSession
    srd,          \* the server's readChunked
    it,           \* it[w]: progress of iteration w
    rd,           \* rd[w]: its readChunked
    tmp,          \* tmp[w]: its register for msgCounter++
    sent,         \* sent[w]: message ids of the RPCs it has written
    got,          \* got[w]: message ids of the replies it has read
    msgCounter    \* the message counter the iterations share

vars == <<mode, link, c2s, s2c, client, server, srd, it, rd, tmp, sent, got, msgCounter>>
iteration == <<it, rd, tmp, sent, got, msgCounter>>

\* RPCs of an iteration and the operation of the k-th.
Count == IF mode = "edit-commit" THEN 2 ELSE Commands
Op(k) ==
    IF mode # "edit-commit" THEN "get"
    ELSE IF k = 1 THEN "edit-config"
    ELSE "commit"

Running == {w \in Workers : it[w] \in {"load", "store", "send", "read"}}
Over == {w \in Workers : it[w] \in {"ok", "err"}}

TypeOK ==
    /\ mode \in Modes
    /\ link \in {"up", "broken", "closed"}
    /\ client \in {"dial", "run", "done", "failed"}
    /\ server \in {"hello", "readHello", "read", "dispatch", "done"}
    /\ it \in [Workers -> {"idle", "load", "store", "send", "read", "ok", "err"}]
    /\ \A w \in Workers : Len(sent[w]) <= Count /\ Len(got[w]) <= Len(sent[w])
    /\ msgCounter \in 1..(1 + Iterations * Count)

Init ==
    /\ mode \in Modes
    /\ link = "up"
    /\ c2s = <<>>
    /\ s2c = <<>>
    /\ client = "dial"
    /\ server = "hello"
    /\ srd = NewReader
    /\ it = [w \in Workers |-> "idle"]
    /\ rd = [w \in Workers |-> NewReader]
    /\ tmp = [w \in Workers |-> 0]
    /\ sent = [w \in Workers |-> <<>>]
    /\ got = [w \in Workers |-> <<>>]
    /\ msgCounter = 1

-----------------------------------------------------------------------------
(* The client *)

\* netconfHello: read the server's hello up to the EOM mark, send ours.
ClientHello ==
    /\ client = "dial"
    /\ \/ /\ s2c # <<>>
          /\ s2c' = Tail(s2c)
          /\ IF Head(s2c)[1] = "eom"
             THEN IF link = "up"
                  THEN client' = "run" /\ c2s' = c2s \o Hello
                  ELSE client' = "failed" /\ UNCHANGED c2s
             ELSE UNCHANGED <<client, c2s>>
       \/ /\ s2c = <<>> /\ link # "up"
          /\ client' = "failed"
          /\ UNCHANGED <<c2s, s2c>>
    /\ UNCHANGED <<mode, link, server, srd>> /\ UNCHANGED iteration

\* RunParallel starts the iterations in order, Concurrency at a time.
Start(w) ==
    /\ client = "run"
    /\ it[w] = "idle"
    /\ \A v \in Workers : v < w => it[v] # "idle"
    /\ Cardinality(Running) < Concurrency
    /\ it' = [it EXCEPT ![w] = "load"]
    /\ UNCHANGED <<mode, link, c2s, s2c, client, server, srd, rd, tmp, sent, got, msgCounter>>

\* msgCounter++ without a lock: the value is loaded ...
Load(w) ==
    /\ it[w] = "load"
    /\ tmp' = [tmp EXCEPT ![w] = msgCounter]
    /\ it' = [it EXCEPT ![w] = "store"]
    /\ UNCHANGED <<mode, link, c2s, s2c, client, server, srd, rd, sent, got, msgCounter>>

\* ... and stored.
Store(w) ==
    /\ it[w] = "store"
    /\ msgCounter' = tmp[w] + 1
    /\ it' = [it EXCEPT ![w] = "send"]
    /\ UNCHANGED <<mode, link, c2s, s2c, client, server, srd, rd, tmp, sent, got>>

\* Mutant: the batch writes one RPC too many.
AfterSendOffByOne(w) ==
    IF mode = "batch-rpc" /\ Len(sent[w]) + 1 <= Count THEN "load" ELSE "read"

\* batch-rpc writes all its RPCs before it reads the first reply.
AfterSend(w) ==
    IF mode = "batch-rpc" /\ Len(sent[w]) + 1 < Count THEN "load" ELSE "read"

\* WriteChunked of the next RPC.
Send(w) ==
    /\ it[w] = "send"
    /\ IF link = "up"
       THEN /\ c2s' = c2s \o writeChunked(rpc(msgCounter, Op(Len(sent[w]) + 1)))
            /\ sent' = [sent EXCEPT ![w] = Append(@, msgCounter)]
            /\ it' = [it EXCEPT ![w] = AfterSend(w)]
            /\ rd' = [rd EXCEPT ![w] = NewReader]
       ELSE it' = [it EXCEPT ![w] = "err"] /\ UNCHANGED <<c2s, sent, rd>>
    /\ UNCHANGED <<mode, link, s2c, client, server, srd, tmp, got, msgCounter>>

\* Mutant: the batch leaves the last reply unread.
AfterReplyEarly(w) ==
    IF Len(got[w]) + 2 >= Count THEN "ok"
    ELSE IF mode = "batch-rpc" THEN "read"
    ELSE "load"

\* What follows once one more reply is read.
AfterReply(w) ==
    IF Len(got[w]) + 1 = Count THEN "ok"
    ELSE IF mode = "batch-rpc" THEN "read"
    ELSE "load"

\* ReadChunked takes the next token of the stream, whoever it is meant for.
Read(w) ==
    /\ it[w] = "read"
    /\ s2c # <<>>
    /\ s2c' = Tail(s2c)
    /\ LET r == feed(rd[w], Head(s2c))
       IN  CASE r.at = "end" ->
                   /\ got' = [got EXCEPT ![w] = Append(@, MessageID(r.msg))]
                   /\ it' = [it EXCEPT ![w] = AfterReply(w)]
                   /\ rd' = [rd EXCEPT ![w] = NewReader]
             [] r.at = "err" ->
                   /\ it' = [it EXCEPT ![w] = "err"]
                   /\ UNCHANGED <<got, rd>>
             [] OTHER ->
                   /\ rd' = [rd EXCEPT ![w] = r]
                   /\ UNCHANGED <<got, it>>
    /\ UNCHANGED <<mode, link, c2s, client, server, srd, tmp, sent, msgCounter>>

\* The read fails once the channel is gone and drained.  It has no timeout.
ReadError(w) ==
    /\ it[w] = "read"
    /\ s2c = <<>>
    /\ link # "up"
    /\ it' = [it EXCEPT ![w] = "err"]
    /\ UNCHANGED <<mode, link, c2s, s2c, client, server, srd, rd, tmp, sent, got, msgCounter>>

\* After RunParallel the cleanup writes close-session, does not wait for the
\* reply and closes the channel; the frame may still get through.
Cleanup ==
    /\ client = "run"
    /\ Over = Workers
    /\ client' = "done"
    /\ link' = "closed"
    /\ \/ c2s' = c2s \o writeChunked(rpc(999, "close-session")) /\ link = "up"
       \/ UNCHANGED c2s
    /\ UNCHANGED <<mode, s2c, server, srd>> /\ UNCHANGED iteration

-----------------------------------------------------------------------------
(* The server: runSession.  When it returns, handleSession closes the channel. *)

serverReturns ==
    /\ server' = "done"
    /\ link' = IF link = "up" THEN "closed" ELSE link

ServerHello ==
    /\ server = "hello"
    /\ IF link = "up"
       THEN server' = "readHello" /\ s2c' = s2c \o Hello /\ UNCHANGED link
       ELSE serverReturns /\ UNCHANGED s2c
    /\ UNCHANGED <<mode, c2s, client, srd>> /\ UNCHANGED iteration

\* readEOM
ReadHello ==
    /\ server = "readHello"
    /\ \/ /\ c2s # <<>>
          /\ c2s' = Tail(c2s)
          /\ server' = IF Head(c2s)[1] = "eom" THEN "read" ELSE server
          /\ UNCHANGED link
       \/ /\ c2s = <<>> /\ link # "up"
          /\ serverReturns
          /\ UNCHANGED c2s
    /\ UNCHANGED <<mode, s2c, client, srd>> /\ UNCHANGED iteration

ServerRead ==
    /\ server = "read"
    /\ \/ /\ c2s # <<>>
          /\ c2s' = Tail(c2s)
          /\ srd' = feed(srd, Head(c2s))
          /\ CASE srd'.at = "end" -> server' = "dispatch" /\ UNCHANGED link
               [] srd'.at = "err" -> serverReturns
               [] OTHER           -> UNCHANGED <<server, link>>
       \/ /\ c2s = <<>> /\ link # "up"
          /\ serverReturns
          /\ UNCHANGED <<c2s, srd>>
    /\ UNCHANGED <<mode, s2c, client>> /\ UNCHANGED iteration

\* Mutant: commit is executed and not acknowledged.
DispatchSilentCommit ==
    /\ server = "dispatch"
    /\ LET id == MessageID(srd.msg)
           op == srd.msg[2][2]
       IN  /\ s2c' = IF link = "up" /\ op # "commit" THEN s2c \o writeChunked(reply(id, op)) ELSE s2c
           /\ IF link # "up" \/ op = "close-session"
              THEN serverReturns
              ELSE server' = "read" /\ UNCHANGED link
    /\ srd' = NewReader
    /\ UNCHANGED <<mode, c2s, client>> /\ UNCHANGED iteration

\* dispatch and the reply: the message id is echoed; the session ends after a
\* close-session or a failed write.
Dispatch ==
    /\ server = "dispatch"
    /\ LET id == MessageID(srd.msg)
           op == srd.msg[2][2]
       IN  /\ s2c' = IF link = "up" THEN s2c \o writeChunked(reply(id, op)) ELSE s2c
           /\ IF link # "up" \/ op = "close-session"
              THEN serverReturns
              ELSE server' = "read" /\ UNCHANGED link
    /\ srd' = NewReader
    /\ UNCHANGED <<mode, c2s, client>> /\ UNCHANGED iteration

-----------------------------------------------------------------------------

\* The connection breaks; what is under way may be cut anywhere.
Break ==
    /\ link = "up"
    /\ link' = "broken"
    /\ \E m \in 0..Len(c2s), n \in 0..Len(s2c) :
          c2s' = SubSeq(c2s, 1, m) /\ s2c' = SubSeq(s2c, 1, n)
    /\ UNCHANGED <<mode, client, server, srd>> /\ UNCHANGED iteration

Iterate(w) == Start(w) \/ Load(w) \/ Store(w) \/ Send(w) \/ Read(w) \/ ReadError(w)
Client == ClientHello \/ Cleanup
Server == ServerHello \/ ReadHello \/ ServerRead \/ Dispatch

Finished == client \in {"done", "failed"} /\ server = "done" /\ UNCHANGED vars

Next == Client \/ Server \/ (\E w \in Workers : Iterate(w)) \/ Break \/ Finished

Spec == Init /\ [][Next]_vars

\* Goroutines of both sides are scheduled and the SSH channel delivers.
Fairness == WF_vars(Client) /\ WF_vars(Server) /\ \A w \in Workers : WF_vars(Iterate(w))

FairSpec == Spec /\ Fairness

-----------------------------------------------------------------------------
(* Properties *)

\* "shared NETCONF session, sequential <get> RPCs": an iteration reads the
\* replies to its own RPCs, in order, although the client never looks at the
\* message-id of a reply.
OwnReplies ==
    \A w \in Workers :
        /\ IsPrefix(got[w], sent[w])
        /\ it[w] = "ok" => Len(got[w]) = Count

\* A successful iteration leaves the session as it found it: nothing is under
\* way in either direction when the next one starts.
SessionAligned ==
    client = "run" /\ server = "read" /\ (\A w \in Workers : it[w] \in {"idle", "ok"})
        => c2s = <<>> /\ s2c = <<>> /\ srd = NewReader

\* An iteration is counted as failed only if the network broke the channel:
\* framing survives any command output, and the server never gives up a session
\* of its own accord.
FailsOnlyIfBroken ==
    client = "run" /\ link # "broken" => \A w \in Workers : it[w] # "err"

\* The mode ends, and so does the server's session goroutine, wherever the
\* connection breaks.
SessionEnds == <>(client \in {"done", "failed"} /\ server = "done")
=============================================================================
