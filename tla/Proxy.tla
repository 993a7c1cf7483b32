------------------------------- MODULE Proxy -------------------------------
(***************************************************************************)
(* The site proxy (internal/proxy): an HTTPS server that forwards each     *)
(* request's CLI commands to a backend device over SSH.  A pooled proxy    *)
(* keeps one SSH connection for all requests and serialises them with a    *)
(* mutex held for the whole request; a fresh proxy dials one connection    *)
(* per request.                                                            *)
(*                                                                         *)
(* Every request is one handler goroutine of net/http.  A handler dials at *)
(* most once, so an SSH connection is named after the request that dialled *)
(* it.  What the device prints is irrelevant here: the model counts the    *)
(* commands it ran (`ran') and the outputs the handler collected (`got').  *)
(***************************************************************************)
EXTENDS Naturals

CONSTANTS
    Requests,   \* the HTTP requests, one handler goroutine each
    Cmds,       \* Cmds[r]: how many commands request r carries, possibly none
    Nil,        \* Go's nil, for a connection or the owner of a free mutex
    Closer,     \* the goroutine that calls Close
    MaxFaults   \* bound on backend crashes and broken connections

ASSUME CmdsAssumption  == Cmds \in [Requests -> Nat]
ASSUME NamesAssumption == Nil \notin Requests /\ Closer \notin Requests /\ Nil # Closer
ASSUME FaultAssumption == MaxFaults \in Nat

VARIABLES
    pooled,   \* Server.pooled, fixed by New
    mu,       \* owner of Server.mu, or Nil
    pool,     \* Server.pool: the pooled SSH connection, or Nil
    srv,      \* Server.srv or h3srv: "nil" until ListenAndServe... assigns it
    closer,   \* progress of Close
    pc,       \* pc[r]: where handler r stands in RunCommands
    conn,     \* conn[r]: the handler's local `conn'
    got,      \* got[r]: outputs appended to `out' so far
    err,      \* err[r]: the error RunCommands returns
    ssh,      \* ssh[c]: state of the connection dialled by c
    ran,      \* ran[r]: commands of r the device has run
    client,   \* client[r]: what the HTTP client of r has seen
    up,       \* whether the backend device accepts connections
    faults    \* faults injected so far

vars == <<pooled, mu, pool, srv, closer, pc, conn, got, err, ssh, ran, client, up, faults>>

\* A handler inside RunCommands, past the mutex of a pooled proxy.
Inside == {"getSSH", "dial", "newSession", "output", "return"}

\* Connections the client side has dialled and not closed.
Live == {c \in Requests : ssh[c] \in {"open", "dead"}}

TypeOK ==
    /\ pooled \in BOOLEAN
    /\ mu \in Requests \cup {Nil, Closer}
    /\ pool \in Requests \cup {Nil}
    /\ srv \in {"nil", "serving", "closed"}
    /\ closer \in {"none", "lock", "pool", "done"}
    /\ pc \in [Requests -> {"idle", "lock", "respond", "end"} \cup Inside]
    /\ conn \in [Requests -> Requests \cup {Nil}]
    /\ got \in [Requests -> Nat]
    /\ ran \in [Requests -> Nat]
    /\ \A r \in Requests : got[r] <= Cmds[r] /\ ran[r] <= Cmds[r]
    /\ err \in [Requests -> {"nil", "dial", "session", "exec"}]
    /\ ssh \in [Requests -> {"none", "open", "dead", "closed"}]
    /\ client \in [Requests -> {"none", "200", "502", "gone"}]
    /\ up \in BOOLEAN
    /\ faults \in 0..MaxFaults

\* New builds the server in one of its two modes; nothing listens yet.
Init ==
    /\ pooled \in BOOLEAN
    /\ mu = Nil
    /\ pool = Nil
    /\ srv = "nil"
    /\ closer = "none"
    /\ pc = [r \in Requests |-> "idle"]
    /\ conn = [r \in Requests |-> Nil]
    /\ got = [r \in Requests |-> 0]
    /\ err = [r \in Requests |-> "nil"]
    /\ ssh = [r \in Requests |-> "none"]
    /\ ran = [r \in Requests |-> 0]
    /\ client = [r \in Requests |-> "none"]
    /\ up = TRUE
    /\ faults = 0

-----------------------------------------------------------------------------
(* The HTTP side *)

\* ListenAndServeTLS assigns s.srv and serves; it runs in its own goroutine.
\* ListenAndServeH3, of the instances that speak HTTP/3, does the same with
\* s.h3srv.
ListenAndServeTLS ==
    /\ srv = "nil"
    /\ srv' = "serving"
    /\ UNCHANGED <<pooled, mu, pool, closer, pc, conn, got, err, ssh, ran, client, up, faults>>

\* An authenticated request is parsed and handed to RunCommands in a goroutine
\* of its own; only a pooled proxy goes through the mutex.
Arrive(r) ==
    /\ srv = "serving"
    /\ pc[r] = "idle"
    /\ pc' = [pc EXCEPT ![r] = IF pooled THEN "lock" ELSE "getSSH"]
    /\ UNCHANGED <<pooled, mu, pool, srv, closer, conn, got, err, ssh, ran, client, up, faults>>

\* The handler writes its answer: 200 with the whole output, or 502 with the
\* error alone.  Nobody reads it if the client gave up after its 30 s timeout
\* or Close dropped the client's connection; the handler is never told.
Respond(r) ==
    /\ pc[r] = "respond"
    /\ pc' = [pc EXCEPT ![r] = "end"]
    /\ \/ /\ srv = "serving"
          /\ client' = [client EXCEPT ![r] = IF err[r] = "nil" THEN "200" ELSE "502"]
       \/ client' = [client EXCEPT ![r] = "gone"]
    /\ UNCHANGED <<pooled, mu, pool, srv, closer, conn, got, err, ssh, ran, up, faults>>

-----------------------------------------------------------------------------
(* RunCommands *)

\* Mutant: the handler does not wait for the mutex.
LockAlways(r) ==
    /\ pc[r] = "lock"
    /\ mu' = r
    /\ pc' = [pc EXCEPT ![r] = "getSSH"]
    /\ UNCHANGED <<pooled, pool, srv, closer, conn, got, err, ssh, ran, client, up, faults>>

\* s.mu.Lock() of a pooled proxy.
Lock(r) ==
    /\ pc[r] = "lock"
    /\ mu = Nil
    /\ mu' = r
    /\ pc' = [pc EXCEPT ![r] = "getSSH"]
    /\ UNCHANGED <<pooled, pool, srv, closer, conn, got, err, ssh, ran, client, up, faults>>

\* Mutant: the loop runs one command too many.
AfterOutputsOffByOne(r, n) == IF n <= Cmds[r] THEN "newSession" ELSE "return"

\* Where the command loop continues once n outputs are collected.
AfterOutputs(r, n) == IF n < Cmds[r] THEN "newSession" ELSE "return"

\* getSSH finds the pooled connection.  It does not look whether it is alive.
UsePool(r) ==
    /\ pc[r] = "getSSH"
    /\ pooled
    /\ pool # Nil
    /\ conn' = [conn EXCEPT ![r] = pool]
    /\ pc' = [pc EXCEPT ![r] = AfterOutputs(r, 0)]
    /\ UNCHANGED <<pooled, mu, pool, srv, closer, got, err, ssh, ran, client, up, faults>>

\* getSSH finds no connection to reuse -- a fresh proxy's pool is always nil --
\* and goes on to dial.
NeedDial(r) ==
    /\ pc[r] = "getSSH"
    /\ pool = Nil
    /\ pc' = [pc EXCEPT ![r] = "dial"]
    /\ UNCHANGED <<pooled, mu, pool, srv, closer, conn, got, err, ssh, ran, client, up, faults>>

\* ssh.Dial succeeds; a pooled proxy keeps the connection in s.pool.
Dial(r) ==
    /\ pc[r] = "dial"
    /\ up
    /\ ssh' = [ssh EXCEPT ![r] = "open"]
    /\ conn' = [conn EXCEPT ![r] = r]
    /\ pool' = IF pooled THEN r ELSE pool
    /\ pc' = [pc EXCEPT ![r] = AfterOutputs(r, 0)]
    /\ UNCHANGED <<pooled, mu, srv, closer, got, err, ran, client, up, faults>>

\* ssh.Dial fails: the backend is down, or the handshake or the 10 s timeout
\* ends it.
DialError(r) ==
    /\ pc[r] = "dial"
    /\ err' = [err EXCEPT ![r] = "dial"]
    /\ pc' = [pc EXCEPT ![r] = "return"]
    /\ UNCHANGED <<pooled, mu, pool, srv, closer, conn, got, ssh, ran, client, up, faults>>

\* resetPool: close the pooled connection and forget it.
resetPool ==
    /\ ssh' = [c \in Requests |-> IF c = pool THEN "closed" ELSE ssh[c]]
    /\ pool' = Nil

\* Mutant: the error is returned and the broken connection stays pooled.
FailKeepsPool(r, why) ==
    /\ err' = [err EXCEPT ![r] = why]
    /\ pc' = [pc EXCEPT ![r] = "return"]
    /\ UNCHANGED <<ssh, pool>>

\* A command failed: no retry, no further command, and the pool is reset.
Fail(r, why) ==
    /\ err' = [err EXCEPT ![r] = why]
    /\ pc' = [pc EXCEPT ![r] = "return"]
    /\ IF pooled THEN resetPool ELSE UNCHANGED <<ssh, pool>>

\* conn.NewSession(): fails exactly when the connection is broken.
NewSession(r) ==
    /\ pc[r] = "newSession"
    /\ \/ /\ ssh[conn[r]] = "open"
          /\ pc' = [pc EXCEPT ![r] = "output"]
          /\ UNCHANGED <<pool, err, ssh>>
       \/ /\ ssh[conn[r]] # "open"
          /\ Fail(r, "session")
    /\ UNCHANGED <<pooled, mu, srv, closer, conn, got, ran, client, up, faults>>

\* Mutant: an exec error is treated as an empty output.
OutputIgnoresError(r) ==
    /\ pc[r] = "output"
    /\ ssh[conn[r]] = "open" => ran[r] = got[r] + 1
    /\ got' = [got EXCEPT ![r] = @ + 1]
    /\ pc' = [pc EXCEPT ![r] = AfterOutputs(r, got[r] + 1)]
    /\ UNCHANGED <<pooled, mu, pool, srv, closer, conn, err, ssh, ran, client, up, faults>>

\* sess.Output(cmd) returns: with the device's answer, or with an error when
\* the connection breaks first -- whether or not the device ran the command.
\* It has no timeout.
Output(r) ==
    /\ pc[r] = "output"
    /\ \/ /\ ssh[conn[r]] = "open"
          /\ ran[r] = got[r] + 1
          /\ got' = [got EXCEPT ![r] = @ + 1]
          /\ pc' = [pc EXCEPT ![r] = AfterOutputs(r, got[r] + 1)]
          /\ UNCHANGED <<pool, err, ssh>>
       \/ /\ ssh[conn[r]] # "open"
          /\ Fail(r, "exec")
          /\ UNCHANGED got
    /\ UNCHANGED <<pooled, mu, srv, closer, conn, ran, client, up, faults>>

\* Mutant: the unlock is not deferred, so the error path skips it.
ReturnLockedOnError(r) ==
    /\ pc[r] = "return"
    /\ pc' = [pc EXCEPT ![r] = "respond"]
    /\ ssh' = IF ~pooled /\ conn[r] # Nil THEN [ssh EXCEPT ![conn[r]] = "closed"] ELSE ssh
    /\ mu' = IF pooled /\ err[r] = "nil" THEN Nil ELSE mu
    /\ UNCHANGED <<pooled, pool, srv, closer, conn, got, err, ran, client, up, faults>>

\* Mutant: a fresh connection is closed on the success path only.
ReturnLeaksOnError(r) ==
    /\ pc[r] = "return"
    /\ pc' = [pc EXCEPT ![r] = "respond"]
    /\ ssh' = IF ~pooled /\ err[r] = "nil" THEN [ssh EXCEPT ![conn[r]] = "closed"] ELSE ssh
    /\ mu' = IF pooled THEN Nil ELSE mu
    /\ UNCHANGED <<pooled, pool, srv, closer, conn, got, err, ran, client, up, faults>>

\* RunCommands returns and its deferred calls run: a fresh connection is
\* closed, the mutex of a pooled proxy is released.
Return(r) ==
    /\ pc[r] = "return"
    /\ pc' = [pc EXCEPT ![r] = "respond"]
    /\ ssh' = IF ~pooled /\ conn[r] # Nil THEN [ssh EXCEPT ![conn[r]] = "closed"] ELSE ssh
    /\ mu' = IF pooled THEN Nil ELSE mu
    /\ UNCHANGED <<pooled, pool, srv, closer, conn, got, err, ran, client, up, faults>>

-----------------------------------------------------------------------------
(* Close: three steps, the last two under the mutex *)

\* srv.Close() stops the listener and drops every client connection.  It does
\* not wait for the handlers.  It is skipped while s.srv is nil.
CloseServer ==
    /\ closer = "none"
    /\ closer' = "lock"
    /\ srv' = IF srv = "serving" THEN "closed" ELSE srv
    /\ UNCHANGED <<pooled, mu, pool, pc, conn, got, err, ssh, ran, client, up, faults>>

\* Mutant: Close goes for the pool without the mutex.
CloseLockAlways ==
    /\ closer = "lock"
    /\ closer' = "pool"
    /\ UNCHANGED <<pooled, mu, pool, srv, pc, conn, got, err, ssh, ran, client, up, faults>>

CloseLock ==
    /\ closer = "lock"
    /\ mu = Nil
    /\ mu' = Closer
    /\ closer' = "pool"
    /\ UNCHANGED <<pooled, pool, srv, pc, conn, got, err, ssh, ran, client, up, faults>>

ClosePool ==
    /\ closer = "pool"
    /\ resetPool
    /\ mu' = Nil
    /\ closer' = "done"
    /\ UNCHANGED <<pooled, srv, pc, conn, got, err, ran, client, up, faults>>

-----------------------------------------------------------------------------
(* The backend device, outside the proxy's control *)

\* The device runs the command of the open session.
BackendExec(r) ==
    /\ pc[r] = "output"
    /\ ssh[conn[r]] = "open"
    /\ ran[r] = got[r]
    /\ ran' = [ran EXCEPT ![r] = @ + 1]
    /\ UNCHANGED <<pooled, mu, pool, srv, closer, pc, conn, got, err, ssh, client, up, faults>>

\* One connection breaks; neither side closed it.
ConnBreaks(c) ==
    /\ faults < MaxFaults
    /\ ssh[c] = "open"
    /\ faults' = faults + 1
    /\ ssh' = [ssh EXCEPT ![c] = "dead"]
    /\ UNCHANGED <<pooled, mu, pool, srv, closer, pc, conn, got, err, ran, client, up>>

\* The device goes down with all its connections.
BackendCrash ==
    /\ faults < MaxFaults
    /\ up
    /\ faults' = faults + 1
    /\ up' = FALSE
    /\ ssh' = [c \in Requests |-> IF ssh[c] = "open" THEN "dead" ELSE ssh[c]]
    /\ UNCHANGED <<pooled, mu, pool, srv, closer, pc, conn, got, err, ran, client>>

BackendRestart ==
    /\ ~up
    /\ up' = TRUE
    /\ UNCHANGED <<pooled, mu, pool, srv, closer, pc, conn, got, err, ssh, ran, client, faults>>

-----------------------------------------------------------------------------

Handler(r) ==
    \/ Lock(r)
    \/ UsePool(r)
    \/ NeedDial(r)
    \/ Dial(r)
    \/ DialError(r)
    \/ NewSession(r)
    \/ Output(r)
    \/ Return(r)
    \/ Respond(r)

Close == CloseServer \/ CloseLock \/ ClosePool

\* Everything is over; stuttering here keeps TLC's deadlock check meaningful.
Finished ==
    /\ closer = "done"
    /\ \A r \in Requests : pc[r] \in {"idle", "end"}
    /\ UNCHANGED vars

Next ==
    \/ ListenAndServeTLS
    \/ \E r \in Requests :
          Arrive(r) \/ Handler(r) \/ BackendExec(r) \/ ConnBreaks(r)
    \/ Close
    \/ BackendCrash
    \/ BackendRestart
    \/ Finished

Spec == Init /\ [][Next]_vars

\* Goroutines are scheduled; a goroutine waiting for a sync.Mutex is not passed
\* over for ever; the device answers a command unless its connection breaks.
\* Clients, Close and faults come when they come.
Fairness ==
    /\ \A r \in Requests : WF_vars(Handler(r)) /\ WF_vars(BackendExec(r))
    /\ WF_vars(CloseLock \/ ClosePool)

FairSpec == Spec /\ Fairness

-----------------------------------------------------------------------------
(* Properties *)

\* No handler works on a connection that someone else has closed: neither
\* another handler's resetPool nor Close can pull the pooled connection away
\* from the handler that is using it (RunCommands holds mu to its end).
NoUseAfterClose ==
    \A r \in Requests : pc[r] \in {"newSession", "output"} =>
        conn[r] # Nil /\ ssh[conn[r]] \in {"open", "dead"}

\* A pooled proxy never holds two SSH connections at once, whatever requests,
\* failures, redials and Close interleave ("one SSH connection is reused
\* across requests").
OneBackendConn == pooled => \A c, d \in Live : c = d

\* A connection that is not closed is either the pooled one or in the hands of
\* a handler that has yet to return: no path through RunCommands, resetPool or
\* Close drops a connection without closing it.
NoConnLost ==
    \A c \in Live : c = pool \/ \E r \in Requests : conn[r] = c /\ pc[r] \in Inside

\* A broken connection costs one request: the failure resets the pool, so no
\* second request is answered 502 because of the same connection.
OneFailurePerConn ==
    \A r, s \in Requests :
        /\ r # s
        /\ err[r] \in {"session", "exec"}
        /\ err[s] \in {"session", "exec"}
        => conn[r] # conn[s]

\* What the answer says is what the device did: 200 means that it ran every
\* command; in any case it never ran a command past the first one that failed.
AnswerIsTruthful ==
    \A r \in Requests :
        /\ client[r] = "200" => ran[r] = Cmds[r] /\ got[r] = Cmds[r]
        /\ ran[r] \in {got[r], got[r] + 1}
        /\ err[r] # "nil" => got[r] < Cmds[r] \/ Cmds[r] = 0

\* Every handler that enters RunCommands returns, even when its client has
\* gone, the backend fails or the proxy is being closed.
HandlersReturn == \A r \in Requests : pc[r] \in {"lock", "getSSH"} ~> pc[r] = "end"

\* Close returns: the handlers queued on the mutex do not keep it out for ever.
CloseReturns == closer = "lock" ~> closer = "done"

\* "Close stops the proxy server and releases all resources": once Close has
\* returned and the handlers are gone, no SSH connection is left.
CloseReleases ==
    closer = "done" /\ (\A r \in Requests : pc[r] \in {"idle", "end"}) => Live = {}
=============================================================================
