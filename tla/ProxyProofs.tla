---------------------------- MODULE ProxyProofs ----------------------------
(***************************************************************************)
(* Proofs about the site proxy, for any set of requests, any number of     *)
(* commands per request and any number of faults.                          *)
(***************************************************************************)
EXTENDS Proxy, TLAPS

\* A pooled proxy's handler past the mutex owns it, and so does Close while it
\* empties the pool.
LockInv ==
    /\ \A r \in Requests : pooled /\ pc[r] \in Inside => mu = r
    /\ closer = "pool" => mu = Closer

\* The pooled connection has been dialled and not closed; a handler that found
\* the pool empty still finds it empty when its dial ends.
PoolInv ==
    /\ ~pooled => pool = Nil
    /\ pool # Nil => pool \in Live
    /\ \A r \in Requests : pooled /\ pc[r] = "dial" => pool = Nil

\* Which connection a handler has at each point of RunCommands.
ConnInv == \A r \in Requests :
    /\ pc[r] \in {"idle", "lock", "getSSH", "dial"} => conn[r] = Nil /\ ssh[r] = "none"
    /\ pc[r] \in {"newSession", "output"} =>
          conn[r] \in Live /\ conn[r] = (IF pooled THEN pool ELSE r)
    /\ ~pooled => conn[r] \in {r, Nil}

\* Who still needs a connection that is not closed.
LiveInv == \A c \in Live :
    IF pooled THEN c = pool
              ELSE conn[c] = c /\ pc[c] \in {"newSession", "output", "return"}

\* A handler that failed on a pooled connection closed it.
FailInv == \A r \in Requests : err[r] \in {"session", "exec"} =>
    conn[r] # Nil /\ (pooled => ssh[conn[r]] = "closed")

\* How the outputs collected, the commands run and the error go together.
CountInv == \A r \in Requests :
    /\ ran[r] \in {got[r], got[r] + 1}
    /\ pc[r] \in {"idle", "lock", "getSSH", "dial"} => got[r] = 0 /\ ran[r] = 0
    /\ pc[r] = "newSession" => got[r] < Cmds[r] /\ ran[r] = got[r]
    /\ pc[r] = "output" => got[r] < Cmds[r]
    /\ pc[r] \in {"return", "respond", "end"} /\ err[r] = "nil" =>
          got[r] = Cmds[r] /\ ran[r] = Cmds[r]
    /\ err[r] # "nil" =>
          /\ pc[r] \in {"return", "respond", "end"}
          /\ got[r] < Cmds[r] \/ Cmds[r] = 0
    /\ client[r] = "200" => pc[r] = "end" /\ err[r] = "nil"

IInv ==
    TypeOK /\ LockInv /\ PoolInv /\ ConnInv /\ LiveInv /\ FailInv /\ OneFailurePerConn /\ CountInv

USE CmdsAssumption, NamesAssumption, FaultAssumption

\* The server New returns satisfies the inductive invariant.
LEMMA InitIInv == Init => IInv
  BY DEF Init, IInv, TypeOK, LockInv, PoolInv, ConnInv, LiveInv, FailInv, OneFailurePerConn, CountInv, Inside, Live

\* Every step of a handler, of Close, of the HTTP server and of the backend
\* keeps the inductive invariant.
LEMMA NextIInv == IInv /\ [Next]_vars => IInv'
  <1> SUFFICES ASSUME IInv, [Next]_vars PROVE IInv'
    OBVIOUS
  <1> USE DEF IInv
  \* The crash of the device touches every connection at once.
  <1>1. CASE BackendCrash
    <2> USE <1>1 DEF BackendCrash
    <2>1. TypeOK'
      <3>1. ssh' \in [Requests -> {"none", "open", "dead", "closed"}]
        BY DEF TypeOK
      <3>2. faults' \in 0..MaxFaults
        BY DEF TypeOK
      <3>3. up' \in BOOLEAN
        OBVIOUS
      <3>4. QED
        BY <3>1, <3>2, <3>3 DEF TypeOK
    <2>2. Live' = Live
      BY DEF TypeOK, Live
    <2>3. \A c \in Requests : ssh[c] \in {"none", "closed"} => ssh'[c] = ssh[c]
      BY DEF TypeOK
    <2>4. LockInv' /\ CountInv' /\ OneFailurePerConn'
      BY DEF LockInv, CountInv, OneFailurePerConn
    <2>5. PoolInv' /\ LiveInv'
      BY <2>2 DEF PoolInv, LiveInv
    <2>6. ConnInv'
      BY <2>2, <2>3 DEF ConnInv
    <2>7. FailInv'
      BY <2>3 DEF FailInv, TypeOK
    <2>8. QED
      BY <2>1, <2>4, <2>5, <2>6, <2>7
  \* The other steps change one handler, one connection or the pool.
  <1> USE DEF TypeOK, LockInv, PoolInv, ConnInv, LiveInv, FailInv,
              OneFailurePerConn, CountInv, Inside, Live
  <1>2. CASE ListenAndServeTLS
    BY <1>2 DEF ListenAndServeTLS
  <1>3. ASSUME NEW r \in Requests, Arrive(r) PROVE IInv'
    BY <1>3 DEF Arrive
  <1>4. ASSUME NEW r \in Requests, Lock(r) PROVE IInv'
    BY <1>4 DEF Lock
  <1>5. ASSUME NEW r \in Requests, UsePool(r) PROVE IInv'
    BY <1>5 DEF UsePool, AfterOutputs
  <1>6. ASSUME NEW r \in Requests, NeedDial(r) PROVE IInv'
    BY <1>6 DEF NeedDial
  <1>7. ASSUME NEW r \in Requests, Dial(r) PROVE IInv'
    BY <1>7 DEF Dial, AfterOutputs
  <1>8. ASSUME NEW r \in Requests, DialError(r) PROVE IInv'
    BY <1>8 DEF DialError
  <1>9. ASSUME NEW r \in Requests, NewSession(r) PROVE IInv'
    <2>1. CASE ssh[conn[r]] = "open"
      BY <1>9, <2>1 DEF NewSession
    <2>2. CASE ssh[conn[r]] # "open" /\ pooled
      <3> USE <1>9, <2>2 DEF NewSession, Fail, resetPool
      <3>1. TypeOK'
        OBVIOUS
      <3>2. LockInv' /\ PoolInv'
        OBVIOUS
      <3>3. ConnInv'
        OBVIOUS
      <3>4. LiveInv'
        OBVIOUS
      <3>5. FailInv'
        OBVIOUS
      <3>6. OneFailurePerConn'
        OBVIOUS
      <3>7. CountInv'
        OBVIOUS
      <3> HIDE DEF TypeOK, LockInv, PoolInv, ConnInv, LiveInv, FailInv, OneFailurePerConn, CountInv
      <3>8. QED
        BY <3>1, <3>2, <3>3, <3>4, <3>5, <3>6, <3>7
    <2>3. CASE ssh[conn[r]] # "open" /\ ~pooled
      BY <1>9, <2>3 DEF NewSession, Fail
    <2>4. QED
      BY <2>1, <2>2, <2>3
  <1>10. ASSUME NEW r \in Requests, Output(r) PROVE IInv'
    <2>1. CASE ssh[conn[r]] = "open"
      <3> USE <1>10, <2>1 DEF Output, AfterOutputs
      <3>1. TypeOK'
        OBVIOUS
      <3>2. LockInv' /\ PoolInv'
        OBVIOUS
      <3>3. ConnInv'
        OBVIOUS
      <3>4. LiveInv'
        OBVIOUS
      <3>5. FailInv' /\ OneFailurePerConn'
        OBVIOUS
      <3>6. CountInv'
        OBVIOUS
      <3> HIDE DEF TypeOK, LockInv, PoolInv, ConnInv, LiveInv, FailInv, OneFailurePerConn, CountInv
      <3>7. QED
        BY <3>1, <3>2, <3>3, <3>4, <3>5, <3>6
    <2>2. CASE ssh[conn[r]] # "open" /\ pooled
      <3> USE <1>10, <2>2 DEF Output, Fail, resetPool
      <3>1. TypeOK'
        OBVIOUS
      <3>2. LockInv' /\ PoolInv'
        OBVIOUS
      <3>3. ConnInv'
        OBVIOUS
      <3>4. LiveInv'
        OBVIOUS
      <3>5. FailInv'
        OBVIOUS
      <3>6. OneFailurePerConn'
        OBVIOUS
      <3>7. CountInv'
        OBVIOUS
      <3> HIDE DEF TypeOK, LockInv, PoolInv, ConnInv, LiveInv, FailInv, OneFailurePerConn, CountInv
      <3>8. QED
        BY <3>1, <3>2, <3>3, <3>4, <3>5, <3>6, <3>7
    <2>3. CASE ssh[conn[r]] # "open" /\ ~pooled
      BY <1>10, <2>3 DEF Output, Fail
    <2>4. QED
      BY <2>1, <2>2, <2>3
  <1>11. ASSUME NEW r \in Requests, Return(r) PROVE IInv'
    BY <1>11 DEF Return
  <1>12. ASSUME NEW r \in Requests, Respond(r) PROVE IInv'
    BY <1>12 DEF Respond
  <1>13. CASE CloseServer
    BY <1>13 DEF CloseServer
  <1>14. CASE CloseLock
    BY <1>14 DEF CloseLock
  <1>15. CASE ClosePool
    BY <1>15 DEF ClosePool, resetPool
  <1>16. ASSUME NEW r \in Requests, BackendExec(r) PROVE IInv'
    BY <1>16 DEF BackendExec
  <1>17. ASSUME NEW r \in Requests, ConnBreaks(r) PROVE IInv'
    BY <1>17 DEF ConnBreaks
  <1>18. CASE BackendRestart
    BY <1>18 DEF BackendRestart
  <1>19. CASE UNCHANGED vars
    BY <1>19 DEF vars
  <1> HIDE DEF IInv, TypeOK, LockInv, PoolInv, ConnInv, LiveInv, FailInv,
               OneFailurePerConn, CountInv, Inside, Live
  <1>20. QED
    BY <1>1, <1>2, <1>3, <1>4, <1>5, <1>6, <1>7, <1>8, <1>9, <1>10, <1>11, <1>12, <1>13,
       <1>14, <1>15, <1>16, <1>17, <1>18, <1>19 DEF Next, Handler, Close, Finished

\* The inductive invariant holds in every reachable state of the proxy.
THEOREM SafetyIInv == Spec => []IInv
  BY InitIInv, NextIInv, PTL DEF Spec

\* Every variable keeps its type; in particular RunCommands never collects more
\* outputs, nor makes the device run more commands, than the request carries.
THEOREM ProxyTypeOK == Spec => []TypeOK
  BY SafetyIInv, PTL DEF IInv

\* For any number of handlers and faults, no handler's NewSession or Output is
\* called on a connection that resetPool or Close has closed.
THEOREM ProxyNoUseAfterClose == Spec => []NoUseAfterClose
  <1>1. IInv => NoUseAfterClose
    BY DEF IInv, TypeOK, ConnInv, NoUseAfterClose, Live
  <1>2. QED
    BY <1>1, SafetyIInv, PTL

\* A pooled proxy has at most one SSH connection to its backend at any time,
\* although getSSH checks s.pool and dials in two steps.
THEOREM ProxyOneBackendConn == Spec => []OneBackendConn
  <1>1. IInv => OneBackendConn
    BY DEF IInv, LiveInv, OneBackendConn
  <1>2. QED
    BY <1>1, SafetyIInv, PTL

\* No path through RunCommands, resetPool or Close forgets a connection it has
\* not closed.
THEOREM ProxyNoConnLost == Spec => []NoConnLost
  <1>1. IInv => NoConnLost
    BY DEF IInv, LiveInv, NoConnLost, Live, Inside
  <1>2. QED
    BY <1>1, SafetyIInv, PTL

\* No two requests fail on the same SSH connection: the first failure makes
\* RunCommands replace it.
THEOREM ProxyOneFailurePerConn == Spec => []OneFailurePerConn
  <1>1. IInv => OneFailurePerConn
    BY DEF IInv
  <1>2. QED
    BY <1>1, SafetyIInv, PTL

\* A request answered 200 had all its commands run; a failed one had none run
\* past the one that failed.
THEOREM ProxyAnswerIsTruthful == Spec => []AnswerIsTruthful
  <1>1. IInv => AnswerIsTruthful
    BY DEF IInv, CountInv, AnswerIsTruthful
  <1>2. QED
    BY <1>1, SafetyIInv, PTL
=============================================================================
