\* Three requests, one fault, Close at any time: safety and liveness.
SPECIFICATION FairSpec
CONSTANTS
    r1 = r1
    r2 = r2
    r3 = r3
    Requests <- MCRequests
    Cmds <- MCCmds
    Nil = Nil
    Closer = Closer
    MaxFaults = 1
INVARIANTS
    TypeOK
    NoUseAfterClose
    OneBackendConn
    NoConnLost
    OneFailurePerConn
    AnswerIsTruthful
PROPERTIES
    HandlersReturn
    CloseReturns
