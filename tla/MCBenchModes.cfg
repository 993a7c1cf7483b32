\* All transports in one run, two commands per iteration.
SPECIFICATION Spec
CONSTANTS
    Selected <- AllTransports
    Commands = 2
    MaxLag = 1
INVARIANTS
    SummarisedBeforeNextReset
    ReportedIffRan
    NoRunWithoutConn
    SharedConnsClosed
PROPERTY
    OnlyLateOrIdleSlipsIn
