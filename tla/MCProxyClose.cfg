\* Close against handlers in flight: are all SSH connections released?
SPECIFICATION Spec
CONSTANTS
    r1 = r1
    r2 = r2
    r3 = r3
    Requests <- MCRequests
    Cmds <- MCCmds
    Nil = Nil
    Closer = Closer
    MaxFaults = 0
INVARIANT
    CloseReleases
