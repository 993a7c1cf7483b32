\* One iteration at a time, as with the default --concurrency 1.
SPECIFICATION FairSpec
CONSTANTS
    Iterations = 3
    Concurrency = 1
    Commands = 2
    Modes = {"reuse-session", "batch-rpc", "edit-commit"}
INVARIANTS
    TypeOK
    OwnReplies
    SessionAligned
    FailsOnlyIfBroken
PROPERTY
    SessionEnds
