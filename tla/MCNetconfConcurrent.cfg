\* Two iterations at a time on the shared session (--concurrency 2).
SPECIFICATION Spec
CONSTANTS
    Iterations = 2
    Concurrency = 2
    Commands = 1
    Modes = {"reuse-session"}
INVARIANT
    OwnReplies
