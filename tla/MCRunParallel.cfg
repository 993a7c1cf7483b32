\* Five iterations on two slots.
SPECIFICATION FairSpec
CONSTANTS
    Iterations = 5
    Concurrency = 2
INVARIANTS
    TypeOK
    ConcurrencyBound
    NothingLate
PROPERTY
    ImplementsParallelMap
