SPECIFICATION FairSpec
CONSTANTS
    Commands = 3
    Outputs <- MCOutputs
INVARIANT
    SuccessMeansExecuted
PROPERTY
    ReturnsWithoutServer
