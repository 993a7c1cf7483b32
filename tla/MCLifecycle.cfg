SPECIFICATION FairSpec
CONSTANTS
    MaxRuns = 3
    MaxSignals = 2
INVARIANTS
    OwnRulesRemoved
    MeasuredUnderOwnRules
    CrashAfterOutput
PROPERTY
    SignalEndsProcess
