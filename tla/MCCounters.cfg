SPECIFICATION Spec
CONSTANTS
    Iterations = 3
    Exchanges = 3
    Handshake = 1
    MaxSegments = 2
    MaxFaults = 2
INVARIANTS
    DeltaBounds
    ExactWhenReaderKeepsUp
    MedianOfSuccesses
