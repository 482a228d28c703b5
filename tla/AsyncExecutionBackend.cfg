CONSTANTS
    Ref = {1, 2}
    MaxPayloadSize = 1
    Capacity = 2
    CounterModulus = 3
SPECIFICATION FairSpec
INVARIANTS
    TypeOK
    DrainedOnStop
    CountersReconcile
    FlagsMatchThreads
PROPERTIES
    AcceptedIsSent
    StopReturns
