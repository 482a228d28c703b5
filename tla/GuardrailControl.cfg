CONSTANTS
    MaxUserRefNum = 1
    QuantityLimit = 3
    MaxPrice = 2
    Symbol = {s1}
    NotionalMax = 3
    Change <- SomeChange
    InitialLimits <- MCLimits
    SequenceModulus = 5
    CounterModulus = 3
    MaxPending = 2
SPECIFICATION ControlSpec
INVARIANTS
    UpdatesAccountedFor
    PushedNeverStale
    ControlTypeOK
PROPERTY
    NoRollback
