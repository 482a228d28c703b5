CONSTANTS
    MaxUserRefNum = 1
    QuantityLimit = 3
    MaxPrice = 3
    Symbol = {s1, s2}
    NotionalMax = 4
    Limits <- MCLimits
    MaxSubmissions = 2
SYMMETRY Symmetry
SPECIFICATION Spec
INVARIANTS
    TypeOK
    GateAgreesWithRisk
PROPERTY
    NoLeak
