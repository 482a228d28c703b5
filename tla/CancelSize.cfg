CONSTANTS
    MaxUserRefNum = 3
    QuantityLimit = 4
    MaxPrice = 1
    Symbol = {s1}
    Absent = Absent
SPECIFICATION LifecycleSpec
PROPERTY
    CancelSetsIntendedSize
