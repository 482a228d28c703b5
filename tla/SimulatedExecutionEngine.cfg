CONSTANTS
    MaxUserRefNum = 2
    QuantityLimit = 3
    MaxPrice = 2
    Symbol = {s1, s2}
    Absent = Absent
    NotionalMax = 3
    Limits <- MCLimits
SYMMETRY Symmetry
SPECIFICATION Spec
INVARIANTS
    LiveOrdersSound
    ReportsReconcile
PROPERTIES
    NoRefReuse
    OnlyCheckedOrdersOpen
    HaltFreezesOrders
