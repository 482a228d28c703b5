CONSTANTS
    Item = {a, b}
    NoItem = none
    Capacity = 2
    IndexModulus = 6
SPECIFICATION FairSpec
INVARIANTS
    TypeOK
    NoDataRace
    NoSharedSlot
PROPERTIES
    RefinesFifo
    PublishedIsPopped
