SPECIFICATION FairSpec
CONSTANTS
    Attempts = 2
    Fragments = 2
    SlotsMax = 2
    MaxFaults = 2
INVARIANTS
    DeliveryConsistent
PROPERTIES
    ImplementsCustody
    PreservedReachesAdd
