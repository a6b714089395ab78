SPECIFICATION FairSpec
CONSTANTS
    SequenceMax = 9
    ReserveBlock = 2
    SegmentsMax = 4
    SegmentCells = 3
    AppendBound = 4
    MaxTokens = 2
    MaxFaults = 3
INVARIANTS
    StoreConsistent
    NonceNeverReused
PROPERTIES
    CheckpointReplacedSafely
    ImplementsCustody
    AckedDrains
CHECK_DEADLOCK FALSE
