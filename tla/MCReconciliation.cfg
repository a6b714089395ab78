SPECIFICATION Spec
CONSTANTS
    MaxPunch = 3
    MaxJobs = 3
    MaxEpoch = 2
    ChunkRecords = 1
    MaxChunks = 2
    TailRecords = 2
    Plans <- MCPlans
INVARIANTS LedgerConsistent OnlyRealPunches CompletedAccounted CoverageSurvives
PROPERTIES CommittedStable JobEnds
CHECK_DEADLOCK FALSE
