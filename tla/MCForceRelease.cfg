SPECIFICATION FairSpec
CONSTANTS
  Jobs = {1, 2}
  Devices = {1}
  PerDevice = 2
  Rosters = {1, 2}
  STEP_BATCH = 1
  MaxSyncs = 1
  Budgets <- MCBudgets
INVARIANT
  RunsConsistent
PROPERTIES
  DecidedOnFreshRead
  RunsEnd
CHECK_DEADLOCK FALSE
