SPECIFICATION FairSpec
CONSTANTS
  Cnics = {1, 2}
  Jobs = {1, 2}
  Budgets <- MCBudgets
  Wrap = 3
INVARIANTS
    ApprovalsConsistent
PROPERTIES
    RunsEnd
CHECK_DEADLOCK FALSE
