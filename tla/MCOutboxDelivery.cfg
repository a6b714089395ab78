SPECIFICATION Spec
CONSTANTS
  Rows = {1, 2}
  Journal = {2}
  Membership = {}
  Versions = {1, 2}
  MaxFaults = 2
  Wrap = 5
INVARIANTS
  RowsConsistent
PROPERTIES
  JournalConfirmationFinal
CHECK_DEADLOCK FALSE
