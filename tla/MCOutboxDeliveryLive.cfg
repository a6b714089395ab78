SPECIFICATION FairSpec
CONSTANTS
  Rows = {1, 2}
  Journal = {2}
  Membership = {2}
  Versions = {1}
  MaxFaults = 1
  Wrap = 4
PROPERTIES
  RowsSettle
  LostCopyResent
CHECK_DEADLOCK FALSE
