SPECIFICATION RollbackSpec
CONSTANTS
  Rollbacks = {p1, p2}
  RollbackIds = {i1}
  MaxDatabases = 3
  Nothing = Nothing
INVARIANT DatabaseIsRecoverable
CHECK_DEADLOCK FALSE
