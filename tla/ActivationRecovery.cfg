SPECIFICATION Spec
INVARIANTS
  RollbackCanBeRetried
CHECK_DEADLOCK FALSE
