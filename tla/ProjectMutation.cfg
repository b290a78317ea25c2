CONSTANTS
  w1 = w1
  w2 = w2
  Workers <- MCWorkers
  Projects <- MCProjects
  Star = "*"
  Keys = {"alpha", "beta"}
  Fold <- MCFold
  Order <- MCOrder
  MaxOperations = 2
SPECIFICATION FairSpec
INVARIANTS
  OperationsExclude
PROPERTIES
  ImplementsProjectLeases
  OperationEnds
\* The bounded number of operations comes to an end.
CHECK_DEADLOCK FALSE
