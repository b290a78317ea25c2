SPECIFICATION Spec
CONSTANTS
  s1 = s1
  s2 = s2
  pA = pA
  pB = pB
  Star = Star
  Nothing = Nothing
  MaxPolls = 1
  Watcher = Watcher
  Sessions <- MCSessions
  Projects <- MCProjects
  Home <- MCHome
  Requests <- MCRequests
  Indexed = {}
  MaxJob = 2
  JobLimit = 1
  MaxAttempts = 2
  MaxRequests = 1
  MaxFaults = 1
  Permanent = FALSE
INVARIANTS
  TypeOK
  ReferencesExact
  WorkersExcludeMutations
  QuietIsFinal
  NobodyStuck
  RunnersRun
PROPERTIES
  NeededWorkContinues
CHECK_DEADLOCK FALSE
