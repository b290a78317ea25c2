CONSTANTS
  pA = pA
  pB = pB
  t1 = t1
  t2 = t2
  t3 = t3
  NoThread = NoThread
  Processes <- MCProcesses
  Threads <- MCThreads
  Home <- MCHome
  MaxCalls = 1
SPECIFICATION Spec
SYMMETRY MCSymmetry
INVARIANTS
  TypeOK
  NothingLeftBehind
  FirstComeFirstServed
PROPERTIES
  WriterNotOvertaken
  ImplementsReadWriteLock
\* The bounded number of calls comes to an end.
CHECK_DEADLOCK FALSE
