CONSTANTS
  pA = pA
  pB = pB
  t1 = t1
  t2 = t2
  t3 = t3
  NoThread = NoThread
  Processes <- MCOneProcess
  Threads <- MCTwoThreads
  Home <- MCSameHome
  MaxCalls = 2
SPECIFICATION FairSpec
PROPERTIES
  EveryWaitAnswered
\* The bounded number of calls comes to an end.
CHECK_DEADLOCK FALSE
