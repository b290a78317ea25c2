CONSTANTS
  k1 = k1
  k2 = k2
  t1 = t1
  t2 = t2
  NoKey = NoKey
  ProjectKeys <- MCKeys
  Threads <- MCThreads
  MaxClientId = 2
  MaxSubscriptionId = 2
  MaxNow = 1
  LeaseTimeout = 1
SPECIFICATION FairSpec
INVARIANTS
  TypeOK
  SubscriptionsExact
  ObjectLifetimes
  ExitMeansQuiescent
PROPERTIES
  SweepSparesFreshClients
  StoppingLeadsToExit
\* The coordinator may be freed, after which nothing happens.
CHECK_DEADLOCK FALSE
