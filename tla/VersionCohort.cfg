CONSTANTS
  p1 = p1
  p2 = p2
  m1 = m1
  b1 = b1
  b2 = b2
  NoBuild = NoBuild
  Torn = Torn
  Builds <- MCBuilds
  Participants <- MCTwo
  Monitored <- MCOne
  Mutators <- MCMutator
SPECIFICATION FairSpec
INVARIANTS
  ExactBuild
  Unobstructed
PROPERTIES
  ConflictIsReal
  ImplementsAdmission
  EverybodyDecided
