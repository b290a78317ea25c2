SPECIFICATION FairSpec
CONSTANTS
  Sessions = {s1, s2}
  Nothing = Nothing
  MaxState = 2
  DeleteAfter = 3
  ToolOptions = "custom"
  Documents = FALSE
  MaxEdits = 3
  MaxMoves = 2
  MaxFaults = 1
INVARIANTS
  TypeOK
  WatchesAgree
PROPERTIES
  PruneSparesProject
  NeverLost
  DeltaIndexed
