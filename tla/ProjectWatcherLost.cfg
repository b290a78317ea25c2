SPECIFICATION FairSpec
CONSTANTS
  Sessions = {s1}
  Nothing = Nothing
  MaxState = 1
  DeleteAfter = 3
  ToolOptions = "default"
  Documents = FALSE
  MaxEdits = 2
  MaxMoves = 0
  MaxFaults = 0
PROPERTIES
  NeverLost
