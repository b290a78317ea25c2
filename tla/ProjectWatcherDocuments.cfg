SPECIFICATION FairSpec
CONSTANTS
  Sessions = {s1}
  Nothing = Nothing
  MaxState = 1
  DeleteAfter = 3
  ToolOptions = "custom"
  Documents = TRUE
  MaxEdits = 2
  MaxMoves = 0
  MaxFaults = 0
PROPERTIES
  OncePerState
