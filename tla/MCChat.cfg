CONSTANTS
  s1 = s1
  s2 = s2
  MaxTurn = 2
  Session = {s1}
  MaxIter = 2
  MaxCalls = 2
  Keep = 2
  Starters = {1}
  MaxStop = 1
  MaxQuit = 0
CHECK_DEADLOCK FALSE
SPECIFICATION FairSpec
INVARIANTS TypeOK ToolsJoined
PROPERTIES TurnEnds
