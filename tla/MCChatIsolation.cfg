CONSTANTS
  s1 = s1
  s2 = s2
  MaxTurn = 2
  Session = {s1, s2}
  MaxIter = 1
  MaxCalls = 1
  Keep = 2
  Starters = {}
  MaxStop = 0
  MaxQuit = 0
CHECK_DEADLOCK FALSE
SPECIFICATION Spec
INVARIANTS SessionIsItsOwn
