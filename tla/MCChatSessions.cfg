CONSTANTS
  s1 = s1
  s2 = s2
  MaxTurn = 3
  Session = {s1, s2}
  MaxIter = 1
  MaxCalls = 2
  Keep = 2
  Starters = {}
  MaxStop = 1
  MaxQuit = 1
CHECK_DEADLOCK FALSE
SYMMETRY SessionSymmetry
SPECIFICATION Spec
INVARIANTS ModelSeesWellFormed NothingForgotten
