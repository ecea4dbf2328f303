CONSTANTS
  cli1 = cli1
  cli2 = cli2
  t1 = t1
  t2 = t2
  dirA = dirA
  dirB = dirB
  relA = relA
  Manager = {cli1}
  Thread = {t1}
  Home <- MCHome
  Path = {dirA, dirB, relA, ""}
  Arg = {dirA, relA}
  Abs <- MCAbs
  Tree = {"root", "child"}
  MaxPid = 3
  Persistent = TRUE
  Overlap = FALSE
  MayCrash = FALSE
  ForeignPage = TRUE
SPECIFICATION Spec
INVARIANTS OnePerProject
CHECK_DEADLOCK FALSE
