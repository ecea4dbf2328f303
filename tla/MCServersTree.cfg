CONSTANTS
  app = app
  t1 = t1
  t2 = t2
  dirA = dirA
  Manager = {app}
  Thread = {t1}
  Home <- MCHome
  Path = {dirA, ""}
  Arg = {dirA}
  Abs <- MCAbs
  Tree = {"root", "child"}
  MaxPid = 2
  Persistent = FALSE
  Overlap = FALSE
  MayCrash = FALSE
  ForeignPage = FALSE
SPECIFICATION Spec
PROPERTY TreeKilled
