CONSTANTS
  app = app
  t1 = t1
  t2 = t2
  dirA = dirA
  Manager = {app}
  Thread = {t1, t2}
  Home <- MCHome
  Path = {dirA, ""}
  Arg = {dirA}
  Abs <- MCAbs
  Tree = {"root"}
  MaxPid = 2
  Persistent = FALSE
  Overlap = FALSE
  MayCrash = FALSE
  ForeignPage = TRUE
SPECIFICATION FairSpec
INVARIANTS TypeOK Tracked
PROPERTIES RestartReplaces CallsReturn
