CONSTANTS
  cli1 = cli1
  cli2 = cli2
  t1 = t1
  t2 = t2
  dirA = dirA
  dirB = dirB
  relA = relA
  Manager = {cli1}
  Thread = {t1}
  Home <- MCHome
  Path = {dirA, dirB, relA, ""}
  Arg = {dirA, dirB, relA}
  Abs <- MCAbs
  Tree = {"root", "child"}
  MaxPid = 3
  Persistent = TRUE
  Overlap = FALSE
  MayCrash = TRUE
  ForeignPage = TRUE
SPECIFICATION Spec
INVARIANTS StartedOnDisk OnePerName
\* Once every process id of the bound is spent and a torn registry keeps the
\* next invocation from booting, nothing is left to happen.
CHECK_DEADLOCK FALSE
