----------------------------- MODULE MCServersCli -----------------------------
(* The command-line harness: one-command invocations that share a registry  *)
(* file.  dirA and dirB are absolute; relA is dirA spelled relative to the  *)
(* current directory.                                                       *)
EXTENDS ServerManager

CONSTANTS cli1, cli2, t1, t2, dirA, dirB, relA

MCHome == [t \in Thread |-> IF t = t1 THEN cli1 ELSE cli2]
MCAbs  == [d \in Path |-> IF d = relA THEN dirA ELSE d]
===============================================================================
