----------------------------- MODULE MCServersApp -----------------------------
(* The desktop application: one manager that lives on, two goroutines.      *)
EXTENDS ServerManager

CONSTANTS app, t1, t2, dirA

MCHome == [t \in Thread |-> app]
MCAbs  == [d \in Path |-> dirA]
===============================================================================
