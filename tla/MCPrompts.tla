------------------------------ MODULE MCPrompts ------------------------------
(* Tool calls of one response: two that may need permission, of which one   *)
(* writes and the other asks the user.                                      *)
EXTENDS PromptExchange

CONSTANTS w, a, b

MCIdOf == [c \in Call |-> c]
===============================================================================
