-------------------------------- MODULE MCChat --------------------------------
(* The turns of a chat and its sessions.                                    *)
EXTENDS ChatTurn, TLC

CONSTANTS s1, s2

\* Sessions differ by name only (used where no liveness is checked).
SessionSymmetry == Permutations({s1, s2})
===============================================================================
