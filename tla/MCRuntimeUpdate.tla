--------------------------- MODULE MCRuntimeUpdate ---------------------------
(* Finite instance of RuntimeUpdate for TLC: two callers of one process. *)
EXTENDS RuntimeUpdate, TLC

CONSTANTS p1

OneProcess == [c \in Callers |-> p1]
=============================================================================
