---------------------------- MODULE MCCaptureFlow ----------------------------
(* Two callers of one process that is killed and started again.            *)
EXTENDS CaptureFlow, TLC

CONSTANTS c1, c2, p1

MCSymmetry == Permutations({c1, c2})

MCProcessOf == [c \in Callers |-> p1]

=============================================================================
