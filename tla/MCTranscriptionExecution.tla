---------------------- MODULE MCTranscriptionExecution ----------------------
(* Instances of TranscriptionExecution for TLC.                            *)
EXTENDS TranscriptionExecution, TLC

CONSTANTS w1, w2, p1, p2

\* Two executions, each in a process of its own.
HomeTwo == w1 :> p1 @@ w2 :> p2

=============================================================================
