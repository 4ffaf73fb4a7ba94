--------------------------- MODULE MCStudyArtifacts ---------------------------
(***************************************************************************)
(* Two callers of one process and a module with one session.               *)
(***************************************************************************)
EXTENDS StudyArtifacts, TLC

CONSTANTS c1, c2

CallerSymmetry == Permutations(Callers)

=============================================================================
