------------------------- MODULE MCCaptureRecorder -------------------------
(* Finite instances of CaptureRecorder for TLC. *)
EXTENDS CaptureRecorder, TLC

CONSTANTS c1, c2, p1, p2

MCNumbers == {1}

\* Each caller is a process of its own.
MCProcessOf == [c \in Callers |-> IF c = c1 THEN p1 ELSE p2]

\* The processes are alike, each with its caller.
MCSymmetry ==
  Permutations(Segments) \cup {(c1 :> c2) @@ (c2 :> c1) @@ (p1 :> p2) @@ (p2 :> p1)}
=============================================================================
