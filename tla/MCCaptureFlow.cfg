SPECIFICATION Spec
CONSTANTS
  c1 = c1
  c2 = c2
  p1 = p1
  Callers = {c1, c2}
  Processes = {p1}
  ProcessOf <- MCProcessOf
  Nobody = Nobody
  MaxNumber = 2
SYMMETRY MCSymmetry
CHECK_DEADLOCK FALSE
INVARIANTS
  StoppedIsFinal
  LiveRecordingKnown
  DifferenceShown
