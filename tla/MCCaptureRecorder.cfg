SPECIFICATION Spec
CONSTANTS
  c1 = c1
  c2 = c2
  p1 = p1
  p2 = p2
  Callers = {c1, c2}
  Processes = {p1, p2}
  ProcessOf <- MCProcessOf
  Segments = {s1, s2}
  Numbers <- MCNumbers
  NoOne = NoOne
  Engine = "synthetic"
SYMMETRY MCSymmetry
INVARIANTS
  RecordingOwned
  ManifestHonest
  FinalizedDurable
PROPERTIES
  FinalKept
CHECK_DEADLOCK FALSE
