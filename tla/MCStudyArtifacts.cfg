SPECIFICATION Spec
CONSTANTS
  c1 = c1
  c2 = c2
  Callers = {c1, c2}
  Sessions = {"session"}
  Module = "module"
  Nobody = Nobody
  MaxIssued = 2
  MaxRevision = 3
  MaxChanges = 2
INVARIANTS AcknowledgedStays DifferencesInspected
PROPERTIES IdentitiesKept
SYMMETRY CallerSymmetry
