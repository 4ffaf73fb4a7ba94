SPECIFICATION Spec
CONSTANTS
  c1 = c1
  c2 = c2
  Callers = {c1, c2}
  Courses <- MCCourses
  Modules <- MCModules
  Titles <- MCTitles
  Given <- MCGiven
  SlugOf <- MCSlugOf
  GivenId = GivenId
  NoId = NoId
  KeyId = KeyId
  MaxCalls = 3
  MaxLosses = 1
  NoLock = NoLock
  Stale = Stale
INVARIANTS ReportHonest AcknowledgedListed
PROPERTIES ExistingKept
SYMMETRY CallerSymmetry
