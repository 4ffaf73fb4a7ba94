SPECIFICATION SetupSpec
CONSTANTS
  p1 = p1
  p2 = p2
  A = A
  B = B
  Readme = Readme
  Callers = {p1, p2}
  Roots = {A, B}
  NoRoot = NoRoot
  Foreign = Foreign
  BadConfig = BadConfig
  Servers = {p1}
  Existing = {B}
  MaxMishaps = 1
  Contract <- MCContract
  ExplicitRoots = {A}
INVARIANTS
  ServedWorkspaceExists
  SelectionDurable
  LiveCaptureNotLeft
CHECK_DEADLOCK FALSE
