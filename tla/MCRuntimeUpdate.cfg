SPECIFICATION UpdateSpec
CONSTANTS
  p1 = p1
  Callers = {c1, c2}
  Nobody = Nobody
  Processes = {p1}
  ProcessOf <- OneProcess
  MaxRevision = 4
INVARIANTS
  NeverIncomplete
  OutcomeHonest
  OneWinner
PROPERTIES
  RegisterSpec
CHECK_DEADLOCK FALSE
