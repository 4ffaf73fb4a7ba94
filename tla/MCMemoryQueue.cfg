SPECIFICATION Spec
CONSTANTS
  JobIds = {j1, j2}
  Segments = {s1}
  Models = {m1}
  Keys = {k1}
  NoKey = NoKey
  AttemptLimits = {1, 2}
  Errors <- MCErrors
  NoError = NoError
  Policies <- MCPolicies
  MaxTime = 1
INVARIANTS
  EntriesValid
  NoOvertakenFirstAttempt
  OneClaimPerAttempt
PROPERTIES
  FinishedStays
CHECK_DEADLOCK FALSE
