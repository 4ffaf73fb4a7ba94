SPECIFICATION Spec
CONSTANTS
  JobIds = {j1, j2}
  Segments = {s1, s2}
  Models = {m1}
  Available = {m1}
  Keys = {k1}
  NoKey = NoKey
  AttemptLimits = {2}
  Errors <- MCErrors
  NoError = NoError
  Policies <- MCPolicies
  Sequences <- MCSequences
  Offsets <- MCOffsets
  NoWrite = NoWrite
SYMMETRY MCSymmetry
INVARIANTS
  TypeOK
  ServiceAndQueueAgree
  RecordFaithful
  ActiveJobShown
PROPERTIES
  NoLostUpdate
CHECK_DEADLOCK FALSE
