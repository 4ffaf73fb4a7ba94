SPECIFICATION ExecSpec
CONSTANTS
  w1 = w1
  w2 = w2
  p1 = p1
  p2 = p2
  NoOne = NoOne
  Writers = {w1, w2}
  MaxConcurrent = 2
  Processes = {p1, p2}
  Home <- HomeTwo
  OtherFailed = FALSE
  MaxAudio = 2
INVARIANTS
  ExecTypeOK
  OutcomeHonest
  TranscriptOfItsAudio
  OneExecution
PROPERTIES
  EvidenceNeverDeleted
  ExecutionEnds
CHECK_DEADLOCK FALSE
