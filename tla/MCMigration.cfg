SPECIFICATION MigrationSpec
CONSTANTS
  Callers = {c1, c2}
  Locks = {l1}
  NoLock = NoLock
  NoPlan = NoPlan
  Texts = {a, b}
  Current = 2
INVARIANTS
  MigrationTypeOK
  MutualExclusion
  BackupExact
  AnswerHonest
PROPERTIES
  WaitersServed
CHECK_DEADLOCK FALSE
