SPECIFICATION Spec
CONSTANTS
  p1 = p1
  p2 = p2
  Producers = {p1, p2}
  Script <- QuietScript
  Records = {r1, r2, r3, r4, r5, r6}
  NoRecord = NoRecord
  FreeMax = 1
  StopWhenIdle = TRUE
SYMMETRY RecordSymmetry
INVARIANTS TypeOK OnePlace InOrder SettingsInOrder NoRecordLost CountersAgree FreeListBounded
CHECK_DEADLOCK FALSE
