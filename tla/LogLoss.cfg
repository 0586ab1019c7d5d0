SPECIFICATION Spec
CONSTANTS
  p1 = p1
  p2 = p2
  Producers = {p1, p2}
  Script <- StopScript
  Records = {r1, r2, r3}
  NoRecord = NoRecord
  FreeMax = 1
  StopWhenIdle = FALSE
INVARIANTS NoRecordLost
CHECK_DEADLOCK FALSE
