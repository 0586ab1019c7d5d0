SPECIFICATION Spec
CONSTANTS
  Main = 1
  Versions <- MCVersions
  Weight <- MCWeight
  DefaultLimit = 1
  MaxEdits = 1
  Threads = {t1, t2}
  NoFile = NoFile
  Day = 2
  Word = 12
  MB = 3
  RecLen = 2
  ForceReserve = 1
  FirstReserve = 3
  Reserves = {1}
  Interval = 1
  Lag = 1
  MaxTime = 5
  MaxRecords = 3
  MaxChanges = 1
  MaxFailures = 1
SYMMETRY ThreadSymmetry
INVARIANTS TypeOK CounterExact LimitKept TextInForce
PROPERTIES RecordReachesFile ReserveHonoured
