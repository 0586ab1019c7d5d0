SPECIFICATION FairSpec
CONSTANTS
  Pids = {p1, p2, p3}
  Nobody = Nobody
  Absent = Absent
  Empty = Empty
  Modes = {TRUE}
  OneAtATime = TRUE
  MaxCommands = 5
  MaxFailures = 2
INVARIANTS TypeOK PidfileNamesServer KillEffective PortReleased
PROPERTIES WaitReturns RestartServes
CHECK_DEADLOCK FALSE
