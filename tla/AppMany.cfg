SPECIFICATION Spec
CONSTANTS
  Pids = {p1, p2, p3, p4}
  Nobody = Nobody
  Absent = Absent
  Empty = Empty
  Modes = {TRUE, FALSE}
  OneAtATime = FALSE
  MaxCommands = 3
  MaxFailures = 1
SYMMETRY PidSymmetry
PROPERTIES TermIsGraceful
CHECK_DEADLOCK FALSE
