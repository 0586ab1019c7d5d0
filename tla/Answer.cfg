SPECIFICATION Spec
CONSTANTS
  HLen = 4
  MarkLen = 2
  BLen <- MCBLen
  Clients = {c1, c2}
  Flaky = {}
  Handlers = {h1, h2, h3}
  NoClient = NoClient
  FdLimit = 2
  ServerPieces = 1
  ClientPieces = 2
  AllowStop = FALSE
SYMMETRY Symmetry
INVARIANTS AnswerUnderstood
CHECK_DEADLOCK FALSE
