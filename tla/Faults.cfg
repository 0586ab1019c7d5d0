SPECIFICATION FairSpec
CONSTANTS
  HLen = 2
  MarkLen = 1
  BLen <- MCTinyBLen
  Clients = {c1, c2}
  Flaky = {c1}
  Handlers = {h1, h2, h3}
  NoClient = NoClient
  FdLimit = 1
  ServerPieces = 3
  ClientPieces = 1
  AllowStop = TRUE
INVARIANTS Registry AcceptArmed
PROPERTIES ImplementsConnectService StopTerminates ClientsReleased
CHECK_DEADLOCK FALSE
