SPECIFICATION FairSpec
CONSTANTS
  HLen = 4
  MarkLen = 2
  BLen <- MCBLen
  Clients = {c1, c2}
  Flaky = {}
  Handlers = {h1, h2, h3}
  NoClient = NoClient
  FdLimit = 2
  ServerPieces = 2
  ClientPieces = 1
  AllowStop = FALSE
INVARIANTS NoStall
PROPERTIES EveryConnectAnswered EverySessionReleased
CHECK_DEADLOCK FALSE
