SPECIFICATION FairSpec
CONSTANTS
  Base = 6
  Crc <- MCCrc
  NoData = NoData
  HostNames <- MCHostNames
  Paths <- MCPaths
  Preset <- MCPreset
  Threads = {t1, t2}
  Nobody = Nobody
  Script <- MCScript
INVARIANTS TypeOK StreamsFit RoundTrip ServerLearnsClient
PROPERTIES OneConversation CallsReturn
CHECK_DEADLOCK FALSE
