SPECIFICATION FairSpec
CONSTANTS
  Stream = {s1, s2}
  Ip = {a, b}
  MaxGlobal = 1
  MaxPerIp = 1
  NAgents = 2
  MaxChunks = 1
  TimeLimit = 1
INVARIANTS
  GateCounts
  DoneEndsStream
  AgentsTakeTurns
  SentIsStored
  AgeBounded
PROPERTIES
  StreamsEnd
CHECK_DEADLOCK FALSE
