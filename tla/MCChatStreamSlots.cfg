SPECIFICATION FairSpec
CONSTANTS
  Stream = {s1, s2}
  Ip = {a, b}
  MaxGlobal = 2
  MaxPerIp = 1
  NAgents = 1
  MaxChunks = 1
  TimeLimit = 1
PROPERTY SlotsComeBack
CHECK_DEADLOCK FALSE
