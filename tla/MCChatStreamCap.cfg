SPECIFICATION Spec
CONSTANTS
  Stream = {s1}
  Ip = {a, b}
  MaxGlobal = 1
  MaxPerIp = 1
  NAgents = 2
  MaxChunks = 1
  TimeLimit = 1
INVARIANT TotalCap
CHECK_DEADLOCK FALSE
