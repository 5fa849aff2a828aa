SPECIFICATION Spec
CONSTANTS
  Worker = {w1, w2}
  Core = {orkio, orion}
  Host = orkio
  Extra = extra
  MaxAgents = 3
  MaxLinks = 2
  MaxFiles = 2
  MaxRequests = 4
SYMMETRY Swaps
INVARIANT AlwaysATarget
CHECK_DEADLOCK FALSE
