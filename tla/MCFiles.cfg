SPECIFICATION Spec
CONSTANTS
  Worker = {w1, w2}
  Core = {orkio, orion}
  Host = orkio
  Extra = extra
  MaxAgents = 3
  MaxLinks = 2
  MaxFiles = 1
  MaxRequests = 4
SYMMETRY Swaps
INVARIANTS
  SilentLossIsFlagged
  DecisionHolds
  OneDefault
  LinksAreOnePut
CHECK_DEADLOCK FALSE
