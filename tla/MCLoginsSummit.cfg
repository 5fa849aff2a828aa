SPECIFICATION Spec
CONSTANTS
  Worker = {w1, w2}
  MaxTries = 2
  MaxCodes = 2
  MaxSessions = 2
INVARIANTS
  SummitNeedsPassword
