SPECIFICATION Spec
CONSTANTS
  Worker = {w1, w2}
  MaxTries = 2
  MaxCodes = 2
  MaxSessions = 1
SYMMETRY Swaps
INVARIANTS
  OldOnesEnd
  UsedOnce
  LockoutHolds
  SummitSignIns
\* With every code issued and ended nothing is left to do.
CHECK_DEADLOCK FALSE
