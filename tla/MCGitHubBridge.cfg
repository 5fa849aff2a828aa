SPECIFICATION Spec
CONSTANTS
  Worker = {w1, w2}
  Path = {p, q}
  Branch = {main, dev}
  Default = main
  MaxCommits = 3
  MaxEdits = 4
SYMMETRY Swaps
INVARIANTS
  ConfirmedIsCommitted
  NoPushIsLost
PROPERTY EditsAreAtomic
\* With every edit handed out and every branch made nothing is left to do.
CHECK_DEADLOCK FALSE
