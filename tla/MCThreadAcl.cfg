SPECIFICATION Spec
CONSTANTS
  Thread = {t1}
  User = {u1, u2}
  PlatformAdmin = {u2}
  Worker = {w1, w2}
  Assistant = Assistant
SYMMETRY Symmetry
INVARIANTS
  AccessIsGranted
  OwnerByCreationOrHealing
  OwnerKept
  DeletedStaysEmpty
\* A thread nobody owns or wrote in can no longer be reached, and the model
\* has no further thread identifier.
CHECK_DEADLOCK FALSE
