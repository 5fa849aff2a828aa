SPECIFICATION Spec
CONSTANTS
  Thread = {t1}
  User = {u1, u2, u3}
  PlatformAdmin = {}
  Worker = {w1, w2}
  Assistant = Assistant
SYMMETRY Symmetry
INVARIANT HealsOnlyLegacyThreads
CHECK_DEADLOCK FALSE
