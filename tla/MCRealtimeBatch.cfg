SPECIFICATION Spec
CONSTANTS
  s1 = s1
  s2 = s2
  r1 = r1
  w1 = w1
  w2 = w2
  Event = {s1, s2, r1}
  Said = {s1, s2}
  Reply = {r1}
  Worker = {w1, w2}
  MaxSends = 2
  MaxCrashes = 1
PROPERTY BatchesStayOut
CHECK_DEADLOCK FALSE
