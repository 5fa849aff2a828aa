SPECIFICATION FairSpec
CONSTANTS
  m1 = m1
  op = op
  w1 = w1
  w2 = w2
  Msg = {m1, op}
  Ops = {op}
  Worker = {w1, w2}
  NAgents = 2
  Turns = 1
  MaxAttempts = 2
  MaxCrashes = 1
INVARIANTS
  AnswersAreAPrefix
  CommitsAreReported
  AnswersAreCosted
  GuidanceIsBounded
PROPERTY AttemptsEnd
