SPECIFICATION MCFairSpec
CONSTANTS
  r1 = r1  r2 = r2
  Runs = {r1, r2}
  Callers = {c1, c2}
  MaxAttempts <- RetriedAndPlain
  StoreFails = TRUE
  f1 = f1  f2 = f2  v1 = v1  v2 = v2
  Fields = {f1, f2}
  Values = {v1, v2}
  None = None
  MaxHead = 2
  Candidates <- SomeCandidates
INVARIANTS AttemptsSound PreparedProjects DraftSound
PROPERTIES KeepsContract CallsReturn
