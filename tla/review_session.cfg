SPECIFICATION MCSpec
CONSTANTS
  s1 = s1  s2 = s2  s3 = s3  v = v  c1 = c1
  Blank = Blank
  None = None
  Process = Process
  Values = {v, Blank}
  MaxItems = 1
  ItemSteps = {s3}
  Candidates <- SomeCandidates
  Sources <- SomeSources
  MaxCharacters = 3
  MaxBlocks = 2
  OverlapBlocks = 1
  Labels = {"pay", "check"}
  Responses <- SomeResponses
  Repairs = 1
INVARIANTS ReviewReloads PreflightComplete PlanCovers CandidateSound StatusTells
PROPERTIES ReviewRecorded
