SPECIFICATION InputsSpec
CONSTANTS
  Policy <- ProvisionalPolicy
  Signals <- TwoSignals
  Profiles <- Activities
INVARIANTS RecordsAccepted RestsOnEvidence FamiliesAgree
PROPERTIES DecidedIsFinal MoreRiskLessAutonomy AnswersAdvance
CHECK_DEADLOCK FALSE
