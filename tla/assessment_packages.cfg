SPECIFICATION InputsSpec
CONSTANTS
  Policy <- ProvisionalPolicy
  Signals <- TwoSignals
  Profiles <- OneActivity
INVARIANT AssessedIsPackaged
CHECK_DEADLOCK FALSE
