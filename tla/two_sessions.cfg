SPECIFICATION Spec
CONSTANTS
  d1 = d1  d2 = d2  e1 = e1  e2 = e2  c1 = c1  c2 = c2
  NoDoc = NoDoc
  Docs = {d1}
  UnreadableDocs = {}
  Edits = {e1, e2}
  RequiredEdits = {e1}
  Clients = {c1, c2}
  Enabled <- PinningMethods
  FaultKinds = {"save"}
  MaxFaults = 1
  MaxArtifacts = 5
SYMMETRY Symmetry
CHECK_DEADLOCK FALSE
INVARIANTS ExactlyOnce OutcomesSound StartedIsHeld DeletedLeavesNothing
