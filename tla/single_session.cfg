SPECIFICATION FairSpec
CONSTANTS
  d1 = d1  d2 = d2  e1 = e1  e2 = e2  c1 = c1  c2 = c2
  NoDoc = NoDoc
  Docs = {d1, d2}
  UnreadableDocs = {d2}
  Edits = {e1, e2}
  RequiredEdits = {e1}
  Clients = {c1}
  Enabled <- AllMethods
  FaultKinds = {"save", "engine", "crash"}
  MaxFaults = 1
  MaxArtifacts = 7
CHECK_DEADLOCK FALSE
INVARIANTS SoundChain
PROPERTIES ReviewKept CallsReturn
