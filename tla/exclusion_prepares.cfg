\* The same instance: a candidate set that excludes what was not decided.
SPECIFICATION MCSpec
CONSTANTS
  Uploaders = {u1, u2}
  Tokens = {t1, t2, t3}
  Facts <- MCFacts
  Source = "source"
  Extensions = {"pdf", "txt"}
  MaxCurrent = 2
  MaxBytes = 3
  MaxDocuments = 3
  Sessions = {s1, s2}
  Docs = {d1}
  MaxAttempts = 2
  MaxStarts = 3
  Reviewers = {r1}
  Documents = {"d1", "d2", "d3"}
  Proposals = {"p1", "p2"}
  DocOf <- MCDocOf
  Order <- MCOrder
  Kinds = {"FACT", "INFERENCE", "REJECTED"}
  Dispositions = {"VALUE", "CONTEXT_ONLY"}
  MaxEvents = 6
INVARIANT CompleteIsPrepared
