\* A reassessment comes to an end: two windows, one crash, a replaced package.
SPECIFICATION MCFairSpec
CONSTANTS
  MaxPackages = 2
  MaxPolicies = 1
  Documents = {d1}
  Findings = {"admissible"}
  Approvers = {"approver"}
  Windows = {w1, w2}
  MaxCrashes = 1
  Sessions = {s1}
  Answers = {a1}
  Decisions = {accept}
  MaxReplacements = 0
  MaxInterrupts = 0
PROPERTIES RunSettles
CHECK_DEADLOCK FALSE
