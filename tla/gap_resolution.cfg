\* Answers beside the decision and the reassessments of both families: two
\* windows, one replaced package, one changed policy, one crash.
SPECIFICATION MCSpec
CONSTANTS
  MaxPackages = 2
  MaxPolicies = 2
  Documents = {d1}
  Findings = {"admissible", "rejected"}
  Approvers = {"approver"}
  Windows = {w1, w2}
  MaxCrashes = 1
  Sessions = {s1, s2}
  Answers = {a1, a2}
  Decisions = {accept, reject}
  MaxReplacements = 1
  MaxInterrupts = 1
CHECK_DEADLOCK FALSE
INVARIANTS RecordsAgree AssessedUnderPin AnswersSound
PROPERTIES FollowsContract
