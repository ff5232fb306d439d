---------------------------- MODULE GapProperties ----------------------------
(***************************************************************************)
(* What gap resolution promises: the answer to the optional question, and  *)
(* the controlled reassessment of either family.                           *)
(***************************************************************************)
EXTENDS LegacySuccessor, FourGateSuccessor, GapAnswer

Contract == INSTANCE SuccessorContract

\* Steps in order and once, nothing after an end: the family implements the
\* abstract contract although every call reads, decides and writes apart.
FollowsContract == Contract!Spec

\* Every run can be listed, and the operations recorded as completed are
\* those whose result was saved.
RecordsAgree ==
  /\ \A r \in Runs : Listed(r)
  /\ \A o \in DOMAIN operations :
       operations[o] = "COMPLETED" <=> o[2] \in DOMAIN saved[o[1]] /\ saved[o[1]][o[2]] = o[3]

\* The successor is assessed under the policy of the baseline it is compared with.
AssessedUnderPin == \A r \in Runs : under[r] # 0 => under[r] = packages[r]

Settled(r) ==
  \/ stage[r] \in Ends
  \/ stage[r] = "RESOLUTION_PROPOSED" /\ saved[r][3] = "unknown"
\* A run that was opened is compared, or has come to an end that says why not.
RunSettles == \A r \in Runs : (stage[r] = "OPEN") ~> Settled(r)

\* An answer is recorded once for a package and judged once in one way, and
\* the proof that nothing changed is of the package it was given for.
AnswersStand ==
  /\ \A i, j \in DOMAIN submissions : i # j => submissions[i] # submissions[j]
  /\ \A i, j \in DOMAIN reviews : i # j => reviews[i] # reviews[j]
  /\ \A i \in DOMAIN reviews : reviews[i].proof = submissions[reviews[i].submission].package

\* Calls that are made one after the other leave a workspace that loads.
LoadsUnlessOverlapped == Readable \/ overlapped

\* Answers are kept as they were given and judged, beside the package they are for.
AnswersSound == AnswersStand /\ LoadsUnlessOverlapped
=============================================================================
