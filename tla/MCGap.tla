------------------------------- MODULE MCGap -------------------------------
(***************************************************************************)
(* The three parts of gap resolution, each explored on its own: they share *)
(* no state but the packages of the workspace.                             *)
(***************************************************************************)
EXTENDS GapProperties

VARIABLE part

MCInit == LegacyInit /\ AnswerInit /\ part \in {"answer", "legacy", "four_gate"}
MCNext ==
  /\ UNCHANGED part
  /\ \/ part = "answer" /\ AnswerNext /\ UNCHANGED legacyVars
     \/ part = "legacy" /\ LegacyNext /\ UNCHANGED answerVars
     \/ part = "four_gate" /\ FourGateNext /\ UNCHANGED <<operations, answerVars>>
MCSpec == MCInit /\ [][MCNext]_<<part, legacyVars, answerVars>>

\* The reassessments alone, under the fairness of their callers.
MCFairInit == MCInit /\ part = "legacy"
MCFairSpec == MCFairInit /\ [][MCNext]_<<part, legacyVars, answerVars>> /\ LegacyFairness
=============================================================================
