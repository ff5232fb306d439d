------------------------- MODULE DecisionProperties -------------------------
(***************************************************************************)
(* What the rule sets promise of one activity as its inputs are reviewed   *)
(* and reassessed, each alone and beside one another.                      *)
(***************************************************************************)
EXTENDS DecisionRecords, PreliminaryRules

(* What the approval projects is what an assessment expects of it, so an   *)
(* untouched approval is assessed unless the policy or the engine fails,   *)
(* and one of which a rating was altered since is refused (assess).        *)
Altered(a, f) ==
  [a EXCEPT !.process.rated[f] = IF @ = Unprojected THEN Found(2) ELSE Unprojected]
Assessable(x, c) ==
  LET a == ApprovedReview(x, c) IN
  /\ \A fault \in Faults : AssessFourGate(a, x, c, fault).ok <=> (fault = "none")
  /\ AssessLegacy(a, x, c, "none").ok
  /\ \A f \in {"data_readiness", Accountability} : ~AssessFourGate(Altered(a, f), x, c, "none").ok

(* The typed record of an evaluation is one its own contract accepts: the  *)
(* combination of fields is closed, the deciding gate and the codes before *)
(* it follow from the fields, gaps exist exactly for a discovery and the   *)
(* later gates claim nothing.  Every assessment is packaged unless the     *)
(* review excluded a value, or the activity cites a sentence that neither  *)
(* its name nor the decision rests on.  A preliminary trace is accepted    *)
(* unless one readiness input is missing while the other already blocks.   *)
(* four_gate_gates.evaluate_four_gates against                             *)
(* FourGateStepAssessment.validate_closed_contract and                     *)
(* FourGateDecisionSupportPackageService.generate.                         *)
ExcludedValue(x) == \E f \in Rated : x[f].kind = "excluded"
StraySentence(x, c) ==
  \E f \in {g \in StepFields : Collected(x, g)} :
    \A g \in {"activity"} \cup Material(x) : Collected(x, g) => c[g] # c[f]
HalfBlocked(x) == UnresolvedOf(x, Readied) # {} /\ \E f \in Readied : Blocks(x, f)
RecordsAccepted ==
  /\ RecordAccepted(inputs)
  /\ \A c \in Citations :
       /\ Assessable(inputs, c)
       /\ Packaged(inputs, c) \/ ExcludedValue(inputs) \/ StraySentence(inputs, c)
  /\ LegacyPackaged(inputs) \/ ExcludedValue(inputs)
  /\ TraceAccepted(inputs) \/ HalfBlocked(inputs)

(* A package that is called complete rests on known criteria; one that     *)
(* plans a deployment misses nothing its mode was decided by, has the      *)
(* readiness of inferred data validated and leaves an accountable decision *)
(* with its owner (decision_support/portfolio.py and roadmap.py).          *)
PackageHonest(x, p) ==
  LET deployed == "DEPLOYMENT_DECISION" \in {p.stages[i] : i \in DOMAIN p.stages} IN
  /\ p.completeness = "COMPLETE" =>
       \A f \in Criteria \cap (LegacyMaterial(x) \cup LegacyScored(x)) :
         x[f].kind \in {"documented", "conflicted"}
  /\ deployed =>
       /\ \A g \in p.missing : g.recommendation => g.kind = "INFERRED_REQUIRES_CONFIRMATION"
       /\ x["data_readiness"].kind \notin {"documented", "conflicted"} =>
            p.stages[2] = "DATA_READINESS_VALIDATION"
       /\ IsTrue(x, Accountability) => "DECISION_OWNER" \in p.roles

(* A decision rests on sufficient evidence alone: an input that is         *)
(* material at an evaluated gate of a complete decision is no gap, one     *)
(* that is material where the evaluation stopped is asked for, and no      *)
(* question it asks is also called context.  A preliminary direction is    *)
(* of high confidence only if all it rests on is documented.  The package  *)
(* of the earlier policy is honest about what it rests on.                 *)
RestsOnEvidence ==
  /\ \A g \in 1..DecidingGate(inputs) :
       LET r == GateResults(inputs)[g] IN
       Gaps(inputs, r.material) \subseteq r.gaps /\ (Gaps(inputs, r.signals) # {} => r.gaps # {})
  /\ BlockingGaps(inputs) \cap ContextualUnknowns(inputs) = {}
  /\ MissingForPriority(inputs) # {} => Complete(inputs)
  /\ Confidence(inputs) = "HIGH" =>
       \A k \in Select(inputs).marks : inputs[k.input].kind = "documented"
  /\ PackageHonest(inputs, LegacyPackage(inputs))

\* Preliminary directions that more evidence may still change.
Open == {"INSUFFICIENT_BASIS", "POTENTIAL_AI_ASSISTED_AUTONOMY_UNKNOWN"}
KeepsDecision ==
  /\ (Complete(inputs) /\ Learned) =>
       /\ Outcome(inputs') = Outcome(inputs)
       /\ DecidingGate(inputs') = DecidingGate(inputs)
       /\ PriorityStatus(inputs) = "COMPLETE" => Priority(inputs') = Priority(inputs)
  /\ (Direction(inputs) \notin Open /\ \A f \in Changed : Unresolved(inputs, f)) =>
       Direction(inputs') = Direction(inputs)
  /\ (Recommendation(inputs) = "AUTOMATE" /\ Learned /\ Changed \cap Signals = {}) =>
       Recommendation(inputs') = "AUTOMATE"

(* What is decided is not undecided by learning more: when an input that   *)
(* was insufficient becomes known, and no evidence is taken back (which    *)
(* alone could leave the activity without a source), a complete four-gate  *)
(* decision keeps its outcome, its deciding gate and its score; a          *)
(* preliminary direction stays when an unresolved input is resolved; a     *)
(* recommendation to automate under the earlier policy stays unless the    *)
(* input is a signal, because that policy maps signals from raw values.    *)
DecidedIsFinal == [][KeepsDecision]_inputs

AutonomyRank(x) ==
  CASE Outcome(x) = "AI_AUTOMATION" -> 2 [] Outcome(x) = "AI_ASSISTED_WORK" -> 1 [] OTHER -> 0
LegacyRank(x) ==
  CASE Recommendation(x) = "AUTOMATE" -> 2 [] Recommendation(x) = "AUGMENT" -> 1 [] OTHER -> 0
PreliminaryRank(x) ==
  CASE Direction(x) = "POTENTIAL_AI_AUTOMATION" -> 2
    [] Direction(x) = "POTENTIAL_AI_ASSISTED_WORK" -> 1 [] OTHER -> 0

EarnsNoMore ==
  /\ (Complete(inputs) /\ Complete(inputs')) => AutonomyRank(inputs') <= AutonomyRank(inputs)
  /\ (Outcome(inputs) = Outcome(inputs') /\ PriorityStatus(inputs) = "COMPLETE"
      /\ PriorityStatus(inputs') = "COMPLETE") => Priority(inputs') <= Priority(inputs)
  /\ Recommendation(inputs) # "INVESTIGATE_FURTHER" => LegacyRank(inputs') <= LegacyRank(inputs)
  /\ Direction(inputs) \notin Open => PreliminaryRank(inputs') <= PreliminaryRank(inputs)

(* A worse value never earns more autonomy: when the value of a sufficient *)
(* criterion gets worse, an activity that was decided before gets no more  *)
(* autonomy than it had from any rule set, and the same outcome scores no  *)
(* higher.                                                                 *)
MoreRiskLessAutonomy == [][Worsened => EarnsNoMore]_inputs

(* An answer to what was asked moves the evaluation on: an input that was  *)
(* named as a blocking gap and becomes sufficient is not asked for again,  *)
(* and the evaluation does not stop at an earlier gate.  An activity that  *)
(* is opened for reassessment is projected and assessed whatever readiness *)
(* of its data is found, packaged unless it cites a sentence that the new  *)
(* decision no longer rests on, and never comes back without a formal      *)
(* change of its decision (open_context to compare, of both families).     *)
ReassessmentSettles(x, v) ==
  /\ \A c \in Citations : OpensContext(x, c) =>
       /\ Reassessed(x, c, v)
       /\ Repackaged(x, c, v) \/ StraySentence(Successor(x, v), SuccessorCites(c))
       /\ "NO_FORMAL_DECISION_CHANGE" \notin Categories(x, Successor(x, v))
       /\ FinalRecommendation(Successor(x, v)) # FinalRecommendation(x)
  /\ LegacyOpens(x) =>
       \A c \in Citations :
         LegacyReassessed(x, c, v) /\ "CRITERION_CHANGE" \in LegacyCategories(x, Successor(x, v))
Advances ==
  /\ (Changed \subseteq BlockingGaps(inputs) /\ \A f \in Changed : Known(inputs', f)) =>
       /\ Changed \cap BlockingGaps(inputs') = {}
       /\ DecidingGate(inputs') >= DecidingGate(inputs)
  /\ (Changed = {"data_readiness"} /\ inputs'["data_readiness"].kind = "documented") =>
       ReassessmentSettles(inputs, inputs'["data_readiness"].value)
AnswersAdvance == [][Advances]_inputs

\* The kind of change that the evaluator should find for an outcome.
Kind(x) ==
  CASE Outcome(x) = "NO_CHANGE_JUSTIFIED" -> {"LIKELY_NO_CHANGE"}
    [] Outcome(x) = "PROCESS_IMPROVEMENT_FIRST" -> {"LIKELY_PROCESS_IMPROVEMENT_FIRST"}
    [] Outcome(x) = "CONVENTIONAL_AUTOMATION" -> {"LIKELY_CONVENTIONAL_AUTOMATION"}
    [] Outcome(x) = "KEEP_HUMAN_LED" -> {"LIKELY_HUMAN_LED"}
    [] OTHER -> {"POTENTIAL_AI_ASSISTED_WORK", "POTENTIAL_AI_AUTOMATION"}
AllDocumented == \A f \in Rated \cup {"activity"} : inputs[f].kind = "documented"
\* The thresholds that the rules of the evaluator share with the policy.
SharedThresholds ==
  /\ Policy.minimum_business_value = Rules.business_value_minimum
  /\ Policy.minimum_data_readiness = Rules.data_readiness_minimum
  /\ Policy.maximum_implementation_complexity_for_readiness
       = Rules.implementation_complexity_ready_maximum
  /\ Policy.conventional_solution_fit_cutoff = Rules.conventional_solution_fit_cutoff
  /\ Policy.minimum_ai_capability_fit = Rules.ai_capability_fit_minimum
  /\ Policy.unacceptable_residual_risk = Rules.residual_risk_veto_minimum

(* On fully documented inputs the rule sets agree on the kind of change,   *)
(* and what the successor policy lets a machine do alone the earlier one   *)
(* lets it do as well; the converse needs the complexity it added.         *)
FamiliesAgree ==
  /\ AllDocumented => Direction(inputs) \in Kind(inputs)
  /\ Outcome(inputs) = "AI_AUTOMATION" => Recommendation(inputs) = "AUTOMATE"
  /\ (/\ AllDocumented /\ Recommendation(inputs) = "AUTOMATE"
      /\ inputs["implementation_complexity"].value
           <= Policy.maximum_implementation_complexity_for_readiness) =>
       Outcome(inputs) = "AI_AUTOMATION"

(* Phase 6 "accepts only successful phase5-v0.2 successor assessments and  *)
(* returns deterministic phase6-v0.2 structured package": whatever was     *)
(* assessed without an excluded value is packaged.                         *)
AssessedIsPackaged ==
  \A c \in Citations :
    AssessFourGate(ApprovedReview(inputs, c), inputs, c, "none").ok =>
      Packaged(inputs, c) \/ ExcludedValue(inputs)
=============================================================================
