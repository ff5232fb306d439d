--------------------------- MODULE FourGateRules ----------------------------
(***************************************************************************)
(* The four-gate successor policy over one activity: evaluate_four_gates   *)
(* asks in order whether to change, whether it is ready, which kind of     *)
(* intervention and how much autonomy, and stops at the first gate that    *)
(* blocks on evidence or decides; the engine derives the outcome and the   *)
(* priority.  Every operator takes the inputs x of the activity.           *)
(***************************************************************************)
EXTENDS ActivityInputs

Result(status, code, material, context, signals, accountability, gaps) ==
  [status |-> status, code |-> code, material |-> material, context |-> context,
   signals |-> signals, accountability |-> accountability, gaps |-> gaps]
Blocked(material, context, signals, accountability, gaps) ==
  Result("BLOCKED_BY_EVIDENCE", "DISCOVERY_REQUIRED", material, context, signals, accountability, gaps)
Completed(code, material, context, signals, accountability) ==
  Result("COMPLETED", code, material, context, signals, accountability, {})
Constrained(code, material, context, accountability) ==
  Result("COMPLETED_WITH_CONSTRAINTS", code, material, context, {}, accountability, {})
NotEvaluated == Result("NOT_EVALUATED", "NOT_EVALUATED", {}, {}, {}, FALSE, {})

GateOne(x) ==
  IF ~SourceBacked(x) THEN Blocked({}, {}, {}, FALSE, {"activity"})
  ELSE IF Gap(x, "business_value")
    THEN Blocked({"business_value"}, {"repetition"}, {}, FALSE, {"business_value"})
  ELSE IF x["business_value"].value < Policy.minimum_business_value
    THEN Completed("NO_CHANGE_JUSTIFIED", {"business_value"}, {"repetition"}, {}, FALSE)
  ELSE Completed("CHANGE_JUSTIFIED", {"business_value"}, {"repetition"}, {}, FALSE)

ReadinessInputs == {"data_readiness", "implementation_complexity"}
ReadinessContext == {"repetition", "predictability", "ai_capability_fit"}
Blockers(x) ==
  {f \in ReadinessInputs :
    /\ Known(x, f)
    /\ IF f = "data_readiness"
       THEN x[f].value < Policy.minimum_data_readiness
       ELSE x[f].value > Policy.maximum_implementation_complexity_for_readiness}

\* Mutant: the readiness inputs that do not block are still material.
AllReadinessMaterial(x) ==
  Constrained("PROCESS_IMPROVEMENT_FIRST", ReadinessInputs,
              (ReadinessInputs \ Blockers(x)) \cup ReadinessContext, FALSE)

\* A blocker decides whatever else is unknown.
NotReady(x) ==
  Constrained("PROCESS_IMPROVEMENT_FIRST", Blockers(x),
              (ReadinessInputs \ Blockers(x)) \cup ReadinessContext, FALSE)

\* Mutant: a blocked gate asks for both inputs, the known one too.
AsksForBoth(x) ==
  IF Blockers(x) # {} THEN NotReady(x)
  ELSE IF Gaps(x, ReadinessInputs) # {}
    THEN Blocked(ReadinessInputs, ReadinessContext, {}, FALSE, ReadinessInputs)
  ELSE Completed("READY_FOR_INTERVENTION_SELECTION", ReadinessInputs, ReadinessContext, {}, FALSE)

GateTwo(x) ==
  IF Blockers(x) # {} THEN NotReady(x)
  ELSE IF Gaps(x, ReadinessInputs) # {}
    THEN Blocked(ReadinessInputs, ReadinessContext, {}, FALSE, Gaps(x, ReadinessInputs))
  ELSE Completed("READY_FOR_INTERVENTION_SELECTION", ReadinessInputs, ReadinessContext, {}, FALSE)

FitInputs == {"conventional_solution_fit", "ai_capability_fit"}
SupportedSignals(x) == {f \in Signals : Known(x, f) /\ IsTrue(x, f)}
\* One gap stands for all the signals that are unresolved.
SignalsGap == "capability_signals"
ASSUME SignalsGapAssumption == SignalsGap \notin Signals

\* Mutant: conventional software that nobody rated is taken not to fit.
UnratedFitIsLow(x) ==
  IF x["conventional_solution_fit"].value >= Policy.conventional_solution_fit_cutoff
    THEN Completed("CONVENTIONAL_AUTOMATION_SELECTED", {"conventional_solution_fit"}, {}, {}, FALSE)
  ELSE IF Gap(x, "ai_capability_fit")
    THEN Blocked(FitInputs, {}, {}, FALSE, {"ai_capability_fit"})
  ELSE IF x["ai_capability_fit"].value < Policy.minimum_ai_capability_fit
    THEN Completed("KEEP_HUMAN_LED_SELECTED", FitInputs, {}, {}, FALSE)
  ELSE IF SupportedSignals(x) # {}
    THEN Completed("AI_SELECTED", FitInputs, {}, SupportedSignals(x), FALSE)
  ELSE IF Gaps(x, Signals) # {}
    THEN Blocked(FitInputs, {}, Gaps(x, Signals), FALSE, {SignalsGap})
  ELSE Completed("KEEP_HUMAN_LED_SELECTED", FitInputs, {}, Signals, FALSE)

GateThree(x) ==
  IF Gap(x, "conventional_solution_fit")
    THEN Blocked({"conventional_solution_fit"}, {}, {}, FALSE, {"conventional_solution_fit"})
  ELSE IF x["conventional_solution_fit"].value >= Policy.conventional_solution_fit_cutoff
    THEN Completed("CONVENTIONAL_AUTOMATION_SELECTED", {"conventional_solution_fit"}, {}, {}, FALSE)
  ELSE IF Gap(x, "ai_capability_fit")
    THEN Blocked(FitInputs, {}, {}, FALSE, {"ai_capability_fit"})
  ELSE IF x["ai_capability_fit"].value < Policy.minimum_ai_capability_fit
    THEN Completed("KEEP_HUMAN_LED_SELECTED", FitInputs, {}, {}, FALSE)
  ELSE IF SupportedSignals(x) # {}
    THEN Completed("AI_SELECTED", FitInputs, {}, SupportedSignals(x), FALSE)
  ELSE IF Gaps(x, Signals) # {}
    THEN Blocked(FitInputs, {}, Gaps(x, Signals), FALSE, {SignalsGap})
  ELSE Completed("KEEP_HUMAN_LED_SELECTED", FitInputs, {}, Signals, FALSE)

Residual == "residual_risk_with_human_oversight"
Judgement == "human_judgement_requirement"
Risk == "risk_consequence"

Constraints(x) ==
     {f \in {Residual} : x[f].value >= Policy.augment_residual_risk}
  \cup {f \in {Judgement} : Known(x, f) /\ x[f].value >= Policy.augment_human_judgement}
  \cup {f \in {Risk} : Known(x, f) /\ x[f].value >= Policy.augment_risk_consequence}
  \cup {f \in {Accountability} : Known(x, f) /\ IsTrue(x, f)}

StrictlyFit(x) ==
  /\ x["data_readiness"].value >= Policy.automate_minimum_data_readiness
  /\ x[Judgement].value <= Policy.automate_maximum_human_judgement
  /\ x[Risk].value <= Policy.automate_maximum_risk_consequence
  /\ x[Residual].value <= Policy.automate_maximum_residual_risk
  /\ ~IsTrue(x, Accountability)

AutonomyInputs == {Residual, Judgement, Risk}
GateFour(x) ==
  IF Gap(x, Residual) THEN Blocked({Residual}, {}, {}, FALSE, {Residual})
  ELSE IF x[Residual].value >= Policy.unacceptable_residual_risk
    THEN Constrained("AI_NOT_PERMITTED", {Residual}, {}, FALSE)
  ELSE IF Constraints(x) # {}
    THEN Constrained("AI_ASSISTED_REQUIRED", {Residual} \cup (Constraints(x) \ {Accountability}),
                     {}, Accountability \in Constraints(x))
  ELSE IF Gaps(x, {Judgement, Risk, Accountability}) # {}
    THEN Blocked(AutonomyInputs, {}, {}, TRUE, Gaps(x, {Judgement, Risk, Accountability}))
  ELSE IF ~StrictlyFit(x) THEN Constrained("AI_ASSISTED_REQUIRED", AutonomyInputs, {}, TRUE)
  ELSE IF Gap(x, "predictability")
    THEN Blocked(AutonomyInputs \cup {"predictability"}, {}, {}, TRUE, {"predictability"})
  ELSE IF x["predictability"].value < Policy.automate_minimum_predictability
    THEN Constrained("AI_ASSISTED_REQUIRED", AutonomyInputs \cup {"predictability"}, {}, TRUE)
  ELSE Completed("AI_AUTOMATION_PERMITTED", AutonomyInputs \cup {"predictability"}, {}, {}, TRUE)

-----------------------------------------------------------------------------
(* evaluate_four_gates: the first gate that does not pass the activity on  *)
(* is the deciding one.                                                    *)
PassesOn == {"CHANGE_JUSTIFIED", "READY_FOR_INTERVENTION_SELECTION", "AI_SELECTED"}

DecidingGate(x) ==
  IF GateOne(x).code \notin PassesOn THEN 1
  ELSE IF GateTwo(x).code \notin PassesOn THEN 2
  ELSE IF GateThree(x).code \notin PassesOn THEN 3
  ELSE 4

Evaluated(x, g) ==
  CASE g = 1 -> GateOne(x) [] g = 2 -> GateTwo(x) [] g = 3 -> GateThree(x) [] g = 4 -> GateFour(x)
Deciding(x) == Evaluated(x, DecidingGate(x))

\* _finish: the gates after the deciding one are not evaluated.
GateResults(x) ==
  LET deciding == DecidingGate(x) IN
  [g \in 1..4 |-> IF g <= deciding THEN Evaluated(x, g) ELSE NotEvaluated]

BlockingGaps(x) == Deciding(x).gaps
Complete(x) == Deciding(x).status # "BLOCKED_BY_EVIDENCE"

\* The typed fields each return statement passes to _finish.
Change(x) ==
  IF DecidingGate(x) > 1 THEN "CHANGE_JUSTIFIED"
  ELSE IF Complete(x) THEN "NO_CHANGE_JUSTIFIED" ELSE "NOT_DETERMINED"
Readiness(x) ==
  IF DecidingGate(x) = 1 THEN "NOT_EVALUATED"
  ELSE IF DecidingGate(x) > 2 THEN "READY_FOR_INTERVENTION_SELECTION"
  ELSE IF Complete(x) THEN "PROCESS_IMPROVEMENT_FIRST" ELSE "NOT_DETERMINED"
Family(x) ==
  IF DecidingGate(x) = 4 THEN "AI"
  ELSE IF ~Complete(x) THEN "NOT_DETERMINED"
  ELSE IF DecidingGate(x) < 3 THEN "NOT_APPLICABLE"
  ELSE IF Deciding(x).code = "CONVENTIONAL_AUTOMATION_SELECTED"
    THEN "CONVENTIONAL_AUTOMATION" ELSE "KEEP_HUMAN_LED"
Autonomy(x) ==
  IF ~Complete(x) THEN "NOT_DETERMINED"
  ELSE IF DecidingGate(x) < 4 THEN "NOT_APPLICABLE"
  ELSE IF Deciding(x).code = "AI_NOT_PERMITTED" THEN "AI_NOT_PERMITTED"
  ELSE IF Deciding(x).code = "AI_ASSISTED_REQUIRED" THEN "AI_ASSISTED"
  ELSE "AI_AUTOMATION"

\* derive_outcome
Outcome(x) ==
  IF ~Complete(x) THEN "DISCOVERY_REQUIRED"
  ELSE IF Change(x) = "NO_CHANGE_JUSTIFIED" THEN "NO_CHANGE_JUSTIFIED"
  ELSE IF Readiness(x) = "PROCESS_IMPROVEMENT_FIRST" THEN "PROCESS_IMPROVEMENT_FIRST"
  ELSE IF Family(x) = "CONVENTIONAL_AUTOMATION" THEN "CONVENTIONAL_AUTOMATION"
  ELSE IF Family(x) = "KEEP_HUMAN_LED" \/ Autonomy(x) = "AI_NOT_PERMITTED" THEN "KEEP_HUMAN_LED"
  ELSE IF Autonomy(x) = "AI_ASSISTED" THEN "AI_ASSISTED_WORK"
  ELSE "AI_AUTOMATION"

-----------------------------------------------------------------------------
(* _evaluate_priority: a score in points out of 100 for the AI outcomes,   *)
(* none while a scoring input is missing.                                  *)
Eligible == {"AI_AUTOMATION", "AI_ASSISTED_WORK"}
PointsPerScaleUnit ==
  [business_value |-> 5, ai_capability_fit |-> 4, data_readiness |-> 3, predictability |-> 2,
   repetition |-> 2, risk_consequence |-> 2, implementation_complexity |-> 2]
ScoringCriteria == DOMAIN PointsPerScaleUnit

\* Mutant: risk and complexity count in favour of an activity.
HigherIsBetter(x, f) == x[f].value

Favourable(x, f) ==
  IF f \in {"risk_consequence", "implementation_complexity"} THEN 5 - x[f].value ELSE x[f].value

Contribution(x, f) == PointsPerScaleUnit[f] * Favourable(x, f)
Score(x) ==
  Contribution(x, "business_value") + Contribution(x, "ai_capability_fit")
  + Contribution(x, "data_readiness") + Contribution(x, "predictability")
  + Contribution(x, "repetition") + Contribution(x, "risk_consequence")
  + Contribution(x, "implementation_complexity")

MissingForPriority(x) == IF Outcome(x) \in Eligible THEN Gaps(x, ScoringCriteria) ELSE {}
PriorityStatus(x) ==
  IF Outcome(x) \notin Eligible THEN "NOT_APPLICABLE"
  ELSE IF MissingForPriority(x) = {} THEN "COMPLETE" ELSE "INCOMPLETE"
NoScore == -1
Priority(x) == IF PriorityStatus(x) = "COMPLETE" THEN Score(x) ELSE NoScore

=============================================================================
