-------------------------- MODULE PreliminaryRules --------------------------
(***************************************************************************)
(* The v0.1 preliminary evaluator over the same reviewed inputs: it reads  *)
(* documentary evidence and reviewed inferences only, selects the first    *)
(* deciding rule, and records for every material input the comparison that *)
(* made it so.  The result is a contract that recomputes the comparisons   *)
(* and refuses a trace that does not match.                                *)
(***************************************************************************)
EXTENDS ActivityInputs

\* _input_from_assertion: how the evaluator classifies an input.
Classification(i) ==
  CASE i.kind = "documented" -> "DOCUMENTED"
    [] i.kind \in {"inferred", "doubtful"} -> "REASONABLE_INFERENCE"
    [] i.kind = "conflicted" -> "CONFLICT"
    [] OTHER -> "UNKNOWN"
Unresolved(x, f) == Classification(x[f]) \in {"UNKNOWN", "CONFLICT"}
UnresolvedOf(x, fs) == {f \in fs : Unresolved(x, f)}

\* Thresholds of preliminary-evaluator-rules.v0.1, fixed by the rule set.
Rules == [business_value_minimum |-> 2, data_readiness_minimum |-> 2,
          implementation_complexity_ready_maximum |-> 4, conventional_solution_fit_cutoff |-> 4,
          ai_capability_fit_minimum |-> 3, residual_risk_veto_minimum |-> 4,
          assistance_residual_risk |-> 3, assistance_minimum |-> 3,
          automation_data_readiness_minimum |-> 4, automation_complexity_maximum |-> 3,
          automation_maximum |-> 2, automation_predictability_minimum |-> 4]

\* A material input with the comparison recorded for it.
Mark(f, operator, threshold) == [input |-> f, operator |-> operator, threshold |-> threshold]
Unmet(x, f) ==
  Mark(f, IF Classification(x[f]) = "CONFLICT" THEN "IS_CONFLICT" ELSE "IS_UNKNOWN", NoValue)

Matches(x, k) ==
  LET v == x[k.input].value IN
  CASE k.operator = "PRESENT" -> ~Unresolved(x, k.input)
    [] k.operator = "IS_UNKNOWN" -> Classification(x[k.input]) = "UNKNOWN"
    [] k.operator = "IS_CONFLICT" -> Classification(x[k.input]) = "CONFLICT"
    [] k.operator \in {"IS_TRUE", "IS_FALSE", "EQ"} -> ~Unresolved(x, k.input) /\ v = k.threshold
    [] k.operator = "LT" -> ~Unresolved(x, k.input) /\ v < k.threshold
    [] k.operator = "LTE" -> ~Unresolved(x, k.input) /\ v <= k.threshold
    [] k.operator = "GTE" -> ~Unresolved(x, k.input) /\ v >= k.threshold
    [] k.operator = "GT" -> ~Unresolved(x, k.input) /\ v > k.threshold

ReadyMarks == [data_readiness |-> Mark("data_readiness", "GTE", Rules.data_readiness_minimum),
               implementation_complexity |->
                 Mark("implementation_complexity", "LTE", Rules.implementation_complexity_ready_maximum)]
BlockMarks == [data_readiness |-> Mark("data_readiness", "LT", Rules.data_readiness_minimum),
               implementation_complexity |->
                 Mark("implementation_complexity", "GT", Rules.implementation_complexity_ready_maximum)]
Readied == DOMAIN ReadyMarks
Blocks(x, f) == ~Unresolved(x, f) /\ Matches(x, BlockMarks[f])

\* One of two unresolved: the other is recorded with its passing clause.
UnreadyMarks(x) ==
  {IF Unresolved(x, f) THEN Unmet(x, f) ELSE ReadyMarks[f] : f \in Readied}
ReadinessMarks(x) == {IF Blocks(x, f) THEN BlockMarks[f] ELSE ReadyMarks[f] : f \in Readied}

TrueSignals(x) == {f \in Signals : ~Unresolved(x, f) /\ IsTrue(x, f)}
NoCapability(x) ==
  {IF Unresolved(x, f) THEN Unmet(x, f) ELSE Mark(f, "IS_FALSE", 0) : f \in Signals}

PrelimAutonomy == {"human_judgement_requirement", "risk_consequence", Accountability,
                   "predictability"}
Assistance ==
  <<Mark("residual_risk_with_human_oversight", "EQ", Rules.assistance_residual_risk),
    Mark("data_readiness", "LT", Rules.automation_data_readiness_minimum),
    Mark("implementation_complexity", "GT", Rules.automation_complexity_maximum),
    Mark("human_judgement_requirement", "GTE", Rules.assistance_minimum),
    Mark("risk_consequence", "GTE", Rules.assistance_minimum),
    Mark(Accountability, "IS_TRUE", 1),
    Mark("predictability", "LT", Rules.automation_predictability_minimum)>>
Hits(x) == {i \in DOMAIN Assistance : Matches(x, Assistance[i])}
FirstHit(x) == Assistance[CHOOSE i \in Hits(x) : \A j \in Hits(x) : i <= j]
Automation ==
  {Mark("data_readiness", "GTE", Rules.automation_data_readiness_minimum),
   Mark("implementation_complexity", "LTE", Rules.automation_complexity_maximum),
   Mark("residual_risk_with_human_oversight", "LTE", Rules.automation_maximum),
   Mark("human_judgement_requirement", "LTE", Rules.automation_maximum),
   Mark("risk_consequence", "LTE", Rules.automation_maximum),
   Mark(Accountability, "IS_FALSE", 0),
   Mark("predictability", "GTE", Rules.automation_predictability_minimum)}

\* Marks of the stages before, which a later mark of the same input replaces.
After(marks, later) == {k \in marks : \A l \in later : l.input # k.input} \cup later

Selected(direction, marks) == [direction |-> direction, marks |-> marks]
Insufficient(marks) == Selected("INSUFFICIENT_BASIS", marks)

\* _select
Select(x) ==
  LET activity == {Mark("activity", "PRESENT", NoValue)}
      change == activity \cup {Mark("business_value", "GTE", Rules.business_value_minimum)}
      ready == change \cup {ReadyMarks[f] : f \in Readied}
      fit == ready \cup {Mark("conventional_solution_fit", "LT", Rules.conventional_solution_fit_cutoff)}
      ai == fit \cup {Mark("ai_capability_fit", "GTE", Rules.ai_capability_fit_minimum)}
      residual == "residual_risk_with_human_oversight"
      capable == {ai \cup {Mark(f, "IS_TRUE", 1)} : f \in TrueSignals(x)}
      permitted == {s \cup {Mark(residual, "LT", Rules.residual_risk_veto_minimum)} : s \in capable}
      one(sets) == CHOOSE s \in sets : TRUE
  IN
  IF Unresolved(x, "activity") THEN Insufficient({Unmet(x, "activity")})
  ELSE IF Unresolved(x, "business_value")
    THEN Insufficient(activity \cup {Unmet(x, "business_value")})
  ELSE IF x["business_value"].value < Rules.business_value_minimum
    THEN Selected("LIKELY_NO_CHANGE",
                  activity \cup {Mark("business_value", "LT", Rules.business_value_minimum)})
  ELSE IF UnresolvedOf(x, Readied) # {} THEN Insufficient(change \cup UnreadyMarks(x))
  ELSE IF \E f \in Readied : Blocks(x, f)
    THEN Selected("LIKELY_PROCESS_IMPROVEMENT_FIRST", change \cup ReadinessMarks(x))
  ELSE IF Unresolved(x, "conventional_solution_fit")
    THEN Insufficient(ready \cup {Unmet(x, "conventional_solution_fit")})
  ELSE IF x["conventional_solution_fit"].value >= Rules.conventional_solution_fit_cutoff
    THEN Selected("LIKELY_CONVENTIONAL_AUTOMATION",
                  ready \cup {Mark("conventional_solution_fit", "GTE", Rules.conventional_solution_fit_cutoff)})
  ELSE IF Unresolved(x, "ai_capability_fit")
    THEN Insufficient(fit \cup {Unmet(x, "ai_capability_fit")})
  ELSE IF x["ai_capability_fit"].value < Rules.ai_capability_fit_minimum
    THEN Selected("LIKELY_HUMAN_LED",
                  fit \cup {Mark("ai_capability_fit", "LT", Rules.ai_capability_fit_minimum)})
  ELSE IF TrueSignals(x) = {}
    THEN IF UnresolvedOf(x, Signals) # {} THEN Insufficient(ai \cup NoCapability(x))
         ELSE Selected("LIKELY_HUMAN_LED", ai \cup NoCapability(x))
  ELSE IF Unresolved(x, residual) THEN Insufficient(one(capable) \cup {Unmet(x, residual)})
  ELSE IF x[residual].value >= Rules.residual_risk_veto_minimum
    THEN Selected("LIKELY_HUMAN_LED",
                  one(capable) \cup {Mark(residual, "GTE", Rules.residual_risk_veto_minimum)})
  ELSE IF UnresolvedOf(x, PrelimAutonomy) # {}
    THEN Selected("POTENTIAL_AI_ASSISTED_AUTONOMY_UNKNOWN",
                  one(permitted) \cup {Unmet(x, f) : f \in UnresolvedOf(x, PrelimAutonomy)})
  ELSE IF Hits(x) # {}
    THEN Selected("POTENTIAL_AI_ASSISTED_WORK", After(one(permitted), {FirstHit(x)}))
  ELSE Selected("POTENTIAL_AI_AUTOMATION", After(one(permitted), Automation))

Direction(x) == Select(x).direction
MaterialInferences(x) ==
  {k \in Select(x).marks : Classification(x[k.input]) = "REASONABLE_INFERENCE"}
Confidence(x) ==
  IF \/ Direction(x) \in {"INSUFFICIENT_BASIS", "POTENTIAL_AI_ASSISTED_AUTONOMY_UNKNOWN"}
     \/ Cardinality(MaterialInferences(x)) >= 2
  THEN "LOW"
  ELSE IF MaterialInferences(x) # {} THEN "MEDIUM" ELSE "HIGH"

\* validate_trace_semantics: otherwise the evaluation fails as a whole.
TraceAccepted(x) == \A k \in Select(x).marks : Matches(x, k)
Fails(x) == ~TraceAccepted(x)
=============================================================================
