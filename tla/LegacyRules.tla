---------------------------- MODULE LegacyRules -----------------------------
(***************************************************************************)
(* The earlier policy over the same inputs: evaluate_gates recommends to   *)
(* automate, to augment, not to use AI or to investigate further.  It asks *)
(* for the technical fit first and for the value of a change after it, and *)
(* maps a capability from the raw value of a signal.                       *)
(***************************************************************************)
EXTENDS ActivityInputs

\* map_capabilities: whatever the signal rests on.
MappedSignals(x) == {f \in Signals : IsTrue(x, f)}

RoutesWork == "routes_or_orchestrates_work"
\* Conventional software is compared when the work looks deterministic or
\* the recorded fit, however known, is decisive.
ConventionalMaterial(x) ==
  \/ RoutesWork \in MappedSignals(x)
  \/ x["predictability"].value >= Policy.automate_minimum_predictability
  \/ x["conventional_solution_fit"].value >= Policy.conventional_solution_fit_cutoff

RiskInputs == {"human_judgement_requirement", "risk_consequence",
               "residual_risk_with_human_oversight"}

NeedsAHuman(x) ==
  \/ IsTrue(x, Accountability)
  \/ x["human_judgement_requirement"].value >= Policy.augment_human_judgement
  \/ x["risk_consequence"].value >= Policy.augment_risk_consequence
  \/ x["residual_risk_with_human_oversight"].value >= Policy.augment_residual_risk

\* Mutant: automation is permitted whatever the readiness of the data.
AnyDataAutomates(x) ==
  /\ x["predictability"].value >= Policy.automate_minimum_predictability
  /\ x["human_judgement_requirement"].value <= Policy.automate_maximum_human_judgement
  /\ x["risk_consequence"].value <= Policy.automate_maximum_risk_consequence
  /\ x["residual_risk_with_human_oversight"].value <= Policy.automate_maximum_residual_risk
  /\ ~IsTrue(x, Accountability)

AutomationEligible(x) ==
  /\ x["predictability"].value >= Policy.automate_minimum_predictability
  /\ x["data_readiness"].value >= Policy.automate_minimum_data_readiness
  /\ x["human_judgement_requirement"].value <= Policy.automate_maximum_human_judgement
  /\ x["risk_consequence"].value <= Policy.automate_maximum_risk_consequence
  /\ x["residual_risk_with_human_oversight"].value <= Policy.automate_maximum_residual_risk
  /\ ~IsTrue(x, Accountability)

-----------------------------------------------------------------------------
(* The four gates in their order: what a gate found material, and the mode *)
(* it decides, if it decides one.                                          *)
Undecided == "undecided"
GateResult(status, mode, material) == [status |-> status, mode |-> mode, material |-> material]
Passed(material) == GateResult("PASSED", Undecided, material)
MaterialGap(material) == GateResult("FAILED", "INVESTIGATE_FURTHER", material)
Rejected(material) == GateResult("FAILED", "DO_NOT_RECOMMEND", material)
Skipped == GateResult("NOT_EVALUATED", Undecided, {})

EvidenceGate(x) == IF ~SourceBacked(x) THEN MaterialGap({}) ELSE Passed({})

FitMaterial(x) ==
  {"ai_capability_fit"}
    \cup (IF ConventionalMaterial(x) THEN {"conventional_solution_fit"} ELSE {})
TechnicalGate(x) ==
  LET readied == FitMaterial(x) \cup {"data_readiness"} IN
  IF Gap(x, "ai_capability_fit") THEN MaterialGap({"ai_capability_fit"})
  ELSE IF MappedSignals(x) = {} \/ x["ai_capability_fit"].value < Policy.minimum_ai_capability_fit
    THEN Rejected({"ai_capability_fit"})
  ELSE IF ConventionalMaterial(x) /\ Gap(x, "conventional_solution_fit")
    THEN MaterialGap(FitMaterial(x))
  ELSE IF ConventionalMaterial(x)
          /\ x["conventional_solution_fit"].value >= Policy.conventional_solution_fit_cutoff
    THEN Rejected(FitMaterial(x))
  ELSE IF Gap(x, "data_readiness") \/ x["data_readiness"].value < Policy.minimum_data_readiness
    THEN MaterialGap(readied)
  ELSE Passed(readied)

ValueGate(x) ==
  IF Gap(x, "business_value") THEN MaterialGap({"business_value"})
  ELSE IF x["business_value"].value < Policy.minimum_business_value
    THEN Rejected({"business_value"})
  ELSE Passed({"business_value"})

Augmented(material) == GateResult("PASSED_WITH_CONSTRAINTS", "AUGMENT", material)
RiskGate(x) ==
  LET risks == RiskInputs \cup {Accountability}
      all == risks \cup {"predictability"} IN
  IF Gaps(x, risks) # {} THEN MaterialGap(risks)
  ELSE IF x["residual_risk_with_human_oversight"].value >= Policy.unacceptable_residual_risk
    THEN Rejected(risks)
  ELSE IF NeedsAHuman(x) THEN Augmented(risks)
  ELSE IF Gap(x, "predictability") THEN MaterialGap(all)
  ELSE IF ~AutomationEligible(x) THEN Augmented(all)
  ELSE GateResult("PASSED", "AUTOMATE", all)

\* evaluate_gates: the gates after the one that decides are not evaluated.
EvaluateGates(x) ==
  LET technical == TechnicalGate(x)
      value == ValueGate(x) IN
  IF EvidenceGate(x).mode # Undecided THEN <<EvidenceGate(x), Skipped, Skipped, Skipped>>
  ELSE IF technical.mode # Undecided THEN <<EvidenceGate(x), technical, Skipped, Skipped>>
  ELSE IF value.mode # Undecided THEN <<EvidenceGate(x), technical, value, Skipped>>
  ELSE <<EvidenceGate(x), technical, value, RiskGate(x)>>

Recommendation(x) ==
  LET technical == TechnicalGate(x).mode
      value == ValueGate(x).mode IN
  IF EvidenceGate(x).mode # Undecided THEN EvidenceGate(x).mode
  ELSE IF technical # Undecided THEN technical
  ELSE IF value # Undecided THEN value
  ELSE RiskGate(x).mode
=============================================================================
