--------------------------- MODULE DecisionProofs ---------------------------
(***************************************************************************)
(* What is proved of the rule sets, for every policy whose thresholds are  *)
(* ordered, every set of signals and every activity.                       *)
(*                                                                         *)
(* Each rule set is first reduced to the case distinction by which it      *)
(* decides, without what its gates record beside it (OutcomeIs,            *)
(* RecommendationIs, DirectionIs).  What a change of one input does to the *)
(* decision is then a comparison of two such case distinctions, lemma by   *)
(* lemma for two sets of inputs x and y, and the theorems apply it to the  *)
(* inputs before and after a step.                                         *)
(***************************************************************************)
EXTENDS DecisionProperties, TLAPS

\* What an input of the type may be.
LEMMA ItemFacts ==
  ASSUME NEW x \in Inputs, NEW f \in Fields
  PROVE  /\ x[f].kind \in Kinds /\ x[f].value \in -1 .. 5
         /\ x[f].kind \in Empty <=> x[f].value = NoValue
         /\ Known(x, f) => x[f].value \in 0 .. 5
         /\ f \notin Criteria => x[f].value <= 1
  BY DEF Inputs, Items, Known, Gap, Sufficient, NoValue, Empty

LEMMA CriteriaAreFields ==
  /\ Criteria \subseteq Fields /\ Accountability \in Fields /\ Signals \subseteq Fields
  /\ StepFields \subseteq Fields
  /\ Accountability \notin Criteria /\ "activity" \in Fields
  /\ {"repetition", "predictability", "data_readiness", "ai_capability_fit", "business_value",
      "implementation_complexity", "conventional_solution_fit"} \subseteq Criteria
  /\ {Residual, Judgement, Risk} \subseteq Criteria
  BY DEF Fields, Rated, Texts, Criteria, Accountability, StepFields, Residual, Judgement, Risk

-----------------------------------------------------------------------------
(* What a gate decides, without what it records beside it.                 *)
LEMMA GateOneCode ==
  ASSUME NEW x
  PROVE  /\ GateOne(x).code =
              IF ~SourceBacked(x) \/ Gap(x, "business_value") THEN "DISCOVERY_REQUIRED"
              ELSE IF x["business_value"].value < Policy.minimum_business_value
                THEN "NO_CHANGE_JUSTIFIED" ELSE "CHANGE_JUSTIFIED"
         /\ GateOne(x).status = "BLOCKED_BY_EVIDENCE" <=> GateOne(x).code = "DISCOVERY_REQUIRED"
  BY DEF GateOne, Blocked, Completed, Result

LEMMA GateTwoCode ==
  ASSUME NEW x
  PROVE  /\ GateTwo(x).code =
              IF Blockers(x) # {} THEN "PROCESS_IMPROVEMENT_FIRST"
              ELSE IF Gaps(x, ReadinessInputs) # {} THEN "DISCOVERY_REQUIRED"
              ELSE "READY_FOR_INTERVENTION_SELECTION"
         /\ GateTwo(x).status = "BLOCKED_BY_EVIDENCE" <=> GateTwo(x).code = "DISCOVERY_REQUIRED"
  BY DEF GateTwo, NotReady, Blocked, Completed, Constrained, Result

LEMMA GateThreeCode ==
  ASSUME NEW x
  PROVE  /\ GateThree(x).code =
              IF Gap(x, "conventional_solution_fit") THEN "DISCOVERY_REQUIRED"
              ELSE IF x["conventional_solution_fit"].value >= Policy.conventional_solution_fit_cutoff
                THEN "CONVENTIONAL_AUTOMATION_SELECTED"
              ELSE IF Gap(x, "ai_capability_fit") THEN "DISCOVERY_REQUIRED"
              ELSE IF x["ai_capability_fit"].value < Policy.minimum_ai_capability_fit
                THEN "KEEP_HUMAN_LED_SELECTED"
              ELSE IF SupportedSignals(x) # {} THEN "AI_SELECTED"
              ELSE IF Gaps(x, Signals) # {} THEN "DISCOVERY_REQUIRED"
              ELSE "KEEP_HUMAN_LED_SELECTED"
         /\ GateThree(x).status = "BLOCKED_BY_EVIDENCE" <=> GateThree(x).code = "DISCOVERY_REQUIRED"
  BY DEF GateThree, Blocked, Completed, Result

LEMMA GateFourCode ==
  ASSUME NEW x
  PROVE  /\ GateFour(x).code =
              IF Gap(x, Residual) THEN "DISCOVERY_REQUIRED"
              ELSE IF x[Residual].value >= Policy.unacceptable_residual_risk THEN "AI_NOT_PERMITTED"
              ELSE IF Constraints(x) # {} THEN "AI_ASSISTED_REQUIRED"
              ELSE IF Gaps(x, {Judgement, Risk, Accountability}) # {} THEN "DISCOVERY_REQUIRED"
              ELSE IF ~StrictlyFit(x) THEN "AI_ASSISTED_REQUIRED"
              ELSE IF Gap(x, "predictability") THEN "DISCOVERY_REQUIRED"
              ELSE IF x["predictability"].value < Policy.automate_minimum_predictability
                THEN "AI_ASSISTED_REQUIRED" ELSE "AI_AUTOMATION_PERMITTED"
         /\ GateFour(x).status = "BLOCKED_BY_EVIDENCE" <=> GateFour(x).code = "DISCOVERY_REQUIRED"
  BY DEF GateFour, Blocked, Completed, Constrained, Result

(* The outcome is that of the first gate that does not pass the activity   *)
(* on.                                                                     *)
LEMMA OutcomeIs ==
  ASSUME NEW x
  PROVE  /\ Outcome(x) =
              IF GateOne(x).code = "DISCOVERY_REQUIRED" THEN "DISCOVERY_REQUIRED"
              ELSE IF GateOne(x).code = "NO_CHANGE_JUSTIFIED" THEN "NO_CHANGE_JUSTIFIED"
              ELSE IF GateTwo(x).code = "DISCOVERY_REQUIRED" THEN "DISCOVERY_REQUIRED"
              ELSE IF GateTwo(x).code = "PROCESS_IMPROVEMENT_FIRST" THEN "PROCESS_IMPROVEMENT_FIRST"
              ELSE IF GateThree(x).code = "DISCOVERY_REQUIRED" THEN "DISCOVERY_REQUIRED"
              ELSE IF GateThree(x).code = "CONVENTIONAL_AUTOMATION_SELECTED"
                THEN "CONVENTIONAL_AUTOMATION"
              ELSE IF GateThree(x).code = "KEEP_HUMAN_LED_SELECTED" THEN "KEEP_HUMAN_LED"
              ELSE IF GateFour(x).code = "DISCOVERY_REQUIRED" THEN "DISCOVERY_REQUIRED"
              ELSE IF GateFour(x).code = "AI_NOT_PERMITTED" THEN "KEEP_HUMAN_LED"
              ELSE IF GateFour(x).code = "AI_ASSISTED_REQUIRED" THEN "AI_ASSISTED_WORK"
              ELSE "AI_AUTOMATION"
         /\ DecidingGate(x) =
              IF GateOne(x).code # "CHANGE_JUSTIFIED" THEN 1
              ELSE IF GateTwo(x).code # "READY_FOR_INTERVENTION_SELECTION" THEN 2
              ELSE IF GateThree(x).code # "AI_SELECTED" THEN 3 ELSE 4
         /\ Complete(x) <=> Outcome(x) # "DISCOVERY_REQUIRED"
  <1>1. /\ GateOne(x).code \in {"DISCOVERY_REQUIRED", "NO_CHANGE_JUSTIFIED", "CHANGE_JUSTIFIED"}
        /\ GateOne(x).status = "BLOCKED_BY_EVIDENCE" <=> GateOne(x).code = "DISCOVERY_REQUIRED"
    BY GateOneCode
  <1>2. /\ GateTwo(x).code \in {"DISCOVERY_REQUIRED", "PROCESS_IMPROVEMENT_FIRST",
                                "READY_FOR_INTERVENTION_SELECTION"}
        /\ GateTwo(x).status = "BLOCKED_BY_EVIDENCE" <=> GateTwo(x).code = "DISCOVERY_REQUIRED"
    BY GateTwoCode
  <1>3. /\ GateThree(x).code \in {"DISCOVERY_REQUIRED", "CONVENTIONAL_AUTOMATION_SELECTED",
                                  "KEEP_HUMAN_LED_SELECTED", "AI_SELECTED"}
        /\ GateThree(x).status = "BLOCKED_BY_EVIDENCE" <=> GateThree(x).code = "DISCOVERY_REQUIRED"
    BY GateThreeCode
  <1>4. /\ GateFour(x).code \in {"DISCOVERY_REQUIRED", "AI_NOT_PERMITTED", "AI_ASSISTED_REQUIRED",
                                 "AI_AUTOMATION_PERMITTED"}
        /\ GateFour(x).status = "BLOCKED_BY_EVIDENCE" <=> GateFour(x).code = "DISCOVERY_REQUIRED"
    BY GateFourCode
  <1>5. DecidingGate(x) =
              IF GateOne(x).code # "CHANGE_JUSTIFIED" THEN 1
              ELSE IF GateTwo(x).code # "READY_FOR_INTERVENTION_SELECTION" THEN 2
              ELSE IF GateThree(x).code # "AI_SELECTED" THEN 3 ELSE 4
    BY <1>1, <1>2, <1>3, <1>4 DEF DecidingGate, PassesOn
  <1>6. /\ DecidingGate(x) = 1 => Deciding(x) = GateOne(x)
        /\ DecidingGate(x) = 2 => Deciding(x) = GateTwo(x)
        /\ DecidingGate(x) = 3 => Deciding(x) = GateThree(x)
        /\ DecidingGate(x) = 4 => Deciding(x) = GateFour(x)
    BY DEF Deciding, Evaluated
  <1>7. Complete(x) <=> Deciding(x).code # "DISCOVERY_REQUIRED"
    BY <1>1, <1>2, <1>3, <1>4, <1>5, <1>6 DEF Complete
  <1>. QED
    BY <1>1, <1>2, <1>3, <1>4, <1>5, <1>6, <1>7 DEF Outcome, Change, Readiness, Family, Autonomy

-----------------------------------------------------------------------------
(* Which preliminary direction is selected, without the comparisons that   *)
(* are recorded for it.                                                    *)
LEMMA DirectionIs ==
  ASSUME NEW x
  PROVE  Direction(x) =
           IF Unresolved(x, "activity") \/ Unresolved(x, "business_value") THEN "INSUFFICIENT_BASIS"
           ELSE IF x["business_value"].value < Rules.business_value_minimum THEN "LIKELY_NO_CHANGE"
           ELSE IF UnresolvedOf(x, Readied) # {} THEN "INSUFFICIENT_BASIS"
           ELSE IF \E f \in Readied : Blocks(x, f) THEN "LIKELY_PROCESS_IMPROVEMENT_FIRST"
           ELSE IF Unresolved(x, "conventional_solution_fit") THEN "INSUFFICIENT_BASIS"
           ELSE IF x["conventional_solution_fit"].value >= Rules.conventional_solution_fit_cutoff
             THEN "LIKELY_CONVENTIONAL_AUTOMATION"
           ELSE IF Unresolved(x, "ai_capability_fit") THEN "INSUFFICIENT_BASIS"
           ELSE IF x["ai_capability_fit"].value < Rules.ai_capability_fit_minimum
             THEN "LIKELY_HUMAN_LED"
           ELSE IF TrueSignals(x) = {}
             THEN IF UnresolvedOf(x, Signals) # {} THEN "INSUFFICIENT_BASIS" ELSE "LIKELY_HUMAN_LED"
           ELSE IF Unresolved(x, Residual) THEN "INSUFFICIENT_BASIS"
           ELSE IF x[Residual].value >= Rules.residual_risk_veto_minimum THEN "LIKELY_HUMAN_LED"
           ELSE IF UnresolvedOf(x, PrelimAutonomy) # {}
             THEN "POTENTIAL_AI_ASSISTED_AUTONOMY_UNKNOWN"
           ELSE IF Hits(x) # {} THEN "POTENTIAL_AI_ASSISTED_WORK" ELSE "POTENTIAL_AI_AUTOMATION"
  BY DEF Direction, Select, Selected, Insufficient, Residual

(* The rules that withhold autonomy, one by one.                           *)
LEMMA HitsAre ==
  ASSUME NEW x
  PROVE  Hits(x) # {} <=>
           \/ ~Unresolved(x, Residual) /\ x[Residual].value = 3
           \/ ~Unresolved(x, "data_readiness") /\ x["data_readiness"].value < 4
           \/ ~Unresolved(x, "implementation_complexity") /\ x["implementation_complexity"].value > 3
           \/ ~Unresolved(x, Judgement) /\ x[Judgement].value >= 3
           \/ ~Unresolved(x, Risk) /\ x[Risk].value >= 3
           \/ ~Unresolved(x, Accountability) /\ x[Accountability].value = 1
           \/ ~Unresolved(x, "predictability") /\ x["predictability"].value < 4
  <1>1. /\ DOMAIN Assistance = 1 .. 7
        /\ Assistance[1] = Mark(Residual, "EQ", 3)
        /\ Assistance[2] = Mark("data_readiness", "LT", 4)
        /\ Assistance[3] = Mark("implementation_complexity", "GT", 3)
        /\ Assistance[4] = Mark(Judgement, "GTE", 3)
        /\ Assistance[5] = Mark(Risk, "GTE", 3)
        /\ Assistance[6] = Mark(Accountability, "IS_TRUE", 1)
        /\ Assistance[7] = Mark("predictability", "LT", 4)
    BY DEF Assistance, Rules, Residual, Judgement, Risk
  <1>2. ASSUME NEW f, NEW v
        PROVE  /\ Matches(x, Mark(f, "EQ", v)) <=> ~Unresolved(x, f) /\ x[f].value = v
               /\ Matches(x, Mark(f, "IS_TRUE", v)) <=> ~Unresolved(x, f) /\ x[f].value = v
               /\ Matches(x, Mark(f, "LT", v)) <=> ~Unresolved(x, f) /\ x[f].value < v
               /\ Matches(x, Mark(f, "GT", v)) <=> ~Unresolved(x, f) /\ x[f].value > v
               /\ Matches(x, Mark(f, "GTE", v)) <=> ~Unresolved(x, f) /\ x[f].value >= v
    BY DEF Matches, Mark
  <1>3. Hits(x) # {} <=> \E i \in 1 .. 7 : Matches(x, Assistance[i])
    BY <1>1 DEF Hits
  <1>4. (\E i \in 1 .. 7 : Matches(x, Assistance[i])) <=>
          \/ Matches(x, Assistance[1]) \/ Matches(x, Assistance[2]) \/ Matches(x, Assistance[3])
          \/ Matches(x, Assistance[4]) \/ Matches(x, Assistance[5]) \/ Matches(x, Assistance[6])
          \/ Matches(x, Assistance[7])
    OBVIOUS
  <1>. QED
    BY <1>1, <1>2, <1>3, <1>4

\* What makes an activity not ready, in the same terms.
LEMMA BlocksAre ==
  ASSUME NEW x
  PROVE  /\ Readied = {"data_readiness", "implementation_complexity"}
         /\ (\E f \in Readied : Blocks(x, f)) <=>
              \/ ~Unresolved(x, "data_readiness") /\ x["data_readiness"].value < 2
              \/ /\ ~Unresolved(x, "implementation_complexity")
                 /\ x["implementation_complexity"].value > 4
  <1>1. Readied = {"data_readiness", "implementation_complexity"}
    BY DEF Readied, ReadyMarks
  <1>2. /\ BlockMarks["data_readiness"] = Mark("data_readiness", "LT", 2)
        /\ BlockMarks["implementation_complexity"] = Mark("implementation_complexity", "GT", 4)
    BY DEF BlockMarks, Rules
  <1>3. ASSUME NEW f, NEW v
        PROVE  /\ Matches(x, Mark(f, "LT", v)) <=> ~Unresolved(x, f) /\ x[f].value < v
               /\ Matches(x, Mark(f, "GT", v)) <=> ~Unresolved(x, f) /\ x[f].value > v
    BY DEF Matches, Mark
  <1>. QED
    BY <1>1, <1>2, <1>3 DEF Blocks

(* What the earlier policy recommends, without what its gates record.      *)
LEMMA RecommendationIs ==
  ASSUME NEW x
  PROVE  Recommendation(x) =
           IF ~SourceBacked(x) \/ Gap(x, "ai_capability_fit") THEN "INVESTIGATE_FURTHER"
           ELSE IF MappedSignals(x) = {}
                   \/ x["ai_capability_fit"].value < Policy.minimum_ai_capability_fit
             THEN "DO_NOT_RECOMMEND"
           ELSE IF ConventionalMaterial(x) /\ Gap(x, "conventional_solution_fit")
             THEN "INVESTIGATE_FURTHER"
           ELSE IF /\ ConventionalMaterial(x)
                   /\ x["conventional_solution_fit"].value >= Policy.conventional_solution_fit_cutoff
             THEN "DO_NOT_RECOMMEND"
           ELSE IF Gap(x, "data_readiness")
                   \/ x["data_readiness"].value < Policy.minimum_data_readiness
             THEN "INVESTIGATE_FURTHER"
           ELSE IF Gap(x, "business_value") THEN "INVESTIGATE_FURTHER"
           ELSE IF x["business_value"].value < Policy.minimum_business_value THEN "DO_NOT_RECOMMEND"
           ELSE IF Gaps(x, RiskInputs \cup {Accountability}) # {} THEN "INVESTIGATE_FURTHER"
           ELSE IF x[Residual].value >= Policy.unacceptable_residual_risk THEN "DO_NOT_RECOMMEND"
           ELSE IF NeedsAHuman(x) THEN "AUGMENT"
           ELSE IF Gap(x, "predictability") THEN "INVESTIGATE_FURTHER"
           ELSE IF ~AutomationEligible(x) THEN "AUGMENT" ELSE "AUTOMATE"
  <1>1. /\ EvidenceGate(x).mode =
             IF ~SourceBacked(x) THEN "INVESTIGATE_FURTHER" ELSE Undecided
        /\ Undecided \notin {"INVESTIGATE_FURTHER", "DO_NOT_RECOMMEND", "AUGMENT", "AUTOMATE"}
    BY DEF EvidenceGate, MaterialGap, Passed, GateResult, Undecided
  <1>2. TechnicalGate(x).mode =
           IF Gap(x, "ai_capability_fit") THEN "INVESTIGATE_FURTHER"
           ELSE IF MappedSignals(x) = {}
                   \/ x["ai_capability_fit"].value < Policy.minimum_ai_capability_fit
             THEN "DO_NOT_RECOMMEND"
           ELSE IF ConventionalMaterial(x) /\ Gap(x, "conventional_solution_fit")
             THEN "INVESTIGATE_FURTHER"
           ELSE IF /\ ConventionalMaterial(x)
                   /\ x["conventional_solution_fit"].value >= Policy.conventional_solution_fit_cutoff
             THEN "DO_NOT_RECOMMEND"
           ELSE IF Gap(x, "data_readiness")
                   \/ x["data_readiness"].value < Policy.minimum_data_readiness
             THEN "INVESTIGATE_FURTHER"
           ELSE Undecided
    BY DEF TechnicalGate, MaterialGap, Rejected, Passed, GateResult
  <1>3. ValueGate(x).mode =
           IF Gap(x, "business_value") THEN "INVESTIGATE_FURTHER"
           ELSE IF x["business_value"].value < Policy.minimum_business_value THEN "DO_NOT_RECOMMEND"
           ELSE Undecided
    BY DEF ValueGate, MaterialGap, Rejected, Passed, GateResult
  <1>4. RiskGate(x).mode =
           IF Gaps(x, RiskInputs \cup {Accountability}) # {} THEN "INVESTIGATE_FURTHER"
           ELSE IF x[Residual].value >= Policy.unacceptable_residual_risk THEN "DO_NOT_RECOMMEND"
           ELSE IF NeedsAHuman(x) THEN "AUGMENT"
           ELSE IF Gap(x, "predictability") THEN "INVESTIGATE_FURTHER"
           ELSE IF ~AutomationEligible(x) THEN "AUGMENT" ELSE "AUTOMATE"
    BY DEF RiskGate, MaterialGap, Rejected, Augmented, GateResult, Residual
  <1>. QED
    BY <1>1, <1>2, <1>3, <1>4 DEF Recommendation


LEMMA RiskInputsAre ==
  RiskInputs = {Residual, Judgement, Risk}
  BY DEF RiskInputs, Residual, Judgement, Risk

-----------------------------------------------------------------------------
(* Every revision leaves an item of its own kind in the field it replaces: *)
(* the rules never read a value out of scale (Revise).                     *)
THEOREM InputsTyped == InputsSpec => []InputsTypeOK
  <1>1. InputsInit => InputsTypeOK
    BY ProfilesAssumption DEF InputsInit, InputsTypeOK
  <1>2. InputsTypeOK /\ [InputsNext]_<<inputs, domain>> => InputsTypeOK'
    <2>1. ASSUME InputsTypeOK, NEW f \in Fields, Revise(f) PROVE InputsTypeOK'
      <3>1. PICK i \in domain[f] \ {inputs[f]} : inputs' = [inputs EXCEPT ![f] = i]
        BY <2>1 DEF Revise
      <3>2. /\ i \in Items /\ (f \notin Criteria => i.value <= 1)
            /\ domain' = domain
        BY <2>1 DEF Revise, InputsTypeOK, Domains
      <3>3. inputs' \in [Fields -> Items]
        BY <2>1, <3>1, <3>2 DEF InputsTypeOK, Inputs
      <3>4. \A g \in Fields \ Criteria : inputs'[g].value <= 1
        BY <2>1, <3>1, <3>2 DEF InputsTypeOK, Inputs
      <3>. QED
        BY <2>1, <3>2, <3>3, <3>4 DEF InputsTypeOK, Inputs
    <2>2. ASSUME InputsTypeOK, UNCHANGED <<inputs, domain>> PROVE InputsTypeOK'
      BY <2>2 DEF InputsTypeOK
    <2>. QED
      BY <2>1, <2>2 DEF InputsNext
  <1>. QED
    BY <1>1, <1>2, PTL DEF InputsSpec

-----------------------------------------------------------------------------
(* Learning more: y is x with more inputs known and no evidence taken      *)
(* back.                                                                   *)
Learns(x, y) ==
  \A f \in Fields : x[f] # y[f] => Gap(x, f) /\ (Collected(x, f) => Collected(y, f))

LEMMA KnownStays ==
  ASSUME NEW x \in Inputs, NEW y \in Inputs, Learns(x, y)
  PROVE  /\ \A f \in Fields : Known(x, f) => y[f] = x[f] /\ Known(y, f)
         /\ SourceBacked(x) => SourceBacked(y)
         /\ SupportedSignals(x) \subseteq SupportedSignals(y)
         /\ Gaps(x, Signals) = {} => SupportedSignals(y) = SupportedSignals(x) /\ Gaps(y, Signals) = {}
         /\ Blockers(x) \subseteq Blockers(y)
         /\ Constraints(x) # {} /\ Known(x, Residual) => Constraints(y) # {}
  <1>1. \A f \in Fields : Known(x, f) => y[f] = x[f] /\ Known(y, f)
    BY DEF Learns, Known, Gap
  <1>2. \A f \in Fields : Collected(x, f) => Collected(y, f)
    BY DEF Learns, Collected
  <1>3. SourceBacked(x) => SourceBacked(y)
    BY <1>2, CriteriaAreFields DEF SourceBacked
  <1>4. SupportedSignals(x) \subseteq SupportedSignals(y)
    BY <1>1, CriteriaAreFields DEF SupportedSignals, IsTrue
  <1>5. Gaps(x, Signals) = {} =>
          SupportedSignals(y) = SupportedSignals(x) /\ Gaps(y, Signals) = {}
    BY <1>1, CriteriaAreFields DEF SupportedSignals, IsTrue, Gaps, Known
  <1>6. Blockers(x) \subseteq Blockers(y)
    BY <1>1, CriteriaAreFields DEF Blockers, ReadinessInputs
  <1>7. ASSUME Constraints(x) # {}, Known(x, Residual) PROVE Constraints(y) # {}
    <2>1. PICK f \in {Residual, Judgement, Risk, Accountability} :
            /\ f = Residual => x[f].value >= Policy.augment_residual_risk
            /\ f = Judgement => Known(x, f) /\ x[f].value >= Policy.augment_human_judgement
            /\ f = Risk => Known(x, f) /\ x[f].value >= Policy.augment_risk_consequence
            /\ f = Accountability => Known(x, f) /\ IsTrue(x, f)
      BY <1>7 DEF Constraints, Residual, Judgement, Risk, Accountability
    <2>2. Known(x, f) /\ y[f] = x[f] /\ Known(y, f)
      BY <1>1, <1>7, <2>1, CriteriaAreFields
    <2>3. f \in Constraints(y)
      BY <2>1, <2>2 DEF Constraints, IsTrue
    <2>. QED
      BY <2>3
  <1>. QED
    BY <1>1, <1>3, <1>4, <1>5, <1>6, <1>7

(* A gate that decided decides the same.                                   *)
LEMMA GatesStay ==
  ASSUME NEW x \in Inputs, NEW y \in Inputs, Learns(x, y)
  PROVE  /\ GateOne(x).code # "DISCOVERY_REQUIRED" => GateOne(y).code = GateOne(x).code
         /\ GateTwo(x).code # "DISCOVERY_REQUIRED" => GateTwo(y).code = GateTwo(x).code
         /\ GateThree(x).code # "DISCOVERY_REQUIRED" => GateThree(y).code = GateThree(x).code
         /\ GateFour(x).code # "DISCOVERY_REQUIRED" /\ Known(x, "data_readiness") =>
              GateFour(y).code = GateFour(x).code
  <1>1. /\ \A f \in Fields : Known(x, f) => y[f] = x[f] /\ Known(y, f)
        /\ SourceBacked(x) => SourceBacked(y)
        /\ SupportedSignals(x) \subseteq SupportedSignals(y)
        /\ Gaps(x, Signals) = {} => SupportedSignals(y) = SupportedSignals(x) /\ Gaps(y, Signals) = {}
        /\ Blockers(x) \subseteq Blockers(y)
        /\ Constraints(x) # {} /\ Known(x, Residual) => Constraints(y) # {}
    BY KnownStays
  <1>2. GateOne(x).code # "DISCOVERY_REQUIRED" => GateOne(y).code = GateOne(x).code
    BY <1>1, GateOneCode, CriteriaAreFields DEF Known
  <1>3. GateTwo(x).code # "DISCOVERY_REQUIRED" => GateTwo(y).code = GateTwo(x).code
    <2>1. Gaps(x, ReadinessInputs) = {} => Gaps(y, ReadinessInputs) = {} /\ Blockers(y) = Blockers(x)
      BY <1>1, CriteriaAreFields DEF Gaps, ReadinessInputs, Blockers, Known
    <2>. QED
      BY <1>1, <2>1, GateTwoCode
  <1>4. GateThree(x).code # "DISCOVERY_REQUIRED" => GateThree(y).code = GateThree(x).code
    BY <1>1, GateThreeCode, CriteriaAreFields DEF Known
  <1>5. ASSUME GateFour(x).code # "DISCOVERY_REQUIRED", Known(x, "data_readiness")
        PROVE  GateFour(y).code = GateFour(x).code
    <2>1. /\ Known(x, Residual) /\ Known(y, Residual) /\ y[Residual] = x[Residual]
          /\ y["data_readiness"] = x["data_readiness"]
      BY <1>1, <1>5, GateFourCode, CriteriaAreFields DEF Known
    <2>2. CASE Constraints(x) # {} \/ x[Residual].value >= Policy.unacceptable_residual_risk
      BY <1>1, <2>1, <2>2, GateFourCode DEF Known
    <2>3. CASE Constraints(x) = {} /\ ~(x[Residual].value >= Policy.unacceptable_residual_risk)
      <3>1. Gaps(x, {Judgement, Risk, Accountability}) = {}
        BY <2>1, <2>3, <1>5, GateFourCode DEF Known
      <3>2. \A f \in {Residual, Judgement, Risk, Accountability} :
              y[f] = x[f] /\ Known(x, f) /\ Known(y, f)
        BY <1>1, <2>1, <3>1, CriteriaAreFields DEF Gaps, Known
      <3>3. Gaps(y, {Judgement, Risk, Accountability}) = {} /\ Constraints(y) = Constraints(x)
        BY <3>2 DEF Gaps, Known, Constraints, IsTrue
      <3>4. StrictlyFit(y) <=> StrictlyFit(x)
        BY <3>2, <2>1 DEF StrictlyFit, IsTrue
      <3>5. StrictlyFit(x) => Known(x, "predictability") /\ y["predictability"] = x["predictability"]
        BY <1>1, <1>5, <2>1, <2>3, <3>1, GateFourCode, CriteriaAreFields DEF Known
      <3>. QED
        BY <1>1, <2>1, <2>3, <3>1, <3>3, <3>4, <3>5, GateFourCode, CriteriaAreFields DEF Known
    <2>. QED
      BY <2>2, <2>3
  <1>. QED
    BY <1>2, <1>3, <1>4, <1>5


LEMMA DecisionStays ==
  ASSUME NEW x \in Inputs, NEW y \in Inputs, Learns(x, y), Complete(x)
  PROVE  /\ Outcome(y) = Outcome(x)
         /\ DecidingGate(y) = DecidingGate(x)
         /\ PriorityStatus(x) = "COMPLETE" => Priority(y) = Priority(x)
  <1>1. /\ GateOne(x).code # "DISCOVERY_REQUIRED" => GateOne(y).code = GateOne(x).code
        /\ GateTwo(x).code # "DISCOVERY_REQUIRED" => GateTwo(y).code = GateTwo(x).code
        /\ GateThree(x).code # "DISCOVERY_REQUIRED" => GateThree(y).code = GateThree(x).code
        /\ GateFour(x).code # "DISCOVERY_REQUIRED" /\ Known(x, "data_readiness") =>
              GateFour(y).code = GateFour(x).code
    BY GatesStay
  <1>2. Outcome(x) # "DISCOVERY_REQUIRED"
    BY OutcomeIs
  <1>3. GateTwo(x).code = "READY_FOR_INTERVENTION_SELECTION" => Known(x, "data_readiness")
    BY GateTwoCode DEF Gaps, ReadinessInputs, Known
  <1>4. GateTwo(x).code \in {"DISCOVERY_REQUIRED", "PROCESS_IMPROVEMENT_FIRST",
                             "READY_FOR_INTERVENTION_SELECTION"}
    BY GateTwoCode
  <1>5. Outcome(y) = Outcome(x) /\ DecidingGate(y) = DecidingGate(x)
    BY <1>1, <1>2, <1>3, <1>4, OutcomeIs
  <1>6. ASSUME PriorityStatus(x) = "COMPLETE" PROVE Priority(y) = Priority(x)
    <2>1. Outcome(x) \in Eligible /\ Gaps(x, ScoringCriteria) = {}
      BY <1>6 DEF PriorityStatus, MissingForPriority
    <2>2. ScoringCriteria =
            {"business_value", "ai_capability_fit", "data_readiness", "predictability", "repetition",
             "risk_consequence", "implementation_complexity"}
      BY DEF ScoringCriteria, PointsPerScaleUnit
    <2>3. \A f \in ScoringCriteria : y[f] = x[f] /\ Known(y, f)
      <3>1. \A f \in Fields : Known(x, f) => y[f] = x[f] /\ Known(y, f)
        BY KnownStays
      <3>. QED
        BY <2>1, <2>2, <3>1, CriteriaAreFields DEF Gaps, Known, Risk
    <2>4. Gaps(y, ScoringCriteria) = {}
      BY <2>3 DEF Gaps, Known
    <2>5. PriorityStatus(y) = "COMPLETE"
      BY <1>5, <2>1, <2>4 DEF PriorityStatus, MissingForPriority
    <2>6. Score(y) = Score(x)
      BY <2>2, <2>3 DEF Score, Contribution, Favourable
    <2>. QED
      BY <1>6, <2>5, <2>6 DEF Priority
  <1>. QED
    BY <1>5, <1>6

(* A direction rests on resolved inputs only.                              *)
LEMMA DirectionStays ==
  ASSUME NEW x \in Inputs, NEW y \in Inputs,
         \A f \in Fields : x[f] # y[f] => Unresolved(x, f),
         Direction(x) \notin Open
  PROVE  Direction(y) = Direction(x)
  <1>1. \A f \in Fields : ~Unresolved(x, f) => y[f] = x[f] /\ ~Unresolved(y, f)
    BY DEF Unresolved
  <1>2. TrueSignals(x) \subseteq TrueSignals(y)
    BY <1>1, CriteriaAreFields DEF TrueSignals, IsTrue
  <1>3. UnresolvedOf(x, Signals) = {} =>
          TrueSignals(y) = TrueSignals(x) /\ UnresolvedOf(y, Signals) = {}
    BY <1>1, CriteriaAreFields DEF TrueSignals, IsTrue, UnresolvedOf
  <1>4. UnresolvedOf(x, Readied) = {} =>
          /\ UnresolvedOf(y, Readied) = {}
          /\ \A f \in Readied : y[f] = x[f] /\ ~Unresolved(x, f) /\ ~Unresolved(y, f)
          /\ (\E f \in Readied : Blocks(y, f)) <=> (\E f \in Readied : Blocks(x, f))
    <2>1. ASSUME UnresolvedOf(x, Readied) = {}
          PROVE  \A f \in Readied : y[f] = x[f] /\ ~Unresolved(x, f) /\ ~Unresolved(y, f)
      BY <1>1, <2>1, BlocksAre, CriteriaAreFields DEF UnresolvedOf
    <2>. QED
      BY <2>1, BlocksAre DEF UnresolvedOf
  <1>5. PrelimAutonomy = {Judgement, Risk, Accountability, "predictability"}
    BY DEF PrelimAutonomy, Judgement, Risk
  <1>6. UnresolvedOf(x, PrelimAutonomy) = {} =>
          /\ UnresolvedOf(y, PrelimAutonomy) = {}
          /\ \A f \in PrelimAutonomy : y[f] = x[f] /\ ~Unresolved(x, f) /\ ~Unresolved(y, f)
    BY <1>1, <1>5, CriteriaAreFields DEF UnresolvedOf
  <1>7. ASSUME UnresolvedOf(x, PrelimAutonomy) = {}, UnresolvedOf(x, Readied) = {},
               ~Unresolved(x, Residual)
        PROVE  Hits(y) # {} <=> Hits(x) # {}
    <2>1. ASSUME NEW f \in {Residual, "data_readiness", "implementation_complexity", Judgement, Risk,
                        Accountability, "predictability"}
          PROVE y[f] = x[f] /\ (Unresolved(y, f) <=> Unresolved(x, f))
      BY <1>1, <1>4, <1>5, <1>6, <1>7, BlocksAre, CriteriaAreFields
    <2>. QED
      BY <2>1, HitsAre
  <1>. QED
    BY <1>1, <1>2, <1>3, <1>4, <1>6, <1>7, DirectionIs, CriteriaAreFields DEF Open

(* A recommendation to automate rests on sufficient inputs, and on signals. *)
LEMMA AutomateStays ==
  ASSUME NEW x \in Inputs, NEW y \in Inputs, Learns(x, y),
         \A f \in Signals : y[f] = x[f], Recommendation(x) = "AUTOMATE"
  PROVE  Recommendation(y) = "AUTOMATE"
  <1>1. /\ \A f \in Fields : Known(x, f) => y[f] = x[f] /\ Known(y, f)
        /\ SourceBacked(x) => SourceBacked(y)
    BY KnownStays
  <1>2. MappedSignals(y) = MappedSignals(x)
    BY DEF MappedSignals, IsTrue
  <1>3. /\ SourceBacked(x) /\ Known(x, "ai_capability_fit") /\ Known(x, "data_readiness")
        /\ Known(x, "business_value") /\ Gaps(x, RiskInputs \cup {Accountability}) = {}
        /\ ~NeedsAHuman(x) /\ Known(x, "predictability") /\ AutomationEligible(x)
    BY RecommendationIs DEF Known
  <1>4. ConventionalMaterial(x) /\ Known(x, "conventional_solution_fit")
    BY <1>3, RecommendationIs DEF ConventionalMaterial, AutomationEligible, Known
  <1>5. /\ \A f \in RiskInputs \cup {Accountability} : y[f] = x[f] /\ Known(y, f)
        /\ Gaps(y, RiskInputs \cup {Accountability}) = {}
    BY <1>1, <1>3, RiskInputsAre, CriteriaAreFields DEF Gaps, Known
  <1>6. ASSUME NEW f \in {"ai_capability_fit", "data_readiness", "business_value", "predictability",
                      "conventional_solution_fit"}
        PROVE  y[f] = x[f] /\ Known(y, f)
    BY <1>1, <1>3, <1>4, CriteriaAreFields
  <1>7. /\ ConventionalMaterial(y) /\ (NeedsAHuman(y) <=> NeedsAHuman(x))
        /\ (AutomationEligible(y) <=> AutomationEligible(x)) /\ y[Residual].value = x[Residual].value
    BY <1>2, <1>4, <1>5, <1>6, RiskInputsAre
       DEF ConventionalMaterial, NeedsAHuman, AutomationEligible, IsTrue, Residual, Judgement, Risk
  <1>8. /\ SourceBacked(y) /\ ~Gap(y, "ai_capability_fit") /\ ~Gap(y, "data_readiness")
        /\ ~Gap(y, "business_value") /\ ~Gap(y, "predictability")
        /\ ~Gap(y, "conventional_solution_fit")
    BY <1>1, <1>3, <1>6 DEF Known
  <1>9. /\ MappedSignals(x) # {}
        /\ ~(x["ai_capability_fit"].value < Policy.minimum_ai_capability_fit)
        /\ ~(x["conventional_solution_fit"].value >= Policy.conventional_solution_fit_cutoff)
        /\ ~(x["data_readiness"].value < Policy.minimum_data_readiness)
        /\ ~(x["business_value"].value < Policy.minimum_business_value)
        /\ ~(x[Residual].value >= Policy.unacceptable_residual_risk)
    BY <1>4, RecommendationIs
  <1>10. /\ MappedSignals(y) # {}
         /\ ~(y["ai_capability_fit"].value < Policy.minimum_ai_capability_fit)
         /\ ~(y["conventional_solution_fit"].value >= Policy.conventional_solution_fit_cutoff)
         /\ ~(y["data_readiness"].value < Policy.minimum_data_readiness)
         /\ ~(y["business_value"].value < Policy.minimum_business_value)
         /\ ~(y[Residual].value >= Policy.unacceptable_residual_risk)
         /\ Gaps(y, RiskInputs \cup {Accountability}) = {}
         /\ ~NeedsAHuman(y) /\ AutomationEligible(y)
    BY <1>2, <1>3, <1>5, <1>6, <1>7, <1>9
  <1>. QED
    BY <1>8, <1>10, RecommendationIs

LEMMA KeepsDecisionStep ==
  ASSUME inputs \in Inputs, inputs' \in Inputs
  PROVE  KeepsDecision
  <1>1. PICK x : x = inputs
    OBVIOUS
  <1>2. PICK y : y = inputs'
    OBVIOUS
  <1>3. x \in Inputs /\ y \in Inputs
    BY <1>1, <1>2
  <1>4. Learned <=> Learns(x, y)
    BY <1>1, <1>2 DEF Learned, Learns, Changed
  <1>5. ASSUME Complete(x), Learns(x, y)
        PROVE  /\ Outcome(y) = Outcome(x)
               /\ DecidingGate(y) = DecidingGate(x)
               /\ PriorityStatus(x) = "COMPLETE" => Priority(y) = Priority(x)
    BY <1>3, <1>5, DecisionStays
  <1>6. ASSUME Direction(x) \notin Open, \A f \in Changed : Unresolved(x, f)
        PROVE  Direction(y) = Direction(x)
    <2>1. \A f \in Fields : x[f] # y[f] => Unresolved(x, f)
      BY <1>1, <1>2, <1>6 DEF Changed
    <2>. QED
      BY <1>3, <1>6, <2>1, DirectionStays
  <1>7. ASSUME Recommendation(x) = "AUTOMATE", Learns(x, y), Changed \cap Signals = {}
        PROVE  Recommendation(y) = "AUTOMATE"
    <2>1. \A f \in Signals : y[f] = x[f]
      BY <1>1, <1>2, <1>7, CriteriaAreFields DEF Changed
    <2>. QED
      BY <1>3, <1>7, <2>1, AutomateStays
  <1>8. /\ (Complete(x) /\ Learned) =>
             /\ Outcome(y) = Outcome(x)
             /\ DecidingGate(y) = DecidingGate(x)
             /\ PriorityStatus(x) = "COMPLETE" => Priority(y) = Priority(x)
        /\ (Direction(x) \notin Open /\ \A f \in Changed : Unresolved(x, f)) =>
             Direction(y) = Direction(x)
        /\ (Recommendation(x) = "AUTOMATE" /\ Learned /\ Changed \cap Signals = {}) =>
             Recommendation(y) = "AUTOMATE"
    BY <1>4, <1>5, <1>6, <1>7
  <1>. QED
    BY <1>1, <1>2, <1>8 DEF KeepsDecision

(* What is decided is not undecided by learning more, in any of the three  *)
(* rule sets: the decisions of evaluate_four_gates, evaluate_gates and     *)
(* _select stay when an input becomes known (DecidedIsFinal).              *)
THEOREM DecisionsStay == InputsSpec => DecidedIsFinal
  <1>1. InputsTypeOK /\ InputsTypeOK' => [KeepsDecision]_inputs
    BY KeepsDecisionStep DEF InputsTypeOK
  <1>2. InputsSpec => []InputsTypeOK
    BY InputsTyped
  <1>. QED
    BY <1>1, <1>2, PTL DEF DecidedIsFinal

-----------------------------------------------------------------------------
(* A worse value: y is x with the values of sufficient criteria made       *)
(* worse.                                                                  *)
Reversed == Unfavourable \cup {"implementation_complexity", "conventional_solution_fit"}
IsWorse(x, y) ==
  \A f \in Fields : x[f] # y[f] =>
    /\ f \in Criteria \cup {Accountability}
    /\ Known(x, f) /\ Known(y, f)
    /\ IF f \in Reversed THEN x[f].value < y[f].value ELSE x[f].value > y[f].value

LEMMA ReversedAre ==
  Reversed = {Judgement, Risk, Residual, Accountability, "implementation_complexity",
              "conventional_solution_fit"}
  BY DEF Reversed, Unfavourable, Judgement, Risk, Residual

LEMMA WorseFacts ==
  ASSUME NEW x \in Inputs, NEW y \in Inputs, IsWorse(x, y)
  PROVE  /\ \A f \in Fields : /\ x[f].value \in Int /\ y[f].value \in Int
                              /\ Known(x, f) <=> Known(y, f)
                              /\ Gap(x, f) => y[f] = x[f]
                              /\ f \notin Criteria \cup {Accountability} => y[f] = x[f]
                              /\ f \in Reversed => x[f].value <= y[f].value
                              /\ f \notin Reversed => y[f].value <= x[f].value
         /\ SourceBacked(x) <=> SourceBacked(y)
         /\ \A f \in Signals : y[f] = x[f]
         /\ IsTrue(x, Accountability) => IsTrue(y, Accountability)
  <1>1. ASSUME NEW f \in Fields
        PROVE  /\ x[f].value \in Int /\ y[f].value \in Int
               /\ Known(x, f) <=> Known(y, f)
               /\ Gap(x, f) => y[f] = x[f]
               /\ f \notin Criteria \cup {Accountability} => y[f] = x[f]
               /\ f \in Reversed => x[f].value <= y[f].value
               /\ f \notin Reversed => y[f].value <= x[f].value
    <2>1. x[f].value \in -1 .. 5 /\ y[f].value \in -1 .. 5
      BY ItemFacts
    <2>. QED
      BY <2>1 DEF IsWorse, Known, Gap
  <1>2. ASSUME NEW f \in Fields PROVE Collected(x, f) <=> Collected(y, f)
    <2>1. CASE x[f] = y[f]
      BY <2>1 DEF Collected
    <2>2. CASE x[f] # y[f]
      <3>1. Known(x, f) /\ Known(y, f)
        BY <2>2 DEF IsWorse
      <3>2. /\ x[f].kind \in {"documented", "inferred", "conflicted"}
            /\ y[f].kind \in {"documented", "inferred", "conflicted"}
        BY <3>1, ItemFacts DEF Known, Gap, Sufficient, Kinds, Empty
      <3>. QED
        BY <3>2 DEF Collected, Reviewed
    <2>. QED
      BY <2>1, <2>2
  <1>3. SourceBacked(x) <=> SourceBacked(y)
    BY <1>2, CriteriaAreFields DEF SourceBacked
  <1>4. \A f \in Signals : y[f] = x[f]
    BY <1>1, SignalsAssumption, CriteriaAreFields DEF StepFields
  <1>5. IsTrue(x, Accountability) => IsTrue(y, Accountability)
    <2>1. x[Accountability].value <= y[Accountability].value
      BY <1>1, CriteriaAreFields, ReversedAre
    <2>2. y[Accountability].value \in -1 .. 5 /\ y[Accountability].value <= 1
      BY ItemFacts, CriteriaAreFields
    <2>. QED
      BY <2>1, <2>2 DEF IsTrue
  <1>. QED
    BY <1>1, <1>3, <1>4, <1>5

\* The inputs of the rules, one by one.
LEMMA WorseInputs ==
  ASSUME NEW x \in Inputs, NEW y \in Inputs, IsWorse(x, y)
  PROVE  /\ y["business_value"].value <= x["business_value"].value
         /\ y["data_readiness"].value <= x["data_readiness"].value
         /\ y["ai_capability_fit"].value <= x["ai_capability_fit"].value
         /\ y["predictability"].value <= x["predictability"].value
         /\ y["repetition"].value <= x["repetition"].value
         /\ x["implementation_complexity"].value <= y["implementation_complexity"].value
         /\ x["conventional_solution_fit"].value <= y["conventional_solution_fit"].value
         /\ x[Residual].value <= y[Residual].value
         /\ x[Judgement].value <= y[Judgement].value
         /\ x[Risk].value <= y[Risk].value
  <1>1. \A f \in Fields : /\ f \in Reversed => x[f].value <= y[f].value
                          /\ f \notin Reversed => y[f].value <= x[f].value
    BY WorseFacts
  <1>2. {"business_value", "data_readiness", "ai_capability_fit", "predictability", "repetition"}
          \cap Reversed = {}
    BY ReversedAre, CriteriaAreFields DEF Residual, Judgement, Risk, Accountability
  <1>. QED
    BY <1>1, <1>2, ReversedAre, CriteriaAreFields

LEMMA PolicyIsIntegers ==
  \A t \in Thresholds : Policy[t] \in Int
  BY PolicyAssumption

(* What is worse passes a gate only if the better one does, and is left to *)
(* a machine alone only if the better one is.                              *)
LEMMA WorseOutcome ==
  ASSUME NEW x \in Inputs, NEW y \in Inputs, IsWorse(x, y), Complete(x)
  PROVE  /\ Outcome(y) = "AI_AUTOMATION" => Outcome(x) = "AI_AUTOMATION"
         /\ Outcome(y) = "AI_ASSISTED_WORK" => Outcome(x) \in {"AI_AUTOMATION", "AI_ASSISTED_WORK"}
  <1>1. /\ \A f \in Fields : /\ x[f].value \in Int /\ y[f].value \in Int
                             /\ Known(x, f) <=> Known(y, f)
                             /\ Gap(x, f) => y[f] = x[f]
        /\ SourceBacked(x) <=> SourceBacked(y)
        /\ \A f \in Signals : y[f] = x[f]
        /\ IsTrue(x, Accountability) => IsTrue(y, Accountability)
    BY WorseFacts
  <1>2. ASSUME GateOne(y).code = "CHANGE_JUSTIFIED" PROVE GateOne(x).code = "CHANGE_JUSTIFIED"
    <2>1. /\ SourceBacked(y) /\ Known(y, "business_value")
          /\ ~(y["business_value"].value < Policy.minimum_business_value)
      BY <1>2, GateOneCode DEF Known
    <2>2. Policy.minimum_business_value \in Int
      BY PolicyIsIntegers DEF Thresholds
    <2>3. /\ SourceBacked(x) /\ ~Gap(x, "business_value")
          /\ ~(x["business_value"].value < Policy.minimum_business_value)
      BY <1>1, <2>1, <2>2, WorseInputs, CriteriaAreFields DEF Known
    <2>. QED
      BY <2>3, GateOneCode
  <1>3. ASSUME GateTwo(y).code = "READY_FOR_INTERVENTION_SELECTION"
        PROVE  GateTwo(x).code = "READY_FOR_INTERVENTION_SELECTION"
    <2>1. Blockers(y) = {} /\ Gaps(y, ReadinessInputs) = {}
      BY <1>3, GateTwoCode
    <2>2. /\ Policy.minimum_data_readiness \in Int
          /\ Policy.maximum_implementation_complexity_for_readiness \in Int
      BY PolicyIsIntegers DEF Thresholds
    <2>3. Blockers(x) \subseteq Blockers(y)
      BY <1>1, <2>2, WorseInputs, CriteriaAreFields DEF Blockers, ReadinessInputs
    <2>4. Gaps(x, ReadinessInputs) = {}
      BY <1>1, <2>1, CriteriaAreFields DEF Gaps, Known, ReadinessInputs
    <2>. QED
      BY <2>1, <2>3, <2>4, GateTwoCode
  <1>4. ASSUME GateThree(y).code = "AI_SELECTED" PROVE GateThree(x).code = "AI_SELECTED"
    <2>1. /\ Known(y, "conventional_solution_fit") /\ Known(y, "ai_capability_fit")
          /\ ~(y["conventional_solution_fit"].value >= Policy.conventional_solution_fit_cutoff)
          /\ ~(y["ai_capability_fit"].value < Policy.minimum_ai_capability_fit)
          /\ SupportedSignals(y) # {}
      BY <1>4, GateThreeCode DEF Known
    <2>2. /\ Policy.conventional_solution_fit_cutoff \in Int
          /\ Policy.minimum_ai_capability_fit \in Int
      BY PolicyIsIntegers DEF Thresholds
    <2>3. SupportedSignals(x) = SupportedSignals(y)
      BY <1>1 DEF SupportedSignals, IsTrue, Known, Gap
    <2>4. /\ ~Gap(x, "conventional_solution_fit") /\ ~Gap(x, "ai_capability_fit")
          /\ ~(x["conventional_solution_fit"].value >= Policy.conventional_solution_fit_cutoff)
          /\ ~(x["ai_capability_fit"].value < Policy.minimum_ai_capability_fit)
      BY <1>1, <2>1, <2>2, WorseInputs, CriteriaAreFields DEF Known
    <2>. QED
      BY <2>1, <2>3, <2>4, GateThreeCode
  <1>5. /\ Policy.augment_residual_risk \in Int /\ Policy.augment_human_judgement \in Int
        /\ Policy.augment_risk_consequence \in Int /\ Policy.unacceptable_residual_risk \in Int
        /\ Policy.automate_minimum_data_readiness \in Int
        /\ Policy.automate_maximum_human_judgement \in Int
        /\ Policy.automate_maximum_risk_consequence \in Int
        /\ Policy.automate_maximum_residual_risk \in Int
        /\ Policy.automate_minimum_predictability \in Int
    BY PolicyIsIntegers DEF Thresholds
  <1>6. ASSUME GateFour(y).code \in {"AI_AUTOMATION_PERMITTED", "AI_ASSISTED_REQUIRED"}
        PROVE  /\ Known(x, Residual)
               /\ ~(x[Residual].value >= Policy.unacceptable_residual_risk)
    <2>1. /\ Known(y, Residual) /\ ~(y[Residual].value >= Policy.unacceptable_residual_risk)
      BY <1>6, GateFourCode DEF Known
    <2>. QED
      BY <1>1, <1>5, <2>1, WorseInputs, CriteriaAreFields
  <1>7. ASSUME GateFour(y).code = "AI_AUTOMATION_PERMITTED"
        PROVE  GateFour(x).code = "AI_AUTOMATION_PERMITTED"
    <2>1. /\ Constraints(y) = {} /\ Gaps(y, {Judgement, Risk, Accountability}) = {}
          /\ StrictlyFit(y) /\ Known(y, "predictability")
          /\ ~(y["predictability"].value < Policy.automate_minimum_predictability)
      BY <1>7, GateFourCode DEF Known
    <2>2. Constraints(x) \subseteq Constraints(y)
      BY <1>1, <1>5, WorseInputs, CriteriaAreFields DEF Constraints
    <2>3. Gaps(x, {Judgement, Risk, Accountability}) = {}
      BY <1>1, <2>1, CriteriaAreFields DEF Gaps, Known
    <2>4. StrictlyFit(x)
      BY <1>1, <1>5, <2>1, WorseInputs, CriteriaAreFields DEF StrictlyFit
    <2>5. ~Gap(x, "predictability") /\ ~(x["predictability"].value < Policy.automate_minimum_predictability)
      BY <1>1, <1>5, <2>1, WorseInputs, CriteriaAreFields DEF Known
    <2>6. ~Gap(x, Residual) /\ ~(x[Residual].value >= Policy.unacceptable_residual_risk)
      BY <1>6, <1>7 DEF Known
    <2>. QED
      BY <2>1, <2>2, <2>3, <2>4, <2>5, <2>6, GateFourCode
  <1>8. Outcome(y) \in {"AI_AUTOMATION", "AI_ASSISTED_WORK"} =>
          /\ GateOne(y).code = "CHANGE_JUSTIFIED"
          /\ GateTwo(y).code = "READY_FOR_INTERVENTION_SELECTION"
          /\ GateThree(y).code = "AI_SELECTED"
          /\ GateFour(y).code \in {"AI_AUTOMATION_PERMITTED", "AI_ASSISTED_REQUIRED"}
          /\ Outcome(y) = "AI_AUTOMATION" => GateFour(y).code = "AI_AUTOMATION_PERMITTED"
    BY OutcomeIs, GateOneCode, GateTwoCode, GateThreeCode, GateFourCode
  <1>9. ASSUME GateOne(x).code = "CHANGE_JUSTIFIED",
               GateTwo(x).code = "READY_FOR_INTERVENTION_SELECTION",
               GateThree(x).code = "AI_SELECTED",
               ~(x[Residual].value >= Policy.unacceptable_residual_risk)
        PROVE  /\ Outcome(x) \in {"AI_AUTOMATION", "AI_ASSISTED_WORK"}
               /\ GateFour(x).code = "AI_AUTOMATION_PERMITTED" => Outcome(x) = "AI_AUTOMATION"
    <2>1. GateFour(x).code \in {"DISCOVERY_REQUIRED", "AI_ASSISTED_REQUIRED", "AI_AUTOMATION_PERMITTED"}
      BY <1>9, GateFourCode
    <2>2. Outcome(x) # "DISCOVERY_REQUIRED"
      BY OutcomeIs
    <2>. QED
      BY <1>9, <2>1, <2>2, OutcomeIs
  <1>. QED
    BY <1>2, <1>3, <1>4, <1>6, <1>7, <1>8, <1>9

(* The score falls with every criterion that gets worse.                   *)
LEMMA WorseScore ==
  ASSUME NEW x \in Inputs, NEW y \in Inputs, IsWorse(x, y),
         PriorityStatus(x) = "COMPLETE", PriorityStatus(y) = "COMPLETE"
  PROVE  Priority(y) <= Priority(x)
  <1>1. /\ y["business_value"].value <= x["business_value"].value
        /\ y["data_readiness"].value <= x["data_readiness"].value
        /\ y["ai_capability_fit"].value <= x["ai_capability_fit"].value
        /\ y["predictability"].value <= x["predictability"].value
        /\ y["repetition"].value <= x["repetition"].value
        /\ x["implementation_complexity"].value <= y["implementation_complexity"].value
        /\ x[Risk].value <= y[Risk].value
    BY WorseInputs
  <1>2. \A f \in Fields : x[f].value \in Int /\ y[f].value \in Int
    BY WorseFacts
  <1>3. ASSUME NEW z \in Inputs, \A f \in Fields : z[f].value \in Int
        PROVE  Score(z) = 5 * z["business_value"].value + 4 * z["ai_capability_fit"].value
                          + 3 * z["data_readiness"].value + 2 * z["predictability"].value
                          + 2 * z["repetition"].value + 2 * (5 - z[Risk].value)
                          + 2 * (5 - z["implementation_complexity"].value)
    BY <1>3 DEF Score, Contribution, Favourable, PointsPerScaleUnit, Risk
  <1>4. \A f \in {"business_value", "ai_capability_fit", "data_readiness", "predictability",
                  "repetition", Risk, "implementation_complexity"} :
          x[f].value \in Int /\ y[f].value \in Int
    BY <1>2, CriteriaAreFields
  <1>5. Score(y) <= Score(x)
    BY <1>1, <1>2, <1>3, <1>4
  <1>. QED
    BY <1>5 DEF Priority

(* A recommendation of the earlier policy that was decided.                *)
LEMMA WorseRecommendation ==
  ASSUME NEW x \in Inputs, NEW y \in Inputs, IsWorse(x, y),
         Recommendation(x) # "INVESTIGATE_FURTHER"
  PROVE  /\ Recommendation(y) = "AUTOMATE" => Recommendation(x) = "AUTOMATE"
         /\ Recommendation(y) = "AUGMENT" => Recommendation(x) \in {"AUTOMATE", "AUGMENT"}
  <1>1. /\ \A f \in Fields : /\ x[f].value \in Int /\ y[f].value \in Int
                             /\ Known(x, f) <=> Known(y, f)
                             /\ Gap(x, f) => y[f] = x[f]
        /\ SourceBacked(x) <=> SourceBacked(y)
        /\ \A f \in Signals : y[f] = x[f]
        /\ IsTrue(x, Accountability) => IsTrue(y, Accountability)
    BY WorseFacts
  <1>2. /\ Policy.augment_residual_risk \in Int /\ Policy.augment_human_judgement \in Int
        /\ Policy.augment_risk_consequence \in Int /\ Policy.unacceptable_residual_risk \in Int
        /\ Policy.automate_minimum_data_readiness \in Int
        /\ Policy.automate_maximum_human_judgement \in Int
        /\ Policy.automate_maximum_risk_consequence \in Int
        /\ Policy.automate_maximum_residual_risk \in Int
        /\ Policy.automate_minimum_predictability \in Int
        /\ Policy.conventional_solution_fit_cutoff \in Int
        /\ Policy.minimum_ai_capability_fit \in Int /\ Policy.minimum_data_readiness \in Int
        /\ Policy.minimum_business_value \in Int
    BY PolicyIsIntegers DEF Thresholds
  <1>3. ASSUME Recommendation(y) \in {"AUTOMATE", "AUGMENT"}
        PROVE  /\ SourceBacked(x) /\ ~Gap(x, "ai_capability_fit") /\ MappedSignals(x) # {}
               /\ ~(x["ai_capability_fit"].value < Policy.minimum_ai_capability_fit)
               /\ ~Gap(x, "data_readiness")
               /\ ~(x["data_readiness"].value < Policy.minimum_data_readiness)
               /\ ~Gap(x, "business_value")
               /\ ~(x["business_value"].value < Policy.minimum_business_value)
               /\ Gaps(x, RiskInputs \cup {Accountability}) = {}
               /\ ~(x[Residual].value >= Policy.unacceptable_residual_risk)
               /\ ~(/\ ConventionalMaterial(x)
                    /\ x["conventional_solution_fit"].value >= Policy.conventional_solution_fit_cutoff)
    <2>1. /\ SourceBacked(y) /\ ~Gap(y, "ai_capability_fit") /\ MappedSignals(y) # {}
          /\ ~(y["ai_capability_fit"].value < Policy.minimum_ai_capability_fit)
          /\ ~Gap(y, "data_readiness")
          /\ ~(y["data_readiness"].value < Policy.minimum_data_readiness)
          /\ ~Gap(y, "business_value")
          /\ ~(y["business_value"].value < Policy.minimum_business_value)
          /\ Gaps(y, RiskInputs \cup {Accountability}) = {}
          /\ ~(y[Residual].value >= Policy.unacceptable_residual_risk)
          /\ ~(/\ ConventionalMaterial(y)
               /\ y["conventional_solution_fit"].value >= Policy.conventional_solution_fit_cutoff)
      BY <1>3, RecommendationIs
    <2>2. MappedSignals(x) = MappedSignals(y)
      BY <1>1 DEF MappedSignals, IsTrue
    <2>3. Gaps(x, RiskInputs \cup {Accountability}) = {}
      BY <1>1, <2>1, RiskInputsAre, CriteriaAreFields DEF Gaps, Known
    <2>4. ~(x["conventional_solution_fit"].value >= Policy.conventional_solution_fit_cutoff)
      BY <1>1, <1>2, <2>1, WorseInputs, CriteriaAreFields DEF ConventionalMaterial
    <2>5. /\ ~Gap(x, "ai_capability_fit") /\ ~Gap(x, "data_readiness") /\ ~Gap(x, "business_value")
      BY <1>1, <2>1, CriteriaAreFields DEF Known
    <2>6. \A f \in {"ai_capability_fit", "data_readiness", "business_value", Residual} :
            x[f].value \in Int /\ y[f].value \in Int
      BY <1>1, CriteriaAreFields
    <2>7. /\ ~(x["ai_capability_fit"].value < Policy.minimum_ai_capability_fit)
          /\ ~(x["data_readiness"].value < Policy.minimum_data_readiness)
          /\ ~(x["business_value"].value < Policy.minimum_business_value)
          /\ ~(x[Residual].value >= Policy.unacceptable_residual_risk)
      BY <1>2, <2>1, <2>6, WorseInputs
    <2>. QED
      BY <1>1, <2>1, <2>2, <2>3, <2>4, <2>5, <2>7
  <1>4. ASSUME Recommendation(y) = "AUTOMATE"
        PROVE  ~NeedsAHuman(x) /\ AutomationEligible(x)
    <2>1. ~NeedsAHuman(y) /\ AutomationEligible(y)
      BY <1>4, RecommendationIs
    <2>. QED
      BY <1>1, <1>2, <2>1, WorseInputs, CriteriaAreFields
         DEF NeedsAHuman, AutomationEligible, Residual, Judgement, Risk
  <1>. QED
    BY <1>3, <1>4, RecommendationIs

(* A direction that was decided.                                           *)
LEMMA WorseDirection ==
  ASSUME NEW x \in Inputs, NEW y \in Inputs, IsWorse(x, y), Direction(x) \notin Open
  PROVE  /\ Direction(y) = "POTENTIAL_AI_AUTOMATION" => Direction(x) = "POTENTIAL_AI_AUTOMATION"
         /\ Direction(y) = "POTENTIAL_AI_ASSISTED_WORK" =>
              Direction(x) \in {"POTENTIAL_AI_AUTOMATION", "POTENTIAL_AI_ASSISTED_WORK"}
  <1>1. /\ \A f \in Fields : /\ x[f].value \in Int /\ y[f].value \in Int
                             /\ f \notin Criteria \cup {Accountability} => y[f] = x[f]
        /\ \A f \in Signals : y[f] = x[f]
        /\ IsTrue(x, Accountability) => IsTrue(y, Accountability)
    BY WorseFacts
  <1>2. TrueSignals(x) = TrueSignals(y)
    BY <1>1 DEF TrueSignals, Unresolved, IsTrue
  <1>3. /\ Rules.business_value_minimum = 2 /\ Rules.conventional_solution_fit_cutoff = 4
        /\ Rules.ai_capability_fit_minimum = 3 /\ Rules.residual_risk_veto_minimum = 4
    BY DEF Rules
  <1>4. PrelimAutonomy = {Judgement, Risk, Accountability, "predictability"}
    BY DEF PrelimAutonomy, Judgement, Risk
  <1>5. ASSUME Direction(y) \in {"POTENTIAL_AI_AUTOMATION", "POTENTIAL_AI_ASSISTED_WORK"}
        PROVE  /\ Direction(x) \in {"POTENTIAL_AI_AUTOMATION", "POTENTIAL_AI_ASSISTED_WORK"}
               /\ ~Unresolved(y, Residual) /\ ~(y[Residual].value >= 4)
               /\ \A f \in PrelimAutonomy \cup Readied : ~Unresolved(y, f)
    <2>1. /\ ~Unresolved(y, "activity") /\ ~Unresolved(y, "business_value")
          /\ ~(y["business_value"].value < 2) /\ UnresolvedOf(y, Readied) = {}
          /\ ~(\E f \in Readied : Blocks(y, f)) /\ ~Unresolved(y, "conventional_solution_fit")
          /\ ~(y["conventional_solution_fit"].value >= 4) /\ ~Unresolved(y, "ai_capability_fit")
          /\ ~(y["ai_capability_fit"].value < 3) /\ TrueSignals(y) # {} /\ ~Unresolved(y, Residual)
          /\ ~(y[Residual].value >= 4) /\ UnresolvedOf(y, PrelimAutonomy) = {}
      BY <1>3, <1>5, DirectionIs
    <2>2. /\ ~(x["business_value"].value < 2) /\ ~(x["conventional_solution_fit"].value >= 4)
          /\ ~(x["ai_capability_fit"].value < 3) /\ TrueSignals(x) # {}
          /\ ~(x[Residual].value >= 4)
      BY <1>1, <1>2, <2>1, WorseInputs, CriteriaAreFields
    <2>3. ~(\E f \in Readied : Blocks(x, f))
      <3>1. ~(y["data_readiness"].value < 2) /\ ~(y["implementation_complexity"].value > 4)
        BY <2>1, BlocksAre DEF UnresolvedOf
      <3>2. ~(x["data_readiness"].value < 2) /\ ~(x["implementation_complexity"].value > 4)
        BY <1>1, <3>1, WorseInputs, CriteriaAreFields
      <3>. QED
        BY <3>2, BlocksAre
    <2>4. Direction(x) \in {"POTENTIAL_AI_AUTOMATION", "POTENTIAL_AI_ASSISTED_WORK"}
      BY <1>3, <2>2, <2>3, DirectionIs DEF Open
    <2>. QED
      BY <2>1, <2>4 DEF UnresolvedOf
  <1>6. ASSUME Direction(y) = "POTENTIAL_AI_AUTOMATION" PROVE Direction(x) = "POTENTIAL_AI_AUTOMATION"
    <2>1. Hits(y) = {}
      BY <1>6, DirectionIs
    <2>2. /\ ~Unresolved(y, Residual) /\ ~(y[Residual].value >= 4)
          /\ \A f \in {Judgement, Risk, Accountability, "predictability", "data_readiness",
                       "implementation_complexity"} : ~Unresolved(y, f)
      BY <1>4, <1>5, <1>6, BlocksAre
    <2>3. /\ y[Residual].value # 3 /\ ~(y["data_readiness"].value < 4)
          /\ ~(y["implementation_complexity"].value > 3) /\ ~(y[Judgement].value >= 3)
          /\ ~(y[Risk].value >= 3) /\ y[Accountability].value # 1
          /\ ~(y["predictability"].value < 4)
      BY <2>1, <2>2, HitsAre
    <2>4. /\ x[Residual].value # 3 /\ ~(x["data_readiness"].value < 4)
          /\ ~(x["implementation_complexity"].value > 3) /\ ~(x[Judgement].value >= 3)
          /\ ~(x[Risk].value >= 3) /\ x[Accountability].value # 1
          /\ ~(x["predictability"].value < 4)
      <3>1. x[Accountability].value # 1
        BY <1>1, <2>3 DEF IsTrue
      <3>2. \A f \in {Residual, Judgement, Risk, "predictability", "data_readiness",
                      "implementation_complexity"} : x[f].value \in Int /\ y[f].value \in Int
        BY <1>1, CriteriaAreFields
      <3>. QED
        BY <2>2, <2>3, <3>1, <3>2, WorseInputs
    <2>5. Hits(x) = {}
      BY <2>4, HitsAre
    <2>. QED
      BY <1>5, <1>6, <2>5, DirectionIs
  <1>. QED
    BY <1>5, <1>6

LEMMA EarnsNoMoreStep ==
  ASSUME inputs \in Inputs, inputs' \in Inputs, Worsened
  PROVE  EarnsNoMore
  <1>1. PICK x : x = inputs
    OBVIOUS
  <1>2. PICK y : y = inputs'
    OBVIOUS
  <1>3. x \in Inputs /\ y \in Inputs
    BY <1>1, <1>2
  <1>4. IsWorse(x, y)
    BY <1>1, <1>2 DEF Worsened, IsWorse, Changed, Reversed, Known, Gap
  <1>5. Complete(x) => AutonomyRank(y) <= AutonomyRank(x)
    BY <1>3, <1>4, WorseOutcome DEF AutonomyRank
  <1>6. (PriorityStatus(x) = "COMPLETE" /\ PriorityStatus(y) = "COMPLETE") =>
          Priority(y) <= Priority(x)
    BY <1>3, <1>4, WorseScore
  <1>7. Recommendation(x) # "INVESTIGATE_FURTHER" => LegacyRank(y) <= LegacyRank(x)
    BY <1>3, <1>4, WorseRecommendation DEF LegacyRank
  <1>8. Direction(x) \notin Open => PreliminaryRank(y) <= PreliminaryRank(x)
    BY <1>3, <1>4, WorseDirection DEF PreliminaryRank
  <1>9. /\ (Complete(x) /\ Complete(y)) => AutonomyRank(y) <= AutonomyRank(x)
        /\ (Outcome(x) = Outcome(y) /\ PriorityStatus(x) = "COMPLETE"
            /\ PriorityStatus(y) = "COMPLETE") => Priority(y) <= Priority(x)
        /\ Recommendation(x) # "INVESTIGATE_FURTHER" => LegacyRank(y) <= LegacyRank(x)
        /\ Direction(x) \notin Open => PreliminaryRank(y) <= PreliminaryRank(x)
    BY <1>5, <1>6, <1>7, <1>8
  <1>. QED
    BY <1>1, <1>2, <1>9 DEF EarnsNoMore

(* A worse value earns no more autonomy from any of the three rule sets,   *)
(* and no higher score (MoreRiskLessAutonomy).                             *)
THEOREM RiskEarnsNoAutonomy == InputsSpec => MoreRiskLessAutonomy
  <1>1. InputsTypeOK /\ InputsTypeOK' => [Worsened => EarnsNoMore]_inputs
    BY EarnsNoMoreStep DEF InputsTypeOK
  <1>2. InputsSpec => []InputsTypeOK
    BY InputsTyped
  <1>. QED
    BY <1>1, <1>2, PTL DEF MoreRiskLessAutonomy

-----------------------------------------------------------------------------
(* What the rule sets say of the same activity.                            *)
LEMMA MachineAloneInBoth ==
  ASSUME NEW x \in Inputs, Outcome(x) = "AI_AUTOMATION"
  PROVE  Recommendation(x) = "AUTOMATE"
  <1>1. /\ GateOne(x).code = "CHANGE_JUSTIFIED"
        /\ GateTwo(x).code = "READY_FOR_INTERVENTION_SELECTION"
        /\ GateThree(x).code = "AI_SELECTED"
        /\ GateFour(x).code = "AI_AUTOMATION_PERMITTED"
    BY OutcomeIs, GateOneCode, GateTwoCode, GateThreeCode, GateFourCode
  <1>2. /\ SourceBacked(x) /\ ~Gap(x, "business_value")
        /\ ~(x["business_value"].value < Policy.minimum_business_value)
    BY <1>1, GateOneCode
  <1>3. ~Gap(x, "data_readiness") /\ ~(x["data_readiness"].value < Policy.minimum_data_readiness)
    BY <1>1, GateTwoCode DEF Gaps, Blockers, ReadinessInputs, Known
  <1>4. /\ ~Gap(x, "ai_capability_fit") /\ MappedSignals(x) # {}
        /\ ~(x["ai_capability_fit"].value < Policy.minimum_ai_capability_fit)
        /\ ~Gap(x, "conventional_solution_fit")
        /\ ~(x["conventional_solution_fit"].value >= Policy.conventional_solution_fit_cutoff)
    BY <1>1, GateThreeCode DEF SupportedSignals, MappedSignals
  <1>5. /\ ~Gap(x, Residual) /\ Constraints(x) = {}
        /\ ~(x[Residual].value >= Policy.unacceptable_residual_risk)
        /\ Gaps(x, {Judgement, Risk, Accountability}) = {}
        /\ StrictlyFit(x) /\ ~Gap(x, "predictability")
        /\ ~(x["predictability"].value < Policy.automate_minimum_predictability)
    BY <1>1, GateFourCode
  <1>6. Gaps(x, RiskInputs \cup {Accountability}) = {}
    BY <1>5, RiskInputsAre DEF Gaps
  <1>7. ~NeedsAHuman(x)
    <2>1. Known(x, Judgement) /\ Known(x, Risk) /\ Known(x, Accountability)
      BY <1>5 DEF Gaps, Known
    <2>2. /\ ~(x[Residual].value >= Policy.augment_residual_risk)
          /\ ~(x[Judgement].value >= Policy.augment_human_judgement)
          /\ ~(x[Risk].value >= Policy.augment_risk_consequence)
          /\ ~IsTrue(x, Accountability)
      BY <1>5, <2>1 DEF Constraints
    <2>. QED
      BY <2>2 DEF NeedsAHuman, Residual, Judgement, Risk
  <1>8. AutomationEligible(x)
    <2>1. x["predictability"].value \in Int /\ Policy.automate_minimum_predictability \in Int
      BY ItemFacts, CriteriaAreFields, PolicyIsIntegers DEF Thresholds
    <2>. QED
      BY <1>5, <2>1 DEF StrictlyFit, AutomationEligible, Residual, Judgement, Risk
  <1>. QED
    BY <1>2, <1>3, <1>4, <1>5, <1>6, <1>7, <1>8, RecommendationIs

Documents(x) == \A f \in Rated \cup {"activity"} : x[f].kind = "documented"

LEMMA DocumentedFacts ==
  ASSUME NEW x, Documents(x)
  PROVE  /\ SourceBacked(x)
         /\ \A f \in Rated \cup {"activity"} :
              Known(x, f) /\ ~Gap(x, f) /\ ~Unresolved(x, f)
         /\ \A fs \in SUBSET Rated : Gaps(x, fs) = {} /\ UnresolvedOf(x, fs) = {}
         /\ SupportedSignals(x) = MappedSignals(x) /\ TrueSignals(x) = MappedSignals(x)
  <1>1. \A f \in Rated \cup {"activity"} : Known(x, f) /\ ~Gap(x, f) /\ ~Unresolved(x, f)
    BY DEF Documents, Known, Gap, Sufficient, Empty, Unresolved, Classification
  <1>2. Collected(x, "activity")
    BY DEF Documents, Collected, Reviewed
  <1>. QED
    BY <1>1, <1>2 DEF SourceBacked, StepFields, Gaps, UnresolvedOf, SupportedSignals, TrueSignals,
                      MappedSignals, Rated

LEMMA AutomatesWhenReady ==
  ASSUME NEW x \in Inputs, Documents(x), Recommendation(x) = "AUTOMATE",
         x["implementation_complexity"].value
           <= Policy.maximum_implementation_complexity_for_readiness
  PROVE  Outcome(x) = "AI_AUTOMATION"
  <1>1. /\ SourceBacked(x) /\ ~Gap(x, "ai_capability_fit") /\ MappedSignals(x) # {}
        /\ ~(x["ai_capability_fit"].value < Policy.minimum_ai_capability_fit)
        /\ ~Gap(x, "data_readiness")
        /\ ~(x["data_readiness"].value < Policy.minimum_data_readiness)
        /\ ~Gap(x, "business_value")
        /\ ~(x["business_value"].value < Policy.minimum_business_value)
        /\ Gaps(x, RiskInputs \cup {Accountability}) = {}
        /\ ~(x[Residual].value >= Policy.unacceptable_residual_risk)
        /\ ~(/\ ConventionalMaterial(x)
             /\ x["conventional_solution_fit"].value >= Policy.conventional_solution_fit_cutoff)
        /\ ~NeedsAHuman(x) /\ ~Gap(x, "predictability") /\ AutomationEligible(x)
    BY RecommendationIs
  <1>2. /\ \A f \in Rated \cup {"activity"} : Known(x, f) /\ ~Gap(x, f)
        /\ \A fs \in SUBSET Rated : Gaps(x, fs) = {}
        /\ SupportedSignals(x) = MappedSignals(x)
    BY DocumentedFacts
  <1>3. \A f \in Fields : x[f].value \in Int
    BY ItemFacts
  <1>4. /\ Policy.maximum_implementation_complexity_for_readiness \in Int
        /\ Policy.automate_minimum_predictability \in Int
        /\ Policy.automate_minimum_data_readiness \in Int
    BY PolicyIsIntegers DEF Thresholds
  <1>5. GateOne(x).code = "CHANGE_JUSTIFIED"
    BY <1>1, GateOneCode
  <1>6. GateTwo(x).code = "READY_FOR_INTERVENTION_SELECTION"
    <2>1. Blockers(x) = {}
      BY <1>1, <1>3, <1>4, CriteriaAreFields DEF Blockers, ReadinessInputs
    <2>2. Gaps(x, ReadinessInputs) = {}
      BY <1>2, CriteriaAreFields DEF ReadinessInputs, Rated
    <2>. QED
      BY <2>1, <2>2, GateTwoCode
  <1>7. GateThree(x).code = "AI_SELECTED"
    <2>1. ~(x["conventional_solution_fit"].value >= Policy.conventional_solution_fit_cutoff)
      BY <1>1 DEF AutomationEligible, ConventionalMaterial
    <2>2. ~Gap(x, "conventional_solution_fit")
      BY <1>2, CriteriaAreFields DEF Rated
    <2>. QED
      BY <1>1, <1>2, <2>1, <2>2, GateThreeCode
  <1>8. GateFour(x).code = "AI_AUTOMATION_PERMITTED"
    <2>1. ~Gap(x, Residual) /\ Gaps(x, {Judgement, Risk, Accountability}) = {}
      BY <1>2, CriteriaAreFields DEF Rated
    <2>2. Constraints(x) = {}
      BY <1>1 DEF NeedsAHuman, Constraints, Residual, Judgement, Risk
    <2>3. StrictlyFit(x)
      BY <1>1 DEF AutomationEligible, StrictlyFit, Residual, Judgement, Risk
    <2>4. ~(x["predictability"].value < Policy.automate_minimum_predictability)
      BY <1>1, <1>3, <1>4, CriteriaAreFields DEF AutomationEligible
    <2>. QED
      BY <1>1, <2>1, <2>2, <2>3, <2>4, GateFourCode
  <1>. QED
    BY <1>5, <1>6, <1>7, <1>8, OutcomeIs

LEMMA SameKind ==
  ASSUME SharedThresholds, NEW x \in Inputs, Documents(x)
  PROVE  Direction(x) \in Kind(x)
  <1>1. /\ SourceBacked(x)
        /\ \A f \in Rated \cup {"activity"} : ~Gap(x, f) /\ ~Unresolved(x, f)
        /\ \A fs \in SUBSET Rated : Gaps(x, fs) = {} /\ UnresolvedOf(x, fs) = {}
        /\ SupportedSignals(x) = TrueSignals(x)
    BY DocumentedFacts
  <1>2. /\ Policy.minimum_business_value = 2 /\ Policy.minimum_data_readiness = 2
        /\ Policy.maximum_implementation_complexity_for_readiness = 4
        /\ Policy.conventional_solution_fit_cutoff = 4 /\ Policy.minimum_ai_capability_fit = 3
        /\ Policy.unacceptable_residual_risk = 4
        /\ Rules.business_value_minimum = 2 /\ Rules.conventional_solution_fit_cutoff = 4
        /\ Rules.ai_capability_fit_minimum = 3 /\ Rules.residual_risk_veto_minimum = 4
    BY DEF SharedThresholds, Rules
  <1>3. /\ ~Gap(x, "business_value") /\ ~Unresolved(x, "business_value") /\ ~Unresolved(x, "activity")
        /\ ~Gap(x, "conventional_solution_fit") /\ ~Unresolved(x, "conventional_solution_fit")
        /\ ~Gap(x, "ai_capability_fit") /\ ~Unresolved(x, "ai_capability_fit")
        /\ ~Gap(x, Residual) /\ ~Unresolved(x, Residual)
        /\ Gaps(x, ReadinessInputs) = {} /\ UnresolvedOf(x, Readied) = {}
        /\ Gaps(x, Signals) = {} /\ UnresolvedOf(x, Signals) = {}
        /\ UnresolvedOf(x, PrelimAutonomy) = {}
        /\ Gaps(x, {Judgement, Risk, Accountability}) = {} /\ ~Gap(x, "predictability")
    BY <1>1, BlocksAre, CriteriaAreFields
       DEF Rated, ReadinessInputs, PrelimAutonomy, Judgement, Risk
  <1>4. Blockers(x) # {} <=> \E f \in Readied : Blocks(x, f)
    <2>1. /\ ~Gap(x, "data_readiness") /\ ~Unresolved(x, "data_readiness")
          /\ ~Gap(x, "implementation_complexity") /\ ~Unresolved(x, "implementation_complexity")
      BY <1>1, CriteriaAreFields DEF Rated
    <2>2. Blockers(x) # {} <=>
            \/ x["data_readiness"].value < 2
            \/ x["implementation_complexity"].value > 4
      BY <1>2, <2>1 DEF Blockers, ReadinessInputs, Known
    <2>. QED
      BY <2>1, <2>2, BlocksAre
  <1>5. Direction(x) =
          IF x["business_value"].value < 2 THEN "LIKELY_NO_CHANGE"
          ELSE IF Blockers(x) # {} THEN "LIKELY_PROCESS_IMPROVEMENT_FIRST"
          ELSE IF x["conventional_solution_fit"].value >= 4 THEN "LIKELY_CONVENTIONAL_AUTOMATION"
          ELSE IF x["ai_capability_fit"].value < 3 THEN "LIKELY_HUMAN_LED"
          ELSE IF SupportedSignals(x) = {} THEN "LIKELY_HUMAN_LED"
          ELSE IF x[Residual].value >= 4 THEN "LIKELY_HUMAN_LED"
          ELSE IF Hits(x) # {} THEN "POTENTIAL_AI_ASSISTED_WORK" ELSE "POTENTIAL_AI_AUTOMATION"
    BY <1>1, <1>2, <1>3, <1>4, DirectionIs
  <1>6. /\ GateOne(x).code =
             IF x["business_value"].value < 2 THEN "NO_CHANGE_JUSTIFIED" ELSE "CHANGE_JUSTIFIED"
        /\ GateTwo(x).code =
             IF Blockers(x) # {} THEN "PROCESS_IMPROVEMENT_FIRST"
             ELSE "READY_FOR_INTERVENTION_SELECTION"
        /\ GateThree(x).code =
             IF x["conventional_solution_fit"].value >= 4 THEN "CONVENTIONAL_AUTOMATION_SELECTED"
             ELSE IF x["ai_capability_fit"].value < 3 THEN "KEEP_HUMAN_LED_SELECTED"
             ELSE IF SupportedSignals(x) # {} THEN "AI_SELECTED" ELSE "KEEP_HUMAN_LED_SELECTED"
    BY <1>1, <1>2, <1>3, GateOneCode, GateTwoCode, GateThreeCode
  <1>7. /\ GateFour(x).code = "AI_NOT_PERMITTED" <=> x[Residual].value >= 4
        /\ GateFour(x).code # "DISCOVERY_REQUIRED"
    BY <1>2, <1>3, GateFourCode
  <1>8. Outcome(x) =
          IF x["business_value"].value < 2 THEN "NO_CHANGE_JUSTIFIED"
          ELSE IF Blockers(x) # {} THEN "PROCESS_IMPROVEMENT_FIRST"
          ELSE IF x["conventional_solution_fit"].value >= 4 THEN "CONVENTIONAL_AUTOMATION"
          ELSE IF x["ai_capability_fit"].value < 3 THEN "KEEP_HUMAN_LED"
          ELSE IF SupportedSignals(x) = {} THEN "KEEP_HUMAN_LED"
          ELSE IF x[Residual].value >= 4 THEN "KEEP_HUMAN_LED"
          ELSE IF GateFour(x).code = "AI_ASSISTED_REQUIRED" THEN "AI_ASSISTED_WORK"
          ELSE "AI_AUTOMATION"
    BY <1>6, <1>7, OutcomeIs
  <1>. QED
    BY <1>5, <1>8 DEF Kind

LEMMA FamiliesAgreeAlways ==
  ASSUME SharedThresholds, inputs \in Inputs
  PROVE  FamiliesAgree
  <1>1. PICK x : x = inputs
    OBVIOUS
  <1>2. x \in Inputs
    BY <1>1
  <1>3. AllDocumented <=> Documents(x)
    BY <1>1 DEF AllDocumented, Documents
  <1>4. Documents(x) => Direction(x) \in Kind(x)
    BY <1>2, SameKind
  <1>5. Outcome(x) = "AI_AUTOMATION" => Recommendation(x) = "AUTOMATE"
    BY <1>2, MachineAloneInBoth
  <1>6. (/\ Documents(x) /\ Recommendation(x) = "AUTOMATE"
         /\ x["implementation_complexity"].value
              <= Policy.maximum_implementation_complexity_for_readiness) =>
          Outcome(x) = "AI_AUTOMATION"
    BY <1>2, AutomatesWhenReady
  <1>. QED
    BY <1>1, <1>3, <1>4, <1>5, <1>6 DEF FamiliesAgree

(* Under a policy that shares its thresholds with the evaluator, as the    *)
(* shipped one does, the rule sets agree on documented inputs, and what    *)
(* evaluate_four_gates leaves to a machine alone evaluate_gates does as    *)
(* well (FamiliesAgree).                                                   *)
THEOREM RuleSetsAgree ==
  ASSUME SharedThresholds
  PROVE  InputsSpec => []FamiliesAgree
  <1>1. InputsTypeOK => FamiliesAgree
    BY FamiliesAgreeAlways DEF InputsTypeOK
  <1>2. InputsSpec => []InputsTypeOK
    BY InputsTyped
  <1>. QED
    BY <1>1, <1>2, PTL

-----------------------------------------------------------------------------
(* What a decision rests on.                                               *)

\* What a gate records beside its code.
LEMMA GateOneRecord ==
  ASSUME NEW x
  PROVE  /\ Gaps(x, GateOne(x).material) \subseteq GateOne(x).gaps
         /\ GateOne(x).signals = {} /\ ~GateOne(x).accountability
         /\ GateOne(x).gaps \subseteq {"activity", "business_value"}
         /\ GateOne(x).material \subseteq {"business_value"}
         /\ GateOne(x).context \subseteq {"repetition"}
         /\ GateOne(x).gaps # {} <=> GateOne(x).code = "DISCOVERY_REQUIRED"
  BY DEF GateOne, Blocked, Completed, Result, Gaps

LEMMA GateTwoRecord ==
  ASSUME NEW x
  PROVE  /\ Gaps(x, GateTwo(x).material) \subseteq GateTwo(x).gaps
         /\ GateTwo(x).signals = {} /\ ~GateTwo(x).accountability
         /\ GateTwo(x).gaps \subseteq ReadinessInputs
         /\ GateTwo(x).material \subseteq ReadinessInputs
         /\ GateTwo(x).material \cap GateTwo(x).context = {}
         /\ GateTwo(x).gaps # {} <=> GateTwo(x).code = "DISCOVERY_REQUIRED"
  <1>1. Blockers(x) \subseteq ReadinessInputs /\ Gaps(x, Blockers(x)) = {}
    BY DEF Blockers, Gaps, Known
  <1>2. ReadinessInputs \cap ReadinessContext = {}
    BY DEF ReadinessInputs, ReadinessContext
  <1>3. CASE Blockers(x) # {}
    <2>1. GateTwo(x) = NotReady(x)
      BY <1>3 DEF GateTwo
    <2>. QED
      BY <1>1, <1>2, <2>1 DEF NotReady, Constrained, Result
  <1>4. CASE Blockers(x) = {} /\ Gaps(x, ReadinessInputs) # {}
    <2>1. GateTwo(x) = Blocked(ReadinessInputs, ReadinessContext, {}, FALSE, Gaps(x, ReadinessInputs))
      BY <1>4 DEF GateTwo
    <2>2. Gaps(x, ReadinessInputs) \subseteq ReadinessInputs
      BY DEF Gaps
    <2>. QED
      BY <1>2, <1>4, <2>1, <2>2 DEF Blocked, Result
  <1>5. CASE Blockers(x) = {} /\ Gaps(x, ReadinessInputs) = {}
    <2>1. GateTwo(x) =
            Completed("READY_FOR_INTERVENTION_SELECTION", ReadinessInputs, ReadinessContext, {}, FALSE)
      BY <1>5 DEF GateTwo
    <2>. QED
      BY <1>2, <1>5, <2>1 DEF Completed, Result
  <1>. QED
    BY <1>3, <1>4, <1>5

LEMMA GateThreeRecord ==
  ASSUME NEW x
  PROVE  /\ Gaps(x, GateThree(x).material) \subseteq GateThree(x).gaps
         /\ Gaps(x, GateThree(x).signals) # {} => GateThree(x).gaps # {}
         /\ ~GateThree(x).accountability /\ GateThree(x).signals \subseteq Signals
         /\ GateThree(x).gaps \subseteq FitInputs \cup {SignalsGap}
         /\ GateThree(x).material \subseteq FitInputs /\ GateThree(x).context = {}
         /\ GateThree(x).gaps # {} <=> GateThree(x).code = "DISCOVERY_REQUIRED"
  <1>1. Gaps(x, SupportedSignals(x)) = {} /\ SupportedSignals(x) \subseteq Signals
    BY DEF SupportedSignals, Gaps, Known
  <1>2. Gaps(x, Signals) \subseteq Signals
    BY DEF Gaps
  <1>. QED
    BY <1>1, <1>2 DEF GateThree, Blocked, Completed, Result, FitInputs, Gaps

LEMMA GateFourRecord ==
  ASSUME NEW x
  PROVE  /\ Gaps(x, GateFour(x).material) \subseteq GateFour(x).gaps
         /\ GateFour(x).accountability /\ Gap(x, Accountability) => GateFour(x).gaps # {}
         /\ GateFour(x).signals = {} /\ GateFour(x).context = {}
         /\ GateFour(x).gaps \subseteq AutonomyInputs \cup {Accountability, "predictability"}
         /\ GateFour(x).material \subseteq AutonomyInputs \cup {"predictability"}
         /\ GateFour(x).gaps # {} <=> GateFour(x).code = "DISCOVERY_REQUIRED"
  <1>1. CASE Gap(x, Residual)
    <2>1. GateFour(x) = Blocked({Residual}, {}, {}, FALSE, {Residual})
      BY <1>1 DEF GateFour
    <2>. QED
      BY <1>1, <2>1 DEF Blocked, Result, Gaps, AutonomyInputs
  <1>2. CASE ~Gap(x, Residual) /\ x[Residual].value >= Policy.unacceptable_residual_risk
    <2>1. GateFour(x) = Constrained("AI_NOT_PERMITTED", {Residual}, {}, FALSE)
      BY <1>2 DEF GateFour
    <2>. QED
      BY <1>2, <2>1 DEF Constrained, Result, Gaps, AutonomyInputs
  <1>3. CASE /\ ~Gap(x, Residual) /\ ~(x[Residual].value >= Policy.unacceptable_residual_risk)
             /\ Constraints(x) # {}
    <2>1. GateFour(x) =
            Constrained("AI_ASSISTED_REQUIRED", {Residual} \cup (Constraints(x) \ {Accountability}),
                        {}, Accountability \in Constraints(x))
      BY <1>3 DEF GateFour
    <2>2. /\ Constraints(x) \subseteq AutonomyInputs \cup {Accountability}
          /\ Gaps(x, Constraints(x)) = {}
      BY <1>3 DEF Constraints, AutonomyInputs, Gaps, Known
    <2>3. /\ GateFour(x).material = {Residual} \cup (Constraints(x) \ {Accountability})
          /\ GateFour(x).gaps = {} /\ GateFour(x).signals = {} /\ GateFour(x).context = {}
          /\ GateFour(x).accountability = (Accountability \in Constraints(x))
          /\ GateFour(x).code = "AI_ASSISTED_REQUIRED"
      BY <2>1 DEF Constrained, Result
    <2>4. Gaps(x, GateFour(x).material) = {}
      BY <1>3, <2>2, <2>3 DEF Gaps
    <2>5. Accountability \in Constraints(x) => ~Gap(x, Accountability)
      BY <2>2 DEF Gaps
    <2>. QED
      BY <2>2, <2>3, <2>4, <2>5 DEF AutonomyInputs
  <1>4. CASE /\ ~Gap(x, Residual) /\ ~(x[Residual].value >= Policy.unacceptable_residual_risk)
             /\ Constraints(x) = {} /\ Gaps(x, {Judgement, Risk, Accountability}) # {}
    <2>1. GateFour(x) =
            Blocked(AutonomyInputs, {}, {}, TRUE, Gaps(x, {Judgement, Risk, Accountability}))
      BY <1>4 DEF GateFour
    <2>2. Gaps(x, AutonomyInputs) \subseteq Gaps(x, {Judgement, Risk, Accountability})
      BY <1>4 DEF Gaps, AutonomyInputs
    <2>3. Gaps(x, {Judgement, Risk, Accountability}) \subseteq {Judgement, Risk, Accountability}
      BY DEF Gaps
    <2>. QED
      BY <1>4, <2>1, <2>2, <2>3 DEF Blocked, Result, AutonomyInputs
  <1>5. CASE /\ ~Gap(x, Residual) /\ ~(x[Residual].value >= Policy.unacceptable_residual_risk)
             /\ Constraints(x) = {} /\ Gaps(x, {Judgement, Risk, Accountability}) = {}
    <2>1. Gaps(x, AutonomyInputs) = {} /\ ~Gap(x, Accountability)
      BY <1>5 DEF Gaps, AutonomyInputs
    <2>2. Gaps(x, AutonomyInputs \cup {"predictability"}) \subseteq {"predictability"}
      BY <2>1 DEF Gaps
    <2>3. ~Gap(x, "predictability") => Gaps(x, AutonomyInputs \cup {"predictability"}) = {}
      BY <2>1 DEF Gaps
    <2>4. \/ /\ GateFour(x).material = AutonomyInputs /\ GateFour(x).gaps = {}
             /\ GateFour(x).code = "AI_ASSISTED_REQUIRED"
          \/ /\ GateFour(x).material = AutonomyInputs \cup {"predictability"}
             /\ GateFour(x).gaps = {"predictability"} /\ GateFour(x).code = "DISCOVERY_REQUIRED"
          \/ /\ GateFour(x).material = AutonomyInputs \cup {"predictability"}
             /\ GateFour(x).gaps = {} /\ GateFour(x).code # "DISCOVERY_REQUIRED"
             /\ ~Gap(x, "predictability")
      BY <1>5 DEF GateFour, Blocked, Constrained, Completed, Result
    <2>5. GateFour(x).signals = {} /\ GateFour(x).context = {}
      BY <1>5 DEF GateFour, Blocked, Constrained, Completed, Result
    <2>. QED
      BY <2>1, <2>2, <2>3, <2>4, <2>5
  <1>. QED
    BY <1>1, <1>2, <1>3, <1>4, <1>5

LEMMA ResultsAre ==
  ASSUME NEW x
  PROVE  /\ DecidingGate(x) \in 1 .. 4
         /\ GateResults(x)[1] = GateOne(x)
         /\ DecidingGate(x) >= 2 => GateResults(x)[2] = GateTwo(x)
         /\ DecidingGate(x) >= 3 => GateResults(x)[3] = GateThree(x)
         /\ DecidingGate(x) >= 4 => GateResults(x)[4] = GateFour(x)
         /\ \A g \in 1 .. 4 : g > DecidingGate(x) => GateResults(x)[g] = NotEvaluated
         /\ GateResults(x)[DecidingGate(x)] = Deciding(x)
  <1>1. DecidingGate(x) \in {1, 2, 3, 4}
    BY DEF DecidingGate
  <1>2. \A g \in 1 .. 4 :
          GateResults(x)[g] = IF g <= DecidingGate(x) THEN Evaluated(x, g) ELSE NotEvaluated
    BY DEF GateResults
  <1>3. /\ Evaluated(x, 1) = GateOne(x) /\ Evaluated(x, 2) = GateTwo(x)
        /\ Evaluated(x, 3) = GateThree(x) /\ Evaluated(x, 4) = GateFour(x)
    BY DEF Evaluated
  <1>. QED
    BY <1>1, <1>2, <1>3 DEF Deciding

LEMMA GapsAreTraced ==
  ASSUME NEW x
  PROVE  \A g \in 1 .. DecidingGate(x) :
           LET r == GateResults(x)[g] IN
           Gaps(x, r.material) \subseteq r.gaps /\ (Gaps(x, r.signals) # {} => r.gaps # {})
  <1>1. Gaps(x, {}) = {}
    BY DEF Gaps
  <1>2. ASSUME NEW r \in {GateOne(x), GateTwo(x), GateThree(x), GateFour(x)}
        PROVE  Gaps(x, r.material) \subseteq r.gaps /\ (Gaps(x, r.signals) # {} => r.gaps # {})
    BY <1>1, GateOneRecord, GateTwoRecord, GateThreeRecord, GateFourRecord
  <1>3. ASSUME NEW g \in 1 .. DecidingGate(x)
        PROVE  GateResults(x)[g] \in {GateOne(x), GateTwo(x), GateThree(x), GateFour(x)}
    BY ResultsAre
  <1>. QED
    BY <1>2, <1>3

LEMMA AskedIsNoContext ==
  ASSUME NEW x
  PROVE  BlockingGaps(x) \cap ContextualUnknowns(x) = {}
  <1>1. BlockingGaps(x) \subseteq Criteria \cup {Accountability, "activity", SignalsGap}
    <2>1. Deciding(x) \in {GateOne(x), GateTwo(x), GateThree(x), GateFour(x)}
      BY DEF Deciding, Evaluated, DecidingGate
    <2>2. ASSUME NEW r \in {GateOne(x), GateTwo(x), GateThree(x), GateFour(x)}
          PROVE  r.gaps \subseteq Criteria \cup {Accountability, "activity", SignalsGap}
      BY GateOneRecord, GateTwoRecord, GateThreeRecord, GateFourRecord, CriteriaAreFields
         DEF ReadinessInputs, FitInputs, AutonomyInputs
    <2>. QED
      BY <2>1, <2>2 DEF BlockingGaps
  <1>2. Signals \cap (Criteria \cup {Accountability, "activity"}) = {}
    BY SignalsAssumption DEF StepFields
  <1>. QED
    BY <1>1, <1>2 DEF ContextualUnknowns

(* The package of the earlier policy.                                      *)
LEMMA LegacyGateRecords ==
  ASSUME NEW x
  PROVE  /\ EvidenceGate(x).material = {} /\ Skipped.material = {}
         /\ TechnicalGate(x).mode # "INVESTIGATE_FURTHER" => Gaps(x, TechnicalGate(x).material) = {}
         /\ ValueGate(x).mode # "INVESTIGATE_FURTHER" => Gaps(x, ValueGate(x).material) = {}
         /\ RiskGate(x).mode # "INVESTIGATE_FURTHER" => Gaps(x, RiskGate(x).material) = {}
  <1>1. EvidenceGate(x).material = {} /\ Skipped.material = {}
    BY DEF EvidenceGate, Skipped, MaterialGap, Passed, GateResult
  <1>2. TechnicalGate(x).mode # "INVESTIGATE_FURTHER" => Gaps(x, TechnicalGate(x).material) = {}
    BY DEF TechnicalGate, MaterialGap, Rejected, Passed, GateResult, Gaps, FitMaterial
  <1>3. ValueGate(x).mode # "INVESTIGATE_FURTHER" => Gaps(x, ValueGate(x).material) = {}
    BY DEF ValueGate, MaterialGap, Rejected, Passed, GateResult, Gaps
  <1>4. RiskGate(x).mode # "INVESTIGATE_FURTHER" => Gaps(x, RiskGate(x).material) = {}
    BY DEF RiskGate, MaterialGap, Rejected, Augmented, GateResult, Gaps
  <1>. QED
    BY <1>1, <1>2, <1>3, <1>4

LEMMA LegacyMaterialKnown ==
  ASSUME NEW x, Recommendation(x) # "INVESTIGATE_FURTHER"
  PROVE  Gaps(x, LegacyMaterial(x)) = {}
  <1>1. \A g \in 1 .. 4 : Gaps(x, EvaluateGates(x)[g].material) = {}
    <2>1. Gaps(x, {}) = {}
      BY DEF Gaps
    <2>2. CASE EvidenceGate(x).mode # Undecided
      BY <2>1, <2>2, LegacyGateRecords DEF EvaluateGates
    <2>3. CASE EvidenceGate(x).mode = Undecided /\ TechnicalGate(x).mode # Undecided
      <3>1. TechnicalGate(x).mode # "INVESTIGATE_FURTHER"
        BY <2>3 DEF Recommendation
      <3>2. EvaluateGates(x) = <<EvidenceGate(x), TechnicalGate(x), Skipped, Skipped>>
        BY <2>3 DEF EvaluateGates
      <3>3. ASSUME NEW r \in {EvidenceGate(x), TechnicalGate(x), Skipped}
            PROVE  Gaps(x, r.material) = {}
        BY <2>1, <3>1, LegacyGateRecords
      <3>. QED
        BY <3>2, <3>3
    <2>4. CASE /\ EvidenceGate(x).mode = Undecided /\ TechnicalGate(x).mode = Undecided
               /\ ValueGate(x).mode # Undecided
      <3>1. /\ TechnicalGate(x).mode # "INVESTIGATE_FURTHER"
            /\ ValueGate(x).mode # "INVESTIGATE_FURTHER"
        BY <2>4 DEF Recommendation, Undecided
      <3>2. EvaluateGates(x) = <<EvidenceGate(x), TechnicalGate(x), ValueGate(x), Skipped>>
        BY <2>4 DEF EvaluateGates
      <3>3. ASSUME NEW r \in {EvidenceGate(x), TechnicalGate(x), ValueGate(x), Skipped}
            PROVE  Gaps(x, r.material) = {}
        BY <2>1, <3>1, LegacyGateRecords
      <3>. QED
        BY <3>2, <3>3
    <2>5. CASE /\ EvidenceGate(x).mode = Undecided /\ TechnicalGate(x).mode = Undecided
               /\ ValueGate(x).mode = Undecided
      <3>1. /\ TechnicalGate(x).mode # "INVESTIGATE_FURTHER"
            /\ ValueGate(x).mode # "INVESTIGATE_FURTHER"
            /\ RiskGate(x).mode # "INVESTIGATE_FURTHER"
        BY <2>5 DEF Recommendation, Undecided
      <3>2. EvaluateGates(x) = <<EvidenceGate(x), TechnicalGate(x), ValueGate(x), RiskGate(x)>>
        BY <2>5 DEF EvaluateGates
      <3>3. ASSUME NEW r \in {EvidenceGate(x), TechnicalGate(x), ValueGate(x), RiskGate(x)}
            PROVE  Gaps(x, r.material) = {}
        BY <2>1, <3>1, LegacyGateRecords
      <3>. QED
        BY <3>2, <3>3
    <2>. QED
      BY <2>2, <2>3, <2>4, <2>5
  <1>. QED
    BY <1>1 DEF LegacyMaterial, Gaps

LEMMA KindOfKnown ==
  ASSUME NEW x \in Inputs, NEW f \in Fields, Known(x, f)
  PROVE  /\ x[f].kind \in {"documented", "conflicted", "inferred"}
         /\ RecordedState(x[f]) = Reviewed(x[f]).state
         /\ RecordedState(x[f]) = IF x[f].kind = "inferred" THEN "INFERRED" ELSE "KNOWN"
  <1>1. x[f].kind \in {"documented", "conflicted", "inferred"}
    BY ItemFacts DEF Known, Gap, Sufficient, Kinds, Empty
  <1>. QED
    BY <1>1 DEF RecordedState, Reviewed, Empty

LEMMA StagesAre ==
  ASSUME NEW x
  PROVE  /\ (\E i \in DOMAIN Stages(x) : Stages(x)[i] = "DEPLOYMENT_DECISION") =>
              Recommendation(x) \in LegacyEligible
         /\ Recommendation(x) \in LegacyEligible /\ Reviewed(x["data_readiness"]).state # "KNOWN" =>
              Stages(x)[2] = "DATA_READINESS_VALIDATION"
  <1>1. ASSUME Recommendation(x) = "INVESTIGATE_FURTHER"
        PROVE  \A i \in DOMAIN Stages(x) : Stages(x)[i] # "DEPLOYMENT_DECISION"
    <2>1. Stages(x) = <<"INFORMATION_GATHERING", "FEASIBILITY_VALIDATION", "GO_REVISE_STOP_DECISION">>
      BY <1>1 DEF Stages, LegacyEligible
    <2>. QED
      BY <2>1
  <1>2. ASSUME Recommendation(x) \notin LegacyEligible, Recommendation(x) # "INVESTIGATE_FURTHER"
        PROVE  \A i \in DOMAIN Stages(x) : Stages(x)[i] # "DEPLOYMENT_DECISION"
    <2>1. Stages(x) = << >>
      BY <1>2 DEF Stages
    <2>. QED
      BY <2>1
  <1>3. ASSUME Recommendation(x) \in LegacyEligible, Reviewed(x["data_readiness"]).state # "KNOWN"
        PROVE  Stages(x)[2] = "DATA_READINESS_VALIDATION"
    <2>1. Stages(x) =
            <<"OPPORTUNITY_VALIDATION">> \o <<"DATA_READINESS_VALIDATION">>
              \o <<"PROOF_OF_CONCEPT", "GO_REVISE_STOP_DECISION", "CONTROLLED_PILOT",
                   "HUMAN_CONTROL_EVALUATION", "GOVERNANCE_SECURITY_REVIEW", "DEPLOYMENT_DECISION",
                   "INTEGRATION_PLANNING", "PRODUCTION_MONITORING">>
      BY <1>3 DEF Stages, LegacyEligible
    <2>. QED
      BY <2>1
  <1>. QED
    BY <1>1, <1>2, <1>3

LEMMA PackageIsHonest ==
  ASSUME NEW x \in Inputs
  PROVE  PackageHonest(x, LegacyPackage(x))
  <1> DEFINE p == LegacyPackage(x)
  <1>1. /\ p.missing = MissingInformation(x) /\ p.completeness = Completeness(x)
        /\ p.stages = Stages(x) /\ p.roles = Roles(x)
    BY DEF LegacyPackage
  <1>2. ASSUME p.completeness = "COMPLETE",
               NEW f \in Criteria \cap (LegacyMaterial(x) \cup LegacyScored(x))
        PROVE  x[f].kind \in {"documented", "conflicted"}
    <2>1. \A g \in MissingInformation(x) : ~g.recommendation /\ ~g.priority /\ ~g.planning
      BY <1>1, <1>2 DEF Completeness
    <2>2. Recommendation(x) # "INVESTIGATE_FURTHER"
      <3>1. SUFFICES ASSUME Recommendation(x) = "INVESTIGATE_FURTHER" PROVE FALSE
        OBVIOUS
      <3>2. Missing("INVESTIGATION_REQUIRED", "recommendation_mode", TRUE, FALSE, FALSE)
              \in MissingInformation(x)
        BY <3>1 DEF MissingInformation
      <3>. QED
        BY <2>1, <3>2 DEF Missing
    <2>3. LegacyMissing(x) = {}
      <3>1. SUFFICES ASSUME LegacyMissing(x) # {} PROVE FALSE
        OBVIOUS
      <3>2. Missing("INCOMPLETE_PRIORITY", "priority", FALSE, TRUE, FALSE) \in MissingInformation(x)
        BY <3>1 DEF MissingInformation
      <3>. QED
        BY <2>1, <3>2 DEF Missing
    <2>4. Known(x, f)
      BY <1>2, <2>2, <2>3, LegacyMaterialKnown DEF LegacyMissing, Gaps, Known
    <2>5. ASSUME RecordedState(x[f]) = "INFERRED" PROVE FALSE
      <3>1. Missing("INFERRED_REQUIRES_CONFIRMATION", f, f \in LegacyMaterial(x),
                    f \in LegacyScored(x), FALSE) \in MissingInformation(x)
        BY <1>2, <2>5 DEF MissingInformation
      <3>. QED
        BY <1>2, <2>1, <3>1 DEF Missing
    <2>. QED
      BY <1>2, <2>4, <2>5, KindOfKnown, CriteriaAreFields
  <1>3. ASSUME "DEPLOYMENT_DECISION" \in {p.stages[i] : i \in DOMAIN p.stages}
        PROVE  /\ \A g \in p.missing : g.recommendation => g.kind = "INFERRED_REQUIRES_CONFIRMATION"
               /\ x["data_readiness"].kind \notin {"documented", "conflicted"} =>
                    p.stages[2] = "DATA_READINESS_VALIDATION"
               /\ IsTrue(x, Accountability) => "DECISION_OWNER" \in p.roles
    <2>1. Recommendation(x) \in LegacyEligible
      BY <1>1, <1>3, StagesAre
    <2>2. Recommendation(x) # "INVESTIGATE_FURTHER"
      BY <2>1 DEF LegacyEligible
    <2>3. \A f \in LegacyMaterial(x) : Known(x, f)
      BY <2>2, LegacyMaterialKnown DEF Gaps, Known
    <2>4. \A f \in LegacyMaterial(x) \cap (Criteria \cup {Accountability}) :
            RecordedState(x[f]) # "UNKNOWN"
      BY <2>3, KindOfKnown, CriteriaAreFields
    <2>5. ASSUME NEW g \in MissingInformation(x), g.recommendation
          PROVE  g.kind = "INFERRED_REQUIRES_CONFIRMATION"
      <3>1. \/ \E f \in Criteria :
                 /\ RecordedState(x[f]) = "UNKNOWN"
                 /\ g = Missing("UNKNOWN_INPUT", f, f \in LegacyMaterial(x), f \in LegacyScored(x), FALSE)
            \/ \E f \in Criteria \cap (LegacyMaterial(x) \cup LegacyScored(x)) :
                 g = Missing("INFERRED_REQUIRES_CONFIRMATION", f, f \in LegacyMaterial(x),
                             f \in LegacyScored(x), FALSE)
            \/ /\ RecordedState(x[Accountability]) = "UNKNOWN"
               /\ g = Missing("UNKNOWN_INPUT", Accountability, Accountability \in LegacyMaterial(x),
                              FALSE, Recommendation(x) # "DO_NOT_RECOMMEND")
            \/ \E f \in Signals :
                 g = Missing("UNKNOWN_INPUT", f, FALSE, FALSE, Recommendation(x) = "INVESTIGATE_FURTHER")
            \/ g = Missing("INCOMPLETE_PRIORITY", "priority", FALSE, TRUE, FALSE)
        BY <2>2, <2>5 DEF MissingInformation
      <3>4. CASE \E f \in Criteria \cap (LegacyMaterial(x) \cup LegacyScored(x)) :
                   g = Missing("INFERRED_REQUIRES_CONFIRMATION", f, f \in LegacyMaterial(x),
                               f \in LegacyScored(x), FALSE)
        BY <3>4 DEF Missing
      <3>5. CASE \E f \in Criteria :
                   /\ RecordedState(x[f]) = "UNKNOWN"
                   /\ g = Missing("UNKNOWN_INPUT", f, f \in LegacyMaterial(x), f \in LegacyScored(x), FALSE)
        <4>1. PICK f \in Criteria :
                   /\ RecordedState(x[f]) = "UNKNOWN"
                   /\ g = Missing("UNKNOWN_INPUT", f, f \in LegacyMaterial(x), f \in LegacyScored(x), FALSE)
          BY <3>5
        <4>2. f \in LegacyMaterial(x)
          BY <4>1, <2>5 DEF Missing
        <4>. QED
          BY <2>4, <4>1, <4>2
      <3>6. CASE /\ RecordedState(x[Accountability]) = "UNKNOWN"
                 /\ g = Missing("UNKNOWN_INPUT", Accountability, Accountability \in LegacyMaterial(x),
                                FALSE, Recommendation(x) # "DO_NOT_RECOMMEND")
        <4>1. Accountability \in LegacyMaterial(x)
          BY <3>6, <2>5 DEF Missing
        <4>. QED
          BY <2>4, <3>6, <4>1
      <3>7. CASE \E f \in Signals :
                   g = Missing("UNKNOWN_INPUT", f, FALSE, FALSE, Recommendation(x) = "INVESTIGATE_FURTHER")
        BY <3>7, <2>5 DEF Missing
      <3>8. CASE g = Missing("INCOMPLETE_PRIORITY", "priority", FALSE, TRUE, FALSE)
        BY <3>8, <2>5 DEF Missing
      <3>. QED
        BY <3>1, <3>4, <3>5, <3>6, <3>7, <3>8
    <2>6. Known(x, "data_readiness")
      BY <2>1, RecommendationIs DEF LegacyEligible, Known
    <2>7. ASSUME x["data_readiness"].kind \notin {"documented", "conflicted"}
          PROVE  Stages(x)[2] = "DATA_READINESS_VALIDATION"
      <3>1. Reviewed(x["data_readiness"]).state # "KNOWN"
        BY <2>6, <2>7, KindOfKnown, CriteriaAreFields
      <3>. QED
        BY <2>1, <3>1, StagesAre
    <2>8. ASSUME IsTrue(x, Accountability) PROVE "DECISION_OWNER" \in Roles(x)
      <3>1. Recommendation(x) = "AUGMENT"
        BY <2>1, <2>8, RecommendationIs DEF LegacyEligible, NeedsAHuman
      <3>. QED
        BY <2>8, <3>1 DEF Roles
    <2>. QED
      BY <1>1, <2>5, <2>7, <2>8
  <1> HIDE DEF p
  <1>. QED
    BY <1>2, <1>3 DEF PackageHonest, p

(* The comparisons of a preliminary direction hold of the inputs, and a    *)
(* direction that is decided rests on resolved inputs.                     *)
Holds(x, marks) == \A k \in marks : Matches(x, k) /\ ~Unresolved(x, k.input)

LEMMA MarkFacts ==
  ASSUME NEW x, NEW f, NEW v
  PROVE  /\ \A op : Mark(f, op, v).input = f
         /\ Matches(x, Mark(f, "PRESENT", v)) <=> ~Unresolved(x, f)
         /\ Matches(x, Mark(f, "EQ", v)) <=> ~Unresolved(x, f) /\ x[f].value = v
         /\ Matches(x, Mark(f, "IS_TRUE", v)) <=> ~Unresolved(x, f) /\ x[f].value = v
         /\ Matches(x, Mark(f, "IS_FALSE", v)) <=> ~Unresolved(x, f) /\ x[f].value = v
         /\ Matches(x, Mark(f, "LT", v)) <=> ~Unresolved(x, f) /\ x[f].value < v
         /\ Matches(x, Mark(f, "LTE", v)) <=> ~Unresolved(x, f) /\ x[f].value <= v
         /\ Matches(x, Mark(f, "GT", v)) <=> ~Unresolved(x, f) /\ x[f].value > v
         /\ Matches(x, Mark(f, "GTE", v)) <=> ~Unresolved(x, f) /\ x[f].value >= v
  <1>1. \A op : Mark(f, op, v).input = f
    BY DEF Mark
  <1>2. /\ Matches(x, Mark(f, "PRESENT", v)) <=> ~Unresolved(x, f)
        /\ Matches(x, Mark(f, "EQ", v)) <=> ~Unresolved(x, f) /\ x[f].value = v
        /\ Matches(x, Mark(f, "IS_TRUE", v)) <=> ~Unresolved(x, f) /\ x[f].value = v
        /\ Matches(x, Mark(f, "IS_FALSE", v)) <=> ~Unresolved(x, f) /\ x[f].value = v
    BY DEF Matches, Mark
  <1>3. /\ Matches(x, Mark(f, "LT", v)) <=> ~Unresolved(x, f) /\ x[f].value < v
        /\ Matches(x, Mark(f, "LTE", v)) <=> ~Unresolved(x, f) /\ x[f].value <= v
        /\ Matches(x, Mark(f, "GT", v)) <=> ~Unresolved(x, f) /\ x[f].value > v
        /\ Matches(x, Mark(f, "GTE", v)) <=> ~Unresolved(x, f) /\ x[f].value >= v
    BY DEF Matches, Mark
  <1>. QED
    BY <1>1, <1>2, <1>3

LEMMA UnmetFacts ==
  ASSUME NEW x, NEW f
  PROVE  /\ Unmet(x, f).input = f
         /\ Unresolved(x, f) => Matches(x, Unmet(x, f))
  <1>1. Unmet(x, f).input = f
    BY DEF Mark, Unmet
  <1>2. Unresolved(x, f) => Matches(x, Unmet(x, f))
    BY DEF Matches, Mark, Unmet, Unresolved
  <1>. QED
    BY <1>1, <1>2

LEMMA ReadyMarksAre ==
  /\ ReadyMarks["data_readiness"] = Mark("data_readiness", "GTE", 2)
  /\ ReadyMarks["implementation_complexity"] = Mark("implementation_complexity", "LTE", 4)
  /\ BlockMarks["data_readiness"] = Mark("data_readiness", "LT", 2)
  /\ BlockMarks["implementation_complexity"] = Mark("implementation_complexity", "GT", 4)
  BY DEF ReadyMarks, BlockMarks, Rules

LEMMA ReadyMatches ==
  ASSUME NEW x \in Inputs, NEW f \in Readied, ~Unresolved(x, f)
  PROVE  /\ Blocks(x, f) => Matches(x, BlockMarks[f]) /\ BlockMarks[f].input = f
         /\ ~Blocks(x, f) => Matches(x, ReadyMarks[f])
         /\ ReadyMarks[f].input = f
  <1>1. x["data_readiness"].value \in Int /\ x["implementation_complexity"].value \in Int
    BY ItemFacts, CriteriaAreFields
  <1>2. Readied = {"data_readiness", "implementation_complexity"}
    BY BlocksAre
  <1>3. CASE f = "data_readiness"
    <2>1. /\ Matches(x, Mark(f, "LT", 2)) <=> ~Unresolved(x, f) /\ x[f].value < 2
          /\ Matches(x, Mark(f, "GTE", 2)) <=> ~Unresolved(x, f) /\ x[f].value >= 2
          /\ Mark(f, "LT", 2).input = f /\ Mark(f, "GTE", 2).input = f
      BY MarkFacts
    <2>2. ReadyMarks[f] = Mark(f, "GTE", 2) /\ BlockMarks[f] = Mark(f, "LT", 2)
      BY <1>3, ReadyMarksAre
    <2>. QED
      BY <1>1, <1>3, <2>1, <2>2 DEF Blocks
  <1>4. CASE f = "implementation_complexity"
    <2>1. /\ Matches(x, Mark(f, "GT", 4)) <=> ~Unresolved(x, f) /\ x[f].value > 4
          /\ Matches(x, Mark(f, "LTE", 4)) <=> ~Unresolved(x, f) /\ x[f].value <= 4
          /\ Mark(f, "GT", 4).input = f /\ Mark(f, "LTE", 4).input = f
      BY MarkFacts
    <2>2. ReadyMarks[f] = Mark(f, "LTE", 4) /\ BlockMarks[f] = Mark(f, "GT", 4)
      BY <1>4, ReadyMarksAre
    <2>. QED
      BY <1>1, <1>4, <2>1, <2>2 DEF Blocks
  <1>. QED
    BY <1>2, <1>3, <1>4

LEMMA FirstHitMatches ==
  ASSUME NEW x, Hits(x) # {}
  PROVE  Matches(x, FirstHit(x)) /\ ~Unresolved(x, FirstHit(x).input)
  <1>1. /\ DOMAIN Assistance = 1 .. 7
        /\ Assistance[1] = Mark(Residual, "EQ", 3)
        /\ Assistance[2] = Mark("data_readiness", "LT", 4)
        /\ Assistance[3] = Mark("implementation_complexity", "GT", 3)
        /\ Assistance[4] = Mark(Judgement, "GTE", 3)
        /\ Assistance[5] = Mark(Risk, "GTE", 3)
        /\ Assistance[6] = Mark(Accountability, "IS_TRUE", 1)
        /\ Assistance[7] = Mark("predictability", "LT", 4)
    BY DEF Assistance, Rules, Residual, Judgement, Risk
  <1>2. Hits(x) \subseteq 1 .. 7 /\ \A i \in Hits(x) : Matches(x, Assistance[i])
    BY <1>1 DEF Hits
  <1>3. \E i \in Hits(x) : \A j \in Hits(x) : i <= j
    <2>1. PICK H : H = Hits(x)
      OBVIOUS
    <2>2. H \subseteq 1 .. 7 /\ H # {}
      BY <1>2, <2>1
    <2>3. \E i \in H : \A j \in H : i <= j
      <3>1. CASE 1 \in H
        BY <2>2, <3>1
      <3>2. CASE 1 \notin H /\ 2 \in H
        BY <2>2, <3>2
      <3>3. CASE 1 \notin H /\ 2 \notin H /\ 3 \in H
        BY <2>2, <3>3
      <3>4. CASE 1 \notin H /\ 2 \notin H /\ 3 \notin H /\ 4 \in H
        BY <2>2, <3>4
      <3>5. CASE 1 \notin H /\ 2 \notin H /\ 3 \notin H /\ 4 \notin H /\ 5 \in H
        BY <2>2, <3>5
      <3>6. CASE H \subseteq {6, 7} /\ 6 \in H
        BY <3>6
      <3>7. CASE H = {7}
        BY <3>7
      <3>8. H \subseteq {1, 2, 3, 4, 5, 6, 7}
        BY <2>2
      <3>. QED
        BY <2>2, <3>1, <3>2, <3>3, <3>4, <3>5, <3>6, <3>7, <3>8
    <2>. QED
      BY <2>1, <2>3
  <1>4. PICK i \in Hits(x) : FirstHit(x) = Assistance[i]
    BY <1>3 DEF FirstHit
  <1>5. Matches(x, Assistance[i])
    BY <1>2
  <1>6. ~Unresolved(x, Assistance[i].input)
    BY <1>1, <1>2, <1>5, MarkFacts
  <1>. QED
    BY <1>4, <1>5, <1>6

LEMMA AutomationMatches ==
  ASSUME NEW x \in Inputs, Hits(x) = {}, UnresolvedOf(x, PrelimAutonomy) = {},
         UnresolvedOf(x, Readied) = {}, ~Unresolved(x, Residual), ~(x[Residual].value >= 4)
  PROVE  Holds(x, Automation)
  <1>1. \A f \in {"data_readiness", "implementation_complexity", Residual, Judgement, Risk,
                  Accountability, "predictability"} : ~Unresolved(x, f)
    BY BlocksAre DEF UnresolvedOf, PrelimAutonomy, Judgement, Risk
  <1>2. /\ x[Residual].value # 3 /\ ~(x["data_readiness"].value < 4)
        /\ ~(x["implementation_complexity"].value > 3) /\ ~(x[Judgement].value >= 3)
        /\ ~(x[Risk].value >= 3) /\ x[Accountability].value # 1
        /\ ~(x["predictability"].value < 4)
    BY <1>1, HitsAre
  <1>3. /\ x["data_readiness"].value \in -1 .. 5 /\ x["implementation_complexity"].value \in -1 .. 5
        /\ x[Residual].value \in -1 .. 5 /\ x[Judgement].value \in -1 .. 5
        /\ x[Risk].value \in -1 .. 5 /\ x["predictability"].value \in -1 .. 5
        /\ x[Accountability].value \in 0 .. 1
    <2>1. x[Accountability].kind \notin Empty
      BY <1>1 DEF Unresolved, Classification, Empty
    <2>2. x[Accountability].value \in -1 .. 5 /\ x[Accountability].value # -1
          /\ x[Accountability].value <= 1
      BY <2>1, ItemFacts, CriteriaAreFields DEF NoValue
    <2>. QED
      BY <2>2, ItemFacts, CriteriaAreFields
  <1>4. Automation =
          {Mark("data_readiness", "GTE", 4), Mark("implementation_complexity", "LTE", 3),
           Mark(Residual, "LTE", 2), Mark(Judgement, "LTE", 2), Mark(Risk, "LTE", 2),
           Mark(Accountability, "IS_FALSE", 0), Mark("predictability", "GTE", 4)}
    BY DEF Automation, Rules, Residual, Judgement, Risk
  <1>5. /\ Matches(x, Mark("data_readiness", "GTE", 4))
        /\ Matches(x, Mark("implementation_complexity", "LTE", 3))
        /\ Matches(x, Mark(Residual, "LTE", 2)) /\ Matches(x, Mark(Judgement, "LTE", 2))
        /\ Matches(x, Mark(Risk, "LTE", 2)) /\ Matches(x, Mark(Accountability, "IS_FALSE", 0))
        /\ Matches(x, Mark("predictability", "GTE", 4))
    <2>1. /\ x[Residual].value <= 2 /\ x["data_readiness"].value >= 4
          /\ x["implementation_complexity"].value <= 3 /\ x[Judgement].value <= 2
          /\ x[Risk].value <= 2 /\ x[Accountability].value = 0 /\ x["predictability"].value >= 4
      BY <1>2, <1>3
    <2>. QED
      BY <1>1, <2>1, MarkFacts
  <1>. QED
    BY <1>1, <1>4, <1>5, MarkFacts DEF Holds

LEMMA HoldsUnion ==
  ASSUME NEW x, NEW A, NEW B, Holds(x, A), Holds(x, B)
  PROVE  Holds(x, A \cup B) /\ Holds(x, After(A, B))
  BY DEF Holds, After

LEMMA HoldsOne ==
  ASSUME NEW x, NEW k, Matches(x, k), ~Unresolved(x, k.input)
  PROVE  Holds(x, {k})
  BY DEF Holds

\* How the comparisons of a selected direction are put together.
LEMMA MarksOf ==
  ASSUME NEW x, NEW d, NEW A, NEW B, Select(x) = Selected(d, A \cup B), Holds(x, A),
         \A k \in B : Matches(x, k), d \in Open \/ (\A k \in B : ~Unresolved(x, k.input))
  PROVE  /\ Direction(x) \notin Open => Holds(x, Select(x).marks)
         /\ \A k \in Select(x).marks : Matches(x, k)
  <1>1. Direction(x) = d /\ Select(x).marks = A \cup B
    BY DEF Direction, Selected
  <1>. QED
    BY <1>1 DEF Holds

LEMMA MarksOfGap ==
  ASSUME NEW x, NEW A, NEW f, Select(x) = Insufficient(A \cup {Unmet(x, f)}), Holds(x, A),
         Unresolved(x, f)
  PROVE  /\ Direction(x) \notin Open => Holds(x, Select(x).marks)
         /\ \A k \in Select(x).marks : Matches(x, k)
  <1>1. /\ Select(x) = Selected("INSUFFICIENT_BASIS", A \cup {Unmet(x, f)})
        /\ \A k \in {Unmet(x, f)} : Matches(x, k)
        /\ "INSUFFICIENT_BASIS" \in Open
    BY UnmetFacts DEF Insufficient, Open
  <1>2. PICK B : B = {Unmet(x, f)}
    OBVIOUS
  <1>3. /\ Select(x) = Selected("INSUFFICIENT_BASIS", A \cup B)
        /\ Holds(x, A) /\ \A k \in B : Matches(x, k)
        /\ "INSUFFICIENT_BASIS" \in Open \/ (\A k \in B : ~Unresolved(x, k.input))
    BY <1>1, <1>2
  <1>. QED
    BY <1>3, MarksOf

LEMMA MarksOfOne ==
  ASSUME NEW x, NEW d, NEW A, NEW k, Select(x) = Selected(d, A \cup {k}), Holds(x, A),
         Matches(x, k), ~Unresolved(x, k.input)
  PROVE  /\ Direction(x) \notin Open => Holds(x, Select(x).marks)
         /\ \A l \in Select(x).marks : Matches(x, l)
  <1>1. PICK B : B = {k}
    OBVIOUS
  <1>2. /\ Select(x) = Selected(d, A \cup B) /\ Holds(x, A)
        /\ \A l \in B : Matches(x, l)
        /\ d \in Open \/ (\A l \in B : ~Unresolved(x, l.input))
    BY <1>1
  <1>. QED
    BY <1>2, MarksOf

LEMMA MarksHold ==
  ASSUME NEW x \in Inputs
  PROVE  /\ Direction(x) \notin Open => Holds(x, Select(x).marks)
         /\ ~HalfBlocked(x) => \A k \in Select(x).marks : Matches(x, k)
  <1> DEFINE activity == {Mark("activity", "PRESENT", NoValue)}
             change == activity \cup {Mark("business_value", "GTE", Rules.business_value_minimum)}
             ready == change \cup {ReadyMarks[f] : f \in Readied}
             fit == ready \cup {Mark("conventional_solution_fit", "LT",
                                     Rules.conventional_solution_fit_cutoff)}
             ai == fit \cup {Mark("ai_capability_fit", "GTE", Rules.ai_capability_fit_minimum)}
             capable == {ai \cup {Mark(f, "IS_TRUE", 1)} : f \in TrueSignals(x)}
             permitted == {s \cup {Mark(Residual, "LT", Rules.residual_risk_veto_minimum)} : s \in capable}
             one(sets) == CHOOSE s \in sets : TRUE
  <1>1. Select(x) =
          IF Unresolved(x, "activity") THEN Insufficient({Unmet(x, "activity")})
          ELSE IF Unresolved(x, "business_value")
            THEN Insufficient(activity \cup {Unmet(x, "business_value")})
          ELSE IF x["business_value"].value < Rules.business_value_minimum
            THEN Selected("LIKELY_NO_CHANGE",
                   activity \cup {Mark("business_value", "LT", Rules.business_value_minimum)})
          ELSE IF UnresolvedOf(x, Readied) # {} THEN Insufficient(change \cup UnreadyMarks(x))
          ELSE IF \E f \in Readied : Blocks(x, f)
            THEN Selected("LIKELY_PROCESS_IMPROVEMENT_FIRST", change \cup ReadinessMarks(x))
          ELSE IF Unresolved(x, "conventional_solution_fit")
            THEN Insufficient(ready \cup {Unmet(x, "conventional_solution_fit")})
          ELSE IF x["conventional_solution_fit"].value >= Rules.conventional_solution_fit_cutoff
            THEN Selected("LIKELY_CONVENTIONAL_AUTOMATION",
                   ready \cup {Mark("conventional_solution_fit", "GTE",
                                    Rules.conventional_solution_fit_cutoff)})
          ELSE IF Unresolved(x, "ai_capability_fit")
            THEN Insufficient(fit \cup {Unmet(x, "ai_capability_fit")})
          ELSE IF x["ai_capability_fit"].value < Rules.ai_capability_fit_minimum
            THEN Selected("LIKELY_HUMAN_LED",
                   fit \cup {Mark("ai_capability_fit", "LT", Rules.ai_capability_fit_minimum)})
          ELSE IF TrueSignals(x) = {}
            THEN IF UnresolvedOf(x, Signals) # {} THEN Insufficient(ai \cup NoCapability(x))
                 ELSE Selected("LIKELY_HUMAN_LED", ai \cup NoCapability(x))
          ELSE IF Unresolved(x, Residual) THEN Insufficient(one(capable) \cup {Unmet(x, Residual)})
          ELSE IF x[Residual].value >= Rules.residual_risk_veto_minimum
            THEN Selected("LIKELY_HUMAN_LED",
                   one(capable) \cup {Mark(Residual, "GTE", Rules.residual_risk_veto_minimum)})
          ELSE IF UnresolvedOf(x, PrelimAutonomy) # {}
            THEN Selected("POTENTIAL_AI_ASSISTED_AUTONOMY_UNKNOWN",
                   one(permitted) \cup {Unmet(x, f) : f \in UnresolvedOf(x, PrelimAutonomy)})
          ELSE IF Hits(x) # {}
            THEN Selected("POTENTIAL_AI_ASSISTED_WORK", After(one(permitted), {FirstHit(x)}))
          ELSE Selected("POTENTIAL_AI_AUTOMATION", After(one(permitted), Automation))
    BY DEF Select, Residual
  <1>2. ~Unresolved(x, "activity") => Holds(x, activity)
    BY MarkFacts DEF Holds
  <1>3. ASSUME Holds(x, activity), ~Unresolved(x, "business_value"),
               ~(x["business_value"].value < Rules.business_value_minimum)
        PROVE  Holds(x, change)
    <2>1. x["business_value"].value >= 2
      BY <1>3, ItemFacts, CriteriaAreFields DEF Rules
    <2>2. Holds(x, {Mark("business_value", "GTE", Rules.business_value_minimum)})
      BY <1>3, <2>1, MarkFacts DEF Holds, Rules
    <2>. QED
      BY <1>3, <2>2, HoldsUnion
  <1>4. ASSUME Holds(x, change), UnresolvedOf(x, Readied) = {}, ~ \E f \in Readied : Blocks(x, f)
        PROVE  Holds(x, ready)
    <2>1. Holds(x, {ReadyMarks[f] : f \in Readied})
      BY <1>4, ReadyMatches DEF Holds, UnresolvedOf
    <2>. QED
      BY <1>4, <2>1, HoldsUnion
  <1>5. ASSUME Holds(x, ready), ~Unresolved(x, "conventional_solution_fit"),
               ~(x["conventional_solution_fit"].value >= Rules.conventional_solution_fit_cutoff)
        PROVE  Holds(x, fit)
    <2>1. x["conventional_solution_fit"].value < 4
      BY <1>5, ItemFacts, CriteriaAreFields DEF Rules
    <2>2. Holds(x, {Mark("conventional_solution_fit", "LT", Rules.conventional_solution_fit_cutoff)})
      BY <1>5, <2>1, MarkFacts DEF Holds, Rules
    <2>. QED
      BY <1>5, <2>2, HoldsUnion
  <1>6. ASSUME Holds(x, fit), ~Unresolved(x, "ai_capability_fit"),
               ~(x["ai_capability_fit"].value < Rules.ai_capability_fit_minimum)
        PROVE  Holds(x, ai)
    <2>1. x["ai_capability_fit"].value >= 3
      BY <1>6, ItemFacts, CriteriaAreFields DEF Rules
    <2>2. Holds(x, {Mark("ai_capability_fit", "GTE", Rules.ai_capability_fit_minimum)})
      BY <1>6, <2>1, MarkFacts DEF Holds, Rules
    <2>. QED
      BY <1>6, <2>2, HoldsUnion
  <1>7. ASSUME Holds(x, ai), TrueSignals(x) # {}
        PROVE  one(capable) \in capable /\ \A s \in capable : Holds(x, s)
    <2>1. ASSUME NEW f \in TrueSignals(x) PROVE Holds(x, ai \cup {Mark(f, "IS_TRUE", 1)})
      <3>1. Holds(x, {Mark(f, "IS_TRUE", 1)})
        BY <2>1, MarkFacts DEF Holds, TrueSignals, IsTrue
      <3>. QED
        BY <1>7, <3>1, HoldsUnion
    <2>2. capable # {}
      BY <1>7
    <2> HIDE DEF ai
    <2>. QED
      BY <2>1, <2>2
  <1>8. ASSUME one(capable) \in capable, \A s \in capable : Holds(x, s), ~Unresolved(x, Residual),
               ~(x[Residual].value >= Rules.residual_risk_veto_minimum)
        PROVE  Holds(x, one(permitted))
    <2>1. x[Residual].value < 4
      BY <1>8, ItemFacts, CriteriaAreFields DEF Rules
    <2>2. Holds(x, {Mark(Residual, "LT", Rules.residual_risk_veto_minimum)})
      BY <1>8, <2>1, MarkFacts DEF Holds, Rules
    <2> HIDE DEF capable
    <2>3. ASSUME NEW t \in permitted PROVE Holds(x, t)
      <3>1. PICK s \in capable : t = s \cup {Mark(Residual, "LT", Rules.residual_risk_veto_minimum)}
        BY <2>3
      <3>2. Holds(x, s)
        BY <1>8, <3>1
      <3>. QED
        BY <2>2, <3>1, <3>2, HoldsUnion
    <2>4. one(permitted) \in permitted
      BY <1>8
    <2>. QED
      BY <2>3, <2>4
  <1> DEFINE good == /\ ~Unresolved(x, "activity") /\ ~Unresolved(x, "business_value")
                     /\ ~(x["business_value"].value < Rules.business_value_minimum)
             open == /\ good /\ UnresolvedOf(x, Readied) = {} /\ ~ \E f \in Readied : Blocks(x, f)
             hard == /\ open /\ ~Unresolved(x, "conventional_solution_fit")
                     /\ ~(x["conventional_solution_fit"].value >= Rules.conventional_solution_fit_cutoff)
             able == /\ hard /\ ~Unresolved(x, "ai_capability_fit")
                     /\ ~(x["ai_capability_fit"].value < Rules.ai_capability_fit_minimum)
             safe == /\ able /\ TrueSignals(x) # {} /\ ~Unresolved(x, Residual)
                     /\ ~(x[Residual].value >= Rules.residual_risk_veto_minimum)
  <1>9. /\ good => Holds(x, change)
        /\ open => Holds(x, ready)
        /\ hard => Holds(x, fit)
        /\ able => Holds(x, ai)
        /\ able /\ TrueSignals(x) # {} => Holds(x, one(capable))
        /\ safe => Holds(x, one(permitted))
    <2>1. good => Holds(x, change)
      BY <1>2, <1>3
    <2>2. open => Holds(x, ready)
      BY <1>4, <2>1
    <2>3. hard => Holds(x, fit)
      BY <1>5, <2>2
    <2>4. able => Holds(x, ai)
      BY <1>6, <2>3
    <2> HIDE DEF ai
    <2>5. able /\ TrueSignals(x) # {} => one(capable) \in capable /\ \A s \in capable : Holds(x, s)
      BY <1>7, <2>4
    <2> HIDE DEF capable
    <2>6. safe => Holds(x, one(permitted))
      BY <1>8, <2>5
    <2>. QED
      BY <2>1, <2>2, <2>3, <2>4, <2>5, <2>6
  <1>10.. \A f \in {"business_value", "conventional_solution_fit", "ai_capability_fit", Residual} :
           x[f].value \in Int
    BY ItemFacts, CriteriaAreFields
  <1>11. /\ Rules.business_value_minimum = 2 /\ Rules.conventional_solution_fit_cutoff = 4
         /\ Rules.ai_capability_fit_minimum = 3 /\ Rules.residual_risk_veto_minimum = 4
    BY DEF Rules
  <1>12. \A f \in Signals : x[f].value \in -1 .. 1 /\ (~Unresolved(x, f) => x[f].value \in {0, 1})
    <2>1. ASSUME NEW f \in Signals
          PROVE  x[f].value \in -1 .. 1 /\ (~Unresolved(x, f) => x[f].value \in {0, 1})
      <3>1. f \in Fields /\ f \notin Criteria
        BY CriteriaAreFields, SignalsAssumption
      <3>2. x[f].value \in -1 .. 1
        BY <3>1, ItemFacts
      <3>3. ~Unresolved(x, f) => x[f].value # -1
        BY <3>1, ItemFacts DEF Unresolved, Classification, Empty, NoValue
      <3>. QED
        BY <3>2, <3>3
    <2>. QED
      BY <2>1
  <1> DEFINE Right == /\ Direction(x) \notin Open => Holds(x, Select(x).marks)
                      /\ ~HalfBlocked(x) => \A k \in Select(x).marks : Matches(x, k)
  <1>13. CASE Unresolved(x, "activity")
    <2>1. Select(x) = Insufficient({} \cup {Unmet(x, "activity")})
      BY <1>1, <1>13
    <2>2. Holds(x, {})
      BY DEF Holds
    <2>. QED
      BY <1>13, <2>1, <2>2, MarksOfGap
  <1>14. CASE ~Unresolved(x, "activity") /\ Unresolved(x, "business_value")
    <2>1. Select(x) = Insufficient(activity \cup {Unmet(x, "business_value")})
      BY <1>1, <1>14
    <2> HIDE DEF activity
    <2>. QED
      BY <1>2, <1>14, <2>1, MarksOfGap
  <1>15. CASE /\ ~Unresolved(x, "activity") /\ ~Unresolved(x, "business_value")
              /\ x["business_value"].value < Rules.business_value_minimum
    <2>1. Select(x) = Selected("LIKELY_NO_CHANGE",
                 activity \cup {Mark("business_value", "LT", Rules.business_value_minimum)})
      BY <1>1, <1>15
    <2>2. /\ Matches(x, Mark("business_value", "LT", Rules.business_value_minimum))
          /\ ~Unresolved(x, Mark("business_value", "LT", Rules.business_value_minimum).input)
      BY <1>15, MarkFacts
    <2> HIDE DEF activity
    <2>. QED
      BY <1>2, <1>15, <2>1, <2>2, MarksOfOne
  <1>16. CASE good /\ UnresolvedOf(x, Readied) # {}
    <2>1. Select(x) = Selected("INSUFFICIENT_BASIS", change \cup UnreadyMarks(x))
      BY <1>1, <1>16 DEF Insufficient
    <2>2. Direction(x) = "INSUFFICIENT_BASIS" /\ Select(x).marks = change \cup UnreadyMarks(x)
      BY <2>1 DEF Direction, Selected
    <2>3. ASSUME ~HalfBlocked(x) PROVE \A k \in UnreadyMarks(x) : Matches(x, k)
      <3>1. \A f \in Readied : ~Blocks(x, f)
        BY <1>16, <2>3 DEF HalfBlocked
      <3>2. ASSUME NEW f \in Readied
            PROVE  Matches(x, IF Unresolved(x, f) THEN Unmet(x, f) ELSE ReadyMarks[f])
        BY <3>1, ReadyMatches, UnmetFacts
      <3>. QED
        BY <3>2 DEF UnreadyMarks
    <2>4. Holds(x, change)
      BY <1>9, <1>16
    <2> HIDE DEF change
    <2>. QED
      BY <2>2, <2>3, <2>4 DEF Holds, Open
  <1>17. CASE good /\ UnresolvedOf(x, Readied) = {} /\ \E f \in Readied : Blocks(x, f)
    <2>1. Select(x) = Selected("LIKELY_PROCESS_IMPROVEMENT_FIRST", change \cup ReadinessMarks(x))
      BY <1>1, <1>17
    <2>2. \A k \in ReadinessMarks(x) : Matches(x, k) /\ ~Unresolved(x, k.input)
      BY <1>17, ReadyMatches DEF ReadinessMarks, UnresolvedOf
    <2>3. Holds(x, change)
      BY <1>9, <1>17
    <2> HIDE DEF change
    <2>. QED
      BY <2>1, <2>2, <2>3, MarksOf
  <1>18. CASE open /\ Unresolved(x, "conventional_solution_fit")
    <2>1. Select(x) = Insufficient(ready \cup {Unmet(x, "conventional_solution_fit")})
      BY <1>1, <1>18
    <2>2. Holds(x, ready)
      BY <1>9, <1>18
    <2> HIDE DEF ready
    <2>. QED
      BY <1>18, <2>1, <2>2, MarksOfGap
  <1>19. CASE /\ open /\ ~Unresolved(x, "conventional_solution_fit")
              /\ x["conventional_solution_fit"].value >= Rules.conventional_solution_fit_cutoff
    <2>1. Select(x) = Selected("LIKELY_CONVENTIONAL_AUTOMATION",
             ready \cup {Mark("conventional_solution_fit", "GTE",
                              Rules.conventional_solution_fit_cutoff)})
      BY <1>1, <1>19
    <2>2. Holds(x, ready)
      BY <1>9, <1>19
    <2>3. PICK k : k = Mark("conventional_solution_fit", "GTE", Rules.conventional_solution_fit_cutoff)
      OBVIOUS
    <2>4. Matches(x, k) /\ ~Unresolved(x, k.input)
      BY <1>19, <2>3, MarkFacts
    <2> HIDE DEF ready
    <2>. QED
      BY <2>1, <2>2, <2>3, <2>4, MarksOfOne
  <1>20. CASE hard /\ Unresolved(x, "ai_capability_fit")
    <2>1. Select(x) = Insufficient(fit \cup {Unmet(x, "ai_capability_fit")})
      BY <1>1, <1>20
    <2>2. Holds(x, fit)
      BY <1>9, <1>20
    <2> HIDE DEF fit
    <2>. QED
      BY <1>20, <2>1, <2>2, MarksOfGap
  <1>21. CASE /\ hard /\ ~Unresolved(x, "ai_capability_fit")
              /\ x["ai_capability_fit"].value < Rules.ai_capability_fit_minimum
    <2>1. Select(x) = Selected("LIKELY_HUMAN_LED",
             fit \cup {Mark("ai_capability_fit", "LT", Rules.ai_capability_fit_minimum)})
      BY <1>1, <1>21
    <2>2. Holds(x, fit)
      BY <1>9, <1>21
    <2>3. PICK k : k = Mark("ai_capability_fit", "LT", Rules.ai_capability_fit_minimum)
      OBVIOUS
    <2>4. Matches(x, k) /\ ~Unresolved(x, k.input)
      BY <1>21, <2>3, MarkFacts
    <2> HIDE DEF fit
    <2>. QED
      BY <2>1, <2>2, <2>3, <2>4, MarksOfOne
  <1>22. CASE able /\ TrueSignals(x) = {}
    <2>1. Select(x) = IF UnresolvedOf(x, Signals) # {}
                      THEN Selected("INSUFFICIENT_BASIS", ai \cup NoCapability(x))
                      ELSE Selected("LIKELY_HUMAN_LED", ai \cup NoCapability(x))
      BY <1>1, <1>22 DEF Insufficient
    <2>2. Holds(x, ai)
      BY <1>9, <1>22
    <2>3. \A k \in NoCapability(x) : Matches(x, k)
      <3>1. ASSUME NEW f \in Signals, ~Unresolved(x, f) PROVE Matches(x, Mark(f, "IS_FALSE", 0))
        BY <1>12, <1>22, <3>1, MarkFacts DEF TrueSignals, IsTrue
      <3>. QED
        BY <3>1, UnmetFacts DEF NoCapability
    <2>4. UnresolvedOf(x, Signals) = {} => \A k \in NoCapability(x) : ~Unresolved(x, k.input)
      <3>1. \A f \in Signals : Mark(f, "IS_FALSE", 0).input = f
        BY DEF Mark
      <3>. QED
        BY <3>1 DEF NoCapability, UnresolvedOf
    <2> HIDE DEF ai
    <2>5. CASE UnresolvedOf(x, Signals) # {}
      <3>1. /\ Select(x) = Selected("INSUFFICIENT_BASIS", ai \cup NoCapability(x))
            /\ "INSUFFICIENT_BASIS" \in Open
        BY <2>1, <2>5 DEF Open
      <3>. QED
        BY <2>2, <2>3, <3>1, MarksOf
    <2>6. CASE UnresolvedOf(x, Signals) = {}
      <3>1. Select(x) = Selected("LIKELY_HUMAN_LED", ai \cup NoCapability(x))
        BY <2>1, <2>6
      <3>. QED
        BY <2>2, <2>3, <2>4, <2>6, <3>1, MarksOf
    <2>. QED
      BY <2>5, <2>6
  <1>23. CASE able /\ TrueSignals(x) # {} /\ Unresolved(x, Residual)
    <2>1. Select(x) = Insufficient(one(capable) \cup {Unmet(x, Residual)})
      BY <1>1, <1>23
    <2>2. Holds(x, one(capable))
      BY <1>9, <1>23
    <2>3. PICK A : A = one(capable)
      OBVIOUS
    <2> HIDE DEF capable, one
    <2>. QED
      BY <1>23, <2>1, <2>2, <2>3, MarksOfGap
  <1>24. CASE /\ able /\ TrueSignals(x) # {} /\ ~Unresolved(x, Residual)
              /\ x[Residual].value >= Rules.residual_risk_veto_minimum
    <2>1. Select(x) = Selected("LIKELY_HUMAN_LED",
             one(capable) \cup {Mark(Residual, "GTE", Rules.residual_risk_veto_minimum)})
      BY <1>1, <1>24
    <2>2. Holds(x, one(capable))
      BY <1>9, <1>24
    <2>3. PICK A : A = one(capable)
      OBVIOUS
    <2>4. PICK k : k = Mark(Residual, "GTE", Rules.residual_risk_veto_minimum)
      OBVIOUS
    <2>5. Matches(x, k) /\ ~Unresolved(x, k.input)
      BY <1>24, <2>4, MarkFacts
    <2> HIDE DEF capable, one
    <2>. QED
      BY <2>1, <2>2, <2>3, <2>4, <2>5, MarksOfOne
  <1>25. CASE safe /\ UnresolvedOf(x, PrelimAutonomy) # {}
    <2>1. PICK B : B = {Unmet(x, f) : f \in UnresolvedOf(x, PrelimAutonomy)}
      OBVIOUS
    <2>2. /\ Select(x) = Selected("POTENTIAL_AI_ASSISTED_AUTONOMY_UNKNOWN", one(permitted) \cup B)
          /\ "POTENTIAL_AI_ASSISTED_AUTONOMY_UNKNOWN" \in Open
      BY <1>1, <1>25, <2>1 DEF Open
    <2>3. Holds(x, one(permitted))
      BY <1>9, <1>25
    <2>4. PICK A : A = one(permitted)
      OBVIOUS
    <2>5. \A k \in B : Matches(x, k)
      BY <2>1, UnmetFacts DEF UnresolvedOf
    <2> HIDE DEF permitted, one
    <2>. QED
      BY <2>2, <2>3, <2>4, <2>5, MarksOf
  <1>26. ASSUME NEW d, NEW B, Select(x) = Selected(d, After(one(permitted), B)),
                Holds(x, one(permitted)), Holds(x, B)
         PROVE  Right
    <2>1. PICK A : A = one(permitted)
      OBVIOUS
    <2>2. Holds(x, After(A, B))
      BY <1>26, <2>1, HoldsUnion
    <2>3. Select(x).marks = After(A, B)
      BY <1>26, <2>1 DEF Selected
    <2>. QED
      BY <2>2, <2>3 DEF Holds
  <1>27. CASE safe /\ UnresolvedOf(x, PrelimAutonomy) = {} /\ Hits(x) # {}
    <2>1. Select(x) = Selected("POTENTIAL_AI_ASSISTED_WORK", After(one(permitted), {FirstHit(x)}))
      BY <1>1, <1>27
    <2>2. Holds(x, one(permitted))
      BY <1>9, <1>27
    <2>3. Holds(x, {FirstHit(x)})
      BY <1>27, FirstHitMatches, HoldsOne
    <2>. QED
      BY <1>26, <2>1, <2>2, <2>3
  <1>28. CASE safe /\ UnresolvedOf(x, PrelimAutonomy) = {} /\ Hits(x) = {}
    <2>1. Select(x) = Selected("POTENTIAL_AI_AUTOMATION", After(one(permitted), Automation))
      BY <1>1, <1>28
    <2>2. Holds(x, one(permitted))
      BY <1>9, <1>28
    <2>3. Holds(x, Automation)
      BY <1>11, <1>28, AutomationMatches
    <2>. QED
      BY <1>26, <2>1, <2>2, <2>3
  <1>. QED
    BY <1>13, <1>14, <1>15, <1>16, <1>17, <1>18, <1>19, <1>20, <1>21, <1>22, <1>23, <1>24, <1>25,
       <1>27, <1>28

LEMMA HighIsDocumented ==
  ASSUME NEW x \in Inputs, Confidence(x) = "HIGH"
  PROVE  \A k \in Select(x).marks : x[k.input].kind = "documented"
  <1>1. Direction(x) \notin Open /\ MaterialInferences(x) = {}
    BY DEF Confidence, Open
  <1>2. Holds(x, Select(x).marks)
    BY <1>1, MarksHold
  <1>3. ASSUME NEW k \in Select(x).marks PROVE x[k.input].kind = "documented"
    <2>1. ~Unresolved(x, k.input) /\ Classification(x[k.input]) # "REASONABLE_INFERENCE"
      BY <1>1, <1>2 DEF Holds, MaterialInferences
    <2>. QED
      BY <2>1 DEF Unresolved, Classification
  <1>. QED
    BY <1>3

LEMMA RestsOnEvidenceAlways ==
  ASSUME inputs \in Inputs
  PROVE  RestsOnEvidence
  <1>1. PICK x : x = inputs
    OBVIOUS
  <1>2. x \in Inputs
    BY <1>1
  <1>3. MissingForPriority(x) # {} => Complete(x)
    BY OutcomeIs DEF MissingForPriority, Eligible
  <1>4. \A g \in 1 .. DecidingGate(x) :
           LET r == GateResults(x)[g] IN
           Gaps(x, r.material) \subseteq r.gaps /\ (Gaps(x, r.signals) # {} => r.gaps # {})
    BY GapsAreTraced
  <1>5. BlockingGaps(x) \cap ContextualUnknowns(x) = {}
    BY AskedIsNoContext
  <1>6. Confidence(x) = "HIGH" => \A k \in Select(x).marks : x[k.input].kind = "documented"
    BY <1>2, HighIsDocumented
  <1>7. PackageHonest(x, LegacyPackage(x))
    BY <1>2, PackageIsHonest
  <1>. QED
    BY <1>1, <1>3, <1>4, <1>5, <1>6, <1>7 DEF RestsOnEvidence

(* No rule set decides on less than it admits: material gaps of an         *)
(* evaluated gate are traced, nothing asked for is called context, a high  *)
(* confidence is documented throughout and the package of the earlier      *)
(* policy claims no more than it has (RestsOnEvidence).                    *)
THEOREM DecisionsRestOnEvidence == InputsSpec => []RestsOnEvidence
  <1>1. InputsTypeOK => RestsOnEvidence
    BY RestsOnEvidenceAlways DEF InputsTypeOK
  <1>2. InputsSpec => []InputsTypeOK
    BY InputsTyped
  <1>. QED
    BY <1>1, <1>2, PTL

-----------------------------------------------------------------------------
(* The record of an evaluation.                                            *)
LEMMA FieldsAre ==
  ASSUME NEW x
  PROVE  /\ DecidingGate(x) = 1 =>
              /\ Deciding(x) = GateOne(x) /\ Readiness(x) = "NOT_EVALUATED"
              /\ Change(x) = IF Complete(x) THEN "NO_CHANGE_JUSTIFIED" ELSE "NOT_DETERMINED"
         /\ DecidingGate(x) = 2 =>
              /\ Deciding(x) = GateTwo(x) /\ Change(x) = "CHANGE_JUSTIFIED"
              /\ Readiness(x) = IF Complete(x) THEN "PROCESS_IMPROVEMENT_FIRST" ELSE "NOT_DETERMINED"
         /\ DecidingGate(x) = 3 =>
              /\ Deciding(x) = GateThree(x) /\ Change(x) = "CHANGE_JUSTIFIED"
              /\ Readiness(x) = Ready
         /\ DecidingGate(x) = 4 =>
              /\ Deciding(x) = GateFour(x) /\ Change(x) = "CHANGE_JUSTIFIED"
              /\ Readiness(x) = Ready /\ Family(x) = "AI"
         /\ DecidingGate(x) < 4 =>
              Family(x) = IF ~Complete(x) THEN "NOT_DETERMINED"
                          ELSE IF DecidingGate(x) < 3 THEN "NOT_APPLICABLE"
                          ELSE IF Deciding(x).code = "CONVENTIONAL_AUTOMATION_SELECTED"
                            THEN "CONVENTIONAL_AUTOMATION" ELSE "KEEP_HUMAN_LED"
         /\ DecidingGate(x) < 4 =>
              Autonomy(x) = IF Complete(x) THEN "NOT_APPLICABLE" ELSE "NOT_DETERMINED"
  BY ResultsAre DEF Deciding, Evaluated, Change, Readiness, Family, Autonomy, Ready

LEMMA GateCodes ==
  ASSUME NEW x
  PROVE  /\ GateOne(x).code \in {"DISCOVERY_REQUIRED", "NO_CHANGE_JUSTIFIED", "CHANGE_JUSTIFIED"}
         /\ GateTwo(x).code \in {"DISCOVERY_REQUIRED", "PROCESS_IMPROVEMENT_FIRST", Ready}
         /\ GateThree(x).code \in {"DISCOVERY_REQUIRED", "CONVENTIONAL_AUTOMATION_SELECTED",
                                   "KEEP_HUMAN_LED_SELECTED", "AI_SELECTED"}
         /\ GateFour(x).code \in {"DISCOVERY_REQUIRED", "AI_NOT_PERMITTED", "AI_ASSISTED_REQUIRED",
                                  "AI_AUTOMATION_PERMITTED"}
         /\ DecidingGate(x) = 1 <=> GateOne(x).code # "CHANGE_JUSTIFIED"
         /\ DecidingGate(x) = 2 => GateTwo(x).code # Ready
         /\ DecidingGate(x) = 3 => GateThree(x).code # "AI_SELECTED"
         /\ DecidingGate(x) > 1 => GateOne(x).code = "CHANGE_JUSTIFIED"
         /\ DecidingGate(x) > 2 => GateTwo(x).code = Ready
         /\ DecidingGate(x) > 3 => GateThree(x).code = "AI_SELECTED"
         /\ Complete(x) <=> Deciding(x).code # "DISCOVERY_REQUIRED"
  <1>1. /\ GateOne(x).code \in {"DISCOVERY_REQUIRED", "NO_CHANGE_JUSTIFIED", "CHANGE_JUSTIFIED"}
        /\ GateOne(x).status = "BLOCKED_BY_EVIDENCE" <=> GateOne(x).code = "DISCOVERY_REQUIRED"
    BY GateOneCode
  <1>2. /\ GateTwo(x).code \in {"DISCOVERY_REQUIRED", "PROCESS_IMPROVEMENT_FIRST", Ready}
        /\ GateTwo(x).status = "BLOCKED_BY_EVIDENCE" <=> GateTwo(x).code = "DISCOVERY_REQUIRED"
    BY GateTwoCode DEF Ready
  <1>3. /\ GateThree(x).code \in {"DISCOVERY_REQUIRED", "CONVENTIONAL_AUTOMATION_SELECTED",
                                  "KEEP_HUMAN_LED_SELECTED", "AI_SELECTED"}
        /\ GateThree(x).status = "BLOCKED_BY_EVIDENCE" <=> GateThree(x).code = "DISCOVERY_REQUIRED"
    BY GateThreeCode
  <1>4. /\ GateFour(x).code \in {"DISCOVERY_REQUIRED", "AI_NOT_PERMITTED", "AI_ASSISTED_REQUIRED",
                                 "AI_AUTOMATION_PERMITTED"}
        /\ GateFour(x).status = "BLOCKED_BY_EVIDENCE" <=> GateFour(x).code = "DISCOVERY_REQUIRED"
    BY GateFourCode
  <1>5. /\ DecidingGate(x) = 1 <=> GateOne(x).code # "CHANGE_JUSTIFIED"
        /\ DecidingGate(x) = 2 => GateTwo(x).code # Ready
        /\ DecidingGate(x) = 3 => GateThree(x).code # "AI_SELECTED"
        /\ DecidingGate(x) > 1 => GateOne(x).code = "CHANGE_JUSTIFIED"
        /\ DecidingGate(x) > 2 => GateTwo(x).code = Ready
        /\ DecidingGate(x) > 3 => GateThree(x).code = "AI_SELECTED"
    BY OutcomeIs DEF Ready
  <1>6. Deciding(x) \in {GateOne(x), GateTwo(x), GateThree(x), GateFour(x)}
    BY ResultsAre, FieldsAre
  <1>7. Complete(x) <=> Deciding(x).code # "DISCOVERY_REQUIRED"
    BY <1>1, <1>2, <1>3, <1>4, <1>6 DEF Complete
  <1>. QED
    BY <1>1, <1>2, <1>3, <1>4, <1>5, <1>7

LEMMA TypedFieldsClosed ==
  ASSUME NEW x
  PROVE  /\ TypedFields(x) \in ClosedCombinations
         /\ FieldStop(x) = DecidingGate(x)
         /\ DecidingCode(x) = Deciding(x).code
  <1>1. CASE DecidingGate(x) = 1
    <2>1. /\ Readiness(x) = "NOT_EVALUATED"
          /\ Change(x) = IF Complete(x) THEN "NO_CHANGE_JUSTIFIED" ELSE "NOT_DETERMINED"
          /\ Family(x) = IF Complete(x) THEN "NOT_APPLICABLE" ELSE "NOT_DETERMINED"
          /\ Autonomy(x) = IF Complete(x) THEN "NOT_APPLICABLE" ELSE "NOT_DETERMINED"
          /\ Deciding(x).code = IF Complete(x) THEN "NO_CHANGE_JUSTIFIED" ELSE "DISCOVERY_REQUIRED"
      BY <1>1, FieldsAre, GateCodes
    <2>2. FieldStop(x) = 1
      BY <2>1 DEF FieldStop
    <2>. QED
      BY <1>1, <2>1, <2>2 DEF TypedFields, ClosedCombinations, DecidingCode
  <1>2. CASE DecidingGate(x) = 2
    <2>1. /\ Change(x) = "CHANGE_JUSTIFIED"
          /\ Readiness(x) = IF Complete(x) THEN "PROCESS_IMPROVEMENT_FIRST" ELSE "NOT_DETERMINED"
          /\ Family(x) = IF Complete(x) THEN "NOT_APPLICABLE" ELSE "NOT_DETERMINED"
          /\ Autonomy(x) = IF Complete(x) THEN "NOT_APPLICABLE" ELSE "NOT_DETERMINED"
          /\ Deciding(x).code =
               IF Complete(x) THEN "PROCESS_IMPROVEMENT_FIRST" ELSE "DISCOVERY_REQUIRED"
      BY <1>2, FieldsAre, GateCodes
    <2>2. FieldStop(x) = 2
      BY <2>1 DEF FieldStop
    <2>. QED
      BY <1>2, <2>1, <2>2 DEF TypedFields, ClosedCombinations, DecidingCode
  <1>3. CASE DecidingGate(x) = 3
    <2>1. /\ Change(x) = "CHANGE_JUSTIFIED" /\ Readiness(x) = Ready
          /\ Deciding(x).code \in
               {"DISCOVERY_REQUIRED", "CONVENTIONAL_AUTOMATION_SELECTED", "KEEP_HUMAN_LED_SELECTED"}
          /\ Family(x) = IF ~Complete(x) THEN "NOT_DETERMINED"
                         ELSE IF Deciding(x).code = "CONVENTIONAL_AUTOMATION_SELECTED"
                           THEN "CONVENTIONAL_AUTOMATION" ELSE "KEEP_HUMAN_LED"
          /\ Autonomy(x) = IF Complete(x) THEN "NOT_APPLICABLE" ELSE "NOT_DETERMINED"
          /\ Complete(x) <=> Deciding(x).code # "DISCOVERY_REQUIRED"
      BY <1>3, FieldsAre, GateCodes
    <2>2. FieldStop(x) = 3
      BY <2>1 DEF FieldStop, Ready
    <2>. QED
      BY <1>3, <2>1, <2>2 DEF TypedFields, ClosedCombinations, DecidingCode
  <1>4. CASE DecidingGate(x) = 4
    <2>1. /\ Change(x) = "CHANGE_JUSTIFIED" /\ Readiness(x) = Ready /\ Family(x) = "AI"
          /\ Deciding(x).code \in {"DISCOVERY_REQUIRED", "AI_NOT_PERMITTED", "AI_ASSISTED_REQUIRED",
                                   "AI_AUTOMATION_PERMITTED"}
          /\ Complete(x) <=> Deciding(x).code # "DISCOVERY_REQUIRED"
      BY <1>4, FieldsAre, GateCodes
    <2>2. Autonomy(x) = IF ~Complete(x) THEN "NOT_DETERMINED"
                        ELSE IF Deciding(x).code = "AI_NOT_PERMITTED" THEN "AI_NOT_PERMITTED"
                        ELSE IF Deciding(x).code = "AI_ASSISTED_REQUIRED" THEN "AI_ASSISTED"
                        ELSE "AI_AUTOMATION"
      BY <1>4 DEF Autonomy
    <2>3. FieldStop(x) = 4
      BY <2>1 DEF FieldStop, Ready
    <2>. QED
      BY <1>4, <2>1, <2>2, <2>3 DEF TypedFields, ClosedCombinations, DecidingCode
  <1>. QED
    BY <1>1, <1>2, <1>3, <1>4, ResultsAre

LEMMA RecordIsAccepted ==
  ASSUME NEW x
  PROVE  RecordAccepted(x)
  <1> DEFINE results == GateResults(x)
  <1>1. /\ TypedFields(x) \in ClosedCombinations /\ FieldStop(x) = DecidingGate(x)
        /\ DecidingCode(x) = Deciding(x).code
    BY TypedFieldsClosed
  <1>2. /\ GateOne(x).status # "NOT_EVALUATED" /\ GateTwo(x).status # "NOT_EVALUATED"
        /\ GateThree(x).status # "NOT_EVALUATED" /\ GateFour(x).status # "NOT_EVALUATED"
    BY DEF GateOne, GateTwo, GateThree, GateFour, NotReady, Blocked, Completed, Constrained, Result
  <1>3. /\ GateOne(x).material \cap GateOne(x).context = {}
        /\ GateTwo(x).material \cap GateTwo(x).context = {}
        /\ GateThree(x).material \cap GateThree(x).context = {}
        /\ GateFour(x).material \cap GateFour(x).context = {}
    BY GateOneRecord, GateTwoRecord, GateThreeRecord, GateFourRecord
  <1>4. /\ GateAccepted(1, GateOne(x)) /\ GateAccepted(2, GateTwo(x))
        /\ GateAccepted(3, GateThree(x)) /\ GateAccepted(4, GateFour(x))
    <2>1. /\ CodesOfGate[1] = {"CHANGE_JUSTIFIED", "NO_CHANGE_JUSTIFIED", "DISCOVERY_REQUIRED"}
          /\ CodesOfGate[2] = {Ready, "PROCESS_IMPROVEMENT_FIRST", "DISCOVERY_REQUIRED"}
          /\ CodesOfGate[3] = {"AI_SELECTED", "CONVENTIONAL_AUTOMATION_SELECTED",
                               "KEEP_HUMAN_LED_SELECTED", "DISCOVERY_REQUIRED"}
          /\ CodesOfGate[4] = {"AI_AUTOMATION_PERMITTED", "AI_ASSISTED_REQUIRED",
                               "AI_NOT_PERMITTED", "DISCOVERY_REQUIRED"}
      BY DEF CodesOfGate, Ready
    <2>2. GateAccepted(1, GateOne(x))
      BY <1>2, <1>3, <2>1, GateCodes, GateOneCode, GateOneRecord DEF GateAccepted
    <2>3. GateAccepted(2, GateTwo(x))
      BY <1>2, <1>3, <2>1, GateCodes, GateTwoCode, GateTwoRecord DEF GateAccepted
    <2>4. GateAccepted(3, GateThree(x))
      BY <1>2, <1>3, <2>1, GateCodes, GateThreeCode, GateThreeRecord DEF GateAccepted
    <2>5. GateAccepted(4, GateFour(x))
      BY <1>2, <1>3, <2>1, GateCodes, GateFourCode, GateFourRecord DEF GateAccepted
    <2>. QED
      BY <2>2, <2>3, <2>4, <2>5
  <1>5. ASSUME NEW g \in 1 .. 4
        PROVE  /\ GateAccepted(g, results[g])
               /\ IF g <= FieldStop(x) THEN results[g].code = ExpectedCode(x, g)
                  ELSE results[g] = NotEvaluated
               /\ (results[g].status = "BLOCKED_BY_EVIDENCE") <=> (g = FieldStop(x) /\ ~Complete(x))
    <2>1. NotEvaluated.status = "NOT_EVALUATED" /\ NotEvaluated.material \cap NotEvaluated.context = {}
      BY DEF NotEvaluated, Result
    <2>2. CASE g > DecidingGate(x)
      <3>1. results[g] = NotEvaluated
        BY <2>2, ResultsAre
      <3>2. GateAccepted(g, NotEvaluated)
        BY <2>1 DEF GateAccepted
      <3>. QED
        BY <1>1, <2>1, <2>2, <3>1, <3>2, ResultsAre
    <2>3. CASE g = DecidingGate(x)
      <3>1. results[g] = Deciding(x) /\ ExpectedCode(x, g) = Deciding(x).code
        BY <1>1, <2>3, ResultsAre DEF ExpectedCode
      <3>2. GateAccepted(g, Deciding(x))
        BY <1>4, <2>3, FieldsAre, ResultsAre
      <3>3. (Deciding(x).status = "BLOCKED_BY_EVIDENCE") <=> ~Complete(x)
        BY DEF Complete
      <3>. QED
        BY <1>1, <2>3, <3>1, <3>2, <3>3, ResultsAre
    <2>4. CASE g < DecidingGate(x)
      <3>1. g \in {1, 2, 3}
        BY <2>4, ResultsAre
      <3>2. /\ g = 1 => results[g] = GateOne(x) /\ GateOne(x).code = "CHANGE_JUSTIFIED"
            /\ g = 2 => results[g] = GateTwo(x) /\ GateTwo(x).code = Ready
            /\ g = 3 => results[g] = GateThree(x) /\ GateThree(x).code = "AI_SELECTED"
        BY <2>4, ResultsAre, GateCodes
      <3>3. ExpectedCode(x, g) = <<"CHANGE_JUSTIFIED", Ready, "AI_SELECTED">>[g]
        BY <1>1, <2>4, ResultsAre DEF ExpectedCode
      <3>4. results[g].status # "BLOCKED_BY_EVIDENCE"
        BY <3>1, <3>2, GateOneCode, GateTwoCode, GateThreeCode DEF Ready
      <3>5. GateAccepted(g, results[g])
        BY <1>4, <3>1, <3>2
      <3>6. results[g].code = ExpectedCode(x, g)
        BY <3>1, <3>2, <3>3
      <3>. QED
        BY <1>1, <2>4, <3>4, <3>5, <3>6, ResultsAre
    <2>. QED
      BY <2>2, <2>3, <2>4, ResultsAre
  <1>6. (BlockingGaps(x) # {}) <=> ~Complete(x)
    BY FieldsAre, ResultsAre, GateCodes, GateOneRecord, GateTwoRecord, GateThreeRecord, GateFourRecord
       DEF BlockingGaps
  <1>7. /\ (PriorityStatus(x) = "NOT_APPLICABLE") <=> Outcome(x) \notin Eligible
        /\ (PriorityStatus(x) = "INCOMPLETE") <=> MissingForPriority(x) # {}
    BY DEF PriorityStatus, MissingForPriority
  <1>. QED
    BY <1>1, <1>5, <1>6, <1>7 DEF RecordAccepted

-----------------------------------------------------------------------------
(* The records made of an evaluation: what the producer writes, the        *)
(* validators of the next stage accept.                                    *)

(* What was material at the gates is rated.                                *)
LEMMA MaterialIsRated ==
  ASSUME NEW x
  PROVE  /\ Material(x) \subseteq Rated
         /\ \A g \in 1 .. 4 : MaterialAt(GateResults(x)[g]) \subseteq Material(x)
  <1>1. /\ GateOne(x).material \subseteq Criteria /\ GateTwo(x).material \subseteq Criteria
        /\ GateThree(x).material \subseteq Criteria /\ GateFour(x).material \subseteq Criteria
        /\ NotEvaluated.material \subseteq Criteria
    BY GateOneRecord, GateTwoRecord, GateThreeRecord, GateFourRecord
       DEF NotEvaluated, Result, Criteria, ReadinessInputs, FitInputs, AutonomyInputs, Residual,
           Judgement, Risk
  <1>2. /\ GateOne(x).signals \subseteq Signals /\ GateTwo(x).signals \subseteq Signals
        /\ GateThree(x).signals \subseteq Signals /\ GateFour(x).signals \subseteq Signals
        /\ NotEvaluated.signals \subseteq Signals
    BY GateOneRecord, GateTwoRecord, GateThreeRecord, GateFourRecord DEF NotEvaluated, Result
  <1>3. ASSUME NEW r, r.material \subseteq Criteria, r.signals \subseteq Signals
        PROVE  MaterialAt(r) \subseteq Rated
    BY <1>3 DEF MaterialAt, Rated
  <1>4. ASSUME NEW g \in 1 .. 4 PROVE MaterialAt(GateResults(x)[g]) \subseteq Rated
    <2>1. GateResults(x)[g] \in {GateOne(x), GateTwo(x), GateThree(x), GateFour(x), NotEvaluated}
      BY ResultsAre
    <2>. QED
      BY <1>1, <1>2, <1>3, <2>1
  <1>. QED
    BY <1>4 DEF Material

(* The projection of an approval is what the service expects of it.        *)
LEMMA CollectedFacts ==
  ASSUME NEW x \in Inputs, NEW f \in Fields
  PROVE  /\ Cites(x, f) <=> Collected(x, f)
         /\ f # "roles" /\ Collected(x, f) => x[f].value # NoValue /\ Reviewed(x[f]).cited
  <1>1. /\ x[f].kind \in Kinds
        /\ x[f].kind \in Empty <=> x[f].value = NoValue
    BY ItemFacts
  <1>2. CASE x[f].kind \in Empty
    BY <1>1, <1>2 DEF Cites, Collected, Reviewed, Empty
  <1>3. CASE x[f].kind \notin Empty
    BY <1>1, <1>3 DEF Cites, Collected, Reviewed, Empty
  <1>. QED
    BY <1>2, <1>3

LEMMA ProjectedFacts ==
  ASSUME NEW x \in Inputs, NEW f \in Rated
  PROVE  /\ RatingMatches(x, f, Projected(x, f))
         /\ Projected(x, f).cited <=> Collected(x, f)
         /\ x[f].kind # "excluded" => Projected(x, f).state = Reviewed(x[f]).state
         /\ RatingMatches(x, f, Unprojected) => Projected(x, f) = Unprojected
         /\ RatingMatches(x, f, Found(2)) => Projected(x, f) # Unprojected
  <1>1. f \in Fields /\ f # "roles"
    BY SignalsAssumption DEF Rated, Fields, StepFields, Texts, Criteria, Accountability
  <1>2. /\ Cites(x, f) <=> Collected(x, f)
        /\ Collected(x, f) => x[f].value # NoValue
        /\ x[f].kind \in Kinds /\ (x[f].kind \in Empty <=> x[f].value = NoValue)
    BY <1>1, CollectedFacts, ItemFacts
  <1>3. Reviewed(x[f]).value = x[f].value
    BY DEF Reviewed
  <1>4. CASE ~Reviewed(x[f]).retained \/ Reviewed(x[f]).value = NoValue
    <2>1. Projected(x, f) = Unprojected
      BY <1>4 DEF Projected
    <2>2. ~Collected(x, f)
      BY <1>1, <1>2, <1>3, <1>4 DEF Collected
    <2>3. Unprojected.cited = FALSE /\ Unprojected.state = "UNKNOWN" /\ Found(2) # Unprojected
      BY DEF Unprojected, Found, NoValue
    <2>4. x[f].kind # "excluded" => Reviewed(x[f]).state = "UNKNOWN"
      BY <1>2, <1>3, <1>4 DEF Reviewed, Empty
    <2>. QED
      BY <1>4, <2>1, <2>2, <2>3, <2>4 DEF RatingMatches
  <1>5. CASE ~(~Reviewed(x[f]).retained \/ Reviewed(x[f]).value = NoValue)
    <2>1. Projected(x, f) =
            [value |-> x[f].value, state |-> Reviewed(x[f]).state, cited |-> Collected(x, f)]
      BY <1>3, <1>5 DEF Projected
    <2>2. x[f].value # NoValue /\ Unprojected.value = NoValue
      BY <1>3, <1>5 DEF Unprojected
    <2>3. Projected(x, f).value # Unprojected.value
      BY <2>1, <2>2
    <2>4. Projected(x, f).cited <=> Collected(x, f)
      BY <2>1
    <2>5. RatingMatches(x, f, Projected(x, f))
      <3>1. Collected(x, f) = Cites(x, f)
        BY <1>2 DEF Collected, Cites
      <3>2. Projected(x, f).cited = Cites(x, f)
        BY <2>1, <3>1
      <3>. QED
        BY <1>3, <1>5, <2>1, <3>2 DEF RatingMatches
    <2>6. ~RatingMatches(x, f, Unprojected)
      BY <1>3, <1>5, <2>2 DEF RatingMatches
    <2>. QED
      BY <2>1, <2>3, <2>4, <2>5, <2>6
  <1>. QED
    BY <1>4, <1>5

LEMMA ProjectionIsConsistent ==
  ASSUME NEW x \in Inputs, NEW c
  PROVE  Consistent(x, c, Projection(x, c))
  <1>1. Projection(x, c).step = {c[f] : f \in {g \in StepFields : Cites(x, g)}}
    <2>1. \A g \in StepFields : Cites(x, g) <=> Collected(x, g)
      BY CollectedFacts, CriteriaAreFields
    <2>2. {g \in StepFields : Cites(x, g)} = {g \in StepFields : Collected(x, g)}
      BY <2>1
    <2>. QED
      BY <2>2 DEF Projection
  <1>2. \A f \in Rated : Projection(x, c).rated[f] = Projected(x, f)
    BY DEF Projection
  <1>3. \A f \in Rated : RatingMatches(x, f, Projection(x, c).rated[f])
    BY <1>2, ProjectedFacts
  <1>4. Projection(x, c).evidence = {c[f] : f \in {g \in Fields : Collected(x, g)}}
    BY DEF Projection
  <1>. QED
    BY <1>1, <1>3, <1>4 DEF Consistent

\* What a projection cites is evidence that the approval took along.
LEMMA CitesItsEvidence ==
  ASSUME NEW x \in Inputs, NEW c, NEW fs \in SUBSET Rated
  PROVE  /\ CitedBy(c, Projection(x, c), fs) = {c[f] : f \in {g \in fs : Collected(x, g)}}
         /\ CitedBy(c, Projection(x, c), fs) \subseteq Projection(x, c).evidence
         /\ Projection(x, c).step \subseteq Projection(x, c).evidence
  <1>1. \A f \in Rated : Projection(x, c).rated[f].cited <=> Collected(x, f)
    <2>1. \A f \in Rated : Projection(x, c).rated[f] = Projected(x, f)
      BY DEF Projection
    <2>. QED
      BY <2>1, ProjectedFacts
  <1>2. {g \in fs : Projection(x, c).rated[g].cited} = {g \in fs : Collected(x, g)}
    BY <1>1
  <1>3. CitedBy(c, Projection(x, c), fs) = {c[f] : f \in {g \in fs : Collected(x, g)}}
    BY <1>2 DEF CitedBy
  <1>4. Projection(x, c).evidence = {c[f] : f \in {g \in Fields : Collected(x, g)}}
    BY DEF Projection
  <1>5. Projection(x, c).step = {c[f] : f \in {g \in StepFields : Collected(x, g)}}
    BY DEF Projection
  <1>6. fs \subseteq Fields /\ StepFields \subseteq Fields
    BY CriteriaAreFields DEF Fields
  <1>. QED
    BY <1>3, <1>4, <1>5, <1>6

(* An untouched approval is assessed, unless the policy or the engine      *)
(* fails, and one whose readiness or accountability was altered is not.    *)
LEMMA ApprovalIsAssessable ==
  ASSUME NEW x \in Inputs, NEW c
  PROVE  Assessable(x, c)
  <1> DEFINE a == ApprovedReview(x, c)
  <1>1. /\ a.process = Projection(x, c) /\ a.status = "APPROVED" /\ a.blocked = FALSE
        /\ a.approvals = 1 /\ a.dated = TRUE /\ a.projected = "process"
    BY DEF ApprovedReview, ApprovalOf
  <1>2. Refusal(a, x, c) = Accepted
    BY <1>1, ProjectionIsConsistent DEF Refusal
  <1>3. /\ DecisionEvidence(x, c, a.process) \subseteq a.process.evidence
        /\ LegacyEvidence(c, a.process) \subseteq a.process.evidence
    BY <1>1, MaterialIsRated, CitesItsEvidence DEF DecisionEvidence, LegacyEvidence
  <1>4. \A fault \in Faults : AssessFourGate(a, x, c, fault).ok <=> (fault = "none")
    BY <1>2, <1>3 DEF AssessFourGate, AssessedWith, Faults, Failed, Assessed
  <1>5. AssessLegacy(a, x, c, "none").ok
    BY <1>2, <1>3 DEF AssessLegacy, AssessedWith, Assessed
  <1>6. ASSUME NEW f \in {"data_readiness", Accountability}
        PROVE  ~AssessFourGate(Altered(a, f), x, c, "none").ok
    <2>1. f \in Rated
      BY DEF Rated, Criteria
    <2>2. /\ a.process.rated = [g \in Rated |-> Projected(x, g)]
          /\ a.process.rated[f] = Projected(x, f)
      BY <1>1, <2>1 DEF Projection
    <2>3. Altered(a, f).process.rated[f] =
            IF Projected(x, f) = Unprojected THEN Found(2) ELSE Unprojected
      BY <1>1, <2>1, <2>2 DEF Altered, ApprovedReview, ApprovalOf, Projection
    <2>4. ~RatingMatches(x, f, Altered(a, f).process.rated[f])
      BY <2>1, <2>3, ProjectedFacts
    <2>5. ~Consistent(x, c, Altered(a, f).process)
      BY <2>1, <2>4 DEF Consistent
    <2>6. Refusal(Altered(a, f), x, c) # Accepted
      BY <2>5 DEF Refusal, Accepted
    <2>. QED
      BY <2>6 DEF AssessFourGate, AssessedWith, Failed
  <1>. QED
    BY <1>4, <1>5, <1>6 DEF Assessable

(* The trace beside an assessment supports it, unless a value was excluded *)
(* or the activity cites a sentence that nothing else rests on.            *)
LEMMA LineageOfOwnSentences ==
  ASSUME NEW x \in Inputs, NEW c, ~ExcludedValue(x), ~StraySentence(x, c)
  PROVE  LineageAgrees(x, c, Projection(x, c))
  <1> DEFINE process == Projection(x, c)
             trace == Trace(x, c)
             expected == trace["activity"].evidence \cup CitedBy(c, process, Material(x))
  <1>1. /\ \A f \in Rated \cup {"activity"} :
             trace[f].evidence = IF Collected(x, f) THEN {c[f]} ELSE {}
        /\ \A f \in Rated \cup {"activity"} : trace[f].state = Reviewed(x[f]).state
        /\ DOMAIN trace = Rated \cup {"activity"}
    BY DEF Trace
  <1>2. \A f \in Rated : process.rated[f] = Projected(x, f)
    BY DEF Projection
  <1>3. ASSUME NEW fs \in SUBSET Rated
        PROVE  CitedBy(c, process, fs) = {c[f] : f \in {g \in fs : Collected(x, g)}}
    BY CitesItsEvidence
  <1>4. \A f \in Rated : process.rated[f].state = trace[f].state
    BY <1>1, <1>2, ProjectedFacts DEF ExcludedValue
  <1>5. ASSUME NEW f \in Rated PROVE CitedBy(c, process, {f}) = trace[f].evidence
    <2>1. {f} \in SUBSET Rated
      OBVIOUS
    <2>2. CitedBy(c, process, {f}) = {c[h] : h \in {g \in {f} : Collected(x, g)}}
      BY <1>3, <2>1
    <2>. QED
      BY <1>1, <2>2
  <1>6. /\ Material(x) \in SUBSET Rated
        /\ \A g \in 1 .. 4 : MaterialAt(GateResults(x)[g]) \subseteq Material(x)
    BY MaterialIsRated
  <1>7. CitedBy(c, process, Material(x)) = {c[f] : f \in {g \in Material(x) : Collected(x, g)}}
    BY <1>3, <1>6
  <1>8. process.step = {c[f] : f \in {g \in StepFields : Collected(x, g)}}
    BY DEF Projection
  <1>9. process.step \subseteq expected
    <2>1. ASSUME NEW f \in StepFields, Collected(x, f) PROVE c[f] \in expected
      <3>1. PICK g \in {"activity"} \cup Material(x) : Collected(x, g) /\ c[g] = c[f]
        BY <2>1 DEF StraySentence
      <3>2. CASE g = "activity"
        BY <1>1, <3>1, <3>2
      <3>3. CASE g \in Material(x)
        BY <1>7, <3>1, <3>3
      <3>. QED
        BY <3>1, <3>2, <3>3
    <2>. QED
      BY <1>8, <2>1
  <1>10. trace["activity"].evidence \subseteq process.step
    BY <1>1, <1>8, CriteriaAreFields DEF StepFields
  <1>11. DecisionEvidence(x, c, process) = expected
    BY <1>9, <1>10 DEF DecisionEvidence
  <1>12. expected \subseteq TracedEvidence(trace)
    <2>1. ASSUME NEW f \in Rated \cup {"activity"} PROVE trace[f].evidence \subseteq TracedEvidence(trace)
      BY <1>1 DEF TracedEvidence
    <2>2. CitedBy(c, process, Material(x)) \subseteq TracedEvidence(trace)
      <3>1. ASSUME NEW f \in Material(x), Collected(x, f) PROVE c[f] \in TracedEvidence(trace)
        <4>1. f \in Rated /\ trace[f].evidence = {c[f]}
          BY <1>1, <1>6, <3>1
        <4>. QED
          BY <2>1, <4>1
      <3>. QED
        BY <1>7, <3>1
    <2>. QED
      BY <2>1, <2>2
  <1>13. ASSUME NEW g \in 1 .. 4 PROVE GateEvidence(x, c, process, g) \subseteq expected
    <2>1. CitedBy(c, process, MaterialAt(GateResults(x)[g])) \subseteq CitedBy(c, process, Material(x))
      BY <1>6 DEF CitedBy
    <2>. QED
      BY <1>9, <2>1 DEF GateEvidence
  <1>. QED
    BY <1>4, <1>5, <1>11, <1>12, <1>13 DEF LineageAgrees

\* What a package actively asks for is what blocks.
LEMMA ActiveGapsAre ==
  ASSUME NEW x
  PROVE  /\ {g.field : g \in ActiveGaps(Package(x))} = BlockingGaps(x)
         /\ ActiveGaps(Package(x)) # {} <=> BlockingGaps(x) # {}
         /\ \A g \in InformationGaps(x) : (g.gate # NoGate) <=> (g \in ActiveGaps(Package(x)))
  <1> DEFINE active == {InformationGap("ACTIVE_DECISION_BLOCKER", f, DecidingGate(x)) :
                          f \in BlockingGaps(x)}
  <1>1. Package(x).gaps = InformationGaps(x)
    BY DEF Package
  <1>2. DecidingGate(x) \in 1 .. 4 /\ NoGate = 0
    BY ResultsAre DEF NoGate
  <1>3. \A g \in InformationGaps(x) :
          /\ g.kind = "ACTIVE_DECISION_BLOCKER" <=> g \in active
          /\ g.gate # NoGate <=> g \in active
    BY <1>2 DEF InformationGaps, InformationGap
  <1>4. active \subseteq InformationGaps(x)
    BY DEF InformationGaps
  <1>5. ActiveGaps(Package(x)) = active
    BY <1>1, <1>3, <1>4 DEF ActiveGaps
  <1>6. \A f : InformationGap("ACTIVE_DECISION_BLOCKER", f, DecidingGate(x)).field = f
    BY DEF InformationGap
  <1>7. ASSUME NEW f \in BlockingGaps(x) PROVE f \in {g.field : g \in active}
    BY <1>6
  <1>8. ASSUME NEW g \in active PROVE g.field \in BlockingGaps(x)
    BY <1>6
  <1>. QED
    BY <1>3, <1>5, <1>7, <1>8

(* The package of every evaluation is one its own contract accepts.        *)
LEMMA PackageIsAccepted ==
  ASSUME NEW x
  PROVE  PackageAccepted(x, Package(x))
  <1> DEFINE p == Package(x)
  <1>1. /\ p.outcome = Outcome(x) /\ p.gaps = InformationGaps(x) /\ p.use = CapabilityUse(x)
        /\ p.eligible = (Outcome(x) \in Eligible)
        /\ p.governed = IF GateResults(x)[4].status = "NOT_EVALUATED" THEN NoGate ELSE 4
    BY DEF Package
  <1>2. DecidingGate(x) \in 1 .. 4 /\ NoGate = 0
    BY ResultsAre DEF NoGate
  <1>3. \A g \in p.gaps : (g.gate # NoGate) <=> (g \in ActiveGaps(p))
    BY <1>1, ActiveGapsAre
  <1>4. {g.field : g \in ActiveGaps(p)} = BlockingGaps(x) /\ (ActiveGaps(p) # {} <=> BlockingGaps(x) # {})
    BY ActiveGapsAre
  <1>5. RecordAccepted(x) /\ TypedFields(x)[1] = IF Complete(x) THEN "COMPLETE" ELSE "DISCOVERY_REQUIRED"
    BY RecordIsAccepted DEF TypedFields
  <1>6. (BlockingGaps(x) # {}) <=> ~Complete(x)
    BY <1>5 DEF RecordAccepted
  <1>7. UNION {GateResults(x)[g].gaps : g \in 1 .. 4} = BlockingGaps(x)
    <2>1. ASSUME NEW g \in 1 .. 4, g # DecidingGate(x) PROVE GateResults(x)[g].gaps = {}
      <3>1. /\ GateAccepted(g, GateResults(x)[g])
            /\ GateResults(x)[g].status # "BLOCKED_BY_EVIDENCE"
        BY <1>5, <2>1, TypedFieldsClosed DEF RecordAccepted
      <3>2. NotEvaluated.gaps = {}
        BY DEF NotEvaluated, Result
      <3>. QED
        BY <3>1, <3>2 DEF GateAccepted
    <2>2. GateResults(x)[DecidingGate(x)].gaps = BlockingGaps(x)
      BY ResultsAre DEF BlockingGaps
    <2>. QED
      BY <1>2, <2>1, <2>2
  <1>8. Outcome(x) \in Eligible => Complete(x)
    BY OutcomeIs DEF Eligible
  <1>9. (p.use = "REJECTED_AT_SAFETY_GATE") <=> (p.outcome = "KEEP_HUMAN_LED" /\ p.governed = 4)
    <2>1. SafetyVeto(x) <=> (DecidingGate(x) = 4 /\ GateFour(x).code = "AI_NOT_PERMITTED")
      <3>1. CASE DecidingGate(x) = 4
        <4>1. /\ Family(x) = "AI" /\ Deciding(x) = GateFour(x)
              /\ GateFour(x).code \in {"DISCOVERY_REQUIRED", "AI_NOT_PERMITTED",
                                       "AI_ASSISTED_REQUIRED", "AI_AUTOMATION_PERMITTED"}
              /\ Complete(x) <=> Deciding(x).code # "DISCOVERY_REQUIRED"
          BY <3>1, FieldsAre, GateCodes
        <4>. QED
          BY <3>1, <4>1 DEF SafetyVeto, Autonomy
      <3>2. CASE DecidingGate(x) # 4
        <4>1. Autonomy(x) # "AI_NOT_PERMITTED"
          BY <1>2, <3>2, FieldsAre
        <4>. QED
          BY <3>2, <4>1 DEF SafetyVeto
      <3>. QED
        BY <3>1, <3>2
    <2>2. p.governed = 4 <=> DecidingGate(x) = 4
      <3>1. GateFour(x).status # "NOT_EVALUATED" /\ NotEvaluated.status = "NOT_EVALUATED"
        BY DEF GateFour, Blocked, Completed, Constrained, NotEvaluated, Result
      <3>. QED
        BY <1>1, <1>2, <3>1, ResultsAre
    <2>3. DecidingGate(x) = 4 =>
            (Outcome(x) = "KEEP_HUMAN_LED" <=> GateFour(x).code = "AI_NOT_PERMITTED")
      BY OutcomeIs, GateCodes DEF Ready
    <2>. QED
      BY <1>1, <2>1, <2>2, <2>3 DEF CapabilityUse, Eligible
  <1>. QED
    BY <1>1, <1>3, <1>4, <1>5, <1>6, <1>7, <1>8, <1>9 DEF PackageAccepted

\* The future state is never planned past the risk gate.
LEMMA NoFutureStateConflict ==
  ASSUME NEW x
  PROVE  ~FutureStateConflict(x)
  <1>1. SUFFICES ASSUME Recommendation(x) = "AUTOMATE"
                 PROVE  EvaluateGates(x)[4].status \in {"PASSED", "PASSED_WITH_CONSTRAINTS"}
    BY DEF FutureStateConflict
  <1>2. /\ EvidenceGate(x).mode \in {Undecided, "INVESTIGATE_FURTHER"}
        /\ TechnicalGate(x).mode \in {Undecided, "INVESTIGATE_FURTHER", "DO_NOT_RECOMMEND"}
        /\ ValueGate(x).mode \in {Undecided, "INVESTIGATE_FURTHER", "DO_NOT_RECOMMEND"}
    BY DEF EvidenceGate, TechnicalGate, ValueGate, MaterialGap, Rejected, Passed, GateResult
  <1>3. /\ EvidenceGate(x).mode = Undecided /\ TechnicalGate(x).mode = Undecided
        /\ ValueGate(x).mode = Undecided /\ RiskGate(x).mode = "AUTOMATE"
    BY <1>1, <1>2 DEF Recommendation
  <1>4. EvaluateGates(x)[4] = RiskGate(x)
    BY <1>3 DEF EvaluateGates
  <1>5. RiskGate(x).status = "PASSED"
    BY <1>3 DEF RiskGate, MaterialGap, Rejected, Augmented, GateResult
  <1>. QED
    BY <1>4, <1>5

(* So is the package of the earlier policy, unless a value was excluded.   *)
LEMMA LegacyPackageIsAccepted ==
  ASSUME NEW x \in Inputs, ~ExcludedValue(x)
  PROVE  LegacyPackaged(x)
  <1>1. ASSUME NEW f \in Criteria \cup {Accountability}
        PROVE  RecordedState(x[f]) = Reviewed(x[f]).state
    <2>1. f \in Rated /\ x[f].kind # "excluded"
      BY DEF ExcludedValue, Rated
    <2>. QED
      BY <2>1 DEF RecordedState, Reviewed, Empty
  <1>2. ~FutureStateConflict(x)
    BY NoFutureStateConflict
  <1>. QED
    BY <1>1, <1>2 DEF LegacyPackaged, LegacyTraceAgrees

LEMMA RecordsAcceptedAlways ==
  ASSUME inputs \in Inputs
  PROVE  RecordsAccepted
  <1>1. PICK x : x = inputs
    OBVIOUS
  <1>2. x \in Inputs
    BY <1>1
  <1>3. RecordAccepted(x)
    BY RecordIsAccepted
  <1>4. ASSUME NEW c \in Citations
        PROVE  /\ Assessable(x, c)
               /\ Packaged(x, c) \/ ExcludedValue(x) \/ StraySentence(x, c)
    <2>1. Assessable(x, c)
      BY <1>2, ApprovalIsAssessable
    <2>2. ExcludedValue(x) \/ StraySentence(x, c) \/ LineageAgrees(x, c, Projection(x, c))
      BY <1>2, LineageOfOwnSentences
    <2>3. PackageAccepted(x, Package(x))
      BY PackageIsAccepted
    <2>. QED
      BY <1>3, <2>1, <2>2, <2>3 DEF Packaged
  <1>5. LegacyPackaged(x) \/ ExcludedValue(x)
    BY <1>2, LegacyPackageIsAccepted
  <1>6. TraceAccepted(x) \/ HalfBlocked(x)
    BY <1>2, MarksHold DEF TraceAccepted
  <1>. QED
    BY <1>1, <1>3, <1>4, <1>5, <1>6 DEF RecordsAccepted

(* Every record the service assembles from an activity passes the          *)
(* validators of the stages that read it: gate results, decision, trace,   *)
(* package, and the package of the earlier policy (RecordsAccepted).       *)
THEOREM RecordsAreAccepted == InputsSpec => []RecordsAccepted
  <1>1. InputsTypeOK => RecordsAccepted
    BY RecordsAcceptedAlways DEF InputsTypeOK
  <1>2. InputsSpec => []InputsTypeOK
    BY InputsTyped
  <1>. QED
    BY <1>1, <1>2, PTL

-----------------------------------------------------------------------------
(* Answering what a package asks for, and assessing again.                 *)

(* What is asked for is missing.                                           *)
LEMMA AskedIsMissing ==
  ASSUME NEW x, NEW f \in BlockingGaps(x)
  PROVE  \/ f = SignalsGap
         \/ f = "activity" /\ ~SourceBacked(x)
         \/ f \in Criteria \cup {Accountability} /\ Gap(x, f)
  <1>1. \A g \in GateOne(x).gaps :
          (g = "activity" /\ ~SourceBacked(x)) \/ (g \in Criteria /\ Gap(x, g))
    BY DEF GateOne, Blocked, Completed, Result, Criteria
  <1>2. \A g \in GateTwo(x).gaps : g \in Criteria /\ Gap(x, g)
    BY DEF GateTwo, NotReady, Blocked, Completed, Constrained, Result, Gaps, Criteria, ReadinessInputs
  <1>3. \A g \in GateThree(x).gaps : g = SignalsGap \/ (g \in Criteria /\ Gap(x, g))
    BY DEF GateThree, Blocked, Completed, Result, Criteria
  <1>4. \A g \in GateFour(x).gaps : g \in Criteria \cup {Accountability} /\ Gap(x, g)
    BY DEF GateFour, Blocked, Completed, Constrained, Result, Gaps, Criteria, Residual, Judgement, Risk
  <1>5. Deciding(x) \in {GateOne(x), GateTwo(x), GateThree(x), GateFour(x)}
    BY ResultsAre, FieldsAre
  <1>. QED
    BY <1>1, <1>2, <1>3, <1>4, <1>5 DEF BlockingGaps

LEMMA KnownIsCollected ==
  ASSUME NEW x \in Inputs, NEW f \in Fields, Known(x, f)
  PROVE  Collected(x, f)
  <1>1. x[f].kind \in {"documented", "inferred", "conflicted"}
    BY ItemFacts DEF Known, Gap, Sufficient, Kinds, Empty
  <1>. QED
    BY <1>1 DEF Collected, Reviewed

(* An answer to a blocking gap.                                            *)
LEMMA AnswerAdvances ==
  ASSUME NEW x \in Inputs, NEW y \in Inputs,
         \A f \in Fields : x[f] # y[f] => f \in BlockingGaps(x) /\ Known(y, f)
  PROVE  /\ \A f \in Fields : x[f] # y[f] => f \notin BlockingGaps(y)
         /\ DecidingGate(y) >= DecidingGate(x)
  <1>1. SignalsGap \notin Fields
    BY SignalsGapAssumption DEF SignalsGap, Fields, Rated, Criteria, Texts, Accountability
  <1>2. "activity" \notin Criteria \cup {Accountability}
    BY DEF Criteria, Accountability
  <1>3. ASSUME NEW f \in Fields, x[f] # y[f] PROVE f \notin BlockingGaps(y)
    <2>1. Known(y, f) /\ f # SignalsGap
      BY <1>1, <1>3
    <2>2. f = "activity" => SourceBacked(y)
      BY <2>1, KnownIsCollected, CriteriaAreFields DEF SourceBacked, StepFields
    <2>. QED
      BY <2>1, <2>2, AskedIsMissing DEF Known
  <1>4. Learns(x, y)
    <2>1. ASSUME NEW f \in Fields, x[f] # y[f]
          PROVE  Gap(x, f) /\ (Collected(x, f) => Collected(y, f))
      <3>1. f \in BlockingGaps(x) /\ Known(y, f) /\ f # SignalsGap
        BY <1>1, <2>1
      <3>2. f = "activity" /\ ~SourceBacked(x) => Gap(x, f)
        BY KnownIsCollected, CriteriaAreFields DEF SourceBacked, StepFields, Known
      <3>. QED
        BY <3>1, <3>2, AskedIsMissing, KnownIsCollected
    <2>. QED
      BY <2>1 DEF Learns
  <1>5. /\ GateOne(x).code # "DISCOVERY_REQUIRED" => GateOne(y).code = GateOne(x).code
        /\ GateTwo(x).code # "DISCOVERY_REQUIRED" => GateTwo(y).code = GateTwo(x).code
        /\ GateThree(x).code # "DISCOVERY_REQUIRED" => GateThree(y).code = GateThree(x).code
    BY <1>4, GatesStay
  <1>6. DecidingGate(y) >= DecidingGate(x)
    BY <1>5, OutcomeIs
  <1>. QED
    BY <1>3, <1>6

\* What the supporting document says is a documented input.
LEMMA FoundIsDocumented ==
  ASSUME NEW v
  PROVE  /\ Reviewed(Item("documented", v)) =
              [retained |-> TRUE, value |-> v, human |-> FALSE, state |-> "KNOWN", cited |-> TRUE]
         /\ Item("documented", v).kind = "documented" /\ Item("documented", v).value = v
  BY DEF Reviewed, Item

LEMMA SuccessorFacts ==
  ASSUME NEW x \in Inputs, NEW v \in 0 .. 5
  PROVE  /\ Successor(x, v) \in Inputs
         /\ Successor(x, v)["data_readiness"] = Item("documented", v)
         /\ \A f \in Fields : f # "data_readiness" => Successor(x, v)[f] = x[f]
  <1>1. "data_readiness" \in Fields /\ "data_readiness" \in Criteria
    BY CriteriaAreFields DEF Criteria
  <1>2. Item("documented", v) \in Items
    BY DEF Item, Items, Kinds, Empty, NoValue
  <1>3. x \in [Fields -> Items] /\ \A f \in Fields \ Criteria : x[f].value <= 1
    BY DEF Inputs
  <1>. QED
    BY <1>1, <1>2, <1>3 DEF Successor, Inputs

(* The supporting document is the only new evidence of a successor, which  *)
(* projects as if it had been reviewed that way.                           *)
LEMMA SuccessorProjects ==
  ASSUME NEW x \in Inputs, NEW c \in Citations, NEW v \in 0 .. 5,
         RecordedState(x["data_readiness"]) = "UNKNOWN"
  PROVE  /\ SuccessorProcess(x, c, v) = Projection(Successor(x, v), SuccessorCites(c))
         /\ OneField(Projection(x, c), SuccessorProcess(x, c, v), v)
  <1> DEFINE y == Successor(x, v)
             d == SuccessorCites(c)
             p == Projection(x, c)
             q == SuccessorProcess(x, c, v)
  <1>1. /\ y["data_readiness"] = Item("documented", v)
        /\ \A f \in Fields : f # "data_readiness" => y[f] = x[f]
        /\ "data_readiness" \in Rated /\ "data_readiness" \in Fields
        /\ "data_readiness" \notin StepFields
    BY SuccessorFacts DEF Rated, Criteria, Fields, StepFields, Texts, Accountability
  <1>2. /\ d["data_readiness"] = Supporting
        /\ \A f \in Fields : f # "data_readiness" => d[f] = c[f]
    <2>1. DOMAIN c = Fields
      BY DEF Citations, OwnSentences, SharedSentence, OneSentence
    <2>. QED
      BY <1>1, <2>1 DEF SuccessorCites
  <1>3. \A f \in Fields : c[f] # Supporting
    <2>1. Supporting \notin Fields
      BY SupportingAssumption DEF Supporting, Fields, Rated, Criteria, Texts, Accountability
    <2>2. Supporting # "implementation_complexity" /\ Supporting # "sentence"
      BY DEF Supporting
    <2>. QED
      BY <2>1, <2>2 DEF Citations, OwnSentences, SharedSentence, OneSentence
  <1>4. ~Collected(x, "data_readiness") /\ Collected(y, "data_readiness")
    <2>1. x["data_readiness"].kind \in {"unknown", "excluded"}
      BY DEF RecordedState, Reviewed, Empty
    <2>2. ~Collected(x, "data_readiness")
      BY <2>1 DEF Collected, Reviewed
    <2>3. Known(y, "data_readiness")
      BY <1>1, FoundIsDocumented DEF Known, Gap, Sufficient, Empty
    <2>4. y \in Inputs
      BY SuccessorFacts
    <2>5. Collected(y, "data_readiness")
      BY <1>1, <2>3, <2>4, KnownIsCollected
    <2>. QED
      BY <2>2, <2>5
  <1>5. \A f \in Fields : f # "data_readiness" => (Collected(y, f) <=> Collected(x, f))
    BY <1>1 DEF Collected
  <1>6. /\ p.rated = [f \in Rated |-> Projected(x, f)]
        /\ p.step = {c[f] : f \in {g \in StepFields : Collected(x, g)}}
        /\ p.evidence = {c[f] : f \in {g \in Fields : Collected(x, g)}}
    BY DEF Projection
  <1>7. /\ q = [rated |-> [p.rated EXCEPT !["data_readiness"] = Found(v)], step |-> p.step,
                evidence |-> p.evidence \cup {Supporting}]
    BY DEF SuccessorProcess
  <1>8. Projection(y, d) = [rated |-> [f \in Rated |-> Projected(y, f)],
                            step |-> {d[f] : f \in {g \in StepFields : Collected(y, g)}},
                            evidence |-> {d[f] : f \in {g \in Fields : Collected(y, g)}}]
    BY DEF Projection
  <1>9. [p.rated EXCEPT !["data_readiness"] = Found(v)] = [f \in Rated |-> Projected(y, f)]
    <2>1. Projected(y, "data_readiness") = Found(v)
      <3>1. Collected(y, "data_readiness") = TRUE
        BY <1>4 DEF Collected
      <3>2. /\ Reviewed(y["data_readiness"]).retained /\ Reviewed(y["data_readiness"]).value = v
            /\ Reviewed(y["data_readiness"]).state = "KNOWN" /\ v # NoValue
        BY <1>1, FoundIsDocumented DEF NoValue
      <3>. QED
        BY <3>1, <3>2 DEF Projected, Found
    <2>2. \A f \in Rated : f # "data_readiness" => Projected(y, f) = Projected(x, f)
      <3>1. \A f \in Rated : f \in Fields
        BY DEF Fields
      <3>. QED
        BY <1>1, <3>1 DEF Projected, Collected
    <2>. QED
      BY <1>6, <2>1, <2>2
  <1>10. p.step = {d[f] : f \in {g \in StepFields : Collected(y, g)}}
    <2>1. \A f \in StepFields : (Collected(y, f) <=> Collected(x, f)) /\ d[f] = c[f]
      BY <1>1, <1>2, <1>5, CriteriaAreFields
    <2>. QED
      BY <1>6, <2>1
  <1>11. p.evidence \cup {Supporting} = {d[f] : f \in {g \in Fields : Collected(y, g)}}
    <2>1. ASSUME NEW s \in p.evidence PROVE s \in {d[f] : f \in {g \in Fields : Collected(y, g)}}
      <3>1. PICK f \in Fields : Collected(x, f) /\ s = c[f]
        BY <1>6
      <3>. QED
        BY <1>2, <1>4, <1>5, <3>1
    <2>2. Supporting \in {d[f] : f \in {g \in Fields : Collected(y, g)}}
      BY <1>1, <1>2, <1>4
    <2>3. ASSUME NEW f \in Fields, Collected(y, f) PROVE d[f] \in p.evidence \cup {Supporting}
      BY <1>2, <1>5, <1>6, <2>3
    <2>. QED
      BY <2>1, <2>2, <2>3
  <1>12. q = Projection(y, d)
    BY <1>7, <1>8, <1>9, <1>10, <1>11
  <1>13. Supporting \notin p.evidence
    BY <1>3, <1>6
  <1>14. OneField(p, q, v)
    BY <1>7, <1>13 DEF OneField
  <1>. QED
    BY <1>12, <1>14

\* A packaged activity has no excluded value.
LEMMA PackagedIsNotExcluded ==
  ASSUME NEW x \in Inputs, NEW c, Packaged(x, c)
  PROVE  ~ExcludedValue(x)
  <1>1. ASSUME NEW f \in Rated, x[f].kind = "excluded" PROVE FALSE
    <2>1. Projection(x, c).rated[f].state = Trace(x, c)[f].state
      BY <1>1 DEF Packaged, LineageAgrees
    <2>2. Projection(x, c).rated[f].state = "UNKNOWN"
      BY <1>1 DEF Projection, Projected, Reviewed, Unprojected
    <2>3. Trace(x, c)[f].state = "KNOWN"
      BY <1>1 DEF Trace, Reviewed
    <2>. QED
      BY <2>1, <2>2, <2>3
  <1>. QED
    BY <1>1 DEF ExcludedValue

(* An activity that is opened for reassessment settles at its second gate. *)
LEMMA ReassessmentChanges ==
  ASSUME NEW x \in Inputs, NEW v \in 0 .. 5, EligibleForReassessment(x)
  PROVE  /\ "NO_FORMAL_DECISION_CHANGE" \notin Categories(x, Successor(x, v))
         /\ FinalRecommendation(Successor(x, v)) # FinalRecommendation(x)
  <1> DEFINE y == Successor(x, v)
  <1>1. /\ y \in Inputs /\ y["data_readiness"] = Item("documented", v)
        /\ \A f \in Fields : f # "data_readiness" => y[f] = x[f]
    BY SuccessorFacts
  <1>2. /\ Outcome(x) = "DISCOVERY_REQUIRED" /\ DecidingGate(x) = 2
        /\ BlockingGaps(x) = {"data_readiness"}
    <2>1. {g.field : g \in ActiveGaps(Package(x))} = BlockingGaps(x)
      BY ActiveGapsAre
    <2>. QED
      BY <2>1 DEF EligibleForReassessment
  <1>3. Known(y, "data_readiness")
    BY <1>1 DEF Known, Gap, Sufficient, Item, Empty
  <1>4. /\ "data_readiness" \in Fields /\ "data_readiness" \in Criteria
        /\ "data_readiness" # SignalsGap
    BY CriteriaAreFields DEF Criteria, SignalsGap
  <1>5. \A f \in Fields : x[f] # y[f] => f \in BlockingGaps(x) /\ Known(y, f)
    BY <1>1, <1>2, <1>3
  <1>6. DecidingGate(y) >= 2 /\ "data_readiness" \notin BlockingGaps(y)
    <2>1. DecidingGate(y) >= DecidingGate(x)
      BY <1>1, <1>5, AnswerAdvances
    <2>2. "data_readiness" \notin BlockingGaps(y)
      BY <1>3, <1>4, AskedIsMissing DEF Known
    <2>. QED
      BY <1>2, <2>1, <2>2
  <1>7. /\ GateTwo(x).code = "DISCOVERY_REQUIRED"
        /\ GateResults(x)[2] = GateTwo(x) /\ GateResults(y)[2] = GateTwo(y)
    BY <1>2, <1>6, OutcomeIs, ResultsAre, GateCodes DEF Ready
  <1>8. GateTwo(y).code # "DISCOVERY_REQUIRED"
    <2>1. GateTwo(x).gaps = {"data_readiness"}
      BY <1>2, FieldsAre DEF BlockingGaps
    <2>2. Gaps(x, ReadinessInputs) = {"data_readiness"}
      BY <1>7, <2>1, GateTwoCode DEF GateTwo, Blocked, Result
    <2>3. Known(y, "implementation_complexity")
      <3>1. ~Gap(x, "implementation_complexity")
        BY <2>2 DEF Gaps, ReadinessInputs
      <3>. QED
        BY <1>1, <3>1, CriteriaAreFields DEF Known, Gap
    <2>4. Gaps(y, ReadinessInputs) = {}
      BY <1>3, <2>3 DEF Gaps, ReadinessInputs, Known
    <2>. QED
      BY <2>4, GateTwoCode
  <1>9. GateResults(x) # GateResults(y)
    BY <1>7, <1>8
  <1>10. "NO_FORMAL_DECISION_CHANGE" \notin Categories(x, y)
    BY <1>9 DEF Categories
  <1>11. FinalRecommendation(y) # FinalRecommendation(x)
    <2>1. FinalRecommendation(x) = <<"blockers", BlockingGaps(x)>>
      BY <1>2 DEF FinalRecommendation
    <2>2. CASE Outcome(y) = "DISCOVERY_REQUIRED"
      <3>1. FinalRecommendation(y) = <<"blockers", BlockingGaps(y)>>
        BY <2>2 DEF FinalRecommendation
      <3>. QED
        BY <1>2, <1>6, <2>1, <3>1
    <2>3. CASE Outcome(y) # "DISCOVERY_REQUIRED"
      <3>1. FinalRecommendation(y)[1] \in {"established", "rejected", "selected", "sole"}
        BY <2>3 DEF FinalRecommendation
      <3>. QED
        BY <2>1, <3>1
    <2>. QED
      BY <2>2, <2>3
  <1>. QED
    BY <1>10, <1>11

LEMMA ReassessmentIsPackaged ==
  ASSUME NEW x \in Inputs, NEW c \in Citations, NEW v \in 0 .. 5, OpensContext(x, c)
  PROVE  /\ Reassessed(x, c, v)
         /\ Repackaged(x, c, v) \/ StraySentence(Successor(x, v), SuccessorCites(c))
  <1> DEFINE y == Successor(x, v)
             d == SuccessorCites(c)
             a == ApprovalOf(SuccessorProcess(x, c, v))
  <1>1. /\ y \in Inputs /\ y["data_readiness"] = Item("documented", v)
        /\ \A f \in Fields : f # "data_readiness" => y[f] = x[f]
    BY SuccessorFacts
  <1>2. RecordedState(x["data_readiness"]) = "UNKNOWN" /\ Packaged(x, c)
    BY DEF OpensContext
  <1>3. /\ SuccessorProcess(x, c, v) = Projection(y, d)
        /\ OneField(Projection(x, c), SuccessorProcess(x, c, v), v)
    BY <1>2, SuccessorProjects
  <1>4. a = ApprovedReview(y, d) /\ a.process = SuccessorProcess(x, c, v)
    BY <1>3 DEF ApprovedReview, ApprovalOf
  <1>5. AssessFourGate(a, y, d, "none").ok
    <2>1. Assessable(y, d)
      BY <1>1, ApprovalIsAssessable
    <2>. QED
      BY <1>4, <2>1 DEF Assessable, Faults
  <1>6. ~ExcludedValue(y)
    <2>1. ~ExcludedValue(x)
      BY <1>2, PackagedIsNotExcluded
    <2>2. Rated \subseteq Fields
      BY DEF Fields
    <2>. QED
      BY <1>1, <2>1, <2>2 DEF ExcludedValue, Item
  <1>7. StraySentence(y, d) \/ LineageAgrees(y, d, Projection(y, d))
    BY <1>1, <1>6, LineageOfOwnSentences
  <1>8. RecordAccepted(y) /\ PackageAccepted(y, Package(y))
    BY RecordIsAccepted, PackageIsAccepted
  <1>. QED
    BY <1>3, <1>4, <1>5, <1>7, <1>8 DEF Reassessed, Repackaged, Packaged

LEMMA LegacyReassessmentSettles ==
  ASSUME NEW x \in Inputs, NEW c \in Citations, NEW v \in 0 .. 5, LegacyOpens(x)
  PROVE  /\ LegacyReassessed(x, c, v)
         /\ "CRITERION_CHANGE" \in LegacyCategories(x, Successor(x, v))
  <1> DEFINE y == Successor(x, v)
             d == SuccessorCites(c)
  <1>1. /\ y \in Inputs /\ y["data_readiness"] = Item("documented", v)
        /\ \A f \in Fields : f # "data_readiness" => y[f] = x[f]
    BY SuccessorFacts
  <1>2. RecordedState(x["data_readiness"]) = "UNKNOWN" /\ LegacyTraceAgrees(x)
    BY DEF LegacyOpens, LegacyPackaged
  <1>3. /\ SuccessorProcess(x, c, v) = Projection(y, d)
        /\ OneField(Projection(x, c), SuccessorProcess(x, c, v), v)
    BY <1>2, SuccessorProjects
  <1>4. LegacyEvidence(d, Projection(y, d)) \subseteq Projection(y, d).evidence
    BY <1>1, CitesItsEvidence DEF LegacyEvidence
  <1>5. LegacyTraceAgrees(y)
    <2>1. RecordedState(y["data_readiness"]) = Reviewed(y["data_readiness"]).state
      BY <1>1 DEF RecordedState, Reviewed, Item, Empty
    <2>2. ASSUME NEW f \in Criteria \cup {Accountability}, f # "data_readiness"
          PROVE  RecordedState(y[f]) = Reviewed(y[f]).state
      <3>1. y[f] = x[f]
        BY <1>1, <2>2, CriteriaAreFields
      <3>. QED
        BY <1>2, <3>1 DEF LegacyTraceAgrees
    <2>. QED
      BY <2>1, <2>2 DEF LegacyTraceAgrees
  <1>6. ~FutureStateConflict(y)
    BY NoFutureStateConflict
  <1>7. x["data_readiness"].value # y["data_readiness"].value
    <2>1. x["data_readiness"].value = NoValue
      BY <1>2, ItemFacts, CriteriaAreFields DEF RecordedState, Reviewed, Empty
    <2>. QED
      BY <1>1, <2>1 DEF Item, NoValue
  <1>8. "CRITERION_CHANGE" \in LegacyCategories(x, y)
    BY <1>7 DEF LegacyCategories
  <1>. QED
    BY <1>3, <1>4, <1>5, <1>6, <1>8 DEF LegacyReassessed, LegacyPackaged

LEMMA AnswersAdvanceStep ==
  ASSUME inputs \in Inputs, inputs' \in Inputs
  PROVE  Advances
  <1>1. PICK x : x = inputs
    OBVIOUS
  <1>2. PICK y : y = inputs'
    OBVIOUS
  <1>3. x \in Inputs /\ y \in Inputs
    BY <1>1, <1>2
  <1>4. Changed = {f \in Fields : x[f] # y[f]}
    BY <1>1, <1>2 DEF Changed
  <1>5. ASSUME Changed \subseteq BlockingGaps(x), \A f \in Changed : Known(y, f)
        PROVE  Changed \cap BlockingGaps(y) = {} /\ DecidingGate(y) >= DecidingGate(x)
    <2>1. \A f \in Fields : x[f] # y[f] => f \in BlockingGaps(x) /\ Known(y, f)
      BY <1>4, <1>5
    <2>2. /\ \A f \in Fields : x[f] # y[f] => f \notin BlockingGaps(y)
          /\ DecidingGate(y) >= DecidingGate(x)
      BY <1>3, <2>1, AnswerAdvances
    <2>. QED
      BY <1>4, <2>2
  <1>6. ASSUME Changed = {"data_readiness"}, y["data_readiness"].kind = "documented"
        PROVE  ReassessmentSettles(x, y["data_readiness"].value)
    <2>1. PICK v : v = y["data_readiness"].value
      OBVIOUS
    <2>2. v \in 0 .. 5
      BY <1>3, <1>6, <2>1, ItemFacts, CriteriaAreFields DEF Known, Gap, Sufficient, Empty
    <2>3. \A c \in Citations : OpensContext(x, c) =>
            /\ Reassessed(x, c, v)
            /\ Repackaged(x, c, v) \/ StraySentence(Successor(x, v), SuccessorCites(c))
      BY <1>3, <2>2, ReassessmentIsPackaged
    <2>4. ASSUME NEW c \in Citations, OpensContext(x, c)
          PROVE  /\ "NO_FORMAL_DECISION_CHANGE" \notin Categories(x, Successor(x, v))
                 /\ FinalRecommendation(Successor(x, v)) # FinalRecommendation(x)
      <3>1. EligibleForReassessment(x)
        BY <2>4 DEF OpensContext
      <3>. QED
        BY <1>3, <2>2, <3>1, ReassessmentChanges
    <2>5. LegacyOpens(x) =>
            \A c \in Citations : /\ LegacyReassessed(x, c, v)
                                 /\ "CRITERION_CHANGE" \in LegacyCategories(x, Successor(x, v))
      BY <1>3, <2>2, LegacyReassessmentSettles
    <2>6. ReassessmentSettles(x, v)
      BY <2>3, <2>4, <2>5 DEF ReassessmentSettles
    <2>. QED
      BY <2>1, <2>6
  <1>7. /\ (Changed \subseteq BlockingGaps(x) /\ \A f \in Changed : Known(y, f)) =>
             /\ Changed \cap BlockingGaps(y) = {}
             /\ DecidingGate(y) >= DecidingGate(x)
        /\ (Changed = {"data_readiness"} /\ y["data_readiness"].kind = "documented") =>
             ReassessmentSettles(x, y["data_readiness"].value)
    BY <1>5, <1>6
  <1>. QED
    BY <1>1, <1>2, <1>7 DEF Advances

(* An answer to what was asked is not asked for again, and what is opened  *)
(* for reassessment comes back assessed, and changed (AnswersAdvance).     *)
THEOREM ReassessmentAdvances == InputsSpec => AnswersAdvance
  <1>1. InputsTypeOK /\ InputsTypeOK' => [Advances]_inputs
    BY AnswersAdvanceStep DEF InputsTypeOK
  <1>2. InputsSpec => []InputsTypeOK
    BY InputsTyped
  <1>. QED
    BY <1>1, <1>2, PTL DEF AnswersAdvance
=============================================================================
