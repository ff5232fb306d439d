----------------------------- MODULE MCDecisions ----------------------------
(***************************************************************************)
(* The rule sets under the provisional policy, on activities that vary a   *)
(* few inputs each over values on both sides of every threshold.           *)
(***************************************************************************)
EXTENDS DecisionProperties

\* config/decision_policy.v0.3.json
ProvisionalPolicy ==
  [minimum_business_value |-> 2, minimum_data_readiness |-> 2,
   maximum_implementation_complexity_for_readiness |-> 4, conventional_solution_fit_cutoff |-> 4,
   minimum_ai_capability_fit |-> 3, unacceptable_residual_risk |-> 4,
   augment_human_judgement |-> 3, augment_risk_consequence |-> 3, augment_residual_risk |-> 2,
   automate_minimum_predictability |-> 4, automate_minimum_data_readiness |-> 4,
   automate_maximum_human_judgement |-> 1, automate_maximum_risk_consequence |-> 2,
   automate_maximum_residual_risk |-> 1]
TwoSignals == {"categorises_items", "routes_or_orchestrates_work"}

Documented(vs) == {Item("documented", v) : v \in vs}
OrUnknown(vs) == Documented(vs) \cup {Unknown}
EveryKind(v) == {Item(k, v) : k \in Kinds \ Empty} \cup {Item(k, NoValue) : k \in Empty}

\* An activity that a machine could be trusted with.
Automatable ==
  [f \in Fields |->
     IF f \in Texts THEN Unknown
     ELSE Item("documented",
          CASE f \in {"business_value", "data_readiness", "ai_capability_fit", "predictability"} -> 4
            [] f = "repetition" -> 3
            [] f \in {"implementation_complexity", "conventional_solution_fit"} -> 3
            [] f \in {"categorises_items", "activity"} -> 1
            [] f = "routes_or_orchestrates_work" -> 0
            [] OTHER -> 0)]

\* The inputs named in options vary, the others stay.
Varying(options) ==
  LET taken == [f \in DOMAIN Automatable |->
                   IF f \in DOMAIN options THEN options[f] ELSE {Automatable[f]}]
  IN [base |-> [f \in DOMAIN taken |-> CHOOSE i \in taken[f] : TRUE], domain |-> taken]

EarlyGates ==
  Varying([activity |-> OrUnknown({1}), business_value |-> OrUnknown({1, 2}),
           data_readiness |-> OrUnknown({1, 2}), implementation_complexity |-> OrUnknown({4, 5}),
           conventional_solution_fit |-> OrUnknown({3, 4}), ai_capability_fit |-> OrUnknown({2, 3}),
           categorises_items |-> OrUnknown({0, 1})])
AutonomyGate ==
  Varying([data_readiness |-> Documented({3, 4}), implementation_complexity |-> Documented({3, 4}),
           predictability |-> Documented({3, 4}),
           residual_risk_with_human_oversight |-> OrUnknown({1, 2, 4}),
           human_judgement_requirement |-> OrUnknown({1, 2, 3}),
           risk_consequence |-> OrUnknown({2, 3}),
           human_accountability_required |-> OrUnknown({0, 1})])
KindsOfEvidence ==
  Varying([data_readiness |-> EveryKind(1) \cup Documented({4}),
           categorises_items |-> EveryKind(1), predictability |-> {Item("documented", 4), Item("doubtful", 4)},
           repetition |-> OrUnknown({3}), description |-> {Item("stated", 1), Item("documented", 1)},
           human_accountability_required |-> OrUnknown({0}) \cup {Item("excluded", NoValue)}])
Activities == {EarlyGates, AutonomyGate, KindsOfEvidence}
OneActivity == {EarlyGates}

\* What the agreement of the rule sets rests on holds of the policy above.
ASSUME PolicySharesThresholds == SharedThresholds
=============================================================================
