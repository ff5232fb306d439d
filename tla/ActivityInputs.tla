--------------------------- MODULE ActivityInputs ---------------------------
(***************************************************************************)
(* What the rule sets read of one activity: ten criteria scored 0 to 5,    *)
(* the capability signals, human accountability, and whether the activity  *)
(* itself is source-backed.  An input is known only to some degree, and a  *)
(* new approved review or a reassessment replaces one input at a time.     *)
(***************************************************************************)
EXTENDS Integers, FiniteSets

CONSTANTS
  Policy,    \* the thresholds of the decision policy, named as in its file
  Signals,   \* capability signals, "routes_or_orchestrates_work" among them
  Profiles   \* bound: the activities looked at, records [base, domain]

VARIABLES
  inputs,    \* the approved inputs of the activity: an item for each field
  domain     \* bound: the items each field may take

Criteria == {"repetition", "predictability", "data_readiness", "ai_capability_fit",
             "human_judgement_requirement", "business_value", "risk_consequence",
             "residual_risk_with_human_oversight", "implementation_complexity",
             "conventional_solution_fit"}
Accountability == "human_accountability_required"
\* What is written of the activity: its description, and lists like its roles.
Texts == {"description", "roles"}
Rated == Criteria \cup Signals \cup {Accountability}
Fields == Rated \cup Texts \cup {"activity"}

(***************************************************************************)
(* How an input is known.  "documented" is KNOWN with evidence, "inferred" *)
(* and "doubtful" are INFERRED above and below the confidence the policy   *)
(* asks for, "stated" came from the reviewer without evidence,             *)
(* "conflicted" is documented under an open conflict, "unknown" is empty   *)
(* and "excluded" had a documented value that the reviewer rejected.       *)
(***************************************************************************)
Kinds == {"documented", "inferred", "doubtful", "stated", "conflicted", "unknown", "excluded"}
Empty == {"unknown", "excluded"}   \* projected as UNKNOWN without a value
NoValue == -1   \* None; a boolean input is 0 or 1
Item(kind, value) == [kind |-> kind, value |-> value]
Unknown == Item("unknown", NoValue)
Items ==
  {i \in [kind : Kinds, value : -1..5] : i.kind \in Empty <=> i.value = NoValue}
\* A field that is not a criterion is a yes or no, or there or not.
Inputs == {x \in [Fields -> Items] : \A f \in Fields \ Criteria : x[f].value <= 1}
Domains ==
  {d \in [Fields -> SUBSET Items] : \A f \in Fields \ Criteria : \A i \in d[f] : i.value <= 1}

\* ReviewedAssertion: what the review holds of a field.
Reviewed(i) ==
  [retained |-> i.kind # "excluded", value |-> i.value, human |-> i.kind = "stated",
   state |-> CASE i.kind = "unknown" -> "UNKNOWN" [] i.kind \in {"inferred", "doubtful"} -> "INFERRED"
               [] OTHER -> "KNOWN",
   cited |-> i.kind \notin {"stated", "unknown"}]

\* The evidence of a field that the approval takes along; a list keeps its
\* own when an item of it is excluded.
Collected(x, f) ==
  LET r == Reviewed(x[f]) IN r.cited /\ (f = "roles" \/ (r.retained /\ ~r.human))

\* _project_step: the evidence of the activity as a whole.
StepFields == Texts \cup {"activity", Accountability}
SourceBacked(x) == \E f \in StepFields : Collected(x, f)

\* input_problem_code finds nothing
Sufficient(i) == i.kind \notin Empty \cup {"doubtful", "stated"}

Gap(x, f) == ~Sufficient(x[f])
Gaps(x, fs) == {f \in fs : Gap(x, f)}
Known(x, f) == ~Gap(x, f)
IsTrue(x, f) == x[f].value = 1

Thresholds ==
  {"minimum_business_value", "minimum_data_readiness",
   "maximum_implementation_complexity_for_readiness", "conventional_solution_fit_cutoff",
   "minimum_ai_capability_fit", "unacceptable_residual_risk", "augment_human_judgement",
   "augment_risk_consequence", "augment_residual_risk", "automate_minimum_predictability",
   "automate_minimum_data_readiness", "automate_maximum_human_judgement",
   "automate_maximum_risk_consequence", "automate_maximum_residual_risk"}

\* What the loader of a policy file demands of its thresholds.
PolicyIsOrdered ==
  /\ Policy.augment_human_judgement > Policy.automate_maximum_human_judgement
  /\ Policy.augment_risk_consequence > Policy.automate_maximum_risk_consequence
  /\ Policy.augment_residual_risk > Policy.automate_maximum_residual_risk
  /\ Policy.unacceptable_residual_risk > Policy.augment_residual_risk

ASSUME PolicyAssumption == Policy \in [Thresholds -> 0..5] /\ PolicyIsOrdered
ASSUME SignalsAssumption ==
  Signals \cap (Criteria \cup StepFields) = {}
ASSUME ProfilesAssumption ==
  \A p \in Profiles : p.base \in Inputs /\ p.domain \in Domains

InputsInit ==
  \E p \in Profiles : inputs = p.base /\ domain = p.domain

\* One input is replaced and the rules run again on the whole activity.
Revise(f) ==
  /\ \E i \in domain[f] \ {inputs[f]} : inputs' = [inputs EXCEPT ![f] = i]
  /\ UNCHANGED domain

InputsNext == \E f \in Fields : Revise(f)
InputsSpec == InputsInit /\ [][InputsNext]_<<inputs, domain>>

InputsTypeOK == inputs \in Inputs /\ domain \in Domains

-----------------------------------------------------------------------------
(* What a revision may do to an input.                                     *)
Changed == {f \in Fields : inputs[f] # inputs'[f]}

\* Inputs become known, and the evidence that was cited is not taken back.
Learned ==
  \A f \in Changed : Gap(inputs, f) /\ (Collected(inputs, f) => Collected(inputs', f))

\* For these a high value speaks against leaving work to a machine.
Unfavourable == {"human_judgement_requirement", "risk_consequence",
                 "residual_risk_with_human_oversight", Accountability}
\* A sufficient input stays sufficient and its value gets worse.
Worsened ==
  \A f \in Changed :
    /\ f \in Criteria \cup {Accountability}
    /\ Sufficient(inputs[f]) /\ Sufficient(inputs'[f])
    /\ IF f \in Unfavourable \cup {"implementation_complexity", "conventional_solution_fit"}
       THEN inputs[f].value < inputs'[f].value
       ELSE inputs[f].value > inputs'[f].value
=============================================================================
