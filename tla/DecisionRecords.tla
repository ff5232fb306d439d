-------------------------- MODULE DecisionRecords ---------------------------
(***************************************************************************)
(* From an approved review to an assessment and its records: what the      *)
(* approval projects of a reviewed activity (review/approval.py), what     *)
(* both assessment services demand of the approval and of the engine, and  *)
(* the trace they put beside the result; the contract of the four-gate     *)
(* record that recomputes the outcome and the deciding gate from the typed *)
(* fields; the decision packages; and the comparison of two packages after *)
(* a reassessment.  The process has one activity x, and c tells which      *)
(* sentence each of its fields cites.                                      *)
(***************************************************************************)
EXTENDS FourGateRules, LegacyRules, Sequences

\* Every field cites a sentence of its own, or the description that of a
\* rating, or all cite the same.
OwnSentences == [f \in Fields |-> f]
SharedSentence == [OwnSentences EXCEPT !["description"] = "implementation_complexity"]
OneSentence == [f \in Fields |-> "sentence"]
Citations == {OwnSentences, SharedSentence, OneSentence}

(* _criterion, _boolean_data and _capability_signal                        *)
Unprojected == [value |-> NoValue, state |-> "UNKNOWN", cited |-> FALSE]
Projected(x, f) ==
  LET r == Reviewed(x[f]) IN
  IF ~r.retained \/ r.value = NoValue THEN Unprojected
  ELSE [value |-> r.value, state |-> r.state, cited |-> Collected(x, f)]

\* _project_business_process: the ratings, the evidence of the activity and
\* all evidence of the process.
Projection(x, c) ==
  [rated |-> [f \in Rated |-> Projected(x, f)],
   step |-> {c[f] : f \in {g \in StepFields : Collected(x, g)}},
   evidence |-> {c[f] : f \in {g \in Fields : Collected(x, g)}}]

ApprovalOf(process) ==
  [status |-> "APPROVED", blocked |-> FALSE, approvals |-> 1, dated |-> TRUE,
   projected |-> "process", process |-> process]
ApprovedReview(x, c) == ApprovalOf(Projection(x, c))

-----------------------------------------------------------------------------
(* What a service demands of the approval.                                 *)

\* _projected_evidence_ids, which asks for a value too
Cites(x, f) ==
  LET r == Reviewed(x[f]) IN
  r.cited /\ (f = "roles" \/ (r.retained /\ r.value # NoValue /\ ~r.human))

\* _criterion_matches, _boolean_matches
RatingMatches(x, f, p) ==
  LET r == Reviewed(x[f]) IN
  IF ~r.retained \/ r.value = NoValue THEN p = Unprojected
  ELSE p.value = r.value /\ p.state = r.state /\ p.cited = Cites(x, f)

\* _validate_assessment_input_consistency
Consistent(x, c, process) ==
  /\ process.step = {c[f] : f \in {g \in StepFields : Cites(x, g)}}
  /\ \A f \in Rated : RatingMatches(x, f, process.rated[f])
  /\ process.evidence = {c[f] : f \in {g \in Fields : Collected(x, g)}}

\* _validate_approval_artifact and assess, in the order of the checks
Accepted == "ACCEPTED"
Refusal(a, x, c) ==
  IF a.status # "APPROVED" THEN "INVALID_APPROVAL_ARTIFACT"
  ELSE IF a.blocked THEN "BLOCKED_REVIEW"
  ELSE IF a.approvals # 1 \/ ~a.dated THEN "INVALID_APPROVAL_ARTIFACT"
  ELSE IF a.projected = "nothing" THEN "PROJECTION_UNAVAILABLE"
  ELSE IF a.projected = "malformed" THEN "INVALID_PROCESS_PROJECTION"
  ELSE IF ~Consistent(x, c, a.process) THEN "INVALID_APPROVAL_ARTIFACT"
  ELSE Accepted

-----------------------------------------------------------------------------
(* The engines' evidence, the trace and the result.                        *)
CitedBy(c, process, fs) == {c[f] : f \in {g \in fs : process.rated[g].cited}}

MaterialAt(r) == r.material \cup r.signals \cup (IF r.accountability THEN {Accountability} ELSE {})
Material(x) ==
  LET results == GateResults(x) IN UNION {MaterialAt(results[g]) : g \in 1..4}

\* _criterion_evidence_ids: the first gate cites the activity as well.
GateEvidence(x, c, process, g) ==
  CitedBy(c, process, MaterialAt(GateResults(x)[g])) \cup (IF g = 1 THEN process.step ELSE {})

\* FourGateAssessmentEngine._decision_evidence; the earlier engine takes all.
DecisionEvidence(x, c, process) == process.step \cup CitedBy(c, process, Material(x))
LegacyEvidence(c, process) == process.step \cup CitedBy(c, process, Rated)

\* _value_trace, for the fields that a result has a trace of
Trace(x, c) ==
  [f \in Rated \cup {"activity"} |->
     [state |-> Reviewed(x[f]).state, evidence |-> IF Collected(x, f) THEN {c[f]} ELSE {}]]
TracedEvidence(trace) == UNION {trace[f].evidence : f \in DOMAIN trace}

\* IntegratedAssessmentFailure: what it carries tells how far the run got.
Failed(code, lineage, policy) == [ok |-> FALSE, code |-> code, lineage |-> lineage, policy |-> policy]
Assessed(evidence) == [ok |-> TRUE, code |-> Accepted, lineage |-> TRUE, policy |-> TRUE, evidence |-> evidence]
Faults == {"none", "policy", "engine", "output"}

\* _assess_validated_input and _validate_engine_step_contracts
AssessedWith(a, x, c, fault, evidence) ==
  IF Refusal(a, x, c) # Accepted THEN Failed(Refusal(a, x, c), FALSE, FALSE)
  ELSE CASE fault = "policy" -> Failed("POLICY_LOAD_FAILED", TRUE, FALSE)
         [] fault = "engine" -> Failed("ASSESSMENT_ENGINE_FAILED", TRUE, TRUE)
         [] fault = "output" -> Failed("INVALID_ENGINE_OUTPUT", TRUE, TRUE)
         [] OTHER -> IF evidence \subseteq a.process.evidence THEN Assessed(evidence)
                     ELSE Failed("INVALID_ENGINE_OUTPUT", TRUE, TRUE)
AssessFourGate(a, x, c, fault) == AssessedWith(a, x, c, fault, DecisionEvidence(x, c, a.process))
AssessLegacy(a, x, c, fault) == AssessedWith(a, x, c, fault, LegacyEvidence(c, a.process))

-----------------------------------------------------------------------------
(* The contract of the assessment record.                                  *)

(* FourGateResult.validate_status_contract                                 *)
CodesOfGate ==
  <<{"CHANGE_JUSTIFIED", "NO_CHANGE_JUSTIFIED", "DISCOVERY_REQUIRED"},
    {"READY_FOR_INTERVENTION_SELECTION", "PROCESS_IMPROVEMENT_FIRST", "DISCOVERY_REQUIRED"},
    {"AI_SELECTED", "CONVENTIONAL_AUTOMATION_SELECTED", "KEEP_HUMAN_LED_SELECTED", "DISCOVERY_REQUIRED"},
    {"AI_AUTOMATION_PERMITTED", "AI_ASSISTED_REQUIRED", "AI_NOT_PERMITTED", "DISCOVERY_REQUIRED"}>>
GateAccepted(g, r) ==
  /\ r.material \cap r.context = {}
  /\ IF r.status = "NOT_EVALUATED" THEN r = NotEvaluated
     ELSE /\ r.code \in CodesOfGate[g]
          /\ (r.status = "BLOCKED_BY_EVIDENCE") <=> (r.code = "DISCOVERY_REQUIRED")
          /\ (r.status = "BLOCKED_BY_EVIDENCE") <=> (r.gaps # {})

(* CLOSED_OUTCOME_COMBINATIONS: status, change, readiness, family, autonomy *)
TypedFields(x) ==
  <<IF Complete(x) THEN "COMPLETE" ELSE "DISCOVERY_REQUIRED",
    Change(x), Readiness(x), Family(x), Autonomy(x)>>
Ready == "READY_FOR_INTERVENTION_SELECTION"
ClosedCombinations ==
  {<<"DISCOVERY_REQUIRED", "NOT_DETERMINED", "NOT_EVALUATED", "NOT_DETERMINED", "NOT_DETERMINED">>,
   <<"COMPLETE", "NO_CHANGE_JUSTIFIED", "NOT_EVALUATED", "NOT_APPLICABLE", "NOT_APPLICABLE">>,
   <<"DISCOVERY_REQUIRED", "CHANGE_JUSTIFIED", "NOT_DETERMINED", "NOT_DETERMINED", "NOT_DETERMINED">>,
   <<"COMPLETE", "CHANGE_JUSTIFIED", "PROCESS_IMPROVEMENT_FIRST", "NOT_APPLICABLE", "NOT_APPLICABLE">>,
   <<"DISCOVERY_REQUIRED", "CHANGE_JUSTIFIED", Ready, "NOT_DETERMINED", "NOT_DETERMINED">>,
   <<"COMPLETE", "CHANGE_JUSTIFIED", Ready, "CONVENTIONAL_AUTOMATION", "NOT_APPLICABLE">>,
   <<"COMPLETE", "CHANGE_JUSTIFIED", Ready, "KEEP_HUMAN_LED", "NOT_APPLICABLE">>,
   <<"DISCOVERY_REQUIRED", "CHANGE_JUSTIFIED", Ready, "AI", "NOT_DETERMINED">>,
   <<"COMPLETE", "CHANGE_JUSTIFIED", Ready, "AI", "AI_NOT_PERMITTED">>,
   <<"COMPLETE", "CHANGE_JUSTIFIED", Ready, "AI", "AI_ASSISTED">>,
   <<"COMPLETE", "CHANGE_JUSTIFIED", Ready, "AI", "AI_AUTOMATION">>}

\* _field_stop_index
FieldStop(x) ==
  IF Change(x) \in {"NOT_DETERMINED", "NO_CHANGE_JUSTIFIED"} THEN 1
  ELSE IF Readiness(x) \in {"NOT_DETERMINED", "PROCESS_IMPROVEMENT_FIRST"} THEN 2
  ELSE IF Family(x) \in {"NOT_DETERMINED", "CONVENTIONAL_AUTOMATION", "KEEP_HUMAN_LED"} THEN 3
  ELSE 4

\* _expected_evaluated_decision_codes
DecidingCode(x) ==
  IF ~Complete(x) THEN "DISCOVERY_REQUIRED"
  ELSE CASE FieldStop(x) = 1 -> "NO_CHANGE_JUSTIFIED"
         [] FieldStop(x) = 2 -> "PROCESS_IMPROVEMENT_FIRST"
         [] FieldStop(x) = 3 /\ Family(x) = "CONVENTIONAL_AUTOMATION" ->
              "CONVENTIONAL_AUTOMATION_SELECTED"
         [] FieldStop(x) = 3 /\ Family(x) # "CONVENTIONAL_AUTOMATION" -> "KEEP_HUMAN_LED_SELECTED"
         [] FieldStop(x) = 4 /\ Autonomy(x) = "AI_AUTOMATION" -> "AI_AUTOMATION_PERMITTED"
         [] FieldStop(x) = 4 /\ Autonomy(x) = "AI_ASSISTED" -> "AI_ASSISTED_REQUIRED"
         [] OTHER -> "AI_NOT_PERMITTED"
ExpectedCode(x, g) ==
  IF g = FieldStop(x) THEN DecidingCode(x)
  ELSE <<"CHANGE_JUSTIFIED", Ready, "AI_SELECTED">>[g]

\* validate_closed_contract
RecordAccepted(x) ==
  LET results == GateResults(x)
      stop == FieldStop(x) IN
  /\ TypedFields(x) \in ClosedCombinations
  /\ \A g \in 1..4 :
       /\ GateAccepted(g, results[g])
       /\ IF g <= stop THEN results[g].code = ExpectedCode(x, g) ELSE results[g] = NotEvaluated
       /\ (results[g].status = "BLOCKED_BY_EVIDENCE") <=> (g = stop /\ ~Complete(x))
  /\ (BlockingGaps(x) # {}) <=> ~Complete(x)
  /\ (PriorityStatus(x) = "NOT_APPLICABLE") <=> Outcome(x) \notin Eligible
  /\ (PriorityStatus(x) = "INCOMPLETE") <=> MissingForPriority(x) # {}

-----------------------------------------------------------------------------
(* The decision package of the assessment.                                 *)

\* The record reads the projected input, the trace the reviewed assertion.
RecordedState(i) == IF i.kind \in Empty THEN "UNKNOWN" ELSE Reviewed(i).state

\* _validate_step_trace: each rating and its evidence are those of its trace;
\* the evidence of the decision is that of the activity and of what was
\* material, all of it traced, and no gate cites any other.
LineageAgrees(x, c, process) ==
  LET trace == Trace(x, c)
      expected == trace["activity"].evidence \cup CitedBy(c, process, Material(x)) IN
  /\ \A f \in Rated :
       /\ process.rated[f].state = trace[f].state
       /\ CitedBy(c, process, {f}) = trace[f].evidence
  /\ DecisionEvidence(x, c, process) = expected
  /\ expected \subseteq TracedEvidence(trace)
  /\ \A g \in 1..4 : GateEvidence(x, c, process, g) \subseteq expected

\* _information_gaps: the active blockers, the unknowns that are context
\* only and the inputs that only the priority lacks.
ContextualUnknowns(x) ==
  {f \in Criteria \cup {Accountability} : RecordedState(x[f]) = "UNKNOWN" /\ f \notin BlockingGaps(x)}
  \cup {f \in Signals : RecordedState(x[f]) = "UNKNOWN" /\ SignalsGap \notin BlockingGaps(x)}
InformationGap(kind, f, gate) == [kind |-> kind, field |-> f, gate |-> gate]
NoGate == 0
InformationGaps(x) ==
  {InformationGap("ACTIVE_DECISION_BLOCKER", f, DecidingGate(x)) : f \in BlockingGaps(x)}
  \cup {InformationGap("CONTEXTUAL_UNKNOWN", f, NoGate) : f \in ContextualUnknowns(x)}
  \cup {InformationGap("PRIORITY_ONLY", f, NoGate) : f \in MissingForPriority(x)}

\* _build_future_state: the use of the capabilities that were found.
SafetyVeto(x) == Family(x) = "AI" /\ Autonomy(x) = "AI_NOT_PERMITTED"
CapabilityUse(x) ==
  IF Outcome(x) \in Eligible THEN "PROPOSED_NOT_DEPLOYED"
  ELSE IF SafetyVeto(x) THEN "REJECTED_AT_SAFETY_GATE" ELSE "NOT_APPLICABLE"

\* _build_portfolio, _build_roadmap and _build_governance
Package(x) ==
  [outcome |-> Outcome(x), eligible |-> Outcome(x) \in Eligible, gaps |-> InformationGaps(x),
   use |-> CapabilityUse(x),
   governed |-> IF GateResults(x)[4].status = "NOT_EVALUATED" THEN NoGate ELSE 4]

\* validate_gap_classification, validate_item_contract, validate_package_links
ActiveGaps(p) == {g \in p.gaps : g.kind = "ACTIVE_DECISION_BLOCKER"}
PackageAccepted(x, p) ==
  /\ \A g \in p.gaps : (g.gate # NoGate) <=> (g \in ActiveGaps(p))
  /\ {g.field : g \in ActiveGaps(p)} = UNION {GateResults(x)[g].gaps : g \in 1..4}
  /\ (ActiveGaps(p) # {}) <=> (TypedFields(x)[1] = "DISCOVERY_REQUIRED")
  /\ p.eligible <=> (TypedFields(x)[1] = "COMPLETE" /\ p.outcome \in Eligible)
  /\ (p.use = "REJECTED_AT_SAFETY_GATE") <=> (p.outcome = "KEEP_HUMAN_LED" /\ p.governed = 4)

\* generate: the sources, the lineage and the package each have to agree.
Packaged(x, c) ==
  RecordAccepted(x) /\ LineageAgrees(x, c, Projection(x, c)) /\ PackageAccepted(x, Package(x))

\* _final_recommendation: what the report says first.
FinalRecommendation(x) ==
  CASE Outcome(x) = "DISCOVERY_REQUIRED" -> <<"blockers", BlockingGaps(x)>>
    [] Outcome(x) = "PROCESS_IMPROVEMENT_FIRST" -> <<"established", GateResults(x)[2].material>>
    [] Outcome(x) = "KEEP_HUMAN_LED" ->
         <<IF SafetyVeto(x) THEN "rejected" ELSE "selected", {}>>
    [] OTHER -> <<"sole", {}>>

-----------------------------------------------------------------------------
(* The package of the earlier policy (decision_support/service.py): what   *)
(* mattered, what is missing, and what is planned for each mode.           *)
LegacyMaterial(x) == UNION {EvaluateGates(x)[g].material : g \in 1..4}
LegacyEligible == {"AUTOMATE", "AUGMENT"}
LegacyScored(x) == IF Recommendation(x) \in LegacyEligible THEN ScoringCriteria ELSE {}
LegacyMissing(x) == Gaps(x, LegacyScored(x))

\* _validate_input_contract compares criteria and accountability, no signals.
LegacyTraceAgrees(x) ==
  \A f \in Criteria \cup {Accountability} : RecordedState(x[f]) = Reviewed(x[f]).state

\* _missing_information: an inference needs confirmation if it is a criterion.
Missing(kind, f, recommendation, priority, planning) ==
  [kind |-> kind, field |-> f, recommendation |-> recommendation, priority |-> priority,
   planning |-> planning]
MissingInformation(x) ==
  LET mode == Recommendation(x)
      material == LegacyMaterial(x)
      scored == LegacyScored(x)
      of(kind, f) == Missing(kind, f, f \in material, f \in scored, FALSE) IN
  {of("UNKNOWN_INPUT", f) : f \in {c \in Criteria : RecordedState(x[c]) = "UNKNOWN"}}
  \cup {of("INFERRED_REQUIRES_CONFIRMATION", f) :
          f \in {c \in Criteria \cap (material \cup scored) : RecordedState(x[c]) = "INFERRED"}}
  \cup {Missing("UNKNOWN_INPUT", f, f \in material, FALSE, mode # "DO_NOT_RECOMMEND") :
          f \in {a \in {Accountability} : RecordedState(x[a]) = "UNKNOWN"}}
  \cup {Missing("UNKNOWN_INPUT", f, FALSE, FALSE, mode = "INVESTIGATE_FURTHER") :
          f \in {s \in Signals : Reviewed(x[s]).state = "UNKNOWN"}}
  \cup {g \in {Missing("INCOMPLETE_PRIORITY", "priority", FALSE, TRUE, FALSE)} : LegacyMissing(x) # {}}
  \cup {g \in {Missing("INVESTIGATION_REQUIRED", "recommendation_mode", TRUE, FALSE, FALSE)} :
          mode = "INVESTIGATE_FURTHER"}

\* _material_package_gap
Completeness(x) ==
  IF \E g \in MissingInformation(x) : g.recommendation \/ g.priority \/ g.planning
  THEN "COMPLETE_WITH_INFORMATION_GAPS" ELSE "COMPLETE"

\* _roles: an accountable decision keeps its owner.
Roles(x) ==
  LET owner(role) == IF IsTrue(x, Accountability) THEN {role} ELSE {} IN
  CASE Recommendation(x) = "AUTOMATE" -> {"EXCEPTION_HANDLER"} \cup owner("OVERSIGHT_ROLE")
    [] Recommendation(x) = "AUGMENT" -> {"PRIMARY_OPERATOR", "REVIEWER"} \cup owner("DECISION_OWNER")
    [] Recommendation(x) = "INVESTIGATE_FURTHER" -> {"PROCESS_OWNER", "SUBJECT_MATTER_VALIDATOR"}
    [] OTHER -> {"PRIMARY_OPERATOR", "DECISION_OWNER"}

\* build_future_state refuses to automate past the risk gate.
FutureStateConflict(x) ==
  Recommendation(x) = "AUTOMATE"
    /\ EvaluateGates(x)[4].status \notin {"PASSED", "PASSED_WITH_CONSTRAINTS"}

\* build_roadmap: the stages up to a decision to deploy, or to go on at all.
Stages(x) ==
  CASE Recommendation(x) \in LegacyEligible ->
         <<"OPPORTUNITY_VALIDATION">>
         \o (IF Reviewed(x["data_readiness"]).state # "KNOWN" THEN <<"DATA_READINESS_VALIDATION">> ELSE << >>)
         \o <<"PROOF_OF_CONCEPT", "GO_REVISE_STOP_DECISION", "CONTROLLED_PILOT",
              "HUMAN_CONTROL_EVALUATION", "GOVERNANCE_SECURITY_REVIEW", "DEPLOYMENT_DECISION",
              "INTEGRATION_PLANNING", "PRODUCTION_MONITORING">>
    [] Recommendation(x) = "INVESTIGATE_FURTHER" ->
         <<"INFORMATION_GATHERING", "FEASIBILITY_VALIDATION", "GO_REVISE_STOP_DECISION">>
    [] OTHER -> << >>

\* build_governance: what an organisation still has to review.
Considerations(x) ==
  {"CONSEQUENCE_OF_ERROR", "HUMAN_JUDGEMENT", "DATA_READINESS", "ACCOUNTABILITY"}
  \cup CASE Recommendation(x) \in LegacyEligible ->
              {"HUMAN_OVERSIGHT", "PRIVACY_SECURITY", "LEGAL_ORGANISATIONAL"}
         [] Recommendation(x) = "INVESTIGATE_FURTHER" -> {"MISSING_EVIDENCE"}
         [] OTHER -> {}

LegacyPackage(x) ==
  [roles |-> Roles(x), stages |-> Stages(x), considerations |-> Considerations(x),
   missing |-> MissingInformation(x), completeness |-> Completeness(x)]
LegacyPackaged(x) == LegacyTraceAgrees(x) /\ ~FutureStateConflict(x)

-----------------------------------------------------------------------------
(* Reassessment: which activity is offered, and how two packages compare.  *)

\* _eligible_successor_step_ids: only the readiness of the data is missing.
EligibleForReassessment(x) ==
  /\ Outcome(x) = "DISCOVERY_REQUIRED"
  /\ DecidingGate(x) = 2
  /\ {g.field : g \in ActiveGaps(Package(x))} = {"data_readiness"}

\* open_context: there is a package, and nothing at all is known of it.
OpensContext(x, c) ==
  /\ RecordedState(x["data_readiness"]) = "UNKNOWN"
  /\ EligibleForReassessment(x) /\ Packaged(x, c)

\* open_m2_m1_context, under the earlier policy
LegacyOpens(x) ==
  /\ RecordedState(x["data_readiness"]) = "UNKNOWN"
  /\ LegacyPackaged(x)
  /\ \A f \in Criteria \ {"data_readiness"} : RecordedState(x[f]) = "KNOWN"
  /\ x["ai_capability_fit"].value >= 3
  /\ RecordedState(x["categorises_items"]) = "KNOWN" /\ IsTrue(x, "categorises_items")

\* FourGateM2SuccessorProjector.build: the value found in the supporting
\* document replaces the unknown one, in the review and in the process.
Supporting == "document"
ASSUME SupportingAssumption == Supporting \notin Signals
Successor(x, v) == [x EXCEPT !["data_readiness"] = Item("documented", v)]
SuccessorCites(c) == [c EXCEPT !["data_readiness"] = Supporting]
Found(v) == [value |-> v, state |-> "KNOWN", cited |-> TRUE]
SuccessorProcess(x, c, v) ==
  LET p == Projection(x, c) IN
  [rated |-> [p.rated EXCEPT !["data_readiness"] = Found(v)], step |-> p.step,
   evidence |-> p.evidence \cup {Supporting}]

\* assert_one_field_projection, _valid_m2_successor_projection
OneField(p, q, v) ==
  /\ q.evidence \ p.evidence = {Supporting} /\ p.evidence \subseteq q.evidence
  /\ q.step = p.step
  /\ q.rated = [p.rated EXCEPT !["data_readiness"] = Found(v)]

\* assess_successor, and generate_successor_package
Reassessed(x, c, v) ==
  LET y == Successor(x, v)
      d == SuccessorCites(c)
      a == ApprovalOf(SuccessorProcess(x, c, v)) IN
  /\ OneField(Projection(x, c), a.process, v)
  /\ AssessFourGate(a, y, d, "none").ok
Repackaged(x, c, v) == Packaged(Successor(x, v), SuccessorCites(c))

\* IntegratedAssessmentService.assess_successor checks the projection only;
\* the trace is the one of the baseline with the found value in its place.
LegacyReassessed(x, c, v) ==
  /\ OneField(Projection(x, c), SuccessorProcess(x, c, v), v)
  /\ LegacyEvidence(SuccessorCites(c), SuccessorProcess(x, c, v))
       \subseteq SuccessorProcess(x, c, v).evidence
  /\ LegacyPackaged(Successor(x, v))

\* M2ComparisonService.compare
LegacyCategories(x, y) ==
  LET changes ==
        {k \in {"CRITERION_CHANGE", "GATE_CHANGE", "RECOMMENDATION_CHANGE"} :
          CASE k = "CRITERION_CHANGE" -> x["data_readiness"].value # y["data_readiness"].value
            [] k = "GATE_CHANGE" -> EvaluateGates(x) # EvaluateGates(y)
            [] k = "RECOMMENDATION_CHANGE" -> Recommendation(x) # Recommendation(y)}
  IN IF changes = {} THEN {"NO_FORMAL_CHANGE"} ELSE changes

\* compare, of the baseline x with the successor y
Categories(x, y) ==
  LET changes ==
        {c \in {"DECISION_STATUS_CHANGE", "TYPED_DECISION_CHANGE", "GATE_CHANGE", "PRIORITY_CHANGE"} :
          CASE c = "DECISION_STATUS_CHANGE" -> Complete(x) # Complete(y)
            [] c = "TYPED_DECISION_CHANGE" -> TypedFields(x) # TypedFields(y)
            [] c = "GATE_CHANGE" -> GateResults(x) # GateResults(y)
            [] c = "PRIORITY_CHANGE" ->
                 <<PriorityStatus(x), Priority(x)>> # <<PriorityStatus(y), Priority(y)>>}
  IN {"DATA_READINESS_CHANGE"}
       \cup (IF changes = {} THEN {"NO_FORMAL_DECISION_CHANGE"} ELSE changes)
=============================================================================
