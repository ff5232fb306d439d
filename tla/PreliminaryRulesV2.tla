------------------------- MODULE PreliminaryRulesV2 -------------------------
(***************************************************************************)
(* The v0.2 preliminary evaluator (preliminary/evaluator_v0_2.py).  It     *)
(* reads the exact text an approved activity cites, finds the actions it   *)
(* asserts, joins them into work needs and opportunities, and gives each   *)
(* opportunity one provisional direction.                                  *)
(*                                                                         *)
(* A text is a sequence of phrases, each with at most one action of the    *)
(* literal manifest, what it is joined to the phrase before with ("stop",  *)
(* "and", "to"), the artifacts it names and marks of its wording.  What    *)
(* the governance rules search for in documentary text is a set of         *)
(* statements.                                                             *)
(***************************************************************************)
EXTENDS Naturals, Sequences, FiniteSetsExt

CONSTANTS
  Reviews   \* bound: the approved reviews looked at

VARIABLES
  review,      \* the approved review to evaluate
  evaluation   \* what evaluate returned, NotEvaluated before

None == "none"

\* Artifacts: a name, and how often it is said to be recorded.
NoArtifact == [name |-> "", recorded |-> 0]
Has(artifact) == artifact # NoArtifact
Or(artifact, default) == IF Has(artifact) THEN artifact ELSE default
RecordedForm(artifact) == [artifact EXCEPT !.recorded = @ + 1]
Generic == {"category", "record", "item", "case"}

Direct == {"PD2-001", "PD2-002", "PD2-003", "PD2-004", "PD2-005", "PD2-006", "PD2-007"}
Semantic == {"PD2-008", "PD2-009", "PD2-010", "PD2-011", "PD2-012", "PD2-013", "PD2-014"}
Deterministic == {"RECORD", "UPDATE", "NOTIFY", "ROUTE", "ASSIGN", "SCHEDULE", "MONITOR",
                  "FOLLOW_UP", "TRANSFORM", "CATEGORISE", "RETRIEVE"}

\* LITERAL_MANIFEST: the rule of an action; an assessment is a forecast or
\* a matter of discretion, friction is rework or delay.
RuleOf ==
  [RECORD |-> {"PD2-001"}, UPDATE |-> {"PD2-002"}, NOTIFY |-> {"PD2-003"}, ASSIGN |-> {"PD2-004"},
   ROUTE |-> {"PD2-004"}, SCHEDULE |-> {"PD2-005"}, MONITOR |-> {"PD2-006"}, FOLLOW_UP |-> {"PD2-006"},
   TRANSFORM |-> {"PD2-007"}, INTERPRET |-> {"PD2-008"}, INVESTIGATE |-> {"PD2-009"},
   CATEGORISE |-> {"PD2-010"}, RETRIEVE |-> {"PD2-011"}, COMPARE |-> {"PD2-012"},
   RECOMMEND |-> {"PD2-012"}, DRAFT |-> {"PD2-013"}, SUMMARISE |-> {"PD2-013"},
   ASSESS |-> {"PD2-014", "PD2-017"}, CONTACT |-> {"PD2-015"}, NEGOTIATE |-> {"PD2-015"},
   DECIDE |-> {"PD2-016"}, APPROVE |-> {"PD2-016"},
   OTHER_SUPPORTED_ACTION |-> {"PD2-018", "PD2-019"}]

\* WORK_NEED_BY_RULE_ACTION: rules that share a type of work need.
NeedType(rule) ==
  CASE rule \in {"PD2-001", "PD2-002"} -> "RECORD_INFORMATION"
    [] rule \in {"PD2-003", "PD2-004"} -> "ROUTE_OR_NOTIFY"
    [] rule \in {"PD2-005", "PD2-006"} -> "SCHEDULE_OR_MONITOR"
    [] rule \in {"PD2-016", "PD2-017"} -> "MAKE_ACCOUNTABLE_DECISION"
    [] rule \in {"PD2-018", "PD2-019"} -> "IMPROVE_PROCESS_FLOW"
    [] OTHER -> rule   \* a type of its own

\* SOURCE_FIELD_RANK
FieldOrder == <<"activity", "description", "inputs", "outputs", "decisions", "dependencies", "exceptions",
                "operational_characteristics", "roles", "systems", "criteria", "capabilities">>
Rank(field) == CHOOSE n \in DOMAIN FieldOrder : FieldOrder[n] = field

\* Lists are sequences, items and places in a document are counted; and a review
\* that was projected retains an activity, since a business process has one
\* (BusinessProcess.steps).
IsSequence(s) == s \in Seq(Range(s))
ReadableActivity(activity) ==
  /\ IsSequence(activity.assertions)
  /\ \A a \in Range(activity.assertions) :
       /\ IsSequence(a.evidence)
       /\ a.field \in Range(FieldOrder) /\ a.item \in Nat
       /\ \A reference \in Range(a.evidence) :
            IsSequence(reference.text) /\ reference.start \in Nat
ASSUME ReviewsAssumption ==
  \A r \in Reviews :
    /\ IsSequence(r.activities)
    /\ \A activity \in Range(r.activities) : ReadableActivity(activity)
    /\ r.projected => \E activity \in Range(r.activities) : activity.retained

-----------------------------------------------------------------------------
(* The clauses of a text.                                                  *)

Acts(phrase) == phrase.action # None

\* segment_clauses: a conjunction splits if an action follows it.
ActionFollows(text, i) ==
  \E j \in i .. Len(text) : Acts(text[j]) /\ \A k \in i + 1 .. j : text[k].joined # "stop"
ClauseStarts(text) ==
  {i \in DOMAIN text : \/ text[i].joined = "stop"
                       \/ text[i].joined = "and" /\ ActionFollows(text, i)}

\* _actor_before_action: the words before the action, or who acted before.
SeveralWords == "several words"
ActorBefore(phrases, i, inherited) ==
  IF i > 1 THEN SeveralWords ELSE IF phrases[i].actor # None THEN phrases[i].actor ELSE inherited

\* _explicit_actor, of the first action of a clause
ExplicitActor(phrases) ==
  LET acting == {i \in DOMAIN phrases : Acts(phrases[i])} IN
  IF acting = {} THEN None ELSE ActorBefore(phrases, Min(acting), None)

\* A clause is known by the phrase it begins with.
ClausesFrom(text, starts) ==
  LET phrases(p) == SubSeq(text, p, Min({q \in starts : q > p} \cup {Len(text) + 1}) - 1)
      inherited[p \in starts] ==
        IF text[p].joined = "stop" THEN None
        ELSE LET before == Max({q \in starts : q < p})
             IN IF ExplicitActor(phrases(before)) # None THEN ExplicitActor(phrases(before))
                ELSE inherited[before]
  IN [p \in starts |-> [phrases |-> phrases(p), inherited |-> inherited[p]]]
Clauses(text) == ClausesFrom(text, ClauseStarts(text))

Marked(clause, mark) == \E i \in DOMAIN clause.phrases : mark \in clause.phrases[i].marks
SomeMarked(clauses, mark) == \E k \in DOMAIN clauses : Marked(clauses[k], mark)

\* _extract_fields: what an action leaves unsaid follows from what it says.
Extracted(phrase, actor) ==
  LET a == phrase.action
      object == IF a = "TRANSFORM" \/ phrase.rule = "PD2-017" THEN Or(phrase.input, phrase.object)
                ELSE IF a = "RECORD" /\ ~Has(phrase.output) /\ Has(phrase.input)
                        /\ phrase.object.name \in Generic THEN phrase.input
                ELSE IF a = "CATEGORISE" THEN Or(phrase.object, phrase.input)
                ELSE IF a \in {"CONTACT", "NEGOTIATE"} THEN phrase.to
                ELSE phrase.object
      output == CASE a = "RECORD" -> IF Has(object) THEN RecordedForm(object) ELSE NoArtifact
                  [] a \in {"CATEGORISE", "RECOMMEND", "ASSESS"} -> phrase.object
                  [] a \in {"TRANSFORM", "INTERPRET", "INVESTIGATE", "COMPARE", "CONTACT",
                            "NEGOTIATE"} -> NoArtifact
                  [] OTHER -> object
  IN [action |-> a, rule |-> phrase.rule, actor |-> actor, object |-> object, to |-> phrase.to,
      input |-> IF a \in {"TRANSFORM", "INTERPRET", "INVESTIGATE", "SUMMARISE"}
                THEN Or(phrase.input, object) ELSE phrase.input,
      output |-> CASE a \in {"NOTIFY", "RETRIEVE"} -> object
                   [] a \in {"ROUTE", "ASSIGN"} -> phrase.to
                   [] OTHER -> Or(phrase.output, output)]

\* _required_fields_pass
NeedsObject == {"RECORD", "UPDATE", "FOLLOW_UP", "NOTIFY", "ROUTE", "ASSIGN", "SCHEDULE", "MONITOR",
                "INTERPRET", "INVESTIGATE", "CATEGORISE", "RETRIEVE", "COMPARE", "RECOMMEND",
                "DECIDE", "APPROVE", "OTHER_SUPPORTED_ACTION"}
NeedsOutput == {"RECORD", "UPDATE", "TRANSFORM", "INVESTIGATE", "CATEGORISE", "COMPARE", "RECOMMEND",
                "DRAFT", "SUMMARISE", "ASSESS", "CONTACT", "NEGOTIATE", "OTHER_SUPPORTED_ACTION"}
RequiredFieldsPass(f, marks) ==
  /\ f.actor # None
  /\ f.action \in NeedsObject \/ f.rule = "PD2-017" => Has(f.object)
  /\ f.action \in NeedsOutput \/ "read" \in marks => Has(f.output)
  /\ f.action \in {"TRANSFORM", "SUMMARISE"} => Has(f.input)
  /\ f.action \in {"NOTIFY", "ROUTE", "ASSIGN", "CONTACT", "NEGOTIATE"} => Has(f.to)
  /\ f.action = "FOLLOW_UP" => "special" \notin marks
  /\ f.rule = "PD2-016" => f.actor # "system"

FieldsAt(clause, i) ==
  Extracted(clause.phrases[i], ActorBefore(clause.phrases, i, clause.inherited))

\* _match_clause: actions asserted of the current state, with their fields.
MatchesOf(clause) ==
  {i \in DOMAIN clause.phrases :
     LET phrase == clause.phrases[i] IN
     /\ Acts(phrase)
     /\ ~(phrase.joined = "to" /\ \E j \in 1 .. i - 1 : Acts(clause.phrases[j]))
     /\ {"negated", "quoted"} \cap phrase.marks = {}
     /\ ~Marked(clause, "future")
     /\ Marked(clause, "should") => ~Marked(clause, "negated")
     /\ RequiredFieldsPass(FieldsAt(clause, i), phrase.marks)}

-----------------------------------------------------------------------------
(* What is read of an activity.                                            *)

\* _admitted_sources: retained and decided, with a value, and not the word of
\* the reviewer alone; evidence is read once for each classification.
Decided == {"ACCEPTED", "CORRECTED", "UNKNOWN_RETAINED"}
Admissible(a) == a.retained /\ a.disposition \in Decided
Classified(a) == IF a.origin = "DOCUMENT_SUPPORTED" THEN "DOCUMENTED_FACT" ELSE "REVIEWED_INFERENCE"
Admits(a) == Admissible(a) /\ a.state # "UNKNOWN" /\ a.origin # "HUMAN_SUPPLIED"
Source(activity, n, m) ==
  LET a == activity.assertions[n]
      reference == a.evidence[m]
  IN [field |-> a.field, item |-> a.item, class |-> Classified(a), listed |-> <<n, m>>,
      evidence |-> reference.id, start |-> reference.start, text |-> reference.text]
Sources(activity) ==
  UNION {{Source(activity, n, m) : m \in DOMAIN activity.assertions[n].evidence} :
           n \in {k \in DOMAIN activity.assertions : Admits(activity.assertions[k])}}
SameEvidence(s, t) == s.evidence = t.evidence /\ s.class = t.class
Earlier(p, q) == \E n \in DOMAIN p : p[n] < q[n] /\ \A k \in 1 .. n - 1 : p[k] = q[k]
AdmittedSources(activity) ==
  {s \in Sources(activity) :
     ~ \E t \in Sources(activity) : SameEvidence(s, t) /\ Earlier(t.listed, s.listed)}

\* _documented_text and _criterion_value: what accepted assertions supported
\* by the document state.  A phrase is also found inside a longer one.
Within ==
  [NO_HUMAN_REVIEW |-> "HUMAN_REVIEW", AUTONOMOUS_RESIDUAL_LOW |-> "RESIDUAL_LOW"]
DocumentedStatements(activity) ==
  LET said == UNION {a.says : a \in {b \in Range(activity.assertions) :
                       /\ b.origin = "DOCUMENT_SUPPORTED"
                       /\ b.disposition \in {"ACCEPTED", "CORRECTED"}}}
  IN said \cup {Within[t] : t \in said \cap DOMAIN Within}

\* _owner_signature, _control_signature, _safety_signature, _accountability_signature
OwnerSignature(activity, actor) == IF activity.owners # {} THEN activity.owners ELSE {actor}
ControlSignature(activity, rule) ==
  (CASE rule = "PD2-016" -> {"MANDATORY_HUMAN_DECISION"} [] rule = "PD2-017" -> {"MATERIAL_DISCRETION"}
     [] OTHER -> {})
  \cup (DocumentedStatements(activity) \cap {"HUMAN_REVIEW", "AUTONOMY_PERMITTED"})
SafetySignature(activity) ==
  DocumentedStatements(activity) \cap {"ASSISTANCE_PROHIBITED", "AUTONOMY_PROHIBITED", "RESOLVED"}
AccountabilitySignature(activity, f) ==
  IF f.rule = "PD2-016" THEN {"MANDATORY_HUMAN"} ELSE OwnerSignature(activity, f.actor)

Signatures(activity, f) ==
  [owner |-> OwnerSignature(activity, f.actor), control |-> ControlSignature(activity, f.rule),
   safety |-> SafetySignature(activity), accountability |-> AccountabilitySignature(activity, f)]

\* The actions found, in the order of fields, items, clauses and words, and of
\* sources that share a place as they are listed.
Draft(activity, s, clause, k, i, fields, triggered) ==
  [source |-> s, clause |-> k, at |-> i, fields |-> fields,
   signatures |-> Signatures(activity, fields), inherits |-> clause.inherited # None,
   linked |-> Marked(clause, "linked"), follows |-> Marked(clause, "then"),
   exceptional |-> Marked(clause, "exceptional"), triggered |-> triggered]
DraftsIn(activity, s, clauses) ==
  UNION {{Draft(activity, s, clauses[k], k, i, FieldsAt(clauses[k], i), SomeMarked(clauses, "trigger")) :
             i \in MatchesOf(clauses[k])} : k \in DOMAIN clauses}
DraftsOf(activity, s) == DraftsIn(activity, s, Clauses(s.text))
Position(d) ==
  <<Rank(d.source.field), d.source.item, d.clause, d.at, d.source.start>> \o d.source.listed
Found(activity) == UNION {DraftsOf(activity, s) : s \in AdmittedSources(activity)}
InOrderOf(found) ==
  [n \in 1 .. Cardinality(found) |->
     CHOOSE d \in found : Cardinality({e \in found : Earlier(Position(e), Position(d))}) = n - 1]
Drafts(activity) == InOrderOf(Found(activity))

\* Vague wording, or a field that should assert an action and does not.
AssertingFields == {"activity", "description", "operational_characteristics", "decisions", "exceptions"}
UnsupportedSources(activity) ==
  {s \in AdmittedSources(activity) :
     \/ SomeMarked(Clauses(s.text), "vague")
     \/ s.field \in AssertingFields /\ DraftsOf(activity, s) = {}}

-----------------------------------------------------------------------------
(* Components, work needs and opportunities.                               *)

\* _inference_payload: what identifies the inference of a component.
Inference(d) == <<d.source.evidence, d.source.class, d.fields>>
Class(d, class) == IF d.source.class = class THEN {<<d.source.evidence, d.source.class>>} ELSE {}

\* _materialize_components: an input is what an earlier component put out; an
\* action without one that is linked by its wording depends on the one before.
\* Components are numbered in the order of the drafts.
InputKey(f) == IF f.action = "NOTIFY" THEN Or(f.input, f.object) ELSE f.input
DependsOn(built, d) ==
  LET key == InputKey(d.fields)
      sources == {n \in DOMAIN built : Has(key) /\ built[n].fields.output = key}
  IN IF Has(key) THEN IF sources = {} THEN {} ELSE {Max(sources)}
     ELSE IF d.inherits \/ d.linked \/ d.follows THEN {Len(built)} \ {0} ELSE {}
Component(built, d) ==
  [id |-> Len(built) + 1, fields |-> d.fields, signatures |-> d.signatures,
   needs |-> DependsOn(built, d), inference |-> Inference(d),
   facts |-> Class(d, "DOCUMENTED_FACT"), reviewed |-> Class(d, "REVIEWED_INFERENCE"),
   linked |-> d.linked, exceptional |-> d.exceptional, triggered |-> d.triggered]
WithNext(built, d) == Append(built, Component(built, d))
ComponentsOf(drafts) ==
  LET built[n \in 0 .. Len(drafts)] ==
        IF n = 0 THEN << >> ELSE WithNext(built[n - 1], drafts[n])
  IN built[Len(drafts)]
Components(activity) == ComponentsOf(Drafts(activity))

\* _object_key
ObjectKey(c) == IF Has(c.fields.object) THEN c.fields.object ELSE [name |-> "", recorded |-> c.id]

\* Greedy groups: an item joins the last group if it may.
Joined(groups, item, joins) ==
  IF joins THEN [groups EXCEPT ![Len(groups)] = Append(@, item)] ELSE Append(groups, <<item>>)
Ids(components) == {c.id : c \in Range(components)}

\* _work_need_mergeable
WorkNeedMergeable(group, c) ==
  /\ NeedType(group[1].fields.rule) = NeedType(c.fields.rule)
  /\ group[1].signatures = c.signatures
  /\ ObjectKey(group[1]) = ObjectKey(c) \/ Ids(group) \cap c.needs # {}
WithNeed(groups, c) ==
  Joined(groups, c, groups # << >> /\ WorkNeedMergeable(groups[Len(groups)], c))
WorkNeeds(components) ==
  LET groups[n \in 0 .. Len(components)] ==
        IF n = 0 THEN << >> ELSE WithNeed(groups[n - 1], components[n])
  IN groups[Len(components)]
WorkNeedOf(needs, c) == CHOOSE n \in DOMAIN needs : c \in Range(needs[n])

\* What the statements of an activity allow: _assistance_bundle,
\* _autonomy_bundle and the documented risk _select looks for.
AssistanceBundle ==
  {"ASSISTANCE_SCOPE", "HUMAN_REVIEW", "HUMAN_REVIEWER", "OWNER", "ESCALATION", "ASSISTANCE_PERMITTED",
   "RESOLVED", "RESIDUAL_LOW", "ASSISTED_CONSEQUENCE_LOW"}
AutonomyBundle ==
  {"DATA_READY", "NO_JUDGMENT", "NO_HUMAN_DECISION", "NO_HUMAN_REVIEW", "OWNER", "ESCALATION",
   "AUTONOMY_PERMITTED", "RESOLVED", "PREDICTABLE", "AUTONOMOUS_RESIDUAL_LOW",
   "AUTONOMOUS_CONSEQUENCE_LOW"}
AllowsAssistance(stated) == AssistanceBundle \subseteq stated
AllowsAutonomy(stated) == AutonomyBundle \subseteq stated
HighRisk(stated) == "RISK_HIGH" \in stated

\* Mutant: a prohibition of assistance is read as one of autonomy's limits.
VetoesAssistance(stated) == "ASSISTANCE_PROHIBITED" \in stated /\ AllowsAssistance(stated)

Veto(stated) == "ASSISTANCE_PROHIBITED" \in stated

ClosedDeterministic(stated, rule) ==
  (rule = "PD2-010" /\ "CLOSED_MAPPING" \in stated) \/ (rule = "PD2-011" /\ "EXACT_LOOKUP" \in stated)

\* _conventional_sufficiency
ConventionallySufficient(c) ==
  /\ Has(c.fields.input) \/ Has(c.fields.object)
  /\ Has(c.fields.output) \/ Has(c.fields.to) \/ Has(c.fields.object)
  /\ c.fields.action \in Deterministic
  /\ c.fields.rule \in Direct \cup {"PD2-010", "PD2-011"}
  /\ c.linked => c.needs # {}
  /\ ~c.exceptional
  /\ c.fields.rule = "PD2-006" => c.triggered

\* _select: the stages in their order of precedence.
Code(c, stated) ==
  LET rule == c.fields.rule
      semantic == rule \in Semantic
      open == semantic /\ ~HighRisk(stated) IN
  IF Veto(stated) /\ semantic THEN "PA2-020"
  ELSE IF rule = "PD2-016" THEN "PA2-020"
  ELSE IF rule \in {"PD2-018", "PD2-019"} THEN "PA2-030"
  ELSE IF /\ rule \in Direct \/ ClosedDeterministic(stated, rule)
          /\ ConventionallySufficient(c) THEN IF rule = "PD2-007" THEN "PA2-041" ELSE "PA2-040"
  ELSE IF open /\ AllowsAutonomy(stated) THEN "PA2-052"
  ELSE IF open /\ AllowsAssistance(stated) THEN "PA2-050"
  ELSE IF open THEN "PA2-051"
  ELSE IF rule \in {"PD2-015", "PD2-017"} THEN "PA2-021"
  ELSE "PA2-004"
DirectionOf(code) ==
  CASE code \in {"PA2-020", "PA2-021"} -> "LIKELY_HUMAN_LED"
    [] code = "PA2-030" -> "LIKELY_PROCESS_IMPROVEMENT_FIRST"
    [] code \in {"PA2-040", "PA2-041"} -> "LIKELY_CONVENTIONAL_AUTOMATION"
    [] code = "PA2-052" -> "POTENTIAL_AI_AUTOMATION"
    [] code \in {"PA2-050", "PA2-051"} -> "POTENTIAL_AI_ASSISTED_WORK"
    [] OTHER -> "INSUFFICIENT_BASIS_TO_SUGGEST_A_DIRECTION"
Unresolvable == {"PA2-004"}
Selections(activity, components) ==
  [n \in DOMAIN components |->
     [component |-> components[n], need |-> WorkNeedOf(WorkNeeds(components), components[n]),
      code |-> Code(components[n], DocumentedStatements(activity))]]

\* _opportunity_mergeable
OpportunityMergeable(group, item) ==
  LET last == group[Len(group)].component
      c == item.component
      dependency == \E n \in DOMAIN group : group[n].component.id \in c.needs IN
  /\ group[1].code = item.code
  /\ last.signatures = c.signatures
  /\ group[1].need = item.need \/ dependency
  /\ ObjectKey(last) = ObjectKey(c) \/ dependency \/ last.fields.output = c.fields.input

\* _group_opportunities: each opportunity with what it rests on.
Inferences(components) == {c.inference : c \in components} \cup UNION {c.reviewed : c \in components}
Coverage(group) ==
  LET count == Cardinality(Inferences({g.component : g \in Range(group)})) IN
  IF count >= 2 \/ group[1].code = "PA2-051" THEN "LOW" ELSE IF count = 1 THEN "MEDIUM" ELSE "HIGH"
Opportunity(group) ==
  [components |-> {g.component.id : g \in Range(group)}, needs |-> {g.need : g \in Range(group)},
   code |-> group[1].code, direction |-> DirectionOf(group[1].code),
   signatures |-> group[1].component.signatures, coverage |-> Coverage(group)]
WithOpportunity(groups, item) ==
  IF item.code \in Unresolvable THEN groups
  ELSE Joined(groups, item, groups # << >> /\ OpportunityMergeable(groups[Len(groups)], item))
OpportunityGroups(selections) ==
  LET groups[n \in 0 .. Len(selections)] ==
        IF n = 0 THEN << >> ELSE WithOpportunity(groups[n - 1], selections[n])
  IN groups[Len(selections)]
Opportunities(selections) ==
  LET groups == OpportunityGroups(selections)
  IN [n \in DOMAIN groups |-> Opportunity(groups[n])]

-----------------------------------------------------------------------------
(* The result of an activity.                                              *)

\* _discovery
Discovery(reason, components) == [reason |-> reason, components |-> components]

\* What is asked beside the opportunities of an activity.
DiscoveriesOf(activity, selections) ==
  LET of(codes) == {g.component.id : g \in {h \in Range(selections) : h.code \in codes}} IN
  {d \in {Discovery("INSEPARABLE_SCOPE", of(Unresolvable)),
          Discovery("MISSING_REQUIRED_COMPONENT_FIELD", of({"PA2-051"}))} : d.components # {}}
  \cup {Discovery("UNSUPPORTED_CHARACTERISTIC", {}) : s \in UnsupportedSources(activity)}

\* _activity: only questions, or what there is to do and what is still asked.
Discovering(components, discoveries, rule) ==
  [type |-> "DISCOVERY_REQUIRED", construction |-> "PAR2-003", components |-> components,
   opportunities |-> << >>, discoveries |-> discoveries, coverage |-> "LOW", rule |-> rule]
Strength == [HIGH |-> 0, MEDIUM |-> 1, LOW |-> 2]
Weakest(coverages) == CHOOSE c \in coverages : \A d \in coverages : Strength[d] <= Strength[c]
Actionable(components, opportunities, discoveries) ==
  [type |-> "ACTIONABLE", components |-> components, opportunities |-> opportunities,
   construction |-> IF Len(opportunities) = 1 THEN "PAR2-001" ELSE "PAR2-002",
   discoveries |-> discoveries, rule |-> None,
   coverage |-> Weakest({o.coverage : o \in Range(opportunities)} \cup {"LOW" : d \in discoveries})]
NoChange ==
  [type |-> "NO_CHANGE", construction |-> "PAR2-004", components |-> << >>, opportunities |-> << >>,
   discoveries |-> {}, coverage |-> "HIGH", rule |-> "PA2-010"]

\* _affirmative_no_change
NoChangeBundle == {"PURPOSE", "ACHIEVED", "PERFORMANCE", "CONTROLS", "NO_PROBLEM", "NO_INTERVENTION"}
AffirmsNoChange(activity) ==
  NoChangeBundle \subseteq
    UNION {a.says : a \in {b \in Range(activity.assertions) :
                      Admits(b) /\ b.evidence # << >> /\ b.origin = "DOCUMENT_SUPPORTED"}}

\* _evaluate_activity
OpportunityLimit == 5
ActivityResult(activity, components, opportunities, discoveries) ==
  LET all(reason) == {Discovery(reason, Ids(components))} IN
  IF activity.conflicted
    THEN Discovering(components, all("MATERIAL_EVIDENCE_CONFLICT"), "PA2-003")
  ELSE IF components = << >>
    THEN IF AffirmsNoChange(activity) THEN NoChange
         ELSE Discovering(components, all("NO_DIRECTION_BEARING_EVIDENCE"), "PA2-002")
  ELSE IF Len(opportunities) > OpportunityLimit
    THEN Discovering(components, all("OPPORTUNITY_PARTITION_EXCEEDS_LIMIT"), "PA2-004")
  ELSE IF opportunities = << >>
    THEN Discovering(components, discoveries, "PA2-004")
  ELSE Actionable(components, opportunities, discoveries)
ResultOf(activity, components, selections) ==
  ActivityResult(activity, components, Opportunities(selections), DiscoveriesOf(activity, selections))
ResultOfComponents(activity, components) ==
  ResultOf(activity, components, Selections(activity, components))
EvaluateActivity(activity) == ResultOfComponents(activity, Components(activity))

\* PreliminaryActivityResultV2.validate_variant
VariantAccepted(r) ==
  /\ \A i, j \in DOMAIN r.opportunities :
       i # j => r.opportunities[i].components \cap r.opportunities[j].components = {}
  /\ CASE r.type = "ACTIONABLE" ->
            Len(r.opportunities) \in 1 .. 5 /\ r.construction \in {"PAR2-001", "PAR2-002"}
       [] r.type = "DISCOVERY_REQUIRED" ->
            r.opportunities = << >> /\ r.discoveries # {} /\ r.construction = "PAR2-003"
       [] OTHER -> /\ r.opportunities = << >> /\ r.discoveries = {}
                   /\ r.construction = "PAR2-004" /\ r.rule = "PA2-010"

-----------------------------------------------------------------------------
(* The evaluation of an approved review.                                   *)

Failure(code) == [status |-> "FAILURE", code |-> code]

\* _validate_approved
ApprovalProblem(r) ==
  IF r.status # "APPROVED" \/ ~r.ordered \/ r.approvals # 1 \/ r.blocked THEN "INVALID_APPROVAL_ARTIFACT"
  ELSE IF ~r.projected THEN "INVALID_PROCESS_PROJECTION"
  ELSE CASE r.lineage = "foreign" -> "INVALID_SOURCE_LINEAGE"
         [] r.lineage = "altered" -> "INVALID_SOURCE_SPAN"
         [] OTHER -> None

\* evaluate: one result for each retained activity in its sequence; whatever
\* the contract of the output refuses fails the evaluation as a whole.
RetainedActivities(r) == {n \in DOMAIN r.activities : r.activities[n].retained}
ActivityResults(r) ==
  [n \in RetainedActivities(r) |-> EvaluateActivity(r.activities[n])]
Success(results) ==
  [status |-> "SUCCESS", results |-> results, coverage |-> Weakest({results[n].coverage : n \in DOMAIN results}),
   counts |-> [c \in DOMAIN Strength |-> Cardinality({n \in DOMAIN results : results[n].coverage = c})]]
EvaluationOf(problem, results) ==
  IF problem # None THEN Failure(problem)
  ELSE IF DOMAIN results = {} \/ \E n \in DOMAIN results : ~VariantAccepted(results[n])
    THEN Failure("OUTPUT_VALIDATION_FAILED")
  ELSE Success(results)
Evaluation(r) == EvaluationOf(ApprovalProblem(r), ActivityResults(r))

NotEvaluatedYet == [status |-> "NONE"]
EvaluateTexts ==
  /\ evaluation = NotEvaluatedYet
  /\ evaluation' = Evaluation(review)
  /\ UNCHANGED review

EvaluationInit == review \in Reviews /\ evaluation = NotEvaluatedYet
EvaluationNext == EvaluateTexts
EvaluationSpec == EvaluationInit /\ [][EvaluationNext]_<<review, evaluation>>

(* A valid approval always gets its directions, and every action that was  *)
(* found is in one opportunity or asked about, never both or neither.  A   *)
(* decision of a person stays with people, a veto or a high risk keeps     *)
(* machines from work that needs understanding, only an explicit           *)
(* permission lets one act alone, and no summary looks better covered      *)
(* than the weakest thing it sums up (_evaluate_activity, _select,         *)
(* _group_opportunities against preliminary-evaluator-rules.v0.2).         *)
Machines == {"POTENTIAL_AI_ASSISTED_WORK", "POTENTIAL_AI_AUTOMATION"}
Partitions(r) ==
  LET asked == UNION {d.components : d \in {e \in r.discoveries : e.reason = "INSEPARABLE_SCOPE"}}
      done == UNION {o.components : o \in Range(r.opportunities)}
  IN asked \cap done = {} /\ asked \cup done = Ids(r.components)
RulesIn(r, o) == {c.fields.rule : c \in {d \in Range(r.components) : d.id \in o.components}}
Earned(r, o, stated) ==
  /\ "PD2-016" \in RulesIn(r, o) => o.direction = "LIKELY_HUMAN_LED"
  /\ o.direction \in Machines =>
       {"ASSISTANCE_PROHIBITED", "RISK_HIGH"} \cap stated = {} /\ RulesIn(r, o) \subseteq Semantic
  /\ o.direction = "POTENTIAL_AI_AUTOMATION" => "AUTONOMY_PERMITTED" \in stated
  /\ o.coverage = "HIGH" => \A c \in Range(r.components) : c.id \in o.components => c.reviewed = {}
DirectionsSound ==
  evaluation # NotEvaluatedYet =>
    /\ (evaluation.status = "SUCCESS") <=> (ApprovalProblem(review) = None)
    /\ evaluation.status = "SUCCESS" =>
         \A n \in RetainedActivities(review) :
           LET r == evaluation.results[n]
               activity == review.activities[n] IN
           /\ r.type = "ACTIONABLE" => Partitions(r)
           /\ activity.conflicted => r.type = "DISCOVERY_REQUIRED"
           /\ \A o \in Range(r.opportunities) :
                /\ Earned(r, o, DocumentedStatements(activity))
                /\ Strength[o.coverage] <= Strength[r.coverage]
           /\ r.discoveries # {} => r.coverage = "LOW"
           /\ Strength[r.coverage] <= Strength[evaluation.coverage]
=============================================================================
