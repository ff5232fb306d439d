-------------------------- MODULE FormalProjection --------------------------
(***************************************************************************)
(* The formal input adapter (formal/input_adapter.py): the approved process *)
(* and the positive supporting mappings give one effective value per field, *)
(* or a conflict that only an explicit resolution of this run settles; and  *)
(* what the projection contract accepts (models/formal_assessment.py).      *)
(* A value stands for the typed value, its knowledge state and confidence.  *)
(***************************************************************************)
EXTENDS Naturals, FiniteSets

CONSTANTS Fields,   \* scalar targets of the activities, in any order
          Values,   \* effective values
          None      \* no value: the field is unknown

ASSUME NoneAssumption == None \notin Values

\* An approved field cites evidence unless it is unknown or human-supplied.
Approved == { a \in [value : Values \cup {None}, cited : BOOLEAN] :
                a.value = None => ~a.cited }

\* _is_positive_mapping: mapped to the field on documented or inferred evidence.
Positive(mappings, f) == { m \in mappings : m.field = f /\ m.positive }

\* _groups: mappings of equal value, state and confidence are one group.
Keys(mappings, f) == { m.value : m \in Positive(mappings, f) }

Settled(approved, mappings, f) ==
    \/ Keys(mappings, f) = {}
    \/ approved[f].value = None /\ Cardinality(Keys(mappings, f)) = 1
    \/ Keys(mappings, f) = {approved[f].value}

Conflicts(approved, mappings) == { f \in Fields : ~Settled(approved, mappings, f) }

\* _conflict_alternatives: the approved value, corroborated or not, and each
\* other group, with the mappings that carry it.
Alternatives(approved, mappings, f) ==
    { [value |-> v,
       origin |-> CASE v # approved[f].value -> "SUPPORTING_MAPPING"
                    [] v = approved[f].value /\ v \in Keys(mappings, f) -> "CORROBORATED"
                    [] OTHER -> "APPROVED_PROCESS",
       evidence |-> v \in Keys(mappings, f) \/ approved[f].cited,
       mappings |-> { m \in Positive(mappings, f) : m.value = v }] :
      v \in Keys(mappings, f) \cup ({approved[f].value} \ {None}) }

\* Every competing alternative must cite evidence (validate_competing_value).
AlternativesValid(approved, mappings, f) ==
    \A a \in Alternatives(approved, mappings, f) : a.evidence

Trace(approved, value, origin, mappings, evidence) ==
    [approved |-> approved.value, projected |-> value, origin |-> origin,
     mappings |-> mappings, evidence |-> evidence]

\* The value of a resolved conflict is the selected one.
ResolvedValue(keys, resolution) == resolution.selected

\* Mutant: a resolved field carries the mappings of the selected value only.
SelectedMappings(all, resolution) == { m \in all : m.value = resolution.selected }

\* A resolved field carries every mapping that took part in the conflict.
ResolvedMappings(all, resolution) == all

\* _project_field, for a field that is settled or has a resolution.
ProjectField(approved, mappings, resolutions, f) ==
    LET keys == Keys(mappings, f)
        all == Positive(mappings, f)
    IN  CASE keys = {} ->
               Trace(approved[f], approved[f].value, "SOURCE_ONLY", {}, approved[f].cited)
          [] keys # {} /\ f \in Conflicts(approved, mappings) ->
               Trace(approved[f], ResolvedValue(keys, resolutions[f]), "EXPLICITLY_RESOLVED",
                     ResolvedMappings(all, resolutions[f]), TRUE)
          [] OTHER ->
               Trace(approved[f], CHOOSE v \in keys : TRUE,
                     IF approved[f].value = None THEN "FILLED_UNKNOWN" ELSE "CORROBORATED",
                     all, TRUE)

\* validate_origin: a value that is known or inferred must cite evidence.
TraceValid(trace) ==
    /\ trace.projected # None => trace.evidence
    /\ trace.origin = "SOURCE_ONLY" =>
         trace.mappings = {} /\ trace.projected = trace.approved
    /\ trace.origin # "SOURCE_ONLY" => trace.mappings # {}
    /\ trace.origin = "FILLED_UNKNOWN" => trace.approved = None
    /\ trace.origin = "CORROBORATED" => trace.approved = trace.projected

\* A conflict is resolved by all of its exact alternatives and one of them.
Resolves(approved, mappings, resolution, f) ==
    /\ resolution.alternatives = Alternatives(approved, mappings, f)
    /\ \E a \in resolution.alternatives : a.value = resolution.selected

\* What project refuses: an alternative or a trace the contracts refuse, a
\* conflict left open or resolved inexactly, a resolution without a conflict.
Projects(approved, mappings, resolutions) ==
    /\ DOMAIN resolutions = Conflicts(approved, mappings)
    /\ \A f \in Fields :
         /\ f \in DOMAIN resolutions =>
              /\ AlternativesValid(approved, mappings, f)
              /\ Resolves(approved, mappings, resolutions[f], f)
         /\ TraceValid(ProjectField(approved, mappings, resolutions, f))

Projection(approved, mappings, resolutions) ==
    [f \in Fields |-> ProjectField(approved, mappings, resolutions, f)]

\* Mutant: the preflight notes a conflict without building its alternatives.
NotesConflict(approved, mappings, f) == TRUE

\* The conflict the preflight notes is made of valid alternatives.
ConflictNoted(approved, mappings, f) == AlternativesValid(approved, mappings, f)

\* preflight_conflicts follows the same path and notes each conflict instead of
\* failing; what else the path refuses fails the preflight.
Preflights(approved, mappings) ==
    \A f \in Fields :
        IF f \in Conflicts(approved, mappings)
        THEN ConflictNoted(approved, mappings, f)
        ELSE TraceValid(ProjectField(approved, mappings, << >>, f))

\* validate_projection: each resolution is used by the trace of its field, which
\* carries the selected value and every mapping of a supporting alternative, and
\* the approved value is an alternative exactly when it is known.
ContractAccepts(approved, mappings, resolutions, traces) ==
    \A f \in Fields :
        /\ traces[f].approved = approved[f].value
        /\ (traces[f].origin = "EXPLICITLY_RESOLVED") = (f \in DOMAIN resolutions)
        /\ f \in DOMAIN resolutions =>
             LET known == { a \in resolutions[f].alternatives :
                              a.origin \in {"APPROVED_PROCESS", "CORROBORATED"} }
                 supporting == { a \in resolutions[f].alternatives :
                                   a.origin \in {"SUPPORTING_MAPPING", "CORROBORATED"} }
             IN  /\ traces[f].projected = resolutions[f].selected
                 /\ UNION { a.mappings : a \in supporting } = traces[f].mappings
                 /\ IF approved[f].value = None
                    THEN known = {} /\ Cardinality(supporting) >= 2
                    ELSE /\ Cardinality(known) = 1 /\ supporting # {}
                         /\ \A a \in known : a.value = approved[f].value

=============================================================================
