--------------------------- MODULE ReviewSession ---------------------------
(***************************************************************************)
(* ProcessReviewService: a person goes through what the extraction found,   *)
(* assertion by assertion, and approves the process (review/service.py,     *)
(* review/approval.py, models/review.py).                                   *)
(*                                                                         *)
(* One session. An assertion is known by its path <<owner, kind, index>>;   *)
(* of the assertions only the process name and the activity of a step bear  *)
(* on the approval, and the actors of a step on its primary actor: "item"   *)
(* paths are the actors, and the other collections and single assertions    *)
(* are under the same operations. Rationales, times and identifiers are     *)
(* left out, and so is the completeness mark of a collection.               *)
(***************************************************************************)
EXTENDS Naturals, FiniteSets

CONSTANTS
  Candidates,  \* the candidate processes a session may start from
  Values,      \* texts an assertion may have
  Blank,       \* the one of them that is white space
  None,        \* no value, no target, no primary actor
  Process,     \* owner of the assertions of the process itself
  MaxItems,    \* bound: actors of a step
  ItemSteps    \* bound: steps to which actors are added

Unknown == [value |-> None, state |-> "UNKNOWN", origin |-> "UNKNOWN",
            evidence |-> FALSE, confidence |-> FALSE,
            disposition |-> "unreviewed", retained |-> TRUE]

Found(value, state) ==
  [value |-> value, state |-> state,
   origin |-> IF state = "KNOWN" THEN "DOCUMENT_SUPPORTED" ELSE "MODEL_INFERRED",
   evidence |-> TRUE, confidence |-> state = "INFERRED",
   disposition |-> "unreviewed", retained |-> TRUE]

\* What reviewed_assertion makes of an assertion of the candidate.
Extracted == {Unknown} \cup {Found(v, s) : v \in Values, s \in {"KNOWN", "INFERRED"}}

Origins == {"DOCUMENT_SUPPORTED", "MODEL_INFERRED", "HUMAN_SUPPLIED", "UNKNOWN"}
Dispositions ==
  {"unreviewed", "accepted", "corrected", "rejected", "unknown-retained"}
Assertion ==
  [value : Values \cup {None}, state : {"KNOWN", "INFERRED", "UNKNOWN"},
   origin : Origins, evidence : BOOLEAN, confidence : BOOLEAN,
   disposition : Dispositions, retained : BOOLEAN]

Name == <<Process, "name", 1>>
Activity(s) == <<s, "activity", 1>>
Item(s, i) == <<s, "item", i>>

\* A candidate: the sequence numbers of its steps count from 1, every step
\* has an activity, a dependency <<s, i>> is the i-th one of step s.
IsCandidate(c) ==
  /\ Process \notin DOMAIN c.sequence /\ None \notin DOMAIN c.sequence
  /\ IsFiniteSet(DOMAIN c.sequence)
  /\ c.sequence \in [DOMAIN c.sequence -> 1 .. Cardinality(DOMAIN c.sequence)]
  /\ \A s, t \in DOMAIN c.sequence : c.sequence[s] = c.sequence[t] => s = t
  /\ c.field \in [DOMAIN c.field -> Extracted]
  /\ Name \in DOMAIN c.field
  /\ \A s \in DOMAIN c.sequence :
       Activity(s) \in DOMAIN c.field /\ c.field[Activity(s)] # Unknown
  /\ \A l \in DOMAIN c.target :
       l = <<l[1], l[2]>> /\ l[1] \in DOMAIN c.sequence /\ l[2] \in Nat
  /\ c.target \in [DOMAIN c.target -> DOMAIN c.sequence \cup {None}]

ASSUME ValuesAssumption == None \notin Values /\ Blank \in Values
ASSUME CandidatesAssumption == \A c \in Candidates : IsCandidate(c)

VARIABLES
  field,          \* path -> the reviewed assertion
  sequence,       \* step -> its sequence number
  kept,           \* step -> whether it is retained
  orderAccepted,
  dependency,     \* <<step, i>> -> its target, and whether it is retained
  primary,        \* step -> primary actor
  conflicts,      \* blocking conflict -> whether it is open or resolved
  event           \* the last event of the audit trail

vars == <<field, sequence, kept, orderAccepted, dependency, primary, conflicts,
          event>>

NoEvent == [path |-> Name, action |-> "none", after |-> None]

Steps == DOMAIN sequence
Kept == {s \in Steps : kept[s]}

Init ==
  \E c \in Candidates :
    /\ field = c.field
    /\ sequence = c.sequence
    /\ kept = [s \in DOMAIN c.sequence |-> TRUE]
    /\ orderAccepted = FALSE
    /\ dependency = [l \in DOMAIN c.target |->
                       [target |-> c.target[l], retained |-> TRUE]]
    /\ primary = [s \in DOMAIN c.sequence |-> None]
    /\ conflicts = [k \in c.conflicts |-> "open"]
    /\ event = NoEvent

\* Mutant: the event about a change is not kept.
NotRecorded(p, action, after) == event

\* _record: the event with the snapshot after the change.
Recorded(p, action, after) == [path |-> p, action |-> action, after |-> after]

(***************************************************************************)
(* Assertions                                                              *)
(***************************************************************************)
\* Mutants: the evidence of the assertion outlives its correction; a
\* correction by a disposition of its own.
KeepsEvidence(a, value, origin) ==
  [a EXCEPT !.value = value, !.state = "KNOWN", !.origin = origin,
            !.disposition = "corrected", !.retained = TRUE]

\* correct_assertion: a document-supported correction brings its evidence.
Corrected(a, value, origin) ==
  [value |-> value, state |-> "KNOWN", origin |-> origin,
   evidence |-> origin = "DOCUMENT_SUPPORTED", confidence |-> FALSE,
   disposition |-> "corrected", retained |-> TRUE]

Correction(value, origin) ==
  value \in Values \ {Blank} /\ origin \in {"HUMAN_SUPPLIED", "DOCUMENT_SUPPORTED"}

Change(p, action, after) ==
  /\ field' = [field EXCEPT ![p] = after]
  /\ event' = Recorded(p, action, after)
  /\ UNCHANGED <<sequence, kept, orderAccepted, dependency, primary, conflicts>>

Accept(p) ==
  /\ field[p].state # "UNKNOWN"
  /\ Change(p, "accept",
            [field[p] EXCEPT !.disposition = "accepted", !.retained = TRUE])

Correct(p, value, origin) ==
  /\ Correction(value, origin)
  /\ Change(p, "correct", Corrected(field[p], value, origin))

\* resolve_unknown replaces the event of the correction it makes by its own.
ResolveUnknown(p, value, origin) ==
  /\ field[p].state = "UNKNOWN"
  /\ Correction(value, origin)
  /\ Change(p, "resolve-unknown", Corrected(field[p], value, origin))

RetainUnknown(p) ==
  /\ field[p].state = "UNKNOWN"
  /\ Change(p, "retain-unknown",
            [field[p] EXCEPT !.disposition = "unknown-retained", !.retained = TRUE])

Reject(p) ==
  Change(p, "reject",
         [field[p] EXCEPT !.disposition = "rejected", !.retained = FALSE])

Items(s) == {i \in 1 .. MaxItems : Item(s, i) \in DOMAIN field}

\* add_human_collection_item: an unknown item, resolved at once.
AddItem(s, value) ==
  LET p == Item(s, Cardinality(Items(s)) + 1)
      item == Corrected(Unknown, value, "HUMAN_SUPPLIED")
  IN /\ Cardinality(Items(s)) < MaxItems
     /\ Correction(value, "HUMAN_SUPPLIED")
     /\ field' = [q \in DOMAIN field \cup {p} |-> IF q = p THEN item ELSE field[q]]
     /\ event' = Recorded(p, "resolve-unknown", item)
     /\ UNCHANGED <<sequence, kept, orderAccepted, dependency, primary, conflicts>>

(***************************************************************************)
(* Steps and their order                                                   *)
(***************************************************************************)
OrderPath == <<Process, "order", 1>>
StepPath(s) == <<s, "step", 1>>

OrderReset == FALSE

\* An order of the retained steps, as the number each of them gets.
IsOrder(rank) ==
  /\ rank \in [Kept -> 1 .. Cardinality(Kept)]
  /\ \A s, t \in Kept : rank[s] = rank[t] => s = t

ReorderSteps(rank) ==
  /\ IsOrder(rank)
  /\ sequence' = [s \in Steps |-> IF s \in Kept THEN rank[s] ELSE sequence[s]]
  /\ orderAccepted' = OrderReset
  /\ event' = Recorded(OrderPath, "reorder-steps", rank)
  /\ UNCHANGED <<field, kept, dependency, primary, conflicts>>

\* Nothing takes a removed step back.
RemoveStep(s) ==
  /\ kept' = [kept EXCEPT ![s] = FALSE]
  /\ orderAccepted' = OrderReset
  /\ event' = Recorded(StepPath(s), "reject", FALSE)
  /\ UNCHANGED <<field, sequence, dependency, primary, conflicts>>

AcceptStepOrder ==
  /\ orderAccepted' = TRUE
  /\ event' = Recorded(OrderPath, "accept-step-order", TRUE)
  /\ UNCHANGED <<field, sequence, kept, dependency, primary, conflicts>>

(***************************************************************************)
(* Dependencies, primary actor, conflicts                                  *)
(***************************************************************************)
LinkPath(l) == <<l[1], "dependency", l[2]>>

\* A dependency that was rejected stays rejected when its target is corrected.
Targeted(l, target) == [dependency[l] EXCEPT !.target = target]
Dropped(l) == [dependency[l] EXCEPT !.retained = FALSE]

Link(l, action, after) ==
  /\ dependency' = [dependency EXCEPT ![l] = after]
  /\ event' = Recorded(LinkPath(l), action, after)
  /\ UNCHANGED <<field, sequence, kept, orderAccepted, primary, conflicts>>

CorrectDependency(l, target) ==
  Link(l, "correct-dependency", Targeted(l, target))

RejectDependency(l) == Link(l, "reject", Dropped(l))

RetainedActors(s) ==
  {field[Item(s, i)].value :
     i \in {j \in Items(s) : field[Item(s, j)].retained}} \ {None}

SelectPrimaryActor(s, actor) ==
  /\ actor \in RetainedActors(s) \cup {None}
  /\ primary' = [primary EXCEPT ![s] = actor]
  /\ event' = Recorded(<<s, "primary_actor", 1>>, "select-primary-actor", actor)
  /\ UNCHANGED <<field, sequence, kept, orderAccepted, dependency, conflicts>>

ResolveConflict(c) ==
  /\ conflicts' = [conflicts EXCEPT ![c] = "resolved"]
  /\ event' = Recorded(<<c, "conflict", 1>>, "resolve-conflict", "resolved")
  /\ UNCHANGED <<field, sequence, kept, orderAccepted, dependency, primary>>

Next ==
  \/ \E p \in DOMAIN field :
       \/ Accept(p) \/ RetainUnknown(p) \/ Reject(p)
       \/ \E v \in Values, o \in Origins :
            Correct(p, v, o) \/ ResolveUnknown(p, v, o)
  \/ \E s \in Steps \cap ItemSteps, v \in Values : AddItem(s, v)
  \/ \E rank \in [Kept -> 1 .. Cardinality(Kept)] : ReorderSteps(rank)
  \/ \E s \in Steps : RemoveStep(s)
  \/ AcceptStepOrder
  \/ \E l \in DOMAIN dependency :
       \/ RejectDependency(l)
       \/ \E t \in Steps \cup {None} : CorrectDependency(l, t)
  \/ \E s \in Steps, a \in Values \cup {None} : SelectPrimaryActor(s, a)
  \/ \E c \in DOMAIN conflicts : ResolveConflict(c)

Spec == Init /\ [][Next]_vars

(***************************************************************************)
(* approve_review: a function of the session, which it leaves alone        *)
(***************************************************************************)
Confirmed(a) ==
  a.retained /\ a.value # None /\ a.disposition \in {"accepted", "corrected"}

LinksOf(s) == {l \in DOMAIN dependency : l[1] = s /\ dependency[l].retained}

\* Mutant: a dependency may target a step that was removed.
TargetsAnyStep(l) == dependency[l].target \in Steps \ {l[1]}

\* The target of a retained dependency is another retained step.
TargetsKept(l) == dependency[l].target \in Kept \ {l[1]}

\* _approval_errors finds nothing.
NoApprovalErrors ==
  /\ Confirmed(field[Name])
  /\ Kept # {}
  /\ orderAccepted
  /\ \A s \in Kept :
       Confirmed(field[Activity(s)]) /\ \A l \in LinksOf(s) : TargetsKept(l)
  /\ \A c \in DOMAIN conflicts : conflicts[c] = "resolved"

\* _project_business_process: what of the process the validation looks at.
Projected ==
  [name |-> field[Name].value,
   sequence |-> [s \in Kept |-> sequence[s]],
   activity |-> [s \in Kept |-> field[Activity(s)].value],
   actor |-> [s \in Kept |-> primary[s]],
   dependencies |-> [s \in Kept |->
                       {dependency[l].target : l \in LinksOf(s)} \ {None}]]

\* BusinessProcess: its texts, and validate_references_and_order.
TextsAccepted(p) ==
  p.name # Blank /\ \A s \in DOMAIN p.activity :
                      p.activity[s] # Blank /\ p.actor[s] # Blank
ReferencesAccepted(p) ==
  /\ \A s, t \in DOMAIN p.sequence : p.sequence[s] = p.sequence[t] => s = t
  /\ \A s \in DOMAIN p.dependencies :
       p.dependencies[s] \subseteq DOMAIN p.sequence \ {s}

Approvable == NoApprovalErrors /\ TextsAccepted(Projected) /\ ReferencesAccepted(Projected)

-----------------------------------------------------------------------------
(***************************************************************************)
(* What a review session promises.                                         *)
(***************************************************************************)

Actions == {"none", "accept", "correct", "reject", "resolve-unknown",
            "retain-unknown", "reorder-steps", "accept-step-order", "correct-dependency",
            "select-primary-actor", "resolve-conflict"}

\* The variables keep their types, and a session keeps the steps, links and
\* conflicts it started with (models/review.py).
ReviewTypeOK ==
  /\ field \in [DOMAIN field -> Assertion]
  /\ Name \in DOMAIN field /\ \A s \in Steps : Activity(s) \in DOMAIN field
  /\ sequence \in [Steps -> Nat]
  /\ kept \in [Steps -> BOOLEAN]
  /\ orderAccepted \in BOOLEAN
  /\ dependency \in [DOMAIN dependency ->
                       [target : Steps \cup {None}, retained : BOOLEAN]]
  /\ primary \in [Steps -> Values \cup {None}]
  /\ conflicts \in [DOMAIN conflicts -> {"open", "resolved"}]
  /\ event.action \in Actions

\* validate_review_provenance of a reviewed assertion.
ProvenanceValid(a) ==
  /\ a.origin = "HUMAN_SUPPLIED" => ~a.evidence
  /\ a.origin = "DOCUMENT_SUPPORTED" /\ a.state # "UNKNOWN" => a.evidence
  /\ a.state = "UNKNOWN" =>
       a.value = None /\ ~a.evidence /\ ~a.confidence /\ a.origin = "UNKNOWN"
  /\ a.state # "UNKNOWN" => a.value # None
  /\ a.state = "INFERRED" => a.origin = "MODEL_INFERRED" /\ a.confidence

\* A review that was saved can be opened again, whatever was done to it: the
\* operations assign fields one by one, and only the next load validates them
\* together (ReviewedAssertion.validate_review_provenance).
ReviewReloads == \A p \in DOMAIN field : ProvenanceValid(field[p])

\* What is approved is the order that was accepted: whatever removes or moves
\* a retained step takes the acceptance back (reorder_steps, remove_step).
Order == [s \in Kept |-> sequence[s]]
AcceptedOrderStands == [][orderAccepted' => Order' = Order]_vars

\* The errors a review page lists are all there are: a session without one
\* gives a process of unique sequence numbers and of dependencies between its
\* own steps, which BusinessProcess accepts (_approval_errors, used as the
\* preflight of the page, against validate_references_and_order).
PreflightComplete == NoApprovalErrors => ReferencesAccepted(Projected)

\* Every change of an assertion or a dependency appends an event about it,
\* with the value it left (_record).
InTrail(p, value) == event.path = p /\ event.after = value
EveryChangeRecorded ==
  [][/\ \A p \in DOMAIN field' :
          \/ p \in DOMAIN field /\ field'[p] = field[p]
          \/ InTrail(p, field[p])'
     /\ \A l \in DOMAIN dependency :
          \/ dependency'[l] = dependency[l]
          \/ InTrail(LinkPath(l), dependency[l])']_vars

(***************************************************************************)
(* Promises the code does not keep                                         *)
(***************************************************************************)
\* What the reviewer accepted stands, and the trail tells all that was changed.
ReviewRecorded == AcceptedOrderStands /\ EveryChangeRecorded

\* "Primary actor must be a retained reviewed actor" (select_primary_actor):
\* an approved step has no other.
PrimaryActorRetained ==
  Approvable => \A s \in Kept : primary[s] \in RetainedActors(s) \cup {None}

\* A dependency whose target was saved in its last change is part of the
\* process ("Dependency target saved.", pages/review.py).
SavedDependencyApplies ==
  \A l \in DOMAIN dependency :
    event.path = LinkPath(l) /\ event.action = "correct-dependency"
      => dependency[l].retained
=============================================================================
