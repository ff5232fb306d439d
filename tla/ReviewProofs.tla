---------------------------- MODULE ReviewProofs ----------------------------
(***************************************************************************)
(* What ReviewSession promises, proved for every candidate, every number   *)
(* of steps and of assertions, and every set of texts.                      *)
(***************************************************************************)
EXTENDS ReviewSession, TLAPS

\* The operations on one assertion keep it one, and reloadable.
LEMMA CorrectedIsValid ==
  ASSUME NEW a, NEW value, NEW origin, Correction(value, origin)
  PROVE  /\ Corrected(a, value, origin) \in Assertion
         /\ ProvenanceValid(Corrected(a, value, origin))
<1> DEFINE b == Corrected(a, value, origin)
           cited == origin = "DOCUMENT_SUPPORTED"
<1>1. /\ value \in Values /\ value # None
      /\ origin \in {"HUMAN_SUPPLIED", "DOCUMENT_SUPPORTED"}
  BY ValuesAssumption DEF Correction
<1>2. cited \in BOOLEAN
  OBVIOUS
<1>3. b = [value |-> value, state |-> "KNOWN", origin |-> origin,
           evidence |-> cited, confidence |-> FALSE,
           disposition |-> "corrected", retained |-> TRUE]
  BY DEF Corrected
<1>4. cited <=> origin # "HUMAN_SUPPLIED"
  BY <1>1
<1> HIDE DEF b, cited
<1>5. b \in Assertion
  BY <1>1, <1>2, <1>3 DEF Assertion, Origins, Dispositions
<1>6. ProvenanceValid(b)
  BY <1>1, <1>3, <1>4 DEF ProvenanceValid
<1>7. QED
  BY <1>5, <1>6 DEF b

\* What reviewed_assertion makes of a candidate's assertion is valid.
LEMMA ExtractedIsValid ==
  ASSUME NEW a \in Extracted
  PROVE  a \in Assertion /\ ProvenanceValid(a)
<1>1. CASE a = Unknown
  BY <1>1 DEF Unknown, Assertion, Origins, Dispositions, ProvenanceValid
<1>2. CASE \E v \in Values, s \in {"KNOWN", "INFERRED"} : a = Found(v, s)
  <2>1. PICK v \in Values, s \in {"KNOWN", "INFERRED"} : a = Found(v, s)
    BY <1>2
  <2>2. CASE s = "KNOWN"
    <3>1. a = [value |-> v, state |-> "KNOWN", origin |-> "DOCUMENT_SUPPORTED",
               evidence |-> TRUE, confidence |-> FALSE,
               disposition |-> "unreviewed", retained |-> TRUE]
      BY <2>1, <2>2 DEF Found
    <3>2. QED
      BY <3>1, ValuesAssumption
         DEF Assertion, Origins, Dispositions, ProvenanceValid
  <2>3. CASE s = "INFERRED"
    <3>1. a = [value |-> v, state |-> "INFERRED", origin |-> "MODEL_INFERRED",
               evidence |-> TRUE, confidence |-> TRUE,
               disposition |-> "unreviewed", retained |-> TRUE]
      BY <2>1, <2>3 DEF Found
    <3>2. QED
      BY <3>1, ValuesAssumption
         DEF Assertion, Origins, Dispositions, ProvenanceValid
  <2>4. QED
    BY <2>2, <2>3
<1>3. QED
  BY <1>1, <1>2 DEF Extracted

\* A judgement leaves what the assertion says as it is.
LEMMA JudgedIsValid ==
  ASSUME NEW a \in Assertion, ProvenanceValid(a),
         NEW d \in Dispositions, NEW r \in BOOLEAN
  PROVE  /\ [a EXCEPT !.disposition = d, !.retained = r] \in Assertion
         /\ ProvenanceValid([a EXCEPT !.disposition = d, !.retained = r])
BY DEF Assertion, ProvenanceValid

\* The retained steps have numbers of their own.
DistinctNumbers ==
  \A s, t \in Kept : sequence[s] = sequence[t] => s = t

IInv == ReviewTypeOK /\ ReviewReloads /\ DistinctNumbers

\* An action that changes one assertion into another valid one.
LEMMA ChangeKeeps ==
  ASSUME IInv, NEW p \in DOMAIN field, NEW action \in Actions,
         NEW after \in Assertion, ProvenanceValid(after),
         Change(p, action, after)
  PROVE  IInv'
<1>1. /\ field' = [field EXCEPT ![p] = after]
      /\ event' = Recorded(p, action, after)
      /\ UNCHANGED <<sequence, kept, orderAccepted, dependency, primary, conflicts>>
  BY DEF Change
<1>2. DOMAIN field' = DOMAIN field
  BY <1>1
<1>3. \A q \in DOMAIN field : field'[q] = IF q = p THEN after ELSE field[q]
  BY <1>1, field = [q \in DOMAIN field |-> field[q]] DEF IInv, ReviewTypeOK
<1>4. Steps' = Steps /\ Kept' = Kept
  BY <1>1 DEF Steps, Kept
<1>5. ReviewTypeOK'
  <2>1. field' \in [DOMAIN field' -> Assertion]
    BY <1>1, <1>2 DEF IInv, ReviewTypeOK
  <2>2. event'.action \in Actions
    BY <1>1 DEF Recorded
  <2>3. QED
    BY <1>1, <1>2, <1>4, <2>1, <2>2 DEF IInv, ReviewTypeOK
<1>6. ReviewReloads'
  BY <1>2, <1>3 DEF IInv, ReviewReloads
<1>7. DistinctNumbers'
  BY <1>1, <1>4 DEF IInv, DistinctNumbers
<1>8. QED
  BY <1>5, <1>6, <1>7 DEF IInv

\* Adding an item adds a valid assertion and changes none.
LEMMA AddItemKeeps ==
  ASSUME IInv, NEW s \in Steps, NEW value, AddItem(s, value)
  PROVE  IInv'
<1> DEFINE p == Item(s, Cardinality(Items(s)) + 1)
           item == Corrected(Unknown, value, "HUMAN_SUPPLIED")
<1>1. /\ Correction(value, "HUMAN_SUPPLIED")
      /\ field' = [q \in DOMAIN field \cup {p} |-> IF q = p THEN item ELSE field[q]]
      /\ event' = Recorded(p, "resolve-unknown", item)
      /\ UNCHANGED <<sequence, kept, orderAccepted, dependency, primary, conflicts>>
  BY DEF AddItem
<1>2. item \in Assertion /\ ProvenanceValid(item)
  BY <1>1, CorrectedIsValid
<1> HIDE DEF p, item
<1>3. DOMAIN field' = DOMAIN field \cup {p}
  BY <1>1
<1>4. \A q \in DOMAIN field' : field'[q] \in Assertion /\ ProvenanceValid(field'[q])
  BY <1>1, <1>2 DEF IInv, ReviewTypeOK, ReviewReloads
<1>5. Steps' = Steps /\ Kept' = Kept
  BY <1>1 DEF Steps, Kept
<1>6. ReviewTypeOK'
  <2>1. field' \in [DOMAIN field' -> Assertion]
    BY <1>1, <1>3, <1>4
  <2>2. Name \in DOMAIN field' /\ \A t \in Steps : Activity(t) \in DOMAIN field'
    BY <1>3 DEF IInv, ReviewTypeOK
  <2>3. event'.action \in Actions
    BY <1>1 DEF Recorded, Actions
  <2>4. QED
    BY <1>1, <1>5, <2>1, <2>2, <2>3 DEF IInv, ReviewTypeOK
<1>7. ReviewReloads'
  BY <1>4 DEF ReviewReloads
<1>8. DistinctNumbers'
  BY <1>1, <1>5 DEF IInv, DistinctNumbers
<1>9. QED
  BY <1>6, <1>7, <1>8 DEF IInv

\* The other operations leave every assertion alone.
LEMMA RestKeeps ==
  ASSUME IInv, UNCHANGED field, Steps' = Steps,
         sequence' \in [Steps -> Nat], kept' \in [Steps -> BOOLEAN],
         orderAccepted' \in BOOLEAN,
         dependency' \in [DOMAIN dependency' ->
                            [target : Steps \cup {None}, retained : BOOLEAN]],
         primary' \in [Steps -> Values \cup {None}],
         conflicts' \in [DOMAIN conflicts' -> {"open", "resolved"}],
         event'.action \in Actions,
         DistinctNumbers'
  PROVE  IInv'
<1>1. ReviewTypeOK'
  BY DEF IInv, ReviewTypeOK
<1>2. ReviewReloads'
  BY DEF IInv, ReviewReloads
<1>3. QED
  BY <1>1, <1>2 DEF IInv

LEMMA InitIInv ==
  Init => IInv
<1> SUFFICES ASSUME Init PROVE IInv
  OBVIOUS
<1>1. PICK c \in Candidates :
        /\ field = c.field
        /\ sequence = c.sequence
        /\ kept = [s \in DOMAIN c.sequence |-> TRUE]
        /\ orderAccepted = FALSE
        /\ dependency = [l \in DOMAIN c.target |->
                           [target |-> c.target[l], retained |-> TRUE]]
        /\ primary = [s \in DOMAIN c.sequence |-> None]
        /\ conflicts = [k \in c.conflicts |-> "open"]
        /\ event = NoEvent
  BY DEF Init
<1>2. IsCandidate(c)
  BY CandidatesAssumption
<1>3. Steps = DOMAIN c.sequence /\ Kept = Steps
  BY <1>1 DEF Steps, Kept
<1>4. field \in [DOMAIN field -> Extracted]
  BY <1>1, <1>2 DEF IsCandidate
<1>5. \A p \in DOMAIN field : field[p] \in Assertion /\ ProvenanceValid(field[p])
  BY <1>4, ExtractedIsValid
<1>6. field \in [DOMAIN field -> Assertion]
  BY <1>4, <1>5
<1>7. Name \in DOMAIN field /\ \A s \in Steps : Activity(s) \in DOMAIN field
  BY <1>1, <1>2, <1>3 DEF IsCandidate
<1>8. sequence \in [Steps -> Nat]
  BY <1>1, <1>2, <1>3 DEF IsCandidate
<1>9. dependency \in [DOMAIN dependency ->
                        [target : Steps \cup {None}, retained : BOOLEAN]]
  BY <1>1, <1>2, <1>3 DEF IsCandidate
<1>10. event.action \in Actions
  BY <1>1 DEF NoEvent, Actions
<1>11. ReviewTypeOK
  BY <1>1, <1>3, <1>6, <1>7, <1>8, <1>9, <1>10 DEF ReviewTypeOK
<1>12. DistinctNumbers
  BY <1>1, <1>2, <1>3 DEF IsCandidate, DistinctNumbers
<1>13. QED
  BY <1>5, <1>11, <1>12 DEF IInv, ReviewReloads

\* Every operation of the service keeps the invariant.
LEMMA NextKeepsIInv ==
  IInv /\ [Next]_vars => IInv'
<1> SUFFICES ASSUME IInv, [Next]_vars PROVE IInv'
  OBVIOUS
<1>1. ASSUME NEW p \in DOMAIN field, Accept(p) \/ RetainUnknown(p) \/ Reject(p)
      PROVE  IInv'
  <2>1. PICK d \in Dispositions, r \in BOOLEAN,
             action \in {"accept", "retain-unknown", "reject"} :
          Change(p, action, [field[p] EXCEPT !.disposition = d, !.retained = r])
    BY <1>1 DEF Accept, RetainUnknown, Reject, Dispositions
  <2>2. field[p] \in Assertion /\ ProvenanceValid(field[p])
    BY DEF IInv, ReviewTypeOK, ReviewReloads
  <2>3. action \in Actions
    BY DEF Actions
  <2>4. QED
    BY <2>1, <2>2, <2>3, JudgedIsValid, ChangeKeeps
<1>2. ASSUME NEW p \in DOMAIN field, NEW v \in Values, NEW o \in Origins,
             Correct(p, v, o) \/ ResolveUnknown(p, v, o)
      PROVE  IInv'
  <2>1. PICK action \in {"correct", "resolve-unknown"} :
          Correction(v, o) /\ Change(p, action, Corrected(field[p], v, o))
    BY <1>2 DEF Correct, ResolveUnknown
  <2>2. action \in Actions
    BY DEF Actions
  <2>3. QED
    BY <2>1, <2>2, CorrectedIsValid, ChangeKeeps
<1>3. ASSUME NEW s \in Steps, NEW v \in Values, AddItem(s, v)
      PROVE  IInv'
  BY <1>3, AddItemKeeps
<1>4. ASSUME NEW rank, ReorderSteps(rank)
      PROVE  IInv'
  <2>1. /\ rank \in [Kept -> 1 .. Cardinality(Kept)]
        /\ \A s, t \in Kept : rank[s] = rank[t] => s = t
        /\ sequence' = [s \in Steps |-> IF s \in Kept THEN rank[s] ELSE sequence[s]]
        /\ orderAccepted' = FALSE
        /\ event' = Recorded(OrderPath, "reorder-steps", rank)
        /\ UNCHANGED <<field, kept, dependency, primary, conflicts>>
    BY <1>4 DEF ReorderSteps, IsOrder, OrderReset
  <2>2. Steps' = Steps /\ Kept' = Kept /\ Kept \subseteq Steps
    BY <2>1 DEF Steps, Kept
  <2>3. \A s \in Kept : rank[s] \in Nat
    BY <2>1
  <2>4. sequence' \in [Steps -> Nat]
    BY <2>1, <2>3 DEF IInv, ReviewTypeOK
  <2>5. \A s \in Kept : sequence'[s] = rank[s]
    BY <2>1, <2>2
  <2>6. DistinctNumbers'
    BY <2>1, <2>2, <2>5 DEF DistinctNumbers
  <2>7. event'.action \in Actions
    BY <2>1 DEF Recorded, Actions
  <2>8. QED
    BY <2>1, <2>2, <2>4, <2>6, <2>7, RestKeeps DEF IInv, ReviewTypeOK
<1>5. ASSUME NEW s \in Steps, RemoveStep(s)
      PROVE  IInv'
  <2>1. /\ kept' = [kept EXCEPT ![s] = FALSE]
        /\ orderAccepted' = FALSE
        /\ event' = Recorded(StepPath(s), "reject", FALSE)
        /\ UNCHANGED <<field, sequence, dependency, primary, conflicts>>
    BY <1>5 DEF RemoveStep, OrderReset
  <2>2. kept' \in [Steps -> BOOLEAN]
    BY <2>1 DEF IInv, ReviewTypeOK
  <2>3. Steps' = Steps /\ Kept' \subseteq Kept
    BY <2>1 DEF Steps, Kept, IInv, ReviewTypeOK
  <2>4. DistinctNumbers'
    BY <2>1, <2>3 DEF IInv, DistinctNumbers
  <2>5. event'.action \in Actions
    BY <2>1 DEF Recorded, Actions
  <2>6. QED
    BY <2>1, <2>2, <2>3, <2>4, <2>5, RestKeeps DEF IInv, ReviewTypeOK
<1>6. ASSUME AcceptStepOrder
      PROVE  IInv'
  <2>1. Steps' = Steps /\ Kept' = Kept
    BY <1>6 DEF AcceptStepOrder, Steps, Kept
  <2>2. DistinctNumbers'
    BY <1>6, <2>1 DEF AcceptStepOrder, IInv, DistinctNumbers
  <2>3. event'.action \in Actions
    BY <1>6 DEF AcceptStepOrder, Recorded, Actions
  <2>4. QED
    BY <1>6, <2>1, <2>2, <2>3, RestKeeps DEF AcceptStepOrder, IInv, ReviewTypeOK
<1>7. ASSUME NEW l \in DOMAIN dependency, NEW t \in Steps \cup {None},
             CorrectDependency(l, t) \/ RejectDependency(l)
      PROVE  IInv'
  <2>1. PICK action \in {"correct-dependency", "reject"},
             after \in {Targeted(l, t), Dropped(l)} :
          Link(l, action, after)
    BY <1>7 DEF CorrectDependency, RejectDependency
  <2>2. /\ dependency' = [dependency EXCEPT ![l] = after]
        /\ event' = Recorded(LinkPath(l), action, after)
        /\ UNCHANGED <<field, sequence, kept, orderAccepted, primary, conflicts>>
    BY <2>1 DEF Link
  <2>3. after \in [target : Steps \cup {None}, retained : BOOLEAN]
    <3>1. dependency[l] \in [target : Steps \cup {None}, retained : BOOLEAN]
      BY DEF IInv, ReviewTypeOK
    <3>2. Targeted(l, t) \in [target : Steps \cup {None}, retained : BOOLEAN]
      BY <3>1 DEF Targeted
    <3>3. Dropped(l) \in [target : Steps \cup {None}, retained : BOOLEAN]
      BY <3>1 DEF Dropped
    <3>4. QED
      BY <3>2, <3>3
  <2>4. dependency' \in [DOMAIN dependency' ->
                           [target : Steps \cup {None}, retained : BOOLEAN]]
    BY <2>2, <2>3 DEF IInv, ReviewTypeOK
  <2>5. Steps' = Steps /\ Kept' = Kept
    BY <2>2 DEF Steps, Kept
  <2>6. DistinctNumbers'
    BY <2>2, <2>5 DEF IInv, DistinctNumbers
  <2>7. event'.action \in Actions
    BY <2>2 DEF Recorded, Actions
  <2>8. QED
    BY <2>2, <2>4, <2>5, <2>6, <2>7, RestKeeps DEF IInv, ReviewTypeOK
<1>8. ASSUME NEW s \in Steps, NEW a \in Values \cup {None}, SelectPrimaryActor(s, a)
      PROVE  IInv'
  <2>1. Steps' = Steps /\ Kept' = Kept
    BY <1>8 DEF SelectPrimaryActor, Steps, Kept
  <2>2. primary' \in [Steps -> Values \cup {None}]
    BY <1>8 DEF SelectPrimaryActor, IInv, ReviewTypeOK
  <2>3. DistinctNumbers'
    BY <1>8, <2>1 DEF SelectPrimaryActor, IInv, DistinctNumbers
  <2>4. event'.action \in Actions
    BY <1>8 DEF SelectPrimaryActor, Recorded, Actions
  <2>5. QED
    BY <1>8, <2>1, <2>2, <2>3, <2>4, RestKeeps
       DEF SelectPrimaryActor, IInv, ReviewTypeOK
<1>9. ASSUME NEW c \in DOMAIN conflicts, ResolveConflict(c)
      PROVE  IInv'
  <2>1. Steps' = Steps /\ Kept' = Kept
    BY <1>9 DEF ResolveConflict, Steps, Kept
  <2>2. conflicts' \in [DOMAIN conflicts' -> {"open", "resolved"}]
    BY <1>9 DEF ResolveConflict, IInv, ReviewTypeOK
  <2>3. DistinctNumbers'
    BY <1>9, <2>1 DEF ResolveConflict, IInv, DistinctNumbers
  <2>4. event'.action \in Actions
    BY <1>9 DEF ResolveConflict, Recorded, Actions
  <2>5. QED
    BY <1>9, <2>1, <2>2, <2>3, <2>4, RestKeeps DEF ResolveConflict, IInv, ReviewTypeOK
<1>10. ASSUME UNCHANGED vars
       PROVE  IInv'
  BY <1>10 DEF vars, IInv, ReviewTypeOK, ReviewReloads, DistinctNumbers, Steps, Kept
<1>11. QED
  BY <1>1, <1>2, <1>3, <1>4, <1>5, <1>6, <1>7, <1>8, <1>9, <1>10 DEF Next

THEOREM Inductive ==
  Spec => []IInv
<1>1. QED
  BY InitIInv, NextKeepsIInv, PTL DEF Spec

\* The variables keep their types through every review
\* (models/review.py).
THEOREM TypeCorrect ==
  Spec => []ReviewTypeOK
<1>1. IInv => ReviewTypeOK
  BY DEF IInv
<1>2. QED
  BY <1>1, Inductive, PTL

\* A review that was saved can always be opened again
\* (validate_review_provenance).
THEOREM ReviewReloadsHolds ==
  Spec => []ReviewReloads
<1>1. IInv => ReviewReloads
  BY DEF IInv
<1>2. QED
  BY <1>1, Inductive, PTL

\* A session without approval errors projects to references and numbers that
\* BusinessProcess accepts (_approval_errors).
THEOREM PreflightCompleteHolds ==
  Spec => []PreflightComplete
<1>1. IInv => PreflightComplete
  <2> SUFFICES ASSUME IInv, NoApprovalErrors PROVE ReferencesAccepted(Projected)
    BY DEF PreflightComplete
  <2>1. /\ Projected.sequence = [s \in Kept |-> sequence[s]]
        /\ Projected.dependencies =
             [s \in Kept |-> {dependency[l].target : l \in LinksOf(s)} \ {None}]
    BY DEF Projected
  <2>2. ASSUME NEW s \in Kept
        PROVE  {dependency[l].target : l \in LinksOf(s)} \subseteq Kept \ {s}
    BY DEF NoApprovalErrors, TargetsKept, LinksOf
  <2>3. QED
    BY <2>1, <2>2 DEF ReferencesAccepted, IInv, DistinctNumbers
<1>2. QED
  BY <1>1, Inductive, PTL

\* An accepted order is the order of the steps until it is accepted anew:
\* no step of the system changes the one and leaves the other (remove_step,
\* reorder_steps).
THEOREM AcceptedOrderHolds ==
  Spec => AcceptedOrderStands
<1>1. [Next]_vars => [orderAccepted' => Order' = Order]_vars
  <2> SUFFICES ASSUME Next, orderAccepted' PROVE Order' = Order
    OBVIOUS
  <2>1. UNCHANGED <<sequence, kept>>
    BY DEF Next, Accept, RetainUnknown, Reject, Correct, ResolveUnknown, Change,
           AddItem, ReorderSteps, RemoveStep, OrderReset, AcceptStepOrder, Link,
           RejectDependency, CorrectDependency, SelectPrimaryActor, ResolveConflict
  <2>2. QED
    BY <2>1 DEF Order, Kept, Steps
<1>2. QED
  BY <1>1, PTL DEF Spec, AcceptedOrderStands

\* Every step that changes an assertion or a dependency leaves the event of
\* that change at the end of the trail (_record).
THEOREM EveryChangeRecordedHolds ==
  Spec => EveryChangeRecorded
<1> DEFINE FieldsRecorded ==
             \A p \in DOMAIN field' :
               \/ p \in DOMAIN field /\ field'[p] = field[p]
               \/ InTrail(p, field[p])'
           LinksRecorded ==
             \A l \in DOMAIN dependency :
               \/ dependency'[l] = dependency[l]
               \/ InTrail(LinkPath(l), dependency[l])'
<1>1. IInv /\ [Next]_vars => [FieldsRecorded /\ LinksRecorded]_vars
  <2> SUFFICES ASSUME IInv, Next PROVE FieldsRecorded /\ LinksRecorded
    OBVIOUS
  <2>1. ASSUME NEW p \in DOMAIN field, NEW action, NEW after, Change(p, action, after)
        PROVE  FieldsRecorded /\ LinksRecorded
    <3>1. /\ field' = [field EXCEPT ![p] = after]
          /\ event' = [path |-> p, action |-> action, after |-> after]
          /\ UNCHANGED dependency
      BY <2>1 DEF Change, Recorded
    <3>2. DOMAIN field' = DOMAIN field /\ field'[p] = after
      BY <3>1 DEF IInv, ReviewTypeOK
    <3>3. \A q \in DOMAIN field : q # p => field'[q] = field[q]
      BY <3>1 DEF IInv, ReviewTypeOK
    <3>4. InTrail(p, field[p])'
      BY <3>1, <3>2 DEF InTrail
    <3>5. QED
      BY <3>1, <3>2, <3>3, <3>4
  <2>2. ASSUME NEW s \in Steps, NEW v \in Values, AddItem(s, v)
        PROVE  FieldsRecorded /\ LinksRecorded
    <3>1. PICK p, item :
            /\ field' = [q \in DOMAIN field \cup {p} |->
                           IF q = p THEN item ELSE field[q]]
            /\ event' = [path |-> p, action |-> "resolve-unknown", after |-> item]
            /\ UNCHANGED dependency
      BY <2>2 DEF AddItem, Recorded
    <3>2. field'[p] = item /\ \A q \in DOMAIN field' : q # p => field'[q] = field[q]
      BY <3>1
    <3>3. \A q \in DOMAIN field' : q # p => q \in DOMAIN field
      BY <3>1
    <3>4. InTrail(p, field[p])'
      BY <3>1, <3>2 DEF InTrail
    <3>5. QED
      BY <3>1, <3>2, <3>3, <3>4
  <2>3. ASSUME NEW l \in DOMAIN dependency, NEW action, NEW after,
               Link(l, action, after)
        PROVE  FieldsRecorded /\ LinksRecorded
    <3>1. /\ dependency' = [dependency EXCEPT ![l] = after]
          /\ event' = [path |-> LinkPath(l), action |-> action, after |-> after]
          /\ UNCHANGED field
      BY <2>3 DEF Link, Recorded
    <3>2. dependency'[l] = after
      BY <3>1 DEF IInv, ReviewTypeOK
    <3>3. \A k \in DOMAIN dependency : k # l => dependency'[k] = dependency[k]
      BY <3>1 DEF IInv, ReviewTypeOK
    <3>4. InTrail(LinkPath(l), dependency[l])'
      BY <3>1, <3>2 DEF InTrail
    <3>5. QED
      BY <3>1, <3>2, <3>3, <3>4
  <2>4. ASSUME UNCHANGED <<field, dependency>>
        PROVE  FieldsRecorded /\ LinksRecorded
    BY <2>4
  <2> HIDE DEF FieldsRecorded, LinksRecorded
  <2>5. \/ \E p \in DOMAIN field : \E action, after : Change(p, action, after)
        \/ \E s \in Steps, v \in Values : AddItem(s, v)
        \/ \E l \in DOMAIN dependency : \E action, after : Link(l, action, after)
        \/ UNCHANGED <<field, dependency>>
    BY DEF Next, Accept, RetainUnknown, Reject, Correct, ResolveUnknown,
           ReorderSteps, RemoveStep, AcceptStepOrder, RejectDependency,
           CorrectDependency, SelectPrimaryActor, ResolveConflict
  <2>6. QED
    BY <2>1, <2>2, <2>3, <2>4, <2>5
<1>2. QED
  BY <1>1, Inductive, PTL DEF Spec, EveryChangeRecorded

\* What the reviewer accepted stands, and the trail tells all that was changed.
THEOREM ReviewRecordedHolds == Spec => ReviewRecorded
BY AcceptedOrderHolds, EveryChangeRecordedHolds, PTL DEF ReviewRecorded
=============================================================================
