------------------------ MODULE EvidencePreparation ------------------------
(***************************************************************************)
(* From proposals to a candidate set: human review                         *)
(* (supporting_evidence/review.py), mapping to formal inputs, the candidate *)
(* set and its readiness (conversion.py), through the transactions of      *)
(* SQLiteFormalEvidenceRepository.                                         *)
(*                                                                         *)
(* A call reads, then reads the latest workflow event, then writes.  The   *)
(* write is refused when an event came between; since the event read may   *)
(* directly precede the write, the two are one step here, and a call that  *)
(* was overtaken is one that is given up.                                  *)
(***************************************************************************)
EXTENDS Naturals, Sequences, FiniteSets

CONSTANTS Reviewers, Documents, Proposals,
          DocOf,            \* [proposal -> the document it was extracted from]
          Order,            \* the proposals in the order a queue lists them
          Kinds,            \* the outcomes of a review in use
          Dispositions,     \* the mappings in use
          MaxEvents         \* bound on the workflow events of the lifecycle

Approved == {"FACT", "INFERENCE"}

ASSUME PreparationAssumption ==
    /\ DocOf \in [Proposals -> Documents]
    /\ Order \in Seq(Proposals)
    /\ \A p \in Proposals : \E i \in DOMAIN Order : Order[i] = p
    /\ Kinds \subseteq Approved \cup {"REJECTED", "UNKNOWN", "CONFLICT"}
    \* A mapping with a value, one without (activity evidence, a null), or none.
    /\ Dispositions \subseteq {"VALUE", "BLANK", "CONTEXT_ONLY"}
    /\ MaxEvents \in Nat

\* A document waits while it has no usable extraction attempt.
CurrentStatuses == {"waiting", "usable"}
DocStatuses == CurrentStatuses \cup {"absent", "replaced"}

VARIABLES docs,         \* document -> where its latest extraction attempt stands
          reviews,      \* proposal -> its review revisions
          maps,         \* proposal -> the mappings of its latest review
          candidate,    \* the latest candidate set
          readiness,    \* the latest readiness of that set
          events,       \* the number of the latest workflow event
          calls           \* reviewer -> the call under way

prepVars == <<docs, reviews, maps, candidate, readiness, events, calls>>

\* A review revision, with the revisions of other proposals it cites.
Review == [kind : Kinds, refs : SUBSET (Proposals \X (1..MaxEvents))]

NoCall == [step |-> "idle"]
NoCandidate == [number |-> 0]
NotEvaluated == "NOT_EVALUATED"
Readiness == {NotEvaluated, "READY_TO_ATTEMPT", "NOT_READY"}

PrepInit ==
    /\ docs = [d \in Documents |-> "absent"]
    /\ reviews = [p \in Proposals |-> << >>]
    /\ maps = [p \in Proposals |-> << >>]
    /\ candidate = NoCandidate
    /\ readiness = NotEvaluated
    /\ events = 0
    /\ calls = [s \in Reviewers |-> NoCall]

CurrentDocs == {d \in Documents : docs[d] \in CurrentStatuses}

\* The proposals of the usable attempt of every current document.
Proposed == {p \in Proposals : docs[DocOf[p]] = "usable"}

LastOf(seq) == seq[Len(seq)]
Reviewed(p) == reviews[p] # << >>
Kind(ref) == reviews[ref[1]][ref[2]].kind

\* A reference names a proposal and the number of one of its reviews.
IsCurrent(ref) == ref[1] \in Proposed /\ ref[2] = Len(reviews[ref[1]]) /\ ref[2] > 0

\* What an inference, or a conflict, may cite.
Citable(ref, kind) ==
    IsCurrent(ref) /\ Kind(ref) \in (IF kind = "INFERENCE" THEN {"FACT"} ELSE Approved)

\* review_proposal: an inference needs a fact, a conflict two approved reviews,
\* of other proposals; no other review cites any.
ReferencesFor(p, kind) ==
    LET citable == {<<q, Len(reviews[q])>> : q \in {o \in Proposals \ {p} : Citable(<<o, Len(reviews[o])>>, kind)}}
    IN CASE kind = "INFERENCE" -> (SUBSET citable) \ {{}}
         [] kind = "CONFLICT" -> {refs \in SUBSET citable : Cardinality(refs) >= 2}
         [] kind \notin {"INFERENCE", "CONFLICT"} -> {{}}

ReferencesCurrent(p) == \A ref \in LastOf(reviews[p]).refs : IsCurrent(ref)

Calling(s, call) == calls' = [calls EXCEPT ![s] = call]
evidence == <<docs, reviews, maps, candidate, readiness, events>>

\* What a reviewer starts; what is read is in the call.
Starts(s, call) == calls[s] = NoCall /\ Calling(s, call) /\ UNCHANGED evidence

\* The terminal event of a write, in its transaction.
AddsEvent == events < MaxEvents /\ events' = events + 1

ReviewCalls ==
    UNION {UNION {
      {[step |-> "review", proposal |-> p, prior |-> Len(reviews[p]), kind |-> kind, refs |-> refs]
         : refs \in ReferencesFor(p, kind)} : kind \in Kinds} : p \in Proposed}

\* append_review_revision checks the proposal and every reference again.
Rests(call) ==
    /\ call.proposal \in Proposed
    /\ \A ref \in call.refs : Citable(ref, call.kind)

\* A mapping belongs to one review; a new review has none.
Unmapped(p) == [maps EXCEPT ![p] = << >>]

AppendReview(call) ==
    LET p == call.proposal IN
    /\ call.step = "review"
    /\ Len(reviews[p]) = call.prior /\ Rests(call)
    /\ reviews' = [reviews EXCEPT ![p] = Append(@, [kind |-> call.kind, refs |-> call.refs])]
    /\ maps' = Unmapped(p)
    /\ AddsEvent
    /\ UNCHANGED <<docs, candidate, readiness>>

\* _write_mapping: an approved review whose references are current.
MapCalls ==
    {[step |-> "map", proposal |-> p, review |-> Len(reviews[p]), prior |-> Len(maps[p]),
      disposition |-> disposition]
       : p \in {q \in Proposed : Reviewed(q) /\ ReferencesCurrent(q) /\ LastOf(reviews[q]).kind \in Approved},
         disposition \in Dispositions}

\* append_formal_mapping: the review, and the facts a mapped inference names.
MapRests(call) ==
    /\ IsCurrent(<<call.proposal, call.review>>)
    /\ \/ call.disposition = "CONTEXT_ONLY"
       \/ \A ref \in reviews[call.proposal][call.review].refs : Citable(ref, "INFERENCE")

AppendMapping(call) ==
    /\ call.step = "map"
    /\ MapRests(call) /\ Len(maps[call.proposal]) = call.prior
    /\ maps' = [maps EXCEPT ![call.proposal] = Append(@, call.disposition)]
    /\ AddsEvent
    /\ UNCHANGED <<docs, reviews, candidate, readiness>>

\* The attempts of the current documents, as a candidate set records them.
DocsNow == [d \in CurrentDocs |-> docs[d]]

Processed(excluded) == \A d \in CurrentDocs \ excluded : docs[d] = "usable"

\* prepare_candidate_set: the documents first.
PrepareCalls ==
    {[step |-> "prepare", documents |-> DocsNow, excluded |-> excluded, seen |-> [p \in {} |-> 0]]
       : excluded \in {out \in SUBSET CurrentDocs : Processed(out)}}

Reviewable(p) == Reviewed(p) /\ ReferencesCurrent(p)

\* The proposals extracted from the documents that are not excluded.
Included(call) ==
    {p \in Proposals : /\ DocOf[p] \in DOMAIN call.documents \ call.excluded
                       /\ call.documents[DocOf[p]] = "usable"}

\* The review queue is read proposal by proposal; one without a review, or with
\* a stale reference, blocks.
SeeReview(s) ==
    LET call == calls[s]
        unseen == Included(call) \ DOMAIN call.seen
    IN  /\ call.step = "prepare"
        /\ \E i \in DOMAIN Order :
             LET p == Order[i] IN
             /\ p \in unseen /\ \A j \in 1..(i - 1) : Order[j] \notin unseen
             /\ Reviewable(p)
             /\ Calling(s, [call EXCEPT !.seen = [q \in DOMAIN @ \cup {p} |->
                                                    IF q = p THEN Len(reviews[p]) ELSE @[q]]])
        /\ UNCHANGED evidence

\* The contract of a candidate set: facts of a mapped inference are in it.
FactsWithin(seen, p) ==
    LastOf(maps[p]) # "CONTEXT_ONLY" =>
      \A ref \in LastOf(reviews[p]).refs : ref[1] \in DOMAIN seen /\ seen[ref[1]] = ref[2]

Mapped(p) == maps[p] # << >>

ApprovedOf(seen) == {p \in DOMAIN seen : Reviewed(p) /\ LastOf(reviews[p]).kind \in Approved}

\* Every review in the set that is approved has its mapping.
Mappable(seen) ==
    /\ \A p \in DOMAIN seen : seen[p] = Len(reviews[p])
    /\ \A p \in ApprovedOf(seen) : Mapped(p)
    /\ \A p \in ApprovedOf(seen) : maps[p] # << >> => FactsWithin(seen, p)

\* The candidate set of what was seen, with the mappings as they are and the set
\* before it.
SetOf(documents, excluded, seen) ==
    [number |-> candidate.number + 1, documents |-> documents, excluded |-> excluded, reviews |-> seen,
     maps |-> [p \in {q \in ApprovedOf(seen) : maps[q] # << >>} |-> <<Len(maps[p]), LastOf(maps[p])>>]]

SeeMappings(s) ==
    LET call == calls[s] IN
    /\ call.step = "prepare" /\ DOMAIN call.seen = Included(call)
    /\ Mappable(call.seen)
    /\ Calling(s, [step |-> "candidate", set |-> SetOf(call.documents, call.excluded, call.seen)])
    /\ UNCHANGED evidence

\* Mutant: mappings are not compared with the latest ones.
AnyMapping(set) == TRUE

\* A mapped review still has the mapping of the set; a context-only one is still
\* context only.
MappingsCurrent(set) ==
    \A p \in DOMAIN set.maps :
      IF set.maps[p][2] = "CONTEXT_ONLY" THEN maps[p] # << >> /\ LastOf(maps[p]) = "CONTEXT_ONLY"
      ELSE Len(maps[p]) = set.maps[p][1]

\* Mutant: the proposals reviewed are compared, not their latest reviews.
AnyReview(set) ==
    /\ set.documents = DocsNow
    /\ {p \in Proposals : DocOf[p] \in DOMAIN set.documents /\ set.documents[DocOf[p]] = "usable"
                           /\ Reviewed(p)} = DOMAIN set.reviews
    /\ \A p \in DOMAIN set.maps :
         IF maps[p] = << >> THEN TRUE ELSE set.maps[p] = <<Len(maps[p]), LastOf(maps[p])>>

\* _validate_candidate_snapshot: the reviews are those of every proposal of
\* every document of the set, excluded ones too.
SnapshotCurrent(set) ==
    /\ set.documents = DocsNow
    /\ {p \in Proposals : DocOf[p] \in DOMAIN set.documents /\ set.documents[DocOf[p]] = "usable"
                           /\ Reviewed(p)} = DOMAIN set.reviews
    /\ \A p \in DOMAIN set.reviews : set.reviews[p] = Len(reviews[p])
    /\ MappingsCurrent(set)

CandidateCurrent == candidate.number > 0 /\ SnapshotCurrent(candidate)

AppendCandidate(call) ==
    /\ call.step = "candidate"
    /\ call.set.number = candidate.number + 1
    /\ SnapshotCurrent(call.set)
    /\ candidate' = call.set
    /\ readiness' = NotEvaluated
    /\ AddsEvent
    /\ UNCHANGED <<docs, reviews, maps>>

\* A mapping with a value is what makes a set worth attempting.
Positive(set) == \E p \in DOMAIN set.maps : set.maps[p][2] = "VALUE"

\* evaluate_and_persist_readiness, of a set that is current when it is read.
ReadinessCalls ==
    {[step |-> "readiness", number |-> candidate.number,
      status |-> IF Positive(candidate) THEN "READY_TO_ATTEMPT" ELSE "NOT_READY"]
       : current \in {TRUE} \cap {CandidateCurrent}}

\* append_readiness: the set is still the latest, and still current.
AppendReadiness(call) ==
    /\ call.step = "readiness"
    /\ call.number = candidate.number /\ SnapshotCurrent(candidate)
    /\ readiness' = call.status
    /\ AddsEvent
    /\ UNCHANGED <<docs, reviews, maps, candidate>>

\* get_current_preparation_state: what the page and a formal run go by.
ShownReady == CandidateCurrent /\ readiness = "READY_TO_ATTEMPT"

\* A call is refused, overtaken by an event, blocked, or its session ends.
GiveUp(s) ==
    /\ calls[s] # NoCall
    /\ Calling(s, NoCall)
    /\ UNCHANGED evidence

\* Documents are stored and replaced without an event; their attempts end.
StoreDocument(d) ==
    /\ docs[d] = "absent"
    /\ \/ docs' = [docs EXCEPT ![d] = "waiting"]
       \/ \E old \in CurrentDocs : docs' = [docs EXCEPT ![d] = "waiting", ![old] = "replaced"]
    /\ UNCHANGED <<reviews, maps, candidate, readiness, events, calls>>

EndAttempt(d) ==
    /\ docs[d] = "waiting"
    /\ docs' = [docs EXCEPT ![d] = "usable"]
    /\ UNCHANGED <<reviews, maps, candidate, readiness, events, calls>>

\* Only the service chooses what a call reads.
PrepCalls == ReviewCalls \cup MapCalls \cup PrepareCalls \cup ReadinessCalls

Appends(call) ==
    AppendReview(call) \/ AppendMapping(call) \/ AppendCandidate(call) \/ AppendReadiness(call)

Write(s) == Appends(calls[s]) /\ Calling(s, NoCall)

PrepNext ==
    \/ \E s \in Reviewers :
         \/ \E call \in PrepCalls : Starts(s, call)
         \/ SeeReview(s) \/ SeeMappings(s) \/ Write(s) \/ GiveUp(s)
    \/ \E d \in Documents : StoreDocument(d) \/ EndAttempt(d)

PrepSpec == PrepInit /\ [][PrepNext]_prepVars

-----------------------------------------------------------------------------
(***************************************************************************)
(* What a candidate set and its readiness promise while reviews, mappings  *)
(* and documents change under them.                                        *)
(***************************************************************************)

\* Reviews, mappings, the candidate set and its readiness have their declared
\* form (models/formal_evidence.py), and a review cites earlier reviews only.
PrepTypeOK ==
    /\ docs \in [Documents -> DocStatuses]
    /\ \A p \in Proposals :
         /\ \A n \in 1..Len(reviews[p]) :
              /\ reviews[p][n] \in Review
              /\ \A ref \in reviews[p][n].refs : ref[1] # p /\ ref[2] \in 1..Len(reviews[ref[1]])
         /\ \A n \in 1..Len(maps[p]) : maps[p][n] \in Dispositions
         /\ maps[p] # << >> => Reviewed(p) /\ LastOf(reviews[p]).kind \in Approved
    /\ candidate.number \in 0..events /\ events \in 0..MaxEvents
    /\ readiness \in Readiness
    /\ candidate.number = 0 => readiness = NotEvaluated

\* A candidate set that still counts as current is complete: each current
\* document was read or is excluded, each proposal of the others has been
\* reviewed, and each approved review is mapped or context only
\* (the five flags of FormalEvidenceReadiness, set to true by the code).
CurrentCandidateComplete ==
    CandidateCurrent =>
      /\ \A d \in CurrentDocs \ candidate.excluded : docs[d] = "usable"
      /\ \A p \in Proposed : DocOf[p] \notin candidate.excluded =>
           /\ Reviewed(p) /\ p \in DOMAIN candidate.reviews
           /\ LastOf(reviews[p]).kind \in Approved => maps[p] # << >>

\* An inference that a current candidate set maps rests on current facts, though
\* neither the transaction nor the check for currency looks at them again: the
\* set holds the reviews of its facts, and these it does compare.
MappedFactsAreCurrent ==
    CandidateCurrent =>
      \A p \in DOMAIN candidate.maps :
        candidate.maps[p][2] # "CONTEXT_ONLY" =>
          \A ref \in LastOf(reviews[p]).refs : Citable(ref, "INFERENCE")

\* Evidence shown as ready to attempt has a mapping with a value now, of a
\* review that is approved now: remapping or a new review takes readiness away.
ReadyHasValue ==
    ShownReady =>
      \E p \in Proposed :
        Reviewed(p) /\ LastOf(reviews[p]).kind \in Approved /\ maps[p] # << >> /\ LastOf(maps[p]) = "VALUE"

\* What the page shows as prepared or ready is so now.
PreparedIsCurrent == CurrentCandidateComplete /\ ReadyHasValue

\* A write never rests on a review that had been superseded before it: what a
\* call read is read again inside the transaction.
NothingRestsOnStale ==
    [][\A p \in Proposals :
         /\ reviews'[p] # reviews[p] => \A ref \in LastOf(reviews'[p]).refs : IsCurrent(ref)
         /\ (maps'[p] # maps[p] /\ maps'[p] # << >> /\ LastOf(maps'[p]) # "CONTEXT_ONLY")
              => \A ref \in LastOf(reviews[p]).refs : IsCurrent(ref)]_prepVars

\* D-036 (02_DECISIONS.md:396): preparation needs every document processed or
\* explicitly excluded.  While nothing changes, what passed every blocker is
\* stored.
CompleteIsPrepared ==
    \A s \in Reviewers :
      calls[s].step = "candidate" /\ calls[s].set.documents = DocsNow /\ calls[s].set.number = candidate.number + 1
        => SnapshotCurrent(calls[s].set)
=============================================================================
