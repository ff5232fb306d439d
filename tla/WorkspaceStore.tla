--------------------------- MODULE WorkspaceStore ---------------------------
(***************************************************************************)
(* The durable state of one assessment workspace and the transactions of   *)
(* SQLiteAssessmentRepository on it (persistence/sqlite.py).               *)
(*                                                                         *)
(* Every write method runs under BEGIN IMMEDIATE and commits or rolls back *)
(* as a whole, so each one is a single action here: a condition Can... for *)
(* the checks that raise (and roll back), and an effect.  Generated        *)
(* identifiers are opaque, so an artifact is named by its position in the  *)
(* order of insertion, starting with 1; 0 stands for None.                 *)
(*                                                                         *)
(* The store serves the modules that call it; it has no Next of its own.   *)
(***************************************************************************)
EXTENDS Integers, Sequences, FiniteSets

CONSTANTS
  Docs,             \* the source documents a user may upload
  UnreadableDocs,   \* those whose ingestion yields no document
  Edits,            \* the reviewer's decisions (audit events) on one review
  RequiredEdits,    \* those that approval requires
  NoDoc             \* not a document

ASSUME DocsAssumption ==
  /\ UnreadableDocs \subseteq Docs
  /\ NoDoc \notin Docs
ASSUME EditsAssumption == RequiredEdits \subseteq Edits

VARIABLES
  exists,      \* the row of the assessment is there
  stage,       \* assessments.current_stage
  pin,         \* the decision contract the assessment is pinned to
  artifacts,   \* assessment_artifacts, in order of insertion
  active,      \* active_artifacts: the active artifact of each type, or 0
  operations   \* assessment_operations, by operation kind and key

storeVars == <<exists, stage, pin, artifacts, active, operations>>

(***************************************************************************)
(* Types                                                                   *)
(***************************************************************************)
Chain == <<"INGESTION_RESULT", "CANDIDATE_EXTRACTION_RESULT",
           "REVIEW_SESSION", "APPROVED_REVIEW",
           "INTEGRATED_ASSESSMENT_RESULT", "DECISION_PACKAGE_RESULT">>
ArtifactType == {Chain[i] : i \in DOMAIN Chain}

WorkflowStage == {"new", "ingested", "candidate-ready", "in-review",
                  "approved", "assessed", "package-ready"}
Contract == {"phase1-v0.3", "phase1-v0.4"}
OperationKind == {"INGEST", "EXTRACT", "ASSESS", "GENERATE_PACKAGE"}

\* A review payload: which session it is, and the audit events in its trail.
Review == [session : Nat, edits : SUBSET Edits]
NoReview == [session |-> 0, edits |-> {}]

\* doc is the source of an ingestion; ok says that the payload is a success
\* (an ingestion: that it has a document); review is set for reviews and
\* approvals only; contract only for assessments and packages.
Artifact == [type : ArtifactType, parent : Nat, doc : Docs \cup {NoDoc},
             ok : BOOLEAN, review : Review,
             contract : Contract \cup {"none"}]

\* <<kind, subject, retried artifact>>: a digest of the upload, or the
\* identifier of the parent artifact.
OperationKey == OperationKind \X (Docs \cup {NoDoc} \cup Nat) \X Nat
NoKey == <<"none", 0, 0>>
Operation == [status : {"started", "completed", "failed"}, produced : Nat]

\* The artifact types from position i of the chain on.
From(i) == {Chain[j] : j \in i..Len(Chain)}
NoneActive == [t \in ArtifactType |-> 0]
NoOperations == [k \in {} |-> 0]

StoreTypeOK ==
  /\ exists \in BOOLEAN
  /\ stage \in WorkflowStage
  /\ pin \in Contract
  /\ artifacts \in Seq(Artifact)
  /\ active \in [ArtifactType -> Nat]
  /\ \A t \in ArtifactType : active[t] # 0 =>
       active[t] \in DOMAIN artifacts /\ artifacts[active[t]].type = t
  /\ DOMAIN operations \subseteq OperationKey
  /\ \A k \in DOMAIN operations : operations[k] \in Operation

StoreInit ==
  /\ exists = TRUE
  /\ stage = "new"
  /\ pin = "phase1-v0.3"
  /\ artifacts = << >>
  /\ active = NoneActive
  /\ operations = NoOperations

(***************************************************************************)
(* Reads                                                                   *)
(***************************************************************************)
ExpectedParent(t) ==
  CASE t = "CANDIDATE_EXTRACTION_RESULT"  -> "INGESTION_RESULT"
    [] t = "REVIEW_SESSION"               -> "CANDIDATE_EXTRACTION_RESULT"
    [] t = "APPROVED_REVIEW"              -> "REVIEW_SESSION"
    [] t = "INTEGRATED_ASSESSMENT_RESULT" -> "APPROVED_REVIEW"
    [] t = "DECISION_PACKAGE_RESULT"      -> "INTEGRATED_ASSESSMENT_RESULT"
    [] OTHER                              -> "none"

RequiredActive(s) ==
  CASE s = "ingested"        -> "INGESTION_RESULT"
    [] s = "candidate-ready" -> "CANDIDATE_EXTRACTION_RESULT"
    [] s = "in-review"       -> "REVIEW_SESSION"
    [] s = "approved"        -> "APPROVED_REVIEW"
    [] s = "assessed"        -> "INTEGRATED_ASSESSMENT_RESULT"
    [] s = "package-ready"   -> "DECISION_PACKAGE_RESULT"
    [] OTHER                 -> "none"

\* An active artifact of type t, if there is one, is linked to the active
\* artifact of the type before it.
Linked(t) ==
  active[t] # 0 =>
    LET p == active[ExpectedParent(t)]
    IN p # 0 /\ artifacts[active[t]].parent = p

\* load_workspace does not raise, given the stage it read before.
ActiveChainValid(s) ==
  /\ Linked("INTEGRATED_ASSESSMENT_RESULT")
  /\ Linked("DECISION_PACKAGE_RESULT")
  /\ RequiredActive(s) # "none" => active[RequiredActive(s)] # 0

(***************************************************************************)
(* Transactions                                                            *)
(***************************************************************************)
PinLocked ==
  \E i \in DOMAIN artifacts :
    artifacts[i].type \in {"APPROVED_REVIEW", "INTEGRATED_ASSESSMENT_RESULT",
                           "DECISION_PACKAGE_RESULT"}

CanPin(c) == exists /\ (pin = c \/ ~PinLocked)

PinDecisionContract(c) ==
  /\ pin' = c
  /\ UNCHANGED <<exists, stage, artifacts, active, operations>>

\* The operation with key k can be completed: status = STARTED.
Started(k) == k \in DOMAIN operations /\ operations[k].status = "started"

Finish(k, status, i) ==
  [operations EXCEPT ![k] = [status |-> status, produced |-> i]]

\* save_artifact_and_advance raises unless all of this holds.
CanSave(a, k) ==
  /\ exists
  /\ a.contract \in {"none", pin}
  /\ a.parent # 0 => /\ a.parent \in DOMAIN artifacts
                     /\ artifacts[a.parent].type = ExpectedParent(a.type)
  /\ k # NoKey => Started(k)

\* The active artifact that a save overwrites instead of inserting, or 0.
Overwritten(a, replaceReview, current) ==
  IF replaceReview /\ a.type = "REVIEW_SESSION" THEN current[a.type] ELSE 0

\* Inserts a, or, for a review that replaces the current one, overwrites the
\* payload of whichever review is active now.
SaveArtifact(a, newStage, deactivate, replaceReview, k) ==
  LET kept == [t \in ArtifactType |-> IF t \in deactivate THEN 0
                                                          ELSE active[t]]
      old == Overwritten(a, replaceReview, kept)
      id == IF old # 0 THEN old ELSE Len(artifacts) + 1
  IN /\ artifacts' = IF old # 0 THEN [artifacts EXCEPT ![old].review = a.review]
                                ELSE Append(artifacts, a)
     /\ active' = [kept EXCEPT ![a.type] = id]
     /\ stage' = newStage
     /\ operations' = IF k = NoKey THEN operations
                                   ELSE Finish(k, "completed", id)
     /\ UNCHANGED <<exists, pin>>

ActivateArtifact(i, newStage, deactivate) ==
  /\ active' = [t \in ArtifactType |->
                  IF t = artifacts[i].type THEN i
                  ELSE IF t \in deactivate THEN 0 ELSE active[t]]
  /\ stage' = newStage
  /\ UNCHANGED <<exists, pin, artifacts, operations>>

InvalidateActive(types, newStage) ==
  /\ active' = [t \in ArtifactType |-> IF t \in types THEN 0 ELSE active[t]]
  /\ stage' = newStage
  /\ UNCHANGED <<exists, pin, artifacts, operations>>

\* Mutants: a started operation begins again; an operation begins without its
\* assessment.
CanBeginCompleted(k) ==
  exists /\ (k \in DOMAIN operations => operations[k].status # "started")
CanBeginUnchecked(k) == k \in DOMAIN operations => operations[k].status = "failed"

\* begin_operation of a key that is unknown or failed; a completed one is
\* returned as it is, and a started one raises.
CanBegin(k) ==
  exists /\ (k \in DOMAIN operations => operations[k].status = "failed")

BeginOperation(k) ==
  /\ operations' = [x \in DOMAIN operations \cup {k} |->
                      IF x = k THEN [status |-> "started", produced |-> 0]
                               ELSE operations[x]]
  /\ UNCHANGED <<exists, stage, pin, artifacts, active>>

Completed(k) == /\ exists
                /\ k \in DOMAIN operations
                /\ operations[k].status = "completed"

FailOperation(k) ==
  /\ operations' = Finish(k, "failed", 0)
  /\ UNCHANGED <<exists, stage, pin, artifacts, active>>

\* ON DELETE CASCADE: the rows of the assessment go with it.
DeleteAssessment ==
  /\ exists' = FALSE
  /\ artifacts' = << >>
  /\ active' = NoneActive
  /\ operations' = NoOperations
  /\ UNCHANGED <<stage, pin>>
=============================================================================
