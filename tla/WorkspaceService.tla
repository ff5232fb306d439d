-------------------------- MODULE WorkspaceService --------------------------
(***************************************************************************)
(* The workspace service (workspace/service.py) as browser sessions run it *)
(* on the store: uploading a source, extracting a candidate process,       *)
(* reviewing and approving it, assessing it and generating the package.    *)
(*                                                                         *)
(* A session is a process.  It calls a service method, which reads the     *)
(* workspace, checks its guards on what it read, opens an operation, does  *)
(* the work and saves, each database access in a transaction of its own;   *)
(* other sessions run between any two of them.  Between calls a session    *)
(* shows the snapshot it hydrated last (presentation/context.py), however  *)
(* old it is.                                                              *)
(***************************************************************************)
EXTENDS WorkspaceStore

CONSTANTS
  Clients,     \* browser sessions
  Enabled,     \* the service methods the sessions call in this instance
  FaultKinds,  \* the faults of this instance: of "save", "engine", "crash"
  MaxFaults,   \* bound on their number
  MaxArtifacts \* bound on the artifacts of the workspace

ServiceMethods == {"ingest", "extract", "retry", "start_review", "save_review",
                   "approve", "assess", "generate_package", "reset_to_review",
                   "refresh"}
Methods == ServiceMethods \cup {"pin", "delete"}

ASSUME BoundsAssumption ==
  /\ Enabled \subseteq Methods
  /\ FaultKinds \subseteq {"save", "engine", "crash"}
  /\ MaxFaults \in Nat
  /\ MaxArtifacts \in Nat

VARIABLES
  pc,      \* where each session is in its call
  req,     \* the arguments of its call
  snap,    \* what its call has read
  key,     \* the idempotency key of the operation its call opens, or NoKey
  view,    \* what its page shows
  faults   \* faults so far

vars == <<exists, stage, pin, artifacts, active, operations,
          pc, req, snap, key, view, faults>>

PC == {"idle", "stage", "active", "begin", "activate", "save", "fail"}

\* replace: the confirmation to replace the source; artifact: the failed
\* extraction to retry; review: the edited review to save, or the one shown
\* when the user approves.
Request == [method : ServiceMethods, doc : Docs \cup {NoDoc}, replace : BOOLEAN,
            artifact : Nat, review : Review]
NoRequest == [method |-> "refresh", doc |-> NoDoc, replace |-> FALSE,
              artifact |-> 0, review |-> NoReview]

\* Reviews are the only artifacts that change, so a snapshot copies theirs.
Snapshot == [stage : WorkflowStage, active : [ArtifactType -> Nat],
             review : Review]
NoSnapshot == [stage |-> "new", active |-> NoneActive, review |-> NoReview]

ServiceTypeOK ==
  /\ StoreTypeOK
  /\ pc \in [Clients -> PC]
  /\ req \in [Clients -> Request]
  /\ snap \in [Clients -> Snapshot]
  /\ key \in [Clients -> OperationKey \cup {NoKey}]
  /\ view \in [Clients -> Snapshot]
  /\ faults \in 0..MaxFaults

Init ==
  /\ StoreInit
  /\ pc = [c \in Clients |-> "idle"]
  /\ req = [c \in Clients |-> NoRequest]
  /\ snap = [c \in Clients |-> NoSnapshot]
  /\ key = [c \in Clients |-> NoKey]
  /\ view = [c \in Clients |-> NoSnapshot]
  /\ faults = 0

Fault(kind) == /\ kind \in FaultKinds
               /\ faults < MaxFaults
               /\ faults' = faults + 1

(***************************************************************************)
(* Where a call goes                                                       *)
(***************************************************************************)
Goto(c, l) == pc' = [pc EXCEPT ![c] = l]

Forget(c) == /\ req' = [req EXCEPT ![c] = NoRequest]
             /\ snap' = [snap EXCEPT ![c] = NoSnapshot]
             /\ key' = [key EXCEPT ![c] = NoKey]

\* Mutant: the page goes on showing what it showed.
ReturnWithoutRefresh(c) == Goto(c, "idle") /\ Forget(c) /\ UNCHANGED view

\* The call is over and the page refreshes its snapshot.
Return(c) == Goto(c, "stage") /\ Forget(c) /\ UNCHANGED view

\* The call raises.  Only the review page refreshes then; a refresh that
\* raises clears the page.
Raise(c) ==
  IF req[c].method = "save_review" THEN Return(c)
  ELSE /\ Goto(c, "idle")
       /\ Forget(c)
       /\ view' = IF req[c].method = "refresh"
                  THEN [view EXCEPT ![c] = NoSnapshot] ELSE view

(***************************************************************************)
(* A call and what it reads: load_workspace in two steps                   *)
(***************************************************************************)
Shown(c, t) == view[c].active[t]

Ask(c, m, doc, replace, artifact, review) ==
  /\ pc[c] = "idle"
  /\ exists
  /\ Len(artifacts) < MaxArtifacts
  /\ m \in Enabled
  /\ req' = [req EXCEPT ![c] = [method |-> m, doc |-> doc, replace |-> replace,
                                artifact |-> artifact, review |-> review]]
  /\ Goto(c, "stage")
  /\ UNCHANGED <<storeVars, snap, key, view, faults>>

AskPlain(c, m) == Ask(c, m, NoDoc, FALSE, 0, NoReview)

\* Each page offers its buttons according to what it shows.
IngestButton(c) ==
  \E d \in Docs, replace \in BOOLEAN :
    /\ replace => Shown(c, "INGESTION_RESULT") # 0
    /\ Ask(c, "ingest", d, replace, 0, NoReview)

ExtractButton(c) ==
  /\ Shown(c, "INGESTION_RESULT") # 0
  /\ Shown(c, "CANDIDATE_EXTRACTION_RESULT") = 0
  /\ AskPlain(c, "extract")

RetryButton(c) ==
  LET candidate == Shown(c, "CANDIDATE_EXTRACTION_RESULT")
  IN /\ exists
     /\ candidate # 0
     /\ ~artifacts[candidate].ok
     /\ Ask(c, "retry", NoDoc, FALSE, candidate, NoReview)

StartReviewButton(c) ==
  /\ Shown(c, "CANDIDATE_EXTRACTION_RESULT") # 0
  /\ Shown(c, "REVIEW_SESSION") = 0
  /\ AskPlain(c, "start_review")

\* Any review decision: the page edits its copy of the review and saves it.
ReviewEdit(c) ==
  LET review == view[c].review
  IN /\ Shown(c, "REVIEW_SESSION") # 0
     /\ Shown(c, "APPROVED_REVIEW") = 0
     /\ \E e \in Edits \ review.edits :
          Ask(c, "save_review", NoDoc, FALSE, 0,
              [session |-> review.session, edits |-> review.edits \cup {e}])

ApproveButton(c) ==
  /\ Shown(c, "REVIEW_SESSION") # 0
  /\ Shown(c, "APPROVED_REVIEW") = 0
  /\ RequiredEdits \subseteq view[c].review.edits
  /\ Ask(c, "approve", NoDoc, FALSE, 0, view[c].review)

AssessButton(c) ==
  /\ Shown(c, "APPROVED_REVIEW") # 0
  /\ Shown(c, "INTEGRATED_ASSESSMENT_RESULT") = 0
  /\ AskPlain(c, "assess")

PackageButton(c) ==
  LET integrated == Shown(c, "INTEGRATED_ASSESSMENT_RESULT")
  IN /\ exists
     /\ integrated # 0
     /\ artifacts[integrated].ok
     /\ Shown(c, "DECISION_PACKAGE_RESULT") = 0
     /\ AskPlain(c, "generate_package")

\* No page offers it, but the service does.
ResetCall(c) ==
  /\ Shown(c, "REVIEW_SESSION") # 0
  /\ AskPlain(c, "reset_to_review")

RefreshPage(c) == AskPlain(c, "refresh")

Call(c) ==
  \/ IngestButton(c) \/ ExtractButton(c) \/ RetryButton(c)
  \/ StartReviewButton(c) \/ ReviewEdit(c) \/ ApproveButton(c)
  \/ AssessButton(c) \/ PackageButton(c) \/ ResetCall(c) \/ RefreshPage(c)

\* load_workspace first reads the assessment in a connection of its own ...
ReadStage(c) ==
  /\ pc[c] = "stage"
  /\ IF exists
     THEN /\ snap' = [snap EXCEPT ![c].stage = stage]
          /\ Goto(c, "active")
          /\ UNCHANGED <<req, key, view>>
     ELSE Raise(c)
  /\ UNCHANGED <<storeVars, faults>>

ApprovableAlways(review) == TRUE   \* mutant

\* approve_review finds no error in the review.
Approvable(review) == RequiredEdits \subseteq review.edits

\* The method's own checks, on its arguments and what it has read.
Allowed(r, s) ==
  LET ingestion == s.active["INGESTION_RESULT"]
      candidate == s.active["CANDIDATE_EXTRACTION_RESULT"]
      ingested == ingestion # 0 /\ artifacts[ingestion].ok
  IN CASE r.method = "ingest" ->
            ingested /\ artifacts[ingestion].doc # r.doc => r.replace
       [] r.method = "extract" -> ingested
       [] r.method = "retry" ->
            /\ ingested
            /\ artifacts[r.artifact].parent = ingestion
       [] r.method = "start_review" ->
            candidate # 0 /\ (s.active["REVIEW_SESSION"] = 0
                                => artifacts[candidate].ok)
       [] r.method = "save_review" ->
            /\ s.active["REVIEW_SESSION"] # 0
            /\ s.review.session = r.review.session
       [] r.method = "approve" ->
            /\ s.active["REVIEW_SESSION"] # 0
            /\ s.active["APPROVED_REVIEW"] = 0
            /\ Approvable(s.review)
       [] r.method = "assess" -> s.active["APPROVED_REVIEW"] # 0
       [] r.method = "generate_package" ->
            /\ s.active["INTEGRATED_ASSESSMENT_RESULT"] # 0
            /\ artifacts[s.active["INTEGRATED_ASSESSMENT_RESULT"]].ok
       [] r.method = "reset_to_review" -> s.active["REVIEW_SESSION"] # 0
       [] OTHER -> TRUE

\* The idempotency key a method derives from its arguments and its snapshot.
\* That of an assessment or a package is scoped by the pin, which the
\* approval it needs has locked.
KeyOf(r, s) ==
  CASE r.method = "ingest" -> <<"INGEST", r.doc, 0>>
    [] r.method \in {"extract", "retry"} ->
         <<"EXTRACT", artifacts[s.active["INGESTION_RESULT"]].doc, r.artifact>>
    [] r.method = "assess" -> <<"ASSESS", s.active["APPROVED_REVIEW"], 0>>
    [] r.method = "generate_package" ->
         <<"GENERATE_PACKAGE", s.active["INTEGRATED_ASSESSMENT_RESULT"], 0>>
    [] OTHER -> NoKey

\* ... then the active artifacts in another, and checks them against the
\* stage it has.  The method goes on from what was read.
ReadActive(c) ==
  LET r == req[c]
      i == active["REVIEW_SESSION"]
      s == [stage |-> snap[c].stage, active |-> active,
            review |-> IF i # 0 THEN artifacts[i].review ELSE NoReview]
  IN /\ pc[c] = "active"
     /\ CASE ~ActiveChainValid(s.stage) -> Raise(c)
          [] ActiveChainValid(s.stage) /\ r.method = "refresh" ->
               /\ Goto(c, "idle")
               /\ view' = [view EXCEPT ![c] = s]
               /\ Forget(c)
          [] ActiveChainValid(s.stage) /\ r.method # "refresh"
               /\ ~Allowed(r, s) -> Raise(c)
          [] OTHER ->
               IF r.method = "start_review" /\ s.active["REVIEW_SESSION"] # 0
               THEN Return(c)
               ELSE /\ snap' = [snap EXCEPT ![c] = s]
                    /\ key' = [key EXCEPT ![c] = KeyOf(r, s)]
                    /\ Goto(c, IF KeyOf(r, s) = NoKey THEN "save" ELSE "begin")
                    /\ UNCHANGED <<req, view>>
     /\ UNCHANGED <<storeVars, faults>>

(***************************************************************************)
(* Opening the operation                                                   *)
(***************************************************************************)
\* A retry whose failed extraction is no longer the active one gives up.
StaleRetry(c) ==
  /\ req[c].method = "retry"
  /\ snap[c].active["CANDIDATE_EXTRACTION_RESULT"] # req[c].artifact

Begin(c) ==
  /\ pc[c] = "begin"
  /\ CanBegin(key[c])
  /\ BeginOperation(key[c])
  /\ Goto(c, IF StaleRetry(c) THEN "fail" ELSE "save")
  /\ UNCHANGED <<req, snap, key, view, faults>>

\* Mutant: a call waits for an operation in progress.
BeginWaits(c) ==
  /\ pc[c] = "begin"
  /\ ~exists
  /\ Raise(c)
  /\ UNCHANGED <<storeVars, faults>>

\* An operation in progress, or the assessment gone.
BeginRefused(c) ==
  /\ pc[c] = "begin"
  /\ ~CanBegin(key[c])
  /\ ~Completed(key[c])
  /\ Raise(c)
  /\ UNCHANGED <<storeVars, faults>>

\* A completed operation is replayed: its artifact becomes active again when
\* the snapshot shows none (an extraction) or another one (an ingestion).
Replay(c) ==
  LET stored == operations[key[c]].produced
      ingestion == snap[c].active["INGESTION_RESULT"]
      candidate == snap[c].active["CANDIDATE_EXTRACTION_RESULT"]
      belongs(i) == artifacts[i].parent = ingestion
  IN /\ pc[c] = "begin"
     /\ Completed(key[c])
     /\ CASE req[c].method = "ingest" /\ ingestion # stored ->
               Goto(c, "activate") /\ UNCHANGED <<req, snap, key, view>>
          [] req[c].method = "extract" /\ candidate = 0 /\ belongs(stored) ->
               Goto(c, "activate") /\ UNCHANGED <<req, snap, key, view>>
          [] req[c].method = "extract" /\ candidate = 0 /\ ~belongs(stored) ->
               Raise(c)
          [] req[c].method = "extract" /\ candidate # 0
               /\ ~belongs(candidate) -> Raise(c)
          [] OTHER -> Return(c)
     /\ UNCHANGED <<storeVars, faults>>

Activate(c) ==
  LET stored == operations[key[c]].produced
  IN /\ pc[c] = "activate"
     /\ IF exists
        THEN /\ IF req[c].method = "ingest"
                THEN ActivateArtifact(stored,
                       IF artifacts[stored].ok THEN "ingested" ELSE "new",
                       From(2))
                ELSE ActivateArtifact(stored,
                       IF artifacts[stored].ok THEN "candidate-ready"
                                               ELSE "ingested",
                       From(3))
             /\ Return(c)
        ELSE Raise(c) /\ UNCHANGED storeVars
     /\ UNCHANGED faults

(***************************************************************************)
(* Doing the work and saving it                                            *)
(***************************************************************************)
NewArtifact(t, parent) ==
  [type |-> t, parent |-> parent, doc |-> NoDoc, ok |-> TRUE,
   review |-> NoReview, contract |-> "none"]

\* The artifact a call saves; ok is the outcome of an extraction, of the
\* assessment or of the package generation.
Product(c, ok) ==
  LET m == req[c].method
      read == snap[c].active
  IN CASE m = "ingest" ->
            [NewArtifact("INGESTION_RESULT", 0) EXCEPT
               !.doc = req[c].doc, !.ok = req[c].doc \notin UnreadableDocs]
       [] m \in {"extract", "retry"} ->
            [NewArtifact("CANDIDATE_EXTRACTION_RESULT",
                         read["INGESTION_RESULT"]) EXCEPT !.ok = ok]
       [] m = "start_review" ->
            [NewArtifact("REVIEW_SESSION", read["CANDIDATE_EXTRACTION_RESULT"])
               EXCEPT !.review.session = Len(artifacts) + 1]
       [] m = "save_review" ->
            [NewArtifact("REVIEW_SESSION",
                         artifacts[read["REVIEW_SESSION"]].parent)
               EXCEPT !.review = req[c].review]
       [] m = "approve" ->
            [NewArtifact("APPROVED_REVIEW", read["REVIEW_SESSION"])
               EXCEPT !.review = snap[c].review]
       [] m = "assess" ->
            [NewArtifact("INTEGRATED_ASSESSMENT_RESULT", read["APPROVED_REVIEW"])
               EXCEPT !.ok = ok, !.contract = "phase1-v0.3"]
       [] OTHER ->
            [NewArtifact("DECISION_PACKAGE_RESULT",
                         read["INTEGRATED_ASSESSMENT_RESULT"])
               EXCEPT !.ok = ok, !.contract = "phase1-v0.3"]

StageAfter(a) ==
  CASE a.type = "INGESTION_RESULT" -> IF a.ok THEN "ingested" ELSE "new"
    [] a.type = "CANDIDATE_EXTRACTION_RESULT" ->
         IF a.ok THEN "candidate-ready" ELSE "ingested"
    [] a.type = "REVIEW_SESSION" -> "in-review"
    [] a.type = "APPROVED_REVIEW" -> "approved"
    [] a.type = "INTEGRATED_ASSESSMENT_RESULT" ->
         IF a.ok THEN "assessed" ELSE "approved"
    [] OTHER -> IF a.ok THEN "package-ready" ELSE "assessed"

DeactivatedNone(c) == {}   \* mutant

\* Only a confirmed replacement deactivates what was derived before.
Deactivated(c) ==
  IF req[c].method = "ingest" /\ req[c].replace THEN From(2) ELSE {}

Save(c) ==
  /\ pc[c] = "save"
  /\ req[c].method # "reset_to_review"
  /\ exists
  /\ \E ok \in BOOLEAN :
       LET a == Product(c, ok)
       IN /\ CanSave(a, key[c])
          /\ SaveArtifact(a, StageAfter(a), Deactivated(c),
                          req[c].method = "save_review", key[c])
  /\ Return(c)
  /\ UNCHANGED faults

SaveRaisesOnly(c) == Raise(c)   \* mutant: the operation stays as it is

\* The save raises and rolls back: the operation, if one is open, is to be
\* recorded as failed.
SaveRaises(c) ==
  IF key[c] # NoKey THEN Goto(c, "fail") /\ UNCHANGED <<req, snap, key, view>>
                    ELSE Raise(c)

SaveRefused(c) ==
  /\ pc[c] = "save"
  /\ req[c].method # "reset_to_review"
  /\ exists => \A ok \in BOOLEAN : ~CanSave(Product(c, ok), key[c])
  /\ SaveRaises(c)
  /\ UNCHANGED <<storeVars, faults>>

\* A full disk, a lock held too long.
SaveFault(c) ==
  /\ pc[c] = "save"
  /\ Fault("save")
  /\ SaveRaises(c)
  /\ UNCHANGED storeVars

\* An engine raises instead of returning a failure.  Only an extraction
\* records its operation as failed; the others call the engine outside try.
EngineRaises(c) ==
  /\ pc[c] = "save"
  /\ req[c].method \in {"extract", "retry", "assess", "generate_package"}
  /\ Fault("engine")
  /\ IF req[c].method \in {"extract", "retry"}
     THEN Goto(c, "fail") /\ UNCHANGED <<req, snap, key, view>>
     ELSE Raise(c)
  /\ UNCHANGED storeVars

\* fail_operation, then the exception goes on to the page.
Fail(c) ==
  /\ pc[c] = "fail"
  /\ IF Started(key[c]) THEN FailOperation(key[c]) ELSE UNCHANGED storeVars
  /\ Raise(c)
  /\ UNCHANGED faults

ResetToReview(c) ==
  /\ pc[c] = "save"
  /\ req[c].method = "reset_to_review"
  /\ IF exists
     THEN InvalidateActive(From(4), "in-review") /\ Return(c)
     ELSE Raise(c) /\ UNCHANGED storeVars
  /\ UNCHANGED faults

(***************************************************************************)
(* Calls of a single transaction, and the end of the server process        *)
(***************************************************************************)
Pin(c) ==
  /\ pc[c] = "idle"
  /\ "pin" \in Enabled
  /\ \E d \in Contract \ {pin} : CanPin(d) /\ PinDecisionContract(d)
  /\ UNCHANGED <<pc, req, snap, key, view, faults>>

Delete(c) ==
  /\ pc[c] = "idle"
  /\ "delete" \in Enabled
  /\ exists
  /\ DeleteAssessment
  /\ view' = [view EXCEPT ![c] = NoSnapshot]
  /\ UNCHANGED <<pc, req, snap, key, faults>>

\* The server stops: calls in progress are lost, the pages open afresh.
Crash ==
  /\ Fault("crash")
  /\ \E c \in Clients : pc[c] # "idle"
  /\ pc' = [c \in Clients |-> "idle"]
  /\ req' = [c \in Clients |-> NoRequest]
  /\ snap' = [c \in Clients |-> NoSnapshot]
  /\ key' = [c \in Clients |-> NoKey]
  /\ view' = [c \in Clients |-> NoSnapshot]
  /\ UNCHANGED storeVars

\* The steps a call in progress takes.
Step(c) ==
  \/ ReadStage(c) \/ ReadActive(c)
  \/ Begin(c) \/ BeginRefused(c) \/ Replay(c) \/ Activate(c)
  \/ Save(c) \/ SaveRefused(c) \/ Fail(c) \/ ResetToReview(c)

Next ==
  \/ \E c \in Clients : \/ Call(c) \/ Step(c)
                        \/ SaveFault(c) \/ EngineRaises(c)
                        \/ Pin(c) \/ Delete(c)
  \/ Crash

Spec == Init /\ [][Next]_vars

\* A call in progress goes on: nothing in the process holds it back, and the
\* database serialises writers without keeping one out for ever.
FairSpec == Spec /\ \A c \in Clients : WF_vars(Step(c))

\* And the user does not give up calling.
PersistentSpec == FairSpec /\ \A c \in Clients : WF_vars(Call(c))
=============================================================================
