------------------------ MODULE WorkspaceProperties ------------------------
(***************************************************************************)
(* What the workspace promises, stated over WorkspaceService.              *)
(***************************************************************************)
EXTENDS WorkspaceService

OfType(t) == {i \in DOMAIN artifacts : artifacts[i].type = t}
Outcomes == OfType("INTEGRATED_ASSESSMENT_RESULT")
              \cup OfType("DECISION_PACKAGE_RESULT")

(***************************************************************************)
(* Whatever the sessions do                                                *)
(***************************************************************************)
\* Idempotency: however calls overlap, fail and are repeated, one approval is
\* assessed at most once, one assessment has at most one package, and one
\* source is ingested at most once (begin_operation and the completion in
\* save_artifact_and_advance).
ExactlyOnce ==
  /\ \A i, j \in Outcomes :
       artifacts[i].type = artifacts[j].type
         /\ artifacts[i].parent = artifacts[j].parent => i = j
  /\ \A i, j \in OfType("INGESTION_RESULT") :
       artifacts[i].doc = artifacts[j].doc => i = j

\* Two calls never carry out the same operation at once: the second one to
\* begin is refused (OperationAlreadyStartedError).
OneCallPerOperation ==
  \A c, d \in Clients :
    key[c] # NoKey /\ key[c] = key[d]
      /\ pc[c] \in {"save", "fail"} /\ pc[d] \in {"save", "fail"} => c = d

\* Without a crash or an engine that raises, an operation marked started is
\* one that a call is carrying out; so it is still going to be completed or
\* failed by that call.
StartedIsHeld ==
  \A k \in DOMAIN operations :
    Started(k) => \E c \in Clients : key[c] = k /\ pc[c] \in {"save", "fail"}

\* Whatever is assessed or packaged was made under the decision contract the
\* assessment is pinned to, also when the pin is changed at any moment.
OutcomesMatchPin == \A i \in Outcomes : artifacts[i].contract = pin

\* Nothing reaches the assessment engine without a complete human approval:
\* what is assessed is an approval whose review holds every required decision,
\* also when sessions overwrite one another's reviews.
AssessedOnlyIfApproved ==
  \A i \in OfType("INTEGRATED_ASSESSMENT_RESULT") :
    LET p == artifacts[i].parent
    IN /\ p \in OfType("APPROVED_REVIEW")
       /\ RequiredEdits \subseteq artifacts[p].review.edits

\* What is assessed and packaged had its approval and its contract.
OutcomesSound == AssessedOnlyIfApproved /\ OutcomesMatchPin

\* A call in progress when the assessment is deleted leaves nothing behind.
DeletedLeavesNothing == ~exists => artifacts = << >> /\ operations = NoOperations

\* A stored revision never changes and never goes away while the assessment
\* exists, except the payload of a review.
RevisionsKept ==
  [][exists' => \A i \in DOMAIN artifacts :
       /\ i \in DOMAIN artifacts'
       /\ artifacts'[i] = [artifacts[i] EXCEPT
            !.review = IF artifacts[i].type = "REVIEW_SESSION"
                       THEN artifacts'[i].review ELSE @]]_vars

(***************************************************************************)
(* For one session at a time, with its faults and crashes                  *)
(***************************************************************************)
\* The workspace can always be opened.
WorkspaceLoads == exists => ActiveChainValid(stage)

\* The whole active chain is of one lineage: each active artifact was derived
\* from the active artifact before it, which load_workspace checks only from
\* the assessment on.
ActiveLineage ==
  \A t \in ArtifactType \ {"INGESTION_RESULT"} : Linked(t)

\* The audit trail of a review is append-only.
TrailAppendOnly ==
  [][exists' => \A i \in OfType("REVIEW_SESSION") :
       artifacts[i].review.edits \subseteq artifacts'[i].review.edits]_vars

\* The review a stored artifact holds is the one that was started in it, on
\* the candidate that is its parent.
ReviewInPlace ==
  \A i \in OfType("REVIEW_SESSION") : artifacts[i].review.session = i

\* Whatever order the calls come in, the workspace opens, its active artifacts
\* are one derivation, and each review is in its own row.
SoundChain == WorkspaceLoads /\ ActiveLineage /\ ReviewInPlace

\* What is approved is the review the page showed when the user approved.
ApprovedAsShown ==
  [][\A c \in Clients :
       req[c].method = "approve" /\ Len(artifacts') > Len(artifacts)
         /\ pc[c] = "save" /\ pc'[c] # "save"
       => artifacts'[Len(artifacts')].review = req[c].review]_vars

\* Between the page and the store no edit of a review is lost or slipped in.
ReviewKept == TrailAppendOnly /\ ApprovedAsShown

\* When a retried extraction returns a candidate, that candidate is active.
RetryTakesEffect ==
  [][\A c \in Clients :
       req[c].method = "retry" /\ pc'[c] = "stage"
         /\ artifacts'[operations'[key[c]].produced].ok
       => active'["CANDIDATE_EXTRACTION_RESULT"]
            = operations'[key[c]].produced]_vars

(***************************************************************************)
(* Liveness                                                                *)
(***************************************************************************)
\* Every call returns to the page, with a result or an exception.
CallsReturn == \A c \in Clients : pc[c] # "idle" ~> pc[c] = "idle"

\* A started operation is eventually completed or failed.
OperationsSettle ==
  /\ \A kind \in {"INGEST", "EXTRACT"}, d \in Docs, i \in 0..MaxArtifacts :
       Started(<<kind, d, i>>) ~> ~Started(<<kind, d, i>>)
  /\ \A kind \in {"ASSESS", "GENERATE_PACKAGE"}, i \in 1..MaxArtifacts :
       Started(<<kind, i, 0>>) ~> ~Started(<<kind, i, 0>>)
=============================================================================
