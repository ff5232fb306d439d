--------------------------- MODULE WorkspaceProofs ---------------------------
(***************************************************************************)
(* Proofs about WorkspaceService, for any number of sessions, documents,   *)
(* edits and artifacts.                                                    *)
(***************************************************************************)
EXTENDS WorkspaceProperties, SequenceTheorems, TLAPS

LEMMA ArtifactTypes ==
  ArtifactType = {"INGESTION_RESULT", "CANDIDATE_EXTRACTION_RESULT",
                  "REVIEW_SESSION", "APPROVED_REVIEW",
                  "INTEGRATED_ASSESSMENT_RESULT", "DECISION_PACKAGE_RESULT"}
BY DEF ArtifactType, Chain

(***************************************************************************)
(* The inductive invariant                                                 *)
(***************************************************************************)
Working(c) == pc[c] \in {"begin", "activate", "save", "fail"}

\* The key a call works under is the one its method derives.
KeyFits(c) ==
  LET m == req[c].method
      read == snap[c].active
  IN /\ m = "ingest" => key[c] = <<"INGEST", req[c].doc, 0>>
     /\ m \in {"extract", "retry"} => key[c] \in OperationKey /\ key[c][1] = "EXTRACT"
     /\ m = "assess" => /\ read["APPROVED_REVIEW"] # 0
                        /\ key[c] = <<"ASSESS", read["APPROVED_REVIEW"], 0>>
     /\ m = "generate_package" =>
          /\ read["INTEGRATED_ASSESSMENT_RESULT"] # 0
          /\ key[c] = <<"GENERATE_PACKAGE",
                        read["INTEGRATED_ASSESSMENT_RESULT"], 0>>
     /\ m \in {"start_review", "save_review", "approve", "reset_to_review",
               "refresh"} => key[c] = NoKey /\ pc[c] = "save"
     /\ m \in {"save_review", "approve"} => read["REVIEW_SESSION"] # 0
     /\ m = "approve" => RequiredEdits \subseteq snap[c].review.edits
     /\ m # "refresh"

\* What a call has read is still there, unless the assessment is deleted.
SnapshotFits(c) ==
  exists => \A t \in ArtifactType : snap[c].active[t] # 0 =>
              snap[c].active[t] \in DOMAIN artifacts

CallsFit == \A c \in Clients : Working(c) => KeyFits(c) /\ SnapshotFits(c)

\* A completed operation names the artifact it produced, and stays completed.
ProducedFits ==
  /\ \A k \in DOMAIN operations :
       operations[k].status = "completed"
         => operations[k].produced \in DOMAIN artifacts
  /\ \A c \in Clients :
       exists /\ pc[c] = "activate"
         => key[c] \in DOMAIN operations /\ operations[key[c]].status = "completed"

TypeInv == ServiceTypeOK /\ CallsFit /\ ProducedFits

LEMMA InitTypeInv == Init => TypeInv
<1> SUFFICES ASSUME Init PROVE TypeInv
  OBVIOUS
<1> USE BoundsAssumption DEF Init, StoreInit, NoneActive, NoOperations, NoRequest, NoSnapshot, NoReview, NoKey
<1>1. StoreTypeOK
  BY ArtifactTypes DEF StoreTypeOK, WorkflowStage, Contract
<1>2. ServiceTypeOK
  BY <1>1, ArtifactTypes DEF ServiceTypeOK, PC, Request, ServiceMethods, Snapshot, WorkflowStage, Review
<1>3. CallsFit
  BY DEF CallsFit, Working
<1>4. ProducedFits
  BY DEF ProducedFits
<1> QED BY <1>2, <1>3, <1>4 DEF TypeInv

(***************************************************************************)
(* Framing: what a step of session c leaves alone                          *)
(***************************************************************************)
ClientsTyped == /\ pc \in [Clients -> PC]
                /\ req \in [Clients -> Request]
                /\ snap \in [Clients -> Snapshot]
                /\ key \in [Clients -> OperationKey \cup {NoKey}]
                /\ view \in [Clients -> Snapshot]

Others(c) == \A d \in Clients \ {c} :
               /\ pc'[d] = pc[d]
               /\ req'[d] = req[d]
               /\ snap'[d] = snap[d]
               /\ key'[d] = key[d]

StoreGrows == exists' => exists /\ DOMAIN artifacts \subseteq DOMAIN artifacts'

LEMMA NoValues == /\ NoRequest \in Request
                  /\ NoSnapshot \in Snapshot
                  /\ NoReview \in Review
BY ArtifactTypes
   DEF NoRequest, NoSnapshot, NoReview, NoneActive, Request, Snapshot, Review,
       ServiceMethods, WorkflowStage

\* A call that returns or raises leaves the states in which it works.
LEMMA Leaving ==
  ASSUME ServiceTypeOK, NEW c \in Clients, Return(c) \/ Raise(c)
  PROVE  ClientsTyped' /\ Others(c) /\ pc'[c] \in {"idle", "stage"}
<1>1. CASE Return(c)
  BY <1>1, NoValues
     DEF ServiceTypeOK, Return, Goto, Forget, ClientsTyped, Others, PC
<1>2. CASE Raise(c)
  BY <1>1, <1>2, NoValues
     DEF ServiceTypeOK, Raise, Goto, Forget, ClientsTyped, Others, PC
<1> QED
  BY <1>1, <1>2

LEMMA CallsFrame ==
  ASSUME CallsFit, NEW c \in Clients, Others(c), StoreGrows,
         Working(c)' => KeyFits(c)' /\ SnapshotFits(c)'
  PROVE  CallsFit'
<1> SUFFICES ASSUME NEW d \in Clients, d # c, Working(d)'
             PROVE  KeyFits(d)' /\ SnapshotFits(d)'
  BY DEF CallsFit
<1>1. Working(d) /\ KeyFits(d) /\ SnapshotFits(d)
  BY DEF CallsFit, Working, Others
<1>2. KeyFits(d)'
  BY <1>1 DEF KeyFits, Others
<1>3. SnapshotFits(d)'
  BY <1>1 DEF SnapshotFits, Others, StoreGrows
<1> QED
  BY <1>2, <1>3

\* A step that changes nothing in the store and ends the call.
LEMMA StepLeaves ==
  ASSUME TypeInv, NEW c \in Clients, Return(c) \/ Raise(c),
         UNCHANGED storeVars, faults' \in 0..MaxFaults
  PROVE  TypeInv'
<1> USE DEF TypeInv
<1>1. ClientsTyped' /\ Others(c) /\ pc'[c] \in {"idle", "stage"}
  BY Leaving
<1>2. ServiceTypeOK'
  BY <1>1 DEF ServiceTypeOK, StoreTypeOK, ClientsTyped, storeVars
<1>3. CallsFit'
  BY <1>1, CallsFrame DEF StoreGrows, storeVars, Working
<1>4. ProducedFits'
  BY <1>1 DEF ProducedFits, storeVars, Others
<1> QED
  BY <1>2, <1>3, <1>4

(***************************************************************************)
(* One lemma per action that goes on working                               *)
(***************************************************************************)
LEMMA CallKeeps ==
  ASSUME TypeInv, NEW c \in Clients, Call(c)
  PROVE  TypeInv'
<1> USE DEF TypeInv
<1>1. PICK r \in Request : /\ req' = [req EXCEPT ![c] = r]
                           /\ Goto(c, "stage")
                           /\ UNCHANGED <<storeVars, snap, key, view, faults>>
  <2>1. ASSUME NEW m \in ServiceMethods, NEW d \in Docs \cup {NoDoc}, NEW b \in BOOLEAN,
               NEW i \in Nat, NEW review \in Review, Ask(c, m, d, b, i, review)
        PROVE  \E r \in Request : /\ req' = [req EXCEPT ![c] = r]
                                  /\ Goto(c, "stage")
                                  /\ UNCHANGED <<storeVars, snap, key, view, faults>>
    <3> DEFINE r == [method |-> m, doc |-> d, replace |-> b,
                     artifact |-> i, review |-> review]
    <3>1. r \in Request
      BY DEF Request
    <3> QED
      BY <2>1, <3>1 DEF Ask
  <2>2. view[c].review \in Review /\ view[c].active \in [ArtifactType -> Nat]
    BY DEF ServiceTypeOK, Snapshot
  <2>3. CASE IngestButton(c)
    BY <2>1, <2>3, NoValues DEF IngestButton, ServiceMethods
  <2>4. CASE RetryButton(c)
    BY <2>1, <2>2, <2>4, NoValues, ArtifactTypes DEF RetryButton, Shown, ServiceMethods
  <2>5. CASE ReviewEdit(c)
    <3>1. PICK e \in Edits :
            Ask(c, "save_review", NoDoc, FALSE, 0,
                [session |-> view[c].review.session,
                 edits |-> view[c].review.edits \cup {e}])
      BY <2>5 DEF ReviewEdit
    <3>2. [session |-> view[c].review.session,
           edits |-> view[c].review.edits \cup {e}] \in Review
      BY <2>2 DEF Review
    <3> QED
      BY <2>1, <3>1, <3>2 DEF ServiceMethods
  <2>6. CASE ApproveButton(c)
    <3>1. Ask(c, "approve", NoDoc, FALSE, 0, view[c].review)
      BY <2>6 DEF ApproveButton
    <3>2. "approve" \in ServiceMethods /\ NoDoc \in Docs \cup {NoDoc}
          /\ FALSE \in BOOLEAN /\ 0 \in Nat
      BY DEF ServiceMethods
    <3> QED
      BY <2>1, <2>2, <3>1, <3>2
  <2>7. ASSUME NEW m \in ServiceMethods, AskPlain(c, m)
        PROVE  \E r \in Request : /\ req' = [req EXCEPT ![c] = r]
                                  /\ Goto(c, "stage")
                                  /\ UNCHANGED <<storeVars, snap, key, view, faults>>
    BY <2>1, <2>7, NoValues DEF AskPlain
  <2> QED
    BY <2>3, <2>4, <2>5, <2>6, <2>7
       DEF Call, ExtractButton, StartReviewButton, AssessButton, PackageButton,
           ResetCall, RefreshPage, ServiceMethods
<1>3. ServiceTypeOK'
  BY <1>1 DEF ServiceTypeOK, StoreTypeOK, Goto, PC, storeVars
<1>4. CallsFit'
  BY <1>1, CallsFrame
     DEF Goto, Others, StoreGrows, Working, storeVars, ServiceTypeOK
<1>5. ProducedFits'
  BY <1>1 DEF ProducedFits, Goto, storeVars, ServiceTypeOK
<1> QED
  BY <1>3, <1>4, <1>5

LEMMA ReadStageKeeps ==
  ASSUME TypeInv, NEW c \in Clients, ReadStage(c)
  PROVE  TypeInv'
<1> USE DEF TypeInv
<1>1. CASE ~exists
  BY <1>1, StepLeaves DEF ReadStage, ServiceTypeOK
<1>2. CASE exists
  <2>1. ServiceTypeOK'
    <3>1. [snap[c] EXCEPT !.stage = stage] \in Snapshot
      <4>1. snap[c] \in Snapshot /\ stage \in WorkflowStage
        BY DEF ServiceTypeOK, StoreTypeOK
      <4> QED
        BY <4>1 DEF Snapshot
    <3>2. snap' \in [Clients -> Snapshot]
      BY <1>2, <3>1 DEF ReadStage, ServiceTypeOK
    <3> QED
      BY <1>2, <3>2 DEF ReadStage, ServiceTypeOK, StoreTypeOK, Goto, PC, storeVars
  <2>2. CallsFit'
    BY <1>2, CallsFrame
       DEF ReadStage, Goto, Others, StoreGrows, Working, storeVars, ServiceTypeOK
  <2>3. ProducedFits'
    BY <1>2 DEF ProducedFits, ReadStage, Goto, storeVars, ServiceTypeOK
  <2> QED
    BY <2>1, <2>2, <2>3
<1> QED
  BY <1>1, <1>2

LEMMA ReadActiveKeeps ==
  ASSUME TypeInv, NEW c \in Clients, ReadActive(c)
  PROVE  TypeInv'
<1> DEFINE r == req[c]
           i == active["REVIEW_SESSION"]
           s == [stage |-> snap[c].stage, active |-> active,
                 review |-> IF i # 0 THEN artifacts[i].review ELSE NoReview]
<1> USE DEF TypeInv
<1>1. s \in Snapshot
  <2>1. i # 0 => artifacts[i] \in Artifact
    BY ArtifactTypes DEF ServiceTypeOK, StoreTypeOK
  <2>2. s.review \in Review
    BY <2>1, NoValues DEF Artifact
  <2>3. s.stage \in WorkflowStage /\ s.active \in [ArtifactType -> Nat]
    BY DEF ServiceTypeOK, StoreTypeOK, Snapshot
  <2> QED
    BY <2>2, <2>3 DEF Snapshot
<1>2. CASE Return(c) \/ Raise(c)
  BY <1>2, StepLeaves DEF ReadActive, ServiceTypeOK
<1>3. CASE /\ Goto(c, "idle")
           /\ view' = [view EXCEPT ![c] = s]
           /\ Forget(c)
  <2>0. UNCHANGED storeVars /\ UNCHANGED faults
    BY DEF ReadActive
  <2>1. ServiceTypeOK'
    BY <1>1, <1>3, <2>0, NoValues
       DEF ServiceTypeOK, StoreTypeOK, Goto, Forget, PC, storeVars
  <2>2. CallsFit'
    BY <1>3, <2>0, CallsFrame
       DEF Goto, Forget, Others, StoreGrows, Working, storeVars, ServiceTypeOK
  <2>3. ProducedFits'
    <3>1. Others(c) /\ pc'[c] = "idle"
      BY <1>3 DEF Goto, Forget, Others, ServiceTypeOK
    <3> QED
      BY <2>0, <3>1 DEF ProducedFits, Others, storeVars
  <2> QED
    BY <2>1, <2>2, <2>3
<1>4. CASE /\ Allowed(r, s)
           /\ r.method # "refresh"
           /\ snap' = [snap EXCEPT ![c] = s]
           /\ key' = [key EXCEPT ![c] = KeyOf(r, s)]
           /\ Goto(c, IF KeyOf(r, s) = NoKey THEN "save" ELSE "begin")
           /\ UNCHANGED <<req, view>>
  <2>0. UNCHANGED storeVars /\ UNCHANGED faults
    BY DEF ReadActive
  <2> HIDE DEF s
  <2>k. KeyOf(r, s) \in OperationKey \cup {NoKey}
    <3>1. r \in Request
      BY DEF ServiceTypeOK
    <3>2. s.active = active
      BY DEF s
    <3>3. CASE r.method = "ingest"
      BY <3>1, <3>3 DEF KeyOf, OperationKey, OperationKind, Request
    <3>4. CASE r.method \in {"extract", "retry"}
      <4>1. active["INGESTION_RESULT"] # 0
        BY <1>4, <3>2, <3>4 DEF Allowed
      <4>2. artifacts[active["INGESTION_RESULT"]] \in Artifact
        BY <4>1, ArtifactTypes DEF ServiceTypeOK, StoreTypeOK
      <4>3. KeyOf(r, s) = <<"EXTRACT", artifacts[active["INGESTION_RESULT"]].doc,
                            r.artifact>>
        BY <3>2, <3>4 DEF KeyOf
      <4> QED
        BY <3>1, <4>2, <4>3 DEF OperationKey, OperationKind, Request, Artifact
    <3>5. CASE r.method \in {"assess", "generate_package"}
      <4>1. active \in [ArtifactType -> Nat]
        BY DEF ServiceTypeOK, StoreTypeOK
      <4> QED
        BY <3>2, <3>5, <4>1, ArtifactTypes DEF KeyOf, OperationKey, OperationKind
    <3> QED
      BY <3>3, <3>4, <3>5 DEF KeyOf
  <2>1. ServiceTypeOK'
    BY <1>1, <1>4, <2>0, <2>k
       DEF ServiceTypeOK, StoreTypeOK, Goto, PC, storeVars
  <2>2. KeyFits(c)'
    <3>1. /\ req'[c] = r /\ snap'[c] = s /\ key'[c] = KeyOf(r, s)
          /\ pc'[c] = IF KeyOf(r, s) = NoKey THEN "save" ELSE "begin"
      BY <1>4 DEF Goto, ServiceTypeOK
    <3>2. r.method # "refresh"
      BY <1>4
    <3>3. r.method \in ServiceMethods
      BY DEF ServiceTypeOK, Request
    <3>4. CASE r.method \in {"extract", "retry"}
      <4>1. KeyOf(r, s) = <<"EXTRACT", artifacts[s.active["INGESTION_RESULT"]].doc,
                            r.artifact>>
        BY <3>4 DEF KeyOf
      <4> QED
        BY <2>k, <3>1, <3>4, <4>1 DEF KeyFits, NoKey
    <3>5. CASE r.method \in {"start_review", "save_review", "approve",
                             "reset_to_review"}
      <4>1. KeyOf(r, s) = NoKey
        BY <3>5 DEF KeyOf
      <4> QED
        BY <1>4, <3>1, <3>5, <4>1 DEF KeyFits, Allowed, Approvable
    <3>6. CASE r.method \in {"ingest", "assess", "generate_package"}
      BY <1>4, <3>1, <3>6 DEF KeyFits, KeyOf, Allowed
    <3> QED
      BY <3>2, <3>3, <3>4, <3>5, <3>6 DEF ServiceMethods
  <2>3. SnapshotFits(c)'
    BY <1>4, <2>0 DEF SnapshotFits, s, ServiceTypeOK, StoreTypeOK, storeVars
  <2>4. CallsFit'
    BY <1>4, <2>0, <2>2, <2>3, CallsFrame
       DEF Goto, Others, StoreGrows, storeVars, ServiceTypeOK
  <2>5. ProducedFits'
    <3>1. Others(c) /\ pc'[c] # "activate"
      BY <1>4 DEF Goto, Others, ServiceTypeOK
    <3> QED
      BY <2>0, <3>1 DEF ProducedFits, Others, storeVars
  <2> QED
    BY <2>1, <2>4, <2>5
<1> QED
  BY <1>2, <1>3, <1>4 DEF ReadActive

LEMMA BeginKeeps ==
  ASSUME TypeInv, NEW c \in Clients, Begin(c)
  PROVE  TypeInv'
<1> USE DEF TypeInv
<1>1. Others(c) /\ UNCHANGED <<exists, artifacts>> /\ pc'[c] \in {"save", "fail"}
  BY DEF Begin, BeginOperation, Goto, Others, ServiceTypeOK
<1>2. KeyFits(c) /\ SnapshotFits(c) /\ key[c] \in OperationKey
  <2>1. Working(c) /\ pc[c] = "begin"
    BY DEF Begin, Working
  <2>2. KeyFits(c) /\ SnapshotFits(c)
    BY <2>1 DEF CallsFit
  <2>3. req[c].method \in ServiceMethods /\ key[c] \in OperationKey \cup {NoKey}
    BY DEF ServiceTypeOK, Request
  <2> QED
    BY <2>1, <2>2, <2>3 DEF KeyFits, NoKey, ServiceMethods
<1>3. ServiceTypeOK'
  BY <1>2 DEF Begin, BeginOperation, ServiceTypeOK, StoreTypeOK, Operation, Goto, PC
<1>4. KeyFits(c)'
  BY <1>1, <1>2 DEF Begin, KeyFits
<1>5. SnapshotFits(c)'
  BY <1>1, <1>2 DEF Begin, SnapshotFits
<1>6. CallsFit'
  BY <1>1, <1>4, <1>5, CallsFrame DEF StoreGrows, Begin, CanBegin
<1>7. ProducedFits'
  BY <1>1 DEF Begin, BeginOperation, CanBegin, ProducedFits, Others
<1> QED
  BY <1>3, <1>6, <1>7

LEMMA ReplayKeeps ==
  ASSUME TypeInv, NEW c \in Clients, Replay(c)
  PROVE  TypeInv'
<1> USE DEF TypeInv
<1>1. CASE Return(c) \/ Raise(c)
  BY <1>1, StepLeaves DEF Replay, ServiceTypeOK
<1>2. CASE Goto(c, "activate") /\ UNCHANGED <<req, snap, key, view>>
           /\ req[c].method \in {"ingest", "extract"}
  <2>1. Others(c) /\ pc'[c] = "activate" /\ UNCHANGED <<storeVars, faults>>
    BY <1>2 DEF Replay, Goto, Others, ServiceTypeOK
  <2>2. KeyFits(c) /\ SnapshotFits(c)
    BY DEF Replay, CallsFit, Working
  <2>3. ServiceTypeOK'
    BY <1>2, <2>1 DEF ServiceTypeOK, StoreTypeOK, Goto, PC, storeVars
  <2>4. KeyFits(c)' /\ SnapshotFits(c)'
    BY <1>2, <2>1, <2>2 DEF KeyFits, SnapshotFits, storeVars
  <2>5. CallsFit'
    BY <2>1, <2>4, CallsFrame DEF StoreGrows, storeVars
  <2>6. ProducedFits'
    BY <1>2, <2>1 DEF ProducedFits, Replay, Completed, Others, storeVars
  <2> QED
    BY <2>3, <2>5, <2>6
<1> QED
  BY <1>1, <1>2 DEF Replay

LEMMA ActivateKeeps ==
  ASSUME TypeInv, NEW c \in Clients, Activate(c)
  PROVE  TypeInv'
<1> USE DEF TypeInv
<1>1. CASE ~exists
  BY <1>1, StepLeaves DEF Activate, ServiceTypeOK
<1>2. CASE exists
  <2> DEFINE i == operations[key[c]].produced
  <2>1. i \in DOMAIN artifacts /\ i \in Nat /\ artifacts[i] \in Artifact
    BY <1>2 DEF Activate, ProducedFits, ServiceTypeOK, StoreTypeOK, Operation
  <2> HIDE DEF i
  <2>2. PICK s \in WorkflowStage, types \in SUBSET ArtifactType :
          ActivateArtifact(i, s, types)
    BY <1>2 DEF Activate, i, WorkflowStage, From, ArtifactType
  <2>3. UNCHANGED <<exists, pin, artifacts, operations, faults>> /\ Return(c)
    BY <1>2, <2>2 DEF Activate, ActivateArtifact
  <2>4. ClientsTyped' /\ Others(c) /\ pc'[c] \in {"idle", "stage"}
    BY <2>3, Leaving
  <2>5. StoreTypeOK'
    BY <2>1, <2>2, <2>3 DEF ActivateArtifact, ServiceTypeOK, StoreTypeOK, Artifact
  <2>6. ServiceTypeOK'
    BY <2>3, <2>4, <2>5 DEF ServiceTypeOK, ClientsTyped
  <2>7. CallsFit'
    BY <2>3, <2>4, CallsFrame DEF StoreGrows, Working
  <2>8. ProducedFits'
    BY <2>3, <2>4 DEF ProducedFits, Others
  <2> QED
    BY <2>6, <2>7, <2>8
<1> QED
  BY <1>1, <1>2

LEMMA FailKeeps ==
  ASSUME TypeInv, NEW c \in Clients, Fail(c)
  PROVE  TypeInv'
<1> USE DEF TypeInv
<1>1. CASE ~Started(key[c])
  BY <1>1, StepLeaves DEF Fail, ServiceTypeOK
<1>2. CASE Started(key[c])
  <2>1. ClientsTyped' /\ Others(c) /\ pc'[c] \in {"idle", "stage"}
    BY Leaving DEF Fail
  <2>2. FailOperation(key[c]) /\ UNCHANGED <<exists, artifacts, faults>>
    BY <1>2 DEF Fail, FailOperation
  <2>3. ServiceTypeOK'
    BY <1>2, <2>1, <2>2
       DEF FailOperation, Finish, ServiceTypeOK, StoreTypeOK, ClientsTyped,
           Operation, Started
  <2>4. CallsFit'
    BY <2>1, <2>2, CallsFrame DEF StoreGrows, Working
  <2>5. ProducedFits'
    BY <1>2, <2>1, <2>2 DEF ProducedFits, Others, FailOperation, Finish, Started
  <2> QED
    BY <2>3, <2>4, <2>5
<1> QED
  BY <1>1, <1>2

LEMMA SaveRaisesKeeps ==
  ASSUME TypeInv, NEW c \in Clients, pc[c] = "save",
         \/ Raise(c)
         \/ key[c] # NoKey /\ Goto(c, "fail") /\ UNCHANGED <<req, snap, key, view>>,
         UNCHANGED storeVars, faults' \in 0..MaxFaults
  PROVE  TypeInv'
<1> USE DEF TypeInv
<1>1. CASE Raise(c)
  BY <1>1, StepLeaves
<1>2. CASE key[c] # NoKey /\ Goto(c, "fail") /\ UNCHANGED <<req, snap, key, view>>
  <2>1. Others(c) /\ pc'[c] = "fail"
    BY <1>2 DEF Goto, Others, ServiceTypeOK
  <2>2. KeyFits(c) /\ SnapshotFits(c)
    BY DEF CallsFit, Working
  <2>3. ServiceTypeOK'
    BY <1>2, <2>1 DEF ServiceTypeOK, StoreTypeOK, Goto, PC, storeVars
  <2>4. KeyFits(c)' /\ SnapshotFits(c)'
    BY <1>2, <2>1, <2>2 DEF KeyFits, SnapshotFits, storeVars
  <2>5. CallsFit'
    BY <2>1, <2>4, CallsFrame DEF StoreGrows, storeVars
  <2>6. ProducedFits'
    BY <1>2, <2>1 DEF ProducedFits, Others, storeVars
  <2> QED
    BY <2>3, <2>5, <2>6
<1> QED
  BY <1>1, <1>2

LEMMA FaultBound ==
  ASSUME ServiceTypeOK, NEW kind, Fault(kind)
  PROVE  faults' \in 0..MaxFaults
BY BoundsAssumption DEF ServiceTypeOK, Fault

LEMMA SaveFailsKeeps ==
  ASSUME TypeInv, NEW c \in Clients,
         SaveRefused(c) \/ SaveFault(c) \/ EngineRaises(c)
  PROVE  TypeInv'
<1> USE DEF TypeInv
<1>1. faults' \in 0..MaxFaults
  BY FaultBound DEF SaveRefused, SaveFault, EngineRaises, ServiceTypeOK
<1>2. CASE SaveRefused(c) \/ SaveFault(c)
  BY <1>1, <1>2, SaveRaisesKeeps DEF SaveRefused, SaveFault, SaveRaises
<1>3. CASE EngineRaises(c)
  <2>1. KeyFits(c)
    BY <1>3 DEF EngineRaises, CallsFit, Working
  <2>2. req[c].method \in {"extract", "retry"} => key[c] # NoKey
    BY <2>1 DEF KeyFits, NoKey
  <2> QED
    BY <1>1, <1>3, <2>2, SaveRaisesKeeps DEF EngineRaises
<1> QED
  BY <1>2, <1>3

LEMMA ResetKeeps ==
  ASSUME TypeInv, NEW c \in Clients, ResetToReview(c)
  PROVE  TypeInv'
<1> USE DEF TypeInv
<1>1. CASE ~exists
  BY <1>1, StepLeaves DEF ResetToReview, ServiceTypeOK
<1>2. CASE exists
  <2>1. /\ InvalidateActive(From(4), "in-review")
        /\ Return(c)
        /\ UNCHANGED <<exists, pin, artifacts, operations, faults>>
    BY <1>2 DEF ResetToReview, InvalidateActive
  <2>2. ClientsTyped' /\ Others(c) /\ pc'[c] \in {"idle", "stage"}
    BY <2>1, Leaving
  <2>3. StoreTypeOK'
    BY <2>1 DEF InvalidateActive, ServiceTypeOK, StoreTypeOK, WorkflowStage
  <2>4. ServiceTypeOK'
    BY <2>1, <2>2, <2>3 DEF ServiceTypeOK, ClientsTyped
  <2>5. CallsFit'
    BY <2>1, <2>2, CallsFrame DEF StoreGrows, Working
  <2>6. ProducedFits'
    BY <2>1, <2>2 DEF ProducedFits, Others
  <2> QED
    BY <2>4, <2>5, <2>6
<1> QED
  BY <1>1, <1>2

LEMMA PinKeeps ==
  ASSUME TypeInv, NEW c \in Clients, Pin(c)
  PROVE  TypeInv'
<1> USE DEF TypeInv
<1>1. ServiceTypeOK'
  BY DEF Pin, PinDecisionContract, ServiceTypeOK, StoreTypeOK
<1>2. CallsFit'
  BY DEF Pin, PinDecisionContract, CallsFit, Working, KeyFits, SnapshotFits
<1>3. ProducedFits'
  BY DEF Pin, PinDecisionContract, ProducedFits
<1> QED
  BY <1>1, <1>2, <1>3

LEMMA DeleteKeeps ==
  ASSUME TypeInv, NEW c \in Clients, Delete(c)
  PROVE  TypeInv'
<1> USE DEF TypeInv
<1>1. StoreTypeOK'
  <2>1. artifacts' \in Seq(Artifact)
    BY EmptySeq DEF Delete, DeleteAssessment
  <2>2. DOMAIN operations' = {}
    BY DEF Delete, DeleteAssessment, NoOperations
  <2> QED
    BY <2>1, <2>2 DEF Delete, DeleteAssessment, ServiceTypeOK, StoreTypeOK, NoneActive
<1>2. ServiceTypeOK'
  BY <1>1, NoValues DEF Delete, ServiceTypeOK
<1>3. CallsFit'
  BY DEF Delete, DeleteAssessment, CallsFit, Working, KeyFits, SnapshotFits
<1>4. ProducedFits'
  BY DEF Delete, DeleteAssessment, ProducedFits, NoOperations
<1> QED
  BY <1>2, <1>3, <1>4

LEMMA CrashKeeps ==
  ASSUME TypeInv, Crash
  PROVE  TypeInv'
<1> USE DEF TypeInv
<1>1. faults' \in 0..MaxFaults
  BY FaultBound DEF Crash
<1>2. ServiceTypeOK'
  BY <1>1, NoValues DEF Crash, ServiceTypeOK, StoreTypeOK, PC, storeVars
<1>3. CallsFit'
  BY DEF Crash, CallsFit, Working
<1>4. ProducedFits'
  BY DEF Crash, ProducedFits, storeVars
<1> QED
  BY <1>2, <1>3, <1>4

(***************************************************************************)
(* Saving                                                                  *)
(***************************************************************************)
\* What a call saves, by its method.
ProductFits(c, a) ==
  LET m == req[c].method
      read == snap[c].active
  IN /\ a \in Artifact
     /\ m = "ingest" => a.type = "INGESTION_RESULT" /\ a.doc = req[c].doc
     /\ m \in {"extract", "retry"} => a.type = "CANDIDATE_EXTRACTION_RESULT"
     /\ m \in {"start_review", "save_review"} => a.type = "REVIEW_SESSION"
     /\ m = "approve" => /\ a.type = "APPROVED_REVIEW"
                         /\ RequiredEdits \subseteq a.review.edits
     /\ m = "assess" => /\ a.type = "INTEGRATED_ASSESSMENT_RESULT"
                        /\ a.parent = read["APPROVED_REVIEW"]
     /\ m = "generate_package" => /\ a.type = "DECISION_PACKAGE_RESULT"
                                  /\ a.parent = read["INTEGRATED_ASSESSMENT_RESULT"]
     /\ m \in {"assess", "generate_package"} => a.contract = "phase1-v0.3"

LEMMA Products ==
  ASSUME TypeInv, NEW c \in Clients, NEW ok \in BOOLEAN, exists,
         pc[c] = "save", req[c].method # "reset_to_review"
  PROVE  ProductFits(c, Product(c, ok))
<1> DEFINE m == req[c].method
           read == snap[c].active
           a == Product(c, ok)
<1> USE DEF TypeInv
<1>0. /\ req[c] \in Request /\ m \in ServiceMethods /\ m # "refresh"
      /\ snap[c] \in Snapshot /\ read \in [ArtifactType -> Nat]
      /\ KeyFits(c) /\ SnapshotFits(c)
  BY DEF ServiceTypeOK, Request, Snapshot, CallsFit, Working, KeyFits
<1>1. \A t \in ArtifactType, p \in Nat :
        /\ NewArtifact(t, p) \in Artifact
        /\ NewArtifact(t, p).type = t /\ NewArtifact(t, p).parent = p
  BY NoValues DEF NewArtifact, Artifact
<1>2. CASE m = "ingest"
  <2> DEFINE readable == req[c].doc \notin UnreadableDocs
  <2>1. a = [NewArtifact("INGESTION_RESULT", 0) EXCEPT
               !.doc = req[c].doc, !.ok = readable]
    BY <1>2 DEF Product
  <2>2. readable \in BOOLEAN
    OBVIOUS
  <2> HIDE DEF readable
  <2>3. req[c].doc \in Docs \cup {NoDoc}
    BY <1>0 DEF Request
  <2>4. a = [type |-> "INGESTION_RESULT", parent |-> 0, doc |-> req[c].doc,
             ok |-> readable, review |-> NoReview, contract |-> "none"]
    BY <2>1 DEF NewArtifact
  <2>5. a \in Artifact /\ a.type = "INGESTION_RESULT" /\ a.doc = req[c].doc
    BY <2>2, <2>3, <2>4, NoValues, ArtifactTypes DEF Artifact
  <2> HIDE DEF a
  <2>6. ProductFits(c, a)
    BY <1>2, <2>5 DEF ProductFits
  <2> QED
    BY <2>6 DEF a
<1>3. CASE m \in {"extract", "retry"}
  <2>1. a = [NewArtifact("CANDIDATE_EXTRACTION_RESULT", read["INGESTION_RESULT"])
               EXCEPT !.ok = ok]
    BY <1>3 DEF Product
  <2> QED
    BY <1>0, <1>3, <2>1, NoValues, ArtifactTypes
       DEF ProductFits, NewArtifact, Artifact
<1>4. CASE m = "start_review"
  <2>1. a = [NewArtifact("REVIEW_SESSION", read["CANDIDATE_EXTRACTION_RESULT"])
               EXCEPT !.review.session = Len(artifacts) + 1]
    BY <1>4 DEF Product
  <2>2. [NoReview EXCEPT !.session = Len(artifacts) + 1] \in Review
    BY NoValues DEF Review, NoReview, ServiceTypeOK, StoreTypeOK
  <2> QED
    BY <1>0, <1>4, <2>1, <2>2, ArtifactTypes
       DEF ProductFits, NewArtifact, Artifact
<1>5. CASE m = "save_review"
  <2>1. a = [NewArtifact("REVIEW_SESSION",
                         artifacts[read["REVIEW_SESSION"]].parent)
               EXCEPT !.review = req[c].review]
    BY <1>5 DEF Product
  <2>2. artifacts[read["REVIEW_SESSION"]] \in Artifact
    BY <1>0, <1>5, ArtifactTypes
       DEF KeyFits, SnapshotFits, ServiceTypeOK, StoreTypeOK
  <2> QED
    BY <1>0, <1>5, <2>1, <2>2, ArtifactTypes
       DEF ProductFits, NewArtifact, Artifact, Request
<1>6. CASE m = "approve"
  <2>1. a = [NewArtifact("APPROVED_REVIEW", read["REVIEW_SESSION"])
               EXCEPT !.review = snap[c].review]
    BY <1>6 DEF Product
  <2> QED
    BY <1>0, <1>6, <2>1, ArtifactTypes
       DEF ProductFits, NewArtifact, Artifact, Snapshot, KeyFits
<1>7. CASE m = "assess"
  <2>1. a = [NewArtifact("INTEGRATED_ASSESSMENT_RESULT", read["APPROVED_REVIEW"])
               EXCEPT !.ok = ok, !.contract = "phase1-v0.3"]
    BY <1>7 DEF Product
  <2> QED
    BY <1>0, <1>7, <2>1, NoValues, ArtifactTypes
       DEF ProductFits, NewArtifact, Artifact, Contract
<1>8. CASE m = "generate_package"
  <2>1. a = [NewArtifact("DECISION_PACKAGE_RESULT",
                         read["INTEGRATED_ASSESSMENT_RESULT"])
               EXCEPT !.ok = ok, !.contract = "phase1-v0.3"]
    BY <1>8 DEF Product
  <2> QED
    BY <1>0, <1>8, <2>1, NoValues, ArtifactTypes
       DEF ProductFits, NewArtifact, Artifact, Contract
<1> QED
  BY <1>0, <1>2, <1>3, <1>4, <1>5, <1>6, <1>7, <1>8 DEF ServiceMethods

\* A save either appends its artifact or, for a review, overwrites the review
\* of one that is there; a call with an operation completes it.
SaveFits(c, a) ==
  /\ exists /\ UNCHANGED <<exists, pin, faults>>
  /\ a.contract \in {"none", pin}
  /\ a.parent # 0 => /\ a.parent \in DOMAIN artifacts
                     /\ artifacts[a.parent].type = ExpectedParent(a.type)
  /\ \/ artifacts' = Append(artifacts, a)
     \/ /\ a.type = "REVIEW_SESSION"
        /\ \E i \in DOMAIN artifacts :
             /\ artifacts[i].type = "REVIEW_SESSION"
             /\ artifacts' = [artifacts EXCEPT ![i].review = a.review]
  /\ IF key[c] = NoKey THEN operations' = operations
     ELSE /\ Started(key[c])
          /\ artifacts' = Append(artifacts, a)
          /\ operations' = Finish(key[c], "completed", Len(artifacts) + 1)

LEMMA Saves ==
  ASSUME TypeInv, NEW c \in Clients, Save(c)
  PROVE  \E a \in Artifact : /\ ProductFits(c, a)
                             /\ SaveFits(c, a)
                             /\ StoreTypeOK'
<1> USE DEF TypeInv
<1>0. exists /\ pc[c] = "save" /\ req[c].method # "reset_to_review"
  BY DEF Save
<1>1. PICK ok \in BOOLEAN :
        /\ CanSave(Product(c, ok), key[c])
        /\ SaveArtifact(Product(c, ok), StageAfter(Product(c, ok)),
                        Deactivated(c), req[c].method = "save_review", key[c])
  BY DEF Save
<1> DEFINE a == Product(c, ok)
           replace == req[c].method = "save_review"
           kept == [t \in ArtifactType |-> IF t \in Deactivated(c) THEN 0
                                                                  ELSE active[t]]
           old == Overwritten(a, replace, kept)
           id == IF old # 0 THEN old ELSE Len(artifacts) + 1
<1>2. ProductFits(c, a)
  BY <1>0, Products
<1>3. /\ KeyFits(c) /\ req[c].method \in ServiceMethods
      /\ StoreTypeOK
  BY <1>0 DEF CallsFit, Working, ServiceTypeOK, Request
<1>4. /\ artifacts' = IF old # 0 THEN [artifacts EXCEPT ![old].review = a.review]
                                 ELSE Append(artifacts, a)
      /\ active' = [kept EXCEPT ![a.type] = id]
      /\ stage' = StageAfter(a)
      /\ operations' = IF key[c] = NoKey THEN operations
                                         ELSE Finish(key[c], "completed", id)
      /\ UNCHANGED <<exists, pin>>
  BY <1>1 DEF SaveArtifact
<1>5. /\ a.contract \in {"none", pin}
      /\ a.parent # 0 => /\ a.parent \in DOMAIN artifacts
                         /\ artifacts[a.parent].type = ExpectedParent(a.type)
      /\ key[c] # NoKey => Started(key[c])
  BY <1>1 DEF CanSave
<1>6. StageAfter(a) \in WorkflowStage
  BY DEF StageAfter, WorkflowStage
<1>7. a \in Artifact /\ a.type \in ArtifactType
  BY <1>2 DEF ProductFits, Artifact
<1> HIDE DEF a
<1>8. /\ kept \in [ArtifactType -> Nat]
      /\ \A t \in ArtifactType : kept[t] # 0 =>
           kept[t] \in DOMAIN artifacts /\ artifacts[kept[t]].type = t
  BY <1>3 DEF StoreTypeOK
<1> HIDE DEF kept
<1>9. old # 0 => /\ a.type = "REVIEW_SESSION" /\ old = kept[a.type]
                 /\ old \in DOMAIN artifacts
                 /\ artifacts[old].type = "REVIEW_SESSION"
                 /\ replace
  BY <1>7, <1>8 DEF Overwritten
<1> HIDE DEF old
<1>10. /\ key[c] # NoKey => old = 0
       /\ key[c] \in OperationKey \cup {NoKey}
  BY <1>3, <1>9 DEF KeyFits, ServiceTypeOK
<1>11. artifacts' \in Seq(Artifact)
  <2>1. CASE old = 0
    BY <1>3, <1>4, <1>7, <2>1 DEF StoreTypeOK
  <2>2. CASE old # 0
    <3>1. artifacts[old] \in Artifact
      BY <1>3, <1>9, <2>2 DEF StoreTypeOK
    <3>2. [artifacts[old] EXCEPT !.review = a.review] \in Artifact
      BY <1>7, <3>1 DEF Artifact
    <3>3. artifacts' = [artifacts EXCEPT ![old] =
                          [artifacts[old] EXCEPT !.review = a.review]]
      BY <1>4, <2>2
    <3> QED
      BY <1>3, <1>9, <2>2, <3>2, <3>3 DEF StoreTypeOK
  <2> QED
    BY <2>1, <2>2
<1>12. /\ id \in DOMAIN artifacts' /\ artifacts'[id].type = a.type
       /\ \A i \in DOMAIN artifacts : /\ i \in DOMAIN artifacts'
                                      /\ artifacts'[i].type = artifacts[i].type
  BY <1>3, <1>4, <1>7, <1>9, SMTT(30) DEF StoreTypeOK, Artifact
<1>13. id \in Nat
  BY <1>3, <1>8, <1>7, <1>9 DEF StoreTypeOK
<1> HIDE DEF id
<1>14. /\ active' \in [ArtifactType -> Nat]
       /\ \A t \in ArtifactType : active'[t] # 0 =>
            active'[t] \in DOMAIN artifacts' /\ artifacts'[active'[t]].type = t
  BY <1>4, <1>7, <1>8, <1>12, <1>13
<1>15. /\ DOMAIN operations' \subseteq OperationKey
       /\ \A k \in DOMAIN operations' : operations'[k] \in Operation
  BY <1>3, <1>4, <1>5, <1>13 DEF StoreTypeOK, Finish, Started, Operation
<1>16. StoreTypeOK'
  BY <1>3, <1>4, <1>6, <1>11, <1>14, <1>15 DEF StoreTypeOK
<1>17. SaveFits(c, a)
  <2>1. UNCHANGED faults
    BY DEF Save
  <2>2. \/ artifacts' = Append(artifacts, a)
        \/ /\ a.type = "REVIEW_SESSION"
           /\ \E i \in DOMAIN artifacts :
                /\ artifacts[i].type = "REVIEW_SESSION"
                /\ artifacts' = [artifacts EXCEPT ![i].review = a.review]
    BY <1>4, <1>9
  <2>3. key[c] # NoKey => /\ artifacts' = Append(artifacts, a)
                          /\ operations' = Finish(key[c], "completed",
                                                  Len(artifacts) + 1)
    BY <1>4, <1>10 DEF id
  <2> QED
    BY <1>0, <1>4, <1>5, <2>1, <2>2, <2>3 DEF SaveFits
<1> QED
  BY <1>2, <1>7, <1>16, <1>17

LEMMA SaveKeeps ==
  ASSUME TypeInv, NEW c \in Clients, Save(c)
  PROVE  TypeInv'
<1> USE DEF TypeInv
<1>1. ClientsTyped' /\ Others(c) /\ pc'[c] \in {"idle", "stage"}
  BY Leaving DEF Save
<1>2. PICK a \in Artifact : SaveFits(c, a) /\ StoreTypeOK'
  BY Saves
<1>3. ServiceTypeOK'
  BY <1>1, <1>2 DEF ServiceTypeOK, ClientsTyped, SaveFits
<1>4. DOMAIN artifacts \subseteq DOMAIN artifacts'
  BY <1>2 DEF SaveFits, ServiceTypeOK, StoreTypeOK
<1>5. CallsFit'
  BY <1>1, <1>2, <1>4, CallsFrame DEF StoreGrows, Working, SaveFits
<1>6. ProducedFits'
  <2>1. CASE key[c] = NoKey
    BY <1>1, <1>2, <1>4, <2>1 DEF ProducedFits, SaveFits, Others
  <2>2. CASE key[c] # NoKey
    <3>1. /\ Started(key[c])
          /\ artifacts' = Append(artifacts, a)
          /\ operations' = Finish(key[c], "completed", Len(artifacts) + 1)
      BY <1>2, <2>2 DEF SaveFits
    <3>2. Len(artifacts) + 1 \in DOMAIN artifacts'
      BY <3>1 DEF ServiceTypeOK, StoreTypeOK
    <3>3. \A k \in DOMAIN operations' :
            operations'[k].status = "completed"
              => operations'[k].produced \in DOMAIN artifacts'
      BY <1>4, <3>1, <3>2 DEF ProducedFits, Finish
    <3>4. \A d \in Clients :
            exists' /\ pc'[d] = "activate"
              => /\ key'[d] \in DOMAIN operations'
                 /\ operations'[key'[d]].status = "completed"
      BY <1>1, <1>2, <3>1 DEF ProducedFits, Others, Finish, SaveFits
    <3> QED
      BY <3>3, <3>4 DEF ProducedFits
  <2> QED
    BY <2>1, <2>2
<1> QED
  BY <1>3, <1>5, <1>6

(***************************************************************************)
(* The type invariant                                                      *)
(***************************************************************************)
LEMMA TypeInvStep == TypeInv /\ [Next]_vars => TypeInv'
<1> SUFFICES ASSUME TypeInv, [Next]_vars PROVE TypeInv'
  OBVIOUS
<1>1. CASE UNCHANGED vars
  BY <1>1 DEF vars, TypeInv, ServiceTypeOK, StoreTypeOK, CallsFit, Working,
              KeyFits, SnapshotFits, ProducedFits
<1>2. ASSUME NEW c \in Clients, BeginRefused(c) PROVE TypeInv'
  BY <1>2, StepLeaves DEF BeginRefused, TypeInv, ServiceTypeOK
<1>3. ASSUME NEW c \in Clients,
             \/ Call(c) \/ Step(c) \/ SaveFault(c) \/ EngineRaises(c)
             \/ Pin(c) \/ Delete(c)
      PROVE  TypeInv'
  BY <1>2, <1>3, CallKeeps, ReadStageKeeps, ReadActiveKeeps, BeginKeeps,
     ReplayKeeps, ActivateKeeps, SaveKeeps, SaveFailsKeeps, FailKeeps,
     ResetKeeps, PinKeeps, DeleteKeeps
     DEF Step
<1> QED
  BY <1>1, <1>3, CrashKeeps DEF Next

\* Type correctness: every column of the store and every local of a call has
\* its type in every reachable state, and active artifacts are there and of
\* the type they are active for.
THEOREM TypeCorrect == Spec => []ServiceTypeOK
<1>1. Spec => []TypeInv
  BY InitTypeInv, TypeInvStep, PTL DEF Spec
<1>2. TypeInv => ServiceTypeOK
  BY DEF TypeInv
<1> QED
  BY <1>1, <1>2, PTL

-----------------------------------------------------------------------------
(***************************************************************************)
(* Proofs of the safety properties of the workspace, on top of its type    *)
(* invariant.                                                              *)
(***************************************************************************)

(***************************************************************************)
(* What a step of the system does to the store                             *)
(***************************************************************************)
Saving(c, a) ==
  /\ req[c].method \in ServiceMethods \ {"reset_to_review", "refresh"}
  /\ KeyFits(c)
  /\ ProductFits(c, a)
  /\ SaveFits(c, a)

StoreStep ==
  \/ UNCHANGED <<exists, pin, artifacts, operations>>
  \/ \E d \in Contract : CanPin(d) /\ PinDecisionContract(d)
  \/ \E c \in Clients : CanBegin(key[c]) /\ BeginOperation(key[c])
  \/ \E c \in Clients : \E a \in Artifact : Saving(c, a)
  \/ \E c \in Clients : Started(key[c]) /\ FailOperation(key[c])
  \/ exists /\ DeleteAssessment

LEMMA StoreSteps == TypeInv /\ [Next]_vars => StoreStep
<1> SUFFICES ASSUME TypeInv, [Next]_vars PROVE StoreStep
  OBVIOUS
<1>1. CASE UNCHANGED vars
  BY <1>1 DEF vars, StoreStep
<1>2. CASE Crash
  BY <1>2 DEF Crash, storeVars, StoreStep
<1>3. ASSUME NEW c \in Clients, Save(c) PROVE StoreStep
  <2>1. PICK a \in Artifact : ProductFits(c, a) /\ SaveFits(c, a)
    BY <1>3, Saves
  <2>2. KeyFits(c) /\ req[c].method \in ServiceMethods \ {"reset_to_review", "refresh"}
    BY <1>3 DEF Save, TypeInv, CallsFit, Working, KeyFits, ServiceTypeOK, Request
  <2> QED
    BY <2>1, <2>2 DEF StoreStep, Saving
<1>4. ASSUME NEW c \in Clients, Fail(c) PROVE StoreStep
  BY <1>4 DEF Fail, StoreStep, storeVars
<1>5. ASSUME NEW c \in Clients, Activate(c) \/ ResetToReview(c) PROVE StoreStep
  BY <1>5 DEF Activate, ActivateArtifact, ResetToReview, InvalidateActive,
              StoreStep, storeVars
<1>6. ASSUME NEW c \in Clients, Call(c) PROVE StoreStep
  BY <1>6 DEF Call, IngestButton, ExtractButton, RetryButton, StartReviewButton,
              ReviewEdit, ApproveButton, AssessButton, PackageButton, ResetCall,
              RefreshPage, AskPlain, Ask, StoreStep, storeVars
<1>7. ASSUME NEW c \in Clients,
             \/ ReadStage(c) \/ ReadActive(c) \/ BeginRefused(c) \/ Replay(c)
             \/ SaveRefused(c) \/ SaveFault(c) \/ EngineRaises(c)
      PROVE  UNCHANGED storeVars
  BY <1>7 DEF ReadStage, ReadActive, BeginRefused, Replay, SaveRefused, SaveFault,
              EngineRaises
<1>8. ASSUME NEW c \in Clients, Begin(c) \/ Pin(c) \/ Delete(c) PROVE StoreStep
  BY <1>8 DEF Begin, Pin, Delete, StoreStep
<1> QED
  BY <1>1, <1>2, <1>3, <1>4, <1>5, <1>6, <1>7, <1>8
     DEF Next, Step, StoreStep, storeVars

LEMMA TypeInvariant == Spec => []TypeInv
BY InitTypeInv, TypeInvStep, PTL DEF Spec

(***************************************************************************)
(* Exactly once                                                            *)
(***************************************************************************)
\* Every ingestion, assessment and package is the product of the completed
\* operation whose key names it.
Done(k, i) == /\ k \in DOMAIN operations
              /\ operations[k] = [status |-> "completed", produced |-> i]

Recorded ==
  \A i \in DOMAIN artifacts :
    LET a == artifacts[i]
    IN /\ a.type = "INGESTION_RESULT" => Done(<<"INGEST", a.doc, 0>>, i)
       /\ a.type = "INTEGRATED_ASSESSMENT_RESULT" => Done(<<"ASSESS", a.parent, 0>>, i)
       /\ a.type = "DECISION_PACKAGE_RESULT" =>
            Done(<<"GENERATE_PACKAGE", a.parent, 0>>, i)

LEMMA RecordedStep == TypeInv /\ Recorded /\ StoreStep => Recorded'
<1> SUFFICES ASSUME TypeInv, Recorded, StoreStep PROVE Recorded'
  OBVIOUS
<1>0. StoreTypeOK
  BY DEF TypeInv, ServiceTypeOK
<1>1. CASE UNCHANGED <<exists, pin, artifacts, operations>>
  BY <1>1 DEF Recorded, Done
<1>2. ASSUME NEW d \in Contract, PinDecisionContract(d) PROVE Recorded'
  BY <1>2 DEF Recorded, Done, PinDecisionContract
<1>3. ASSUME NEW c \in Clients, CanBegin(key[c]), BeginOperation(key[c])
      PROVE  Recorded'
  <2>1. \A k, i : Done(k, i) => Done(k, i)'
    BY <1>3 DEF Done, CanBegin, BeginOperation
  <2> QED
    BY <1>3, <2>1 DEF Recorded, BeginOperation
<1>4. ASSUME NEW c \in Clients, Started(key[c]), FailOperation(key[c])
      PROVE  Recorded'
  <2>1. \A k, i : Done(k, i) => Done(k, i)'
    BY <1>4 DEF Done, Started, FailOperation, Finish
  <2> QED
    BY <1>4, <2>1 DEF Recorded, FailOperation
<1>5. CASE exists /\ DeleteAssessment
  BY <1>5 DEF Recorded, DeleteAssessment
<1>6. ASSUME NEW c \in Clients, NEW a \in Artifact, Saving(c, a) PROVE Recorded'
  <2>1. \A k, i : Done(k, i) => Done(k, i)'
    BY <1>6 DEF Done, Saving, SaveFits, Started, Finish
  <2>2. CASE artifacts' = Append(artifacts, a)
    <3>1. \A i \in DOMAIN artifacts : artifacts'[i] = artifacts[i]
      BY <1>0, <2>2 DEF StoreTypeOK
    <3>2. PICK n \in Nat : n = Len(artifacts) + 1
      BY <1>0 DEF StoreTypeOK
    <3>3. DOMAIN artifacts' = DOMAIN artifacts \cup {n} /\ artifacts'[n] = a
      BY <1>0, <2>2, <3>2 DEF StoreTypeOK
    <3>4. ASSUME NEW k, k = key[c], k # NoKey PROVE Done(k, n)'
      BY <1>6, <3>2, <3>4 DEF Saving, SaveFits, Started, Finish, Done
    <3>5. CASE a.type = "INGESTION_RESULT"
      <4>1. req[c].method = "ingest"
        BY <1>6, <3>5 DEF Saving, ProductFits, ServiceMethods
      <4>2. key[c] = <<"INGEST", a.doc, 0>> /\ <<"INGEST", a.doc, 0>> # NoKey
        BY <1>6, <4>1 DEF Saving, ProductFits, KeyFits, NoKey
      <4>3. Done(<<"INGEST", a.doc, 0>>, n)'
        BY <3>4, <4>2
      <4> QED
        BY <2>1, <3>1, <3>3, <3>5, <4>3 DEF Recorded
    <3>6. CASE a.type = "INTEGRATED_ASSESSMENT_RESULT"
      <4>1. req[c].method = "assess"
        BY <1>6, <3>6 DEF Saving, ProductFits, ServiceMethods
      <4>2. key[c] = <<"ASSESS", a.parent, 0>> /\ <<"ASSESS", a.parent, 0>> # NoKey
        BY <1>6, <4>1 DEF Saving, ProductFits, KeyFits, NoKey
      <4>3. Done(<<"ASSESS", a.parent, 0>>, n)'
        BY <3>4, <4>2
      <4> QED
        BY <2>1, <3>1, <3>3, <3>6, <4>3 DEF Recorded
    <3>7. CASE a.type = "DECISION_PACKAGE_RESULT"
      <4>1. req[c].method = "generate_package"
        BY <1>6, <3>7 DEF Saving, ProductFits, ServiceMethods
      <4>2. /\ key[c] = <<"GENERATE_PACKAGE", a.parent, 0>>
            /\ <<"GENERATE_PACKAGE", a.parent, 0>> # NoKey
        BY <1>6, <4>1 DEF Saving, ProductFits, KeyFits, NoKey
      <4>3. Done(<<"GENERATE_PACKAGE", a.parent, 0>>, n)'
        BY <3>4, <4>2
      <4> QED
        BY <2>1, <3>1, <3>3, <3>7, <4>3 DEF Recorded
    <3> QED
      BY <2>1, <3>1, <3>3, <3>5, <3>6, <3>7 DEF Recorded
  <2>3. ASSUME NEW j \in DOMAIN artifacts, artifacts[j].type = "REVIEW_SESSION",
               artifacts' = [artifacts EXCEPT ![j].review = a.review]
        PROVE  Recorded'
    <3>1. /\ DOMAIN artifacts' = DOMAIN artifacts
          /\ \A i \in DOMAIN artifacts : /\ artifacts'[i].type = artifacts[i].type
                                         /\ i # j => artifacts'[i] = artifacts[i]
      BY <1>0, <2>3 DEF StoreTypeOK, Artifact
    <3> QED
      BY <2>1, <2>3, <3>1 DEF Recorded
  <2> QED
    BY <1>6, <2>2, <2>3 DEF Saving, SaveFits
<1> QED
  BY <1>1, <1>2, <1>3, <1>4, <1>5, <1>6 DEF StoreStep

\* Exactly once: however calls overlap, fail, crash and are repeated, one
\* source is ingested, one approval assessed and one assessment packaged at
\* most once (begin_operation and the completion in save_artifact_and_advance).
THEOREM ExactlyOnceHolds == Spec => []ExactlyOnce
<1>1. Init => Recorded
  BY DEF Init, StoreInit, Recorded
<1>2. TypeInv /\ Recorded /\ [Next]_vars => Recorded'
  BY StoreSteps, RecordedStep
<1>3. Recorded => ExactlyOnce
  <2> SUFFICES ASSUME Recorded PROVE ExactlyOnce
    OBVIOUS
  <2>1. ASSUME NEW k, NEW i, NEW j, Done(k, i), Done(k, j) PROVE i = j
    BY <2>1 DEF Done
  <2>2. \A i, j \in OfType("INGESTION_RESULT") :
          artifacts[i].doc = artifacts[j].doc => i = j
    BY <2>1 DEF Recorded, OfType
  <2>3. \A i, j \in OfType("INTEGRATED_ASSESSMENT_RESULT") :
          artifacts[i].parent = artifacts[j].parent => i = j
    BY <2>1 DEF Recorded, OfType
  <2>4. \A i, j \in OfType("DECISION_PACKAGE_RESULT") :
          artifacts[i].parent = artifacts[j].parent => i = j
    BY <2>1 DEF Recorded, OfType
  <2>5. \A i, j \in Outcomes :
          artifacts[i].type = artifacts[j].type
            /\ artifacts[i].parent = artifacts[j].parent => i = j
    BY <2>3, <2>4 DEF Outcomes, OfType
  <2> QED
    BY <2>2, <2>5 DEF ExactlyOnce
<1> QED
  BY <1>1, <1>2, <1>3, TypeInvariant, PTL DEF Spec

(***************************************************************************)
(* What a save leaves as it was                                            *)
(***************************************************************************)
LEMMA SavedArtifacts ==
  ASSUME TypeInv, NEW c \in Clients, NEW a \in Artifact, Saving(c, a)
  PROVE  /\ \A i \in DOMAIN artifacts :
              /\ i \in DOMAIN artifacts'
              /\ artifacts'[i] = [artifacts[i] EXCEPT
                   !.review = IF artifacts[i].type = "REVIEW_SESSION"
                              THEN artifacts'[i].review ELSE @]
         /\ \A i \in DOMAIN artifacts' \ DOMAIN artifacts : artifacts'[i] = a
<1>0. /\ artifacts \in Seq(Artifact)
      /\ \A i \in DOMAIN artifacts : artifacts[i] \in Artifact
  BY DEF TypeInv, ServiceTypeOK, StoreTypeOK
<1>1. \A r \in Artifact : [r EXCEPT !.review = r.review] = r
  BY DEF Artifact
<1>2. CASE artifacts' = Append(artifacts, a)
  <2>1. \A i \in DOMAIN artifacts : i \in DOMAIN artifacts' /\ artifacts'[i] = artifacts[i]
    BY <1>0, <1>2
  <2>2. \A i \in DOMAIN artifacts' \ DOMAIN artifacts : artifacts'[i] = a
    BY <1>0, <1>2
  <2> QED
    BY <1>0, <1>1, <2>1, <2>2
<1>3. ASSUME NEW j \in DOMAIN artifacts, artifacts[j].type = "REVIEW_SESSION",
             artifacts' = [artifacts EXCEPT ![j].review = a.review]
      PROVE  /\ DOMAIN artifacts' = DOMAIN artifacts
             /\ \A i \in DOMAIN artifacts :
                  artifacts'[i] = [artifacts[i] EXCEPT
                    !.review = IF artifacts[i].type = "REVIEW_SESSION"
                               THEN artifacts'[i].review ELSE @]
  <2>1. DOMAIN artifacts' = DOMAIN artifacts
    BY <1>3
  <2>2. \A i \in DOMAIN artifacts : i # j => artifacts'[i] = artifacts[i]
    BY <1>3
  <2>3. /\ artifacts'[j] = [artifacts[j] EXCEPT !.review = a.review]
        /\ artifacts'[j].review = a.review
    BY <1>0, <1>3 DEF Artifact
  <2> QED
    BY <1>0, <1>1, <1>3, <2>1, <2>2, <2>3
<1> QED
  BY <1>2, <1>3 DEF Saving, SaveFits

\* Every earlier revision keeps its type, parent and contract.
LEMMA SavedKeep ==
  ASSUME TypeInv, NEW c \in Clients, NEW a \in Artifact, Saving(c, a)
  PROVE  \A i \in DOMAIN artifacts :
           /\ i \in DOMAIN artifacts'
           /\ artifacts'[i].type = artifacts[i].type
           /\ artifacts'[i].parent = artifacts[i].parent
           /\ artifacts'[i].contract = artifacts[i].contract
           /\ artifacts[i].type # "REVIEW_SESSION"
                => artifacts'[i].review = artifacts[i].review
<1>1. \A i \in DOMAIN artifacts : artifacts[i] \in Artifact
  BY DEF TypeInv, ServiceTypeOK, StoreTypeOK
<1>2. \A r \in Artifact : \A x : LET s == [r EXCEPT !.review = x]
                             IN /\ s.type = r.type
                                /\ s.parent = r.parent
                                /\ s.contract = r.contract
                                /\ s.review = x
  BY DEF Artifact
<1>3. SUFFICES ASSUME NEW i \in DOMAIN artifacts
               PROVE  /\ i \in DOMAIN artifacts'
                      /\ artifacts'[i].type = artifacts[i].type
                      /\ artifacts'[i].parent = artifacts[i].parent
                      /\ artifacts'[i].contract = artifacts[i].contract
                      /\ artifacts[i].type # "REVIEW_SESSION"
                           => artifacts'[i].review = artifacts[i].review
  OBVIOUS
<1> DEFINE x == IF artifacts[i].type = "REVIEW_SESSION"
                THEN artifacts'[i].review ELSE artifacts[i].review
<1>4. i \in DOMAIN artifacts' /\ artifacts'[i] = [artifacts[i] EXCEPT !.review = x]
  BY SavedArtifacts
<1>5. artifacts[i].type # "REVIEW_SESSION" => x = artifacts[i].review
  OBVIOUS
<1> HIDE DEF x
<1> QED
  BY <1>1, <1>2, <1>4, <1>5

\* A stored revision never changes and never goes away while the assessment
\* exists, except the payload of a review: no transaction of the store but the
\* replacement in save_artifact_and_advance touches a stored row.
THEOREM RevisionsKeptHolds == Spec => RevisionsKept
<1> DEFINE Kept == exists' => \A i \in DOMAIN artifacts :
             /\ i \in DOMAIN artifacts'
             /\ artifacts'[i] = [artifacts[i] EXCEPT
                  !.review = IF artifacts[i].type = "REVIEW_SESSION"
                             THEN artifacts'[i].review ELSE @]
<1>1. TypeInv /\ [Next]_vars => Kept
  <2> SUFFICES ASSUME TypeInv, [Next]_vars PROVE Kept
    OBVIOUS
  <2>1. \A i \in DOMAIN artifacts : artifacts[i] \in Artifact
    BY DEF TypeInv, ServiceTypeOK, StoreTypeOK
  <2>2. CASE UNCHANGED artifacts
    BY <2>1, <2>2 DEF Artifact
  <2>3. ASSUME NEW c \in Clients, NEW a \in Artifact, Saving(c, a) PROVE Kept
    BY <2>3, SavedArtifacts
  <2>4. CASE exists /\ DeleteAssessment
    BY <2>4 DEF DeleteAssessment
  <2>5. StoreStep
    BY StoreSteps
  <2>6. \/ UNCHANGED artifacts
        \/ \E c \in Clients : \E a \in Artifact : Saving(c, a)
        \/ exists /\ DeleteAssessment
    BY <2>5 DEF StoreStep, PinDecisionContract, BeginOperation, FailOperation
  <2> QED
    BY <2>2, <2>3, <2>4, <2>6
<1>2. TypeInv /\ [Next]_vars => [Kept]_vars
  BY <1>1
<1> QED
  BY <1>2, TypeInvariant, PTL DEF Spec, RevisionsKept

(***************************************************************************)
(* The decision contract                                                   *)
(***************************************************************************)
LEMMA PinStep == TypeInv /\ OutcomesMatchPin /\ StoreStep => OutcomesMatchPin'
<1> SUFFICES ASSUME TypeInv, OutcomesMatchPin, StoreStep PROVE OutcomesMatchPin'
  OBVIOUS
<1> USE DEF OutcomesMatchPin, Outcomes, OfType
<1>1. CASE UNCHANGED <<pin, artifacts>>
  BY <1>1
<1>2. ASSUME NEW d \in Contract, CanPin(d), PinDecisionContract(d)
      PROVE  OutcomesMatchPin'
  BY <1>2 DEF CanPin, PinLocked, PinDecisionContract
<1>3. ASSUME NEW c \in Clients, NEW a \in Artifact, Saving(c, a)
      PROVE  OutcomesMatchPin'
  <2>1. pin' = pin /\ a.contract \in {"none", pin}
    BY <1>3 DEF Saving, SaveFits
  <2>2. a.type \in {"INTEGRATED_ASSESSMENT_RESULT", "DECISION_PACKAGE_RESULT"}
          => a.contract = "phase1-v0.3"
    BY <1>3 DEF Saving, ProductFits, ServiceMethods
  <2>3. \A i \in DOMAIN artifacts : /\ artifacts'[i].type = artifacts[i].type
                                    /\ artifacts'[i].contract = artifacts[i].contract
    BY <1>3, SavedKeep
  <2>4. \A i \in DOMAIN artifacts' \ DOMAIN artifacts : artifacts'[i] = a
    BY <1>3, SavedArtifacts
  <2> QED
    BY <2>1, <2>2, <2>3, <2>4
<1>4. CASE DeleteAssessment
  BY <1>4 DEF DeleteAssessment
<1> QED
  BY <1>1, <1>2, <1>3, <1>4 DEF StoreStep, BeginOperation, FailOperation

\* Every assessment and package was made under the contract the assessment is
\* pinned to, however a change of the pin meets an approval in progress.
THEOREM OutcomesMatchPinHolds == Spec => []OutcomesMatchPin
<1>1. Init => OutcomesMatchPin
  BY DEF Init, StoreInit, OutcomesMatchPin, Outcomes, OfType
<1>2. TypeInv /\ OutcomesMatchPin /\ [Next]_vars => OutcomesMatchPin'
  BY StoreSteps, PinStep
<1> QED
  BY <1>1, <1>2, TypeInvariant, PTL DEF Spec

(***************************************************************************)
(* The human approval                                                      *)
(***************************************************************************)
ApprovalsComplete ==
  \A i \in OfType("APPROVED_REVIEW") : RequiredEdits \subseteq artifacts[i].review.edits

ApprovalInv == ApprovalsComplete /\ AssessedOnlyIfApproved

LEMMA ApprovalStep == TypeInv /\ ApprovalInv /\ StoreStep => ApprovalInv'
<1> SUFFICES ASSUME TypeInv, ApprovalInv, StoreStep PROVE ApprovalInv'
  OBVIOUS
<1> USE DEF ApprovalInv, ApprovalsComplete, AssessedOnlyIfApproved, OfType
<1>1. CASE UNCHANGED artifacts
  BY <1>1
<1>2. CASE DeleteAssessment
  BY <1>2 DEF DeleteAssessment
<1>3. ASSUME NEW c \in Clients, NEW a \in Artifact, Saving(c, a)
      PROVE  ApprovalInv'
  <2>1. \A i \in DOMAIN artifacts :
          /\ i \in DOMAIN artifacts'
          /\ artifacts'[i].type = artifacts[i].type
          /\ artifacts'[i].parent = artifacts[i].parent
          /\ artifacts[i].type # "REVIEW_SESSION"
               => artifacts'[i].review = artifacts[i].review
    BY <1>3, SavedKeep
  <2>2. \A i \in DOMAIN artifacts' \ DOMAIN artifacts : artifacts'[i] = a
    BY <1>3, SavedArtifacts
  <2>3. a.type = "APPROVED_REVIEW" => RequiredEdits \subseteq a.review.edits
    BY <1>3 DEF Saving, ProductFits, ServiceMethods
  <2>4. a.type = "INTEGRATED_ASSESSMENT_RESULT" =>
          a.parent \in OfType("APPROVED_REVIEW")
    BY <1>3 DEF Saving, ProductFits, ServiceMethods, KeyFits, SaveFits, ExpectedParent
  <2>5. ApprovalsComplete'
    BY <2>1, <2>2, <2>3
  <2>6. \A i \in OfType("APPROVED_REVIEW") :
          /\ i \in OfType("APPROVED_REVIEW")'
          /\ RequiredEdits \subseteq artifacts'[i].review.edits
    BY <2>1
  <2>7. AssessedOnlyIfApproved'
    BY <2>1, <2>2, <2>4, <2>6
  <2> QED
    BY <2>5, <2>7
<1> QED
  BY <1>1, <1>2, <1>3 DEF StoreStep, PinDecisionContract, BeginOperation, FailOperation

\* Nothing reaches the assessment engine without a complete human approval:
\* every assessment's parent is an approval that holds every required decision.
THEOREM AssessedOnlyIfApprovedHolds == Spec => []AssessedOnlyIfApproved
<1>1. Init => ApprovalInv
  BY DEF Init, StoreInit, ApprovalInv, ApprovalsComplete, AssessedOnlyIfApproved, OfType
<1>2. TypeInv /\ ApprovalInv /\ [Next]_vars => ApprovalInv'
  BY StoreSteps, ApprovalStep
<1>3. ApprovalInv => AssessedOnlyIfApproved
  BY DEF ApprovalInv
<1> QED
  BY <1>1, <1>2, <1>3, TypeInvariant, PTL DEF Spec

(***************************************************************************)
(* Deletion                                                                *)
(***************************************************************************)
\* A call that is in progress when the assessment is deleted leaves no
\* artifact and no operation behind (the foreign keys and the checks of
\* save_artifact_and_advance, begin_operation and fail_operation).
THEOREM DeletedLeavesNothingHolds == Spec => []DeletedLeavesNothing
<1>1. Init => DeletedLeavesNothing
  BY DEF Init, StoreInit, DeletedLeavesNothing
<1>2. DeletedLeavesNothing /\ StoreStep => DeletedLeavesNothing'
  <2> SUFFICES ASSUME DeletedLeavesNothing, StoreStep PROVE DeletedLeavesNothing'
    OBVIOUS
  <2>1. ASSUME NEW c \in Clients, Started(key[c]), FailOperation(key[c])
        PROVE  DeletedLeavesNothing'
    BY <2>1 DEF DeletedLeavesNothing, Started, FailOperation, NoOperations
  <2>2. CASE UNCHANGED <<exists, pin, artifacts, operations>>
    BY <2>2 DEF DeletedLeavesNothing, NoOperations
  <2>3. ASSUME NEW d \in Contract, PinDecisionContract(d) PROVE DeletedLeavesNothing'
    BY <2>3 DEF DeletedLeavesNothing, PinDecisionContract, NoOperations
  <2>4. ASSUME NEW c \in Clients, CanBegin(key[c]), BeginOperation(key[c])
        PROVE  DeletedLeavesNothing'
    BY <2>4 DEF DeletedLeavesNothing, CanBegin, BeginOperation
  <2>5. ASSUME NEW c \in Clients, NEW a \in Artifact, Saving(c, a)
        PROVE  DeletedLeavesNothing'
    BY <2>5 DEF DeletedLeavesNothing, Saving, SaveFits
  <2>6. CASE DeleteAssessment
    BY <2>6 DEF DeletedLeavesNothing, DeleteAssessment, NoOperations
  <2> QED
    BY <2>1, <2>2, <2>3, <2>4, <2>5, <2>6 DEF StoreStep
<1>3. TypeInv /\ DeletedLeavesNothing /\ [Next]_vars => DeletedLeavesNothing'
  BY <1>2, StoreSteps
<1> QED
  BY <1>1, <1>3, TypeInvariant, PTL DEF Spec

(***************************************************************************)
(* One call per operation                                                  *)
(***************************************************************************)
Holding(c) == key[c] # NoKey /\ pc[c] \in {"save", "fail"}

\* An operation that a call carries out is still marked started, unless the
\* assessment is deleted.
HeldStarted == \A c \in Clients : exists /\ Holding(c) => Started(key[c])

HoldInv == OneCallPerOperation /\ HeldStarted

\* No call takes up an operation, and those carried out stay started.
NoNewHolder ==
  /\ \A c \in Clients : Holding(c)' => Holding(c) /\ key'[c] = key[c]
  /\ exists' => exists
  /\ exists' => \A c \in Clients : Holding(c)' /\ Started(key[c]) => Started(key[c])'

LEMMA NoNewHolderKeeps == HoldInv /\ NoNewHolder => HoldInv'
<1> SUFFICES ASSUME HoldInv, NoNewHolder PROVE HoldInv'
  OBVIOUS
<1>1. OneCallPerOperation'
  BY DEF HoldInv, NoNewHolder, OneCallPerOperation, Holding
<1>2. ASSUME NEW c \in Clients, exists', Holding(c)' PROVE Started(key[c])'
  BY <1>2 DEF HoldInv, NoNewHolder, HeldStarted
<1> QED
  BY <1>1, <1>2 DEF HoldInv, HeldStarted

\* When the call of c ends, no other call was carrying out its operation.
LEMMA HolderEnds ==
  ASSUME TypeInv, HoldInv, NEW c \in Clients,
         pc[c] \in {"save", "fail"}, Others(c), pc'[c] \in {"idle", "stage"},
         exists' => exists,
         \A k \in DOMAIN operations : k # key[c] =>
           k \in DOMAIN operations' /\ operations'[k] = operations[k],
         key[c] = NoKey => UNCHANGED operations
  PROVE  HoldInv'
<1>1. \A d \in Clients : Holding(d)' => /\ d # c /\ Holding(d)
                                        /\ key'[d] = key[d]
                                        /\ key[d] # key[c]
  BY DEF Holding, Others, HoldInv, OneCallPerOperation
<1>2. ASSUME NEW d \in Clients, Holding(d)', Started(key[d])
      PROVE  Started(key[d])'
  BY <1>1, <1>2 DEF Started
<1> QED
  BY <1>1, <1>2, NoNewHolderKeeps DEF NoNewHolder

LEMMA HoldStep ==
  ASSUME TypeInv, HoldInv, [Next]_vars
  PROVE  HoldInv'
<1>0. ServiceTypeOK
  BY DEF TypeInv
<1>1. CASE UNCHANGED vars
  BY <1>1, NoNewHolderKeeps DEF NoNewHolder, vars, Holding, Started
<1>2. CASE Crash
  BY <1>2 DEF Crash, HoldInv, OneCallPerOperation, HeldStarted, Holding
<1>3. ASSUME NEW c \in Clients, Return(c) \/ Raise(c), UNCHANGED storeVars
      PROVE  HoldInv'
  <2>1. Others(c) /\ pc'[c] \in {"idle", "stage"}
    BY <1>0, <1>3, Leaving
  <2> QED
    BY <1>3, <2>1, NoNewHolderKeeps DEF NoNewHolder, Others, Holding, Started, storeVars
<1>4. ASSUME NEW c \in Clients, Call(c) PROVE HoldInv'
  <2>1. pc[c] = "idle" /\ Goto(c, "stage") /\ UNCHANGED <<storeVars, key>>
    BY <1>4 DEF Call, IngestButton, ExtractButton, RetryButton, StartReviewButton,
                ReviewEdit, ApproveButton, AssessButton, PackageButton, ResetCall,
                RefreshPage, AskPlain, Ask
  <2> QED
    BY <1>0, <2>1, NoNewHolderKeeps
       DEF NoNewHolder, Goto, Holding, Started, storeVars, ServiceTypeOK
<1>5. ASSUME NEW c \in Clients, ReadStage(c) PROVE HoldInv'
  <2>1. CASE Raise(c)
    BY <1>3, <1>5, <2>1 DEF ReadStage
  <2>2. CASE Goto(c, "active") /\ UNCHANGED key
    BY <1>0, <1>5, <2>2, NoNewHolderKeeps
       DEF ReadStage, NoNewHolder, Goto, Holding, Started, storeVars, ServiceTypeOK
  <2> QED
    BY <1>5, <2>1, <2>2 DEF ReadStage
<1>6. ASSUME NEW c \in Clients, ReadActive(c) PROVE HoldInv'
  <2> DEFINE s == [stage |-> snap[c].stage, active |-> active,
                   review |-> IF active["REVIEW_SESSION"] # 0
                              THEN artifacts[active["REVIEW_SESSION"]].review
                              ELSE NoReview]
             k == KeyOf(req[c], s)
  <2>1. CASE Return(c) \/ Raise(c)
    BY <1>3, <1>6, <2>1 DEF ReadActive
  <2>2. CASE Goto(c, "idle") /\ Forget(c)
    BY <1>0, <1>6, <2>2, NoNewHolderKeeps
       DEF ReadActive, Forget, NoNewHolder, Goto, Holding, Started, storeVars,
           ServiceTypeOK
  <2>3. CASE /\ key' = [key EXCEPT ![c] = k]
             /\ Goto(c, IF k = NoKey THEN "save" ELSE "begin")
    <3>1. ~Holding(c)'
      BY <1>0, <2>3 DEF Goto, Holding, ServiceTypeOK
    <3>2. \A d \in Clients \ {c} : pc'[d] = pc[d] /\ key'[d] = key[d]
      BY <1>0, <2>3 DEF Goto, ServiceTypeOK
    <3> QED
      BY <1>6, <3>1, <3>2, NoNewHolderKeeps
         DEF ReadActive, NoNewHolder, Holding, Started, storeVars
  <2> QED
    BY <1>6, <2>1, <2>2, <2>3 DEF ReadActive
<1>7. ASSUME NEW c \in Clients, Begin(c) PROVE HoldInv'
  <2>1. /\ exists' /\ exists /\ key' = key /\ ~Started(key[c])
        /\ \A d \in Clients \ {c} : pc'[d] = pc[d]
        /\ Started(key[c])'
        /\ \A k : Started(k) => Started(k)'
    BY <1>0, <1>7 DEF Begin, CanBegin, BeginOperation, Goto, Started, ServiceTypeOK
  <2>2. \A d \in Clients \ {c} : Holding(d)' => Holding(d) /\ Started(key[d])
    BY <2>1 DEF Holding, HoldInv, HeldStarted
  <2>3. \A d \in Clients \ {c} : Holding(d)' => key[d] # key[c]
    BY <2>1, <2>2
  <2>4. OneCallPerOperation'
    BY <2>1, <2>2, <2>3 DEF HoldInv, OneCallPerOperation, Holding
  <2>5. HeldStarted'
    BY <2>1, <2>2 DEF HeldStarted
  <2> QED
    BY <2>4, <2>5 DEF HoldInv
<1>8. ASSUME NEW c \in Clients, BeginRefused(c) PROVE HoldInv'
  BY <1>3, <1>8 DEF BeginRefused
<1>9. ASSUME NEW c \in Clients, Replay(c) PROVE HoldInv'
  <2>1. CASE Return(c) \/ Raise(c)
    BY <1>3, <1>9, <2>1 DEF Replay
  <2>2. CASE Goto(c, "activate") /\ UNCHANGED key
    BY <1>0, <1>9, <2>2, NoNewHolderKeeps
       DEF Replay, NoNewHolder, Goto, Holding, Started, storeVars, ServiceTypeOK
  <2> QED
    BY <1>9, <2>1, <2>2 DEF Replay
<1>10. ASSUME NEW c \in Clients, Activate(c) \/ ResetToReview(c) PROVE HoldInv'
  <2>1. Others(c) /\ pc'[c] \in {"idle", "stage"}
    BY <1>0, <1>10, Leaving DEF Activate, ResetToReview
  <2>2. UNCHANGED <<exists, operations>>
    BY <1>10 DEF Activate, ActivateArtifact, ResetToReview, InvalidateActive, storeVars
  <2> QED
    BY <2>1, <2>2, NoNewHolderKeeps DEF NoNewHolder, Others, Holding, Started
<1>11. ASSUME NEW c \in Clients, Save(c) PROVE HoldInv'
  <2>1. Others(c) /\ pc'[c] \in {"idle", "stage"}
    BY <1>0, <1>11, Leaving DEF Save
  <2>2. PICK a \in Artifact : SaveFits(c, a)
    BY <1>11, Saves
  <2>3. pc[c] \in {"save", "fail"}
    BY <1>11 DEF Save
  <2> QED
    BY <2>1, <2>2, <2>3, HolderEnds DEF SaveFits, Finish, Started
<1>12. ASSUME NEW c \in Clients,
              SaveRefused(c) \/ SaveFault(c) \/ EngineRaises(c)
       PROVE  HoldInv'
  <2>1. CASE Raise(c)
    BY <1>3, <1>12, <2>1 DEF SaveRefused, SaveFault, EngineRaises
  <2>2. CASE pc[c] = "save" /\ Goto(c, "fail") /\ UNCHANGED key
    BY <1>0, <1>12, <2>2, NoNewHolderKeeps
       DEF SaveRefused, SaveFault, EngineRaises, NoNewHolder, Goto, Holding, Started,
           storeVars, ServiceTypeOK
  <2> QED
    BY <1>12, <2>1, <2>2 DEF SaveRefused, SaveFault, EngineRaises, SaveRaises
<1>13. ASSUME NEW c \in Clients, Fail(c) PROVE HoldInv'
  <2>1. Others(c) /\ pc'[c] \in {"idle", "stage"}
    BY <1>0, <1>13, Leaving DEF Fail
  <2>2. CASE UNCHANGED storeVars
    BY <1>3, <1>13, <2>2 DEF Fail
  <2>3. CASE Started(key[c]) /\ FailOperation(key[c])
    <3>1. key[c] # NoKey
      BY <1>0, <2>3 DEF Started, ServiceTypeOK, StoreTypeOK, NoKey, OperationKey,
                        OperationKind
    <3> QED
      BY <1>13, <2>1, <2>3, <3>1, HolderEnds DEF Fail, FailOperation, Finish, Started
  <2> QED
    BY <1>13, <2>2, <2>3 DEF Fail
<1>14. ASSUME NEW c \in Clients, Pin(c) \/ Delete(c) PROVE HoldInv'
  <2>1. UNCHANGED <<pc, key>>
    BY <1>14 DEF Pin, Delete
  <2>2. \/ UNCHANGED <<exists, operations>>
        \/ exists' = FALSE
    BY <1>14 DEF Pin, PinDecisionContract, Delete, DeleteAssessment
  <2> QED
    BY <2>1, <2>2, NoNewHolderKeeps DEF NoNewHolder, Holding, Started
<1> QED
  BY <1>1, <1>2, <1>4, <1>5, <1>6, <1>7, <1>8, <1>9, <1>10, <1>11, <1>12, <1>13,
     <1>14 DEF Next, Step

\* Two calls never carry out the same operation at once: begin_operation
\* refuses the second one (OperationAlreadyStartedError).
THEOREM OneCallPerOperationHolds == Spec => []OneCallPerOperation
<1>1. Init => HoldInv
  BY DEF Init, StoreInit, HoldInv, OneCallPerOperation, HeldStarted, Holding
<1>2. TypeInv /\ HoldInv /\ [Next]_vars => HoldInv'
  BY HoldStep
<1>3. HoldInv => OneCallPerOperation
  BY DEF HoldInv
<1> QED
  BY <1>1, <1>2, <1>3, TypeInvariant, PTL DEF Spec

(***************************************************************************)
(* Started operations                                                      *)
(***************************************************************************)
\* Every operation that is started after a step was started before, and who
\* carried it out goes on with it.
NoneAbandoned ==
  \A k \in DOMAIN operations' : Started(k)' =>
    /\ Started(k)
    /\ \A c \in Clients : key[c] = k /\ pc[c] \in {"save", "fail"} =>
         key'[c] = k /\ pc'[c] \in {"save", "fail"}

LEMMA NoneAbandonedKeeps == StartedIsHeld /\ NoneAbandoned => StartedIsHeld'
BY DEF StartedIsHeld, NoneAbandoned, Started

\* A call that is not carrying out an operation, or none of its own, may end.
LEMMA IdleStepKeeps ==
  ASSUME TypeInv, StartedIsHeld, NEW c \in Clients, UNCHANGED operations,
         pc[c] \notin {"save", "fail"} \/ key[c] = NoKey,
         \A d \in Clients \ {c} : pc'[d] = pc[d] /\ key'[d] = key[d]
  PROVE  StartedIsHeld'
<1>1. NoKey \notin DOMAIN operations
  BY DEF TypeInv, ServiceTypeOK, StoreTypeOK, NoKey, OperationKey, OperationKind
<1> QED
  BY <1>1, NoneAbandonedKeeps DEF NoneAbandoned, Started

\* A call that completes or fails its operation may end.
LEMMA SettledStepKeeps ==
  ASSUME TypeInv, StartedIsHeld, NEW c \in Clients, NEW k, k = key[c], ~Started(k)',
         \A d \in Clients \ {c} : pc'[d] = pc[d] /\ key'[d] = key[d],
         \A j \in DOMAIN operations' : j # k =>
           j \in DOMAIN operations /\ operations'[j] = operations[j]
  PROVE  StartedIsHeld'
<1> SUFFICES ASSUME NEW j \in DOMAIN operations', Started(j)'
             PROVE  \E d \in Clients : key'[d] = j /\ pc'[d] \in {"save", "fail"}
  BY DEF StartedIsHeld
<1>1. j # k /\ Started(j)
  BY DEF Started
<1>2. PICK d \in Clients : key[d] = j /\ pc[d] \in {"save", "fail"}
  BY <1>1 DEF StartedIsHeld, Started
<1> QED
  BY <1>1, <1>2

LEMMA StartedStep ==
  ASSUME TypeInv, StartedIsHeld, [Next]_vars, {"crash", "engine"} \cap FaultKinds = {}
  PROVE  StartedIsHeld'
<1>0. ServiceTypeOK
  BY DEF TypeInv
<1>1. CASE UNCHANGED vars
  BY <1>1 DEF vars, StartedIsHeld, Started
<1>2. ~Crash /\ \A c \in Clients : ~EngineRaises(c)
  BY DEF Crash, EngineRaises, Fault
<1>3. ASSUME NEW c \in Clients, Call(c) PROVE StartedIsHeld'
  <2>1. pc[c] = "idle" /\ Goto(c, "stage") /\ UNCHANGED <<storeVars, key>>
    BY <1>3 DEF Call, IngestButton, ExtractButton, RetryButton, StartReviewButton,
                ReviewEdit, ApproveButton, AssessButton, PackageButton, ResetCall,
                RefreshPage, AskPlain, Ask
  <2> QED
    BY <1>0, <2>1, IdleStepKeeps DEF Goto, storeVars, ServiceTypeOK
<1>4. ASSUME NEW c \in Clients, ReadStage(c) \/ ReadActive(c) \/ BeginRefused(c) \/ Replay(c)
      PROVE  StartedIsHeld'
  <2>1. pc[c] \notin {"save", "fail"} /\ UNCHANGED storeVars
    BY <1>4 DEF ReadStage, ReadActive, BeginRefused, Replay
  <2>2. ASSUME Return(c) \/ Raise(c) PROVE \A d \in Clients \ {c} : pc'[d] = pc[d] /\ key'[d] = key[d]
    BY <1>0, <2>2, Leaving DEF Others
  <2>3. \A d \in Clients \ {c} : pc'[d] = pc[d] /\ key'[d] = key[d]
    <3>1. CASE ReadStage(c)
      BY <1>0, <2>2, <3>1 DEF ReadStage, Goto, ServiceTypeOK
    <3>2. CASE ReadActive(c)
      BY <1>0, <2>2, <3>2 DEF ReadActive, Goto, Forget, ServiceTypeOK
    <3>3. CASE BeginRefused(c)
      BY <2>2, <3>3 DEF BeginRefused
    <3>4. CASE Replay(c)
      BY <1>0, <2>2, <3>4 DEF Replay, Goto, ServiceTypeOK
    <3> QED
      BY <1>4, <3>1, <3>2, <3>3, <3>4
  <2> QED
    BY <2>1, <2>3, IdleStepKeeps DEF storeVars
<1>5. ASSUME NEW c \in Clients, Begin(c) PROVE StartedIsHeld'
  <2>1. /\ \A k \in DOMAIN operations' : k # key[c] =>
             k \in DOMAIN operations /\ operations'[k] = operations[k]
        /\ key' = key /\ pc'[c] \in {"save", "fail"}
        /\ \A d \in Clients \ {c} : pc'[d] = pc[d]
    BY <1>0, <1>5 DEF Begin, BeginOperation, Goto, ServiceTypeOK
  <2> QED
    BY <2>1 DEF StartedIsHeld, Started
<1>6. ASSUME NEW c \in Clients, Activate(c) PROVE StartedIsHeld'
  <2>1. Others(c)
    BY <1>0, <1>6, Leaving DEF Activate
  <2>2. UNCHANGED operations /\ pc[c] = "activate"
    BY <1>6 DEF Activate, ActivateArtifact, storeVars
  <2> QED
    BY <2>1, <2>2, IdleStepKeeps DEF Others
<1>7. ASSUME NEW c \in Clients, ResetToReview(c) PROVE StartedIsHeld'
  <2>1. Others(c)
    BY <1>0, <1>7, Leaving DEF ResetToReview
  <2>2. UNCHANGED operations /\ key[c] = NoKey
    BY <1>7 DEF ResetToReview, InvalidateActive, storeVars, TypeInv, CallsFit, Working, KeyFits
  <2> QED
    BY <2>1, <2>2, IdleStepKeeps DEF Others
<1>8. ASSUME NEW c \in Clients, Save(c) PROVE StartedIsHeld'
  <2>1. Others(c)
    BY <1>0, <1>8, Leaving DEF Save
  <2>2. PICK a \in Artifact : SaveFits(c, a)
    BY <1>8, Saves
  <2>3. CASE key[c] = NoKey
    BY <2>1, <2>2, <2>3, IdleStepKeeps DEF SaveFits, Others
  <2>4. CASE key[c] # NoKey
    <3>1. PICK k : k = key[c]
      OBVIOUS
    <3>2. /\ DOMAIN operations' = DOMAIN operations
          /\ \A j \in DOMAIN operations : j # k => operations'[j] = operations[j]
      BY <2>2, <2>4, <3>1 DEF SaveFits, Finish
    <3>3. ~Started(k)'
      BY <2>2, <2>4, <3>1 DEF SaveFits, Finish, Started
    <3> QED
      BY <2>1, <3>1, <3>2, <3>3, SettledStepKeeps DEF Others
  <2> QED
    BY <2>3, <2>4
<1>9. ASSUME NEW c \in Clients, SaveRefused(c) \/ SaveFault(c) PROVE StartedIsHeld'
  <2>1. SaveRaises(c) /\ pc[c] = "save" /\ UNCHANGED storeVars
    BY <1>9 DEF SaveRefused, SaveFault
  <2>2. CASE key[c] = NoKey
    <3>1. Others(c)
      BY <1>0, <2>1, <2>2, Leaving DEF SaveRaises
    <3> QED
      BY <2>1, <2>2, <3>1, IdleStepKeeps DEF storeVars, Others
  <2>3. CASE key[c] # NoKey
    BY <1>0, <2>1, <2>3, NoneAbandonedKeeps
       DEF SaveRaises, Goto, NoneAbandoned, Started, storeVars, ServiceTypeOK
  <2> QED
    BY <2>2, <2>3
<1>10. ASSUME NEW c \in Clients, Fail(c) PROVE StartedIsHeld'
  <2>1. Others(c)
    BY <1>0, <1>10, Leaving DEF Fail
  <2>2. PICK k : k = key[c]
    OBVIOUS
  <2>3. ~Started(k)'
    BY <1>10, <2>2 DEF Fail, FailOperation, Finish, Started, storeVars
  <2>4. /\ DOMAIN operations' = DOMAIN operations
        /\ \A j \in DOMAIN operations : j # k => operations'[j] = operations[j]
    BY <1>10, <2>2 DEF Fail, FailOperation, Finish, storeVars
  <2> QED
    BY <2>1, <2>2, <2>3, <2>4, SettledStepKeeps DEF Others
<1>11. ASSUME NEW c \in Clients, Pin(c) \/ Delete(c) PROVE StartedIsHeld'
  BY <1>11 DEF Pin, PinDecisionContract, Delete, DeleteAssessment, NoOperations,
               StartedIsHeld, Started
<1> QED
  BY <1>1, <1>2, <1>3, <1>4, <1>5, <1>6, <1>7, <1>8, <1>9, <1>10, <1>11 DEF Next, Step

\* Unless the process crashes or an engine raises, an operation marked started
\* is one that a call is carrying out, whatever saves fail and whoever deletes
\* the assessment (begin_operation, fail_operation and the handlers around them).
THEOREM StartedIsHeldHolds ==
  ASSUME {"crash", "engine"} \cap FaultKinds = {}
  PROVE  Spec => []StartedIsHeld
<1>1. Init => StartedIsHeld
  BY DEF Init, StoreInit, NoOperations, StartedIsHeld
<1>2. TypeInv /\ StartedIsHeld /\ [Next]_vars => StartedIsHeld'
  BY StartedStep
<1> QED
  BY <1>1, <1>2, TypeInvariant, PTL DEF Spec

(***************************************************************************)
(* The active chain, for one session                                       *)
(***************************************************************************)
\* Below a failed ingestion or extraction nothing is active.
OnSuccesses ==
  /\ active["CANDIDATE_EXTRACTION_RESULT"] # 0
       => artifacts[active["INGESTION_RESULT"]].ok
  /\ active["REVIEW_SESSION"] # 0
       => artifacts[active["CANDIDATE_EXTRACTION_RESULT"]].ok

\* The stage has the active artifact that load_workspace requires of it.
StageBacked ==
  exists /\ RequiredActive(stage) # "none" => active[RequiredActive(stage)] # 0

\* A completed operation produced an artifact of its kind.
KindsFit ==
  \A k \in DOMAIN operations : operations[k].status = "completed" =>
    LET t == artifacts[operations[k].produced].type
    IN /\ k[1] = "INGEST" => t = "INGESTION_RESULT"
       /\ k[1] = "EXTRACT" => t = "CANDIDATE_EXTRACTION_RESULT"

\* What the page offered is still right for what is active: no other session
\* comes between.
Asked(c) ==
  LET candidate == active["CANDIDATE_EXTRACTION_RESULT"]
      review == active["REVIEW_SESSION"]
  IN /\ req[c].method = "extract" => candidate = 0
     /\ req[c].method = "retry" => /\ candidate # 0
                                   /\ candidate = req[c].artifact
                                   /\ ~artifacts[candidate].ok
     /\ req[c].method = "assess" => active["INTEGRATED_ASSESSMENT_RESULT"] = 0
     /\ req[c].method = "save_review" =>
          review # 0 /\ artifacts[review].review.edits \subseteq req[c].review.edits
     /\ req[c].method = "approve" => review # 0 /\ req[c].review = artifacts[review].review

\* The page shows what is active, or nothing.
ViewCurrent(c) ==
  /\ view[c].active \in {active, NoneActive}
  /\ view[c].active["REVIEW_SESSION"] # 0 =>
       view[c].review = artifacts[active["REVIEW_SESSION"]].review

\* What the call has read is what is active, and the method's checks, passed
\* when it was read, would pass again.
ReadsCurrent(c) ==
  /\ snap[c].active = active
  /\ active["REVIEW_SESSION"] # 0
       => snap[c].review = artifacts[active["REVIEW_SESSION"]].review
  /\ Allowed(req[c], snap[c])
  /\ req[c].method = "start_review" => active["REVIEW_SESSION"] = 0

CallCurrent(c) ==
  /\ pc[c] = "idle" \/ req[c].method # "refresh" => ViewCurrent(c)
  /\ pc[c] # "idle" => Asked(c)
  /\ Working(c) => ReadsCurrent(c)
  /\ pc[c] = "activate" =>
       /\ req[c].method \in {"ingest", "extract"}
       /\ req[c].method = "extract" =>
            artifacts[operations[key[c]].produced].parent = active["INGESTION_RESULT"]

ChainStore == ActiveLineage /\ OnSuccesses /\ StageBacked /\ ReviewInPlace

ChainInv ==
  /\ ChainStore
  /\ KindsFit
  /\ \A c \in Clients : exists => CallCurrent(c)

\* A call that returns, or raises with the store as it was, leaves the page
\* with what is active, with nothing, or about to be refreshed.
LEMMA ReturnsCurrent ==
  ASSUME ServiceTypeOK, NEW c \in Clients, Return(c)
  PROVE  CallCurrent(c)'
<1>1. pc'[c] = "stage" /\ req'[c].method = "refresh"
  BY DEF Return, Goto, Forget, NoRequest, ServiceTypeOK
<1> QED
  BY <1>1 DEF CallCurrent, Asked, Working

LEMMA RaisesCurrent ==
  ASSUME ServiceTypeOK, NEW c \in Clients, Raise(c), pc[c] # "idle",
         CallCurrent(c), UNCHANGED <<active, artifacts>>
  PROVE  CallCurrent(c)'
<1>1. CASE req[c].method = "save_review"
  BY <1>1, ReturnsCurrent DEF Raise
<1>2. CASE req[c].method # "save_review"
  <2>1. pc'[c] = "idle" /\ req'[c].method = "refresh"
    BY <1>2 DEF Raise, Goto, Forget, NoRequest, ServiceTypeOK
  <2>2. ViewCurrent(c)'
    BY <1>2, ArtifactTypes
       DEF Raise, CallCurrent, ViewCurrent, NoSnapshot, NoneActive, ServiceTypeOK
  <2> QED
    BY <2>1, <2>2 DEF CallCurrent, Asked, Working
<1> QED
  BY <1>1, <1>2

LEMMA AllowedKeeps ==
  ASSUME NEW c, NEW r, NEW s, Allowed(r, s), UNCHANGED artifacts,
         req'[c] = r, snap'[c] = s
  PROVE  Allowed(req[c], snap[c])'
BY DEF Allowed, Approvable

\* While a call works, neither its arguments nor what it has read changes.
LEMMA ReadsKeep ==
  ASSUME NEW c, ReadsCurrent(c), UNCHANGED <<artifacts, active>>,
         req'[c] = req[c], snap'[c] = snap[c]
  PROVE  ReadsCurrent(c)'
<1>1. PICK r, s : r = req[c] /\ s = snap[c]
  OBVIOUS
<1>2. Allowed(req[c], snap[c])'
  BY <1>1, AllowedKeeps DEF ReadsCurrent
<1> QED
  BY <1>2 DEF ReadsCurrent

\* What is stored decides whether the chain is sound.
LEMMA StoreKeeps ==
  ASSUME ChainStore, UNCHANGED <<exists, stage, artifacts, active>>
  PROVE  ChainStore'
BY DEF ChainStore, ActiveLineage, OnSuccesses, StageBacked, ReviewInPlace,
       Linked, OfType

LEMMA KindsKeep ==
  ASSUME KindsFit, UNCHANGED <<artifacts, operations>>
  PROVE  KindsFit'
BY DEF KindsFit

LEMMA OneCall ==
  ASSUME NEW c \in Clients, \A d \in Clients : d = c,
         ChainStore', KindsFit', exists' => CallCurrent(c)'
  PROVE  ChainInv'
BY DEF ChainInv

\* Only the source is active.
LEMMA RootOnly ==
  ASSUME active'["INGESTION_RESULT"] # 0, stage' \in {"new", "ingested"},
         \A t \in ArtifactType \ {"INGESTION_RESULT"} : active'[t] = 0,
         ReviewInPlace'
  PROVE  ChainStore'
<1>1. ActiveLineage'
  BY DEF ActiveLineage, Linked
<1>2. OnSuccesses'
  BY ArtifactTypes DEF OnSuccesses
<1>3. StageBacked'
  BY DEF StageBacked, RequiredActive
<1> QED
  BY <1>1, <1>2, <1>3 DEF ChainStore

\* Nothing is active below a type that is not.
LEMMA EmptyBelow ==
  ASSUME ActiveLineage
  PROVE  /\ active["INGESTION_RESULT"] = 0 => active["CANDIDATE_EXTRACTION_RESULT"] = 0
         /\ active["CANDIDATE_EXTRACTION_RESULT"] = 0 => active["REVIEW_SESSION"] = 0
         /\ active["REVIEW_SESSION"] = 0 => active["APPROVED_REVIEW"] = 0
         /\ active["APPROVED_REVIEW"] = 0 => active["INTEGRATED_ASSESSMENT_RESULT"] = 0
         /\ active["INTEGRATED_ASSESSMENT_RESULT"] = 0 => active["DECISION_PACKAGE_RESULT"] = 0
BY ArtifactTypes DEF ActiveLineage, Linked, ExpectedParent

LEMMA AppendKeepsPlaces ==
  ASSUME StoreTypeOK, ReviewInPlace, NEW a \in Artifact,
         artifacts' = Append(artifacts, a),
         a.type = "REVIEW_SESSION" => a.review.session = Len(artifacts) + 1
  PROVE  /\ ReviewInPlace'
         /\ \A i \in DOMAIN artifacts : artifacts'[i] = artifacts[i]
         /\ artifacts'[Len(artifacts) + 1] = a
<1>1. /\ DOMAIN artifacts' = 1..(Len(artifacts) + 1)
      /\ DOMAIN artifacts = 1..Len(artifacts)
      /\ Len(artifacts) \in Nat
      /\ \A i \in DOMAIN artifacts : artifacts'[i] = artifacts[i]
      /\ artifacts'[Len(artifacts) + 1] = a
  BY DEF StoreTypeOK
<1>2. ReviewInPlace'
  BY <1>1 DEF ReviewInPlace, OfType
<1> QED
  BY <1>1, <1>2

\* A new artifact goes on from the active one of the type before it.
LEMMA Extended ==
  ASSUME StoreTypeOK, ChainStore, NEW a \in Artifact, a.type # "INGESTION_RESULT",
         artifacts' = Append(artifacts, a),
         active' = [active EXCEPT ![a.type] = Len(artifacts) + 1],
         a.parent # 0, a.parent = active[ExpectedParent(a.type)],
         \A t \in ArtifactType : ExpectedParent(t) = a.type => active[t] = 0,
         a.type \in {"CANDIDATE_EXTRACTION_RESULT", "REVIEW_SESSION"} => artifacts[a.parent].ok,
         a.type = "REVIEW_SESSION" => a.review.session = Len(artifacts) + 1,
         RequiredActive(stage') \in {a.type, ExpectedParent(a.type)}
  PROVE  ChainStore'
<1> DEFINE n == Len(artifacts) + 1
<1>1. /\ ReviewInPlace'
      /\ \A i \in DOMAIN artifacts : artifacts'[i] = artifacts[i]
      /\ artifacts'[n] = a
  BY AppendKeepsPlaces DEF ChainStore
<1>2. n \in Nat /\ n # 0
  BY DEF StoreTypeOK
<1>3. \A t \in ArtifactType : active[t] # 0 => active[t] \in DOMAIN artifacts
  BY DEF StoreTypeOK
<1>4. a.type \in ArtifactType /\ ExpectedParent(a.type) \in ArtifactType \ {a.type}
  BY ArtifactTypes DEF Artifact, ExpectedParent
<1>5. active'[a.type] = n /\ \A t \in ArtifactType \ {a.type} : active'[t] = active[t]
  BY <1>4 DEF StoreTypeOK
<1> HIDE DEF n
<1>6. ActiveLineage'
  <2> SUFFICES ASSUME NEW t \in ArtifactType \ {"INGESTION_RESULT"}, active'[t] # 0
               PROVE  /\ active'[ExpectedParent(t)] # 0
                      /\ artifacts'[active'[t]].parent = active'[ExpectedParent(t)]
    BY DEF ActiveLineage, Linked
  <2>1. CASE t = a.type
    BY <1>1, <1>4, <1>5, <2>1
  <2>2. CASE t # a.type
    <3>1. active'[t] = active[t] /\ artifacts'[active[t]] = artifacts[active[t]]
      BY <1>1, <1>3, <1>5, <2>2
    <3>2. ExpectedParent(t) # a.type /\ ExpectedParent(t) \in ArtifactType
      BY <2>2, <3>1, ArtifactTypes DEF ExpectedParent
    <3>3. /\ active[ExpectedParent(t)] # 0
          /\ artifacts[active[t]].parent = active[ExpectedParent(t)]
      BY <3>1 DEF ChainStore, ActiveLineage, Linked
    <3>4. active'[ExpectedParent(t)] = active[ExpectedParent(t)]
      BY <1>5, <3>2
    <3> QED
      BY <3>1, <3>3, <3>4
  <2> QED
    BY <2>1, <2>2
<1>7. OnSuccesses'
  <2>1. CASE a.type = "CANDIDATE_EXTRACTION_RESULT"
    <3>1. active["REVIEW_SESSION"] = 0
      BY <2>1, ArtifactTypes DEF ExpectedParent
    <3>2. active'["INGESTION_RESULT"] = a.parent /\ active'["REVIEW_SESSION"] = 0
      BY <1>5, <2>1, <3>1, ArtifactTypes DEF ExpectedParent
    <3>3. artifacts'[a.parent] = artifacts[a.parent]
      BY <1>1, <1>3, <1>4
    <3> QED
      BY <2>1, <3>2, <3>3 DEF OnSuccesses
  <2>2. CASE a.type = "REVIEW_SESSION"
    <3>1. /\ active'["INGESTION_RESULT"] = active["INGESTION_RESULT"]
          /\ active'["CANDIDATE_EXTRACTION_RESULT"] = active["CANDIDATE_EXTRACTION_RESULT"]
          /\ a.parent = active["CANDIDATE_EXTRACTION_RESULT"]
      BY <1>5, <2>2, ArtifactTypes DEF ExpectedParent
    <3>2. active["INGESTION_RESULT"] # 0
      BY <3>1, EmptyBelow DEF ChainStore
    <3>3. /\ artifacts'[active["INGESTION_RESULT"]] = artifacts[active["INGESTION_RESULT"]]
          /\ artifacts'[a.parent] = artifacts[a.parent]
      BY <1>1, <1>3, <3>1, <3>2, ArtifactTypes
    <3> QED
      BY <2>2, <3>1, <3>3 DEF OnSuccesses, ChainStore
  <2>3. CASE a.type \notin {"CANDIDATE_EXTRACTION_RESULT", "REVIEW_SESSION"}
    <3>1. \A t \in {"INGESTION_RESULT", "CANDIDATE_EXTRACTION_RESULT", "REVIEW_SESSION"} :
            active'[t] = active[t]
      BY <1>5, <2>3, ArtifactTypes
    <3>2. \A t \in {"INGESTION_RESULT", "CANDIDATE_EXTRACTION_RESULT"} :
            active[t] # 0 => artifacts'[active[t]] = artifacts[active[t]]
      BY <1>1, <1>3, ArtifactTypes
    <3> QED
      BY <3>1, <3>2, EmptyBelow DEF OnSuccesses, ChainStore
  <2> QED
    BY <2>1, <2>2, <2>3
<1>8. StageBacked'
  BY <1>2, <1>4, <1>5 DEF StageBacked
<1> QED
  BY <1>1, <1>6, <1>7, <1>8 DEF ChainStore

\* The active review is overwritten by another version of itself.
LEMMA Rewritten ==
  ASSUME StoreTypeOK, ChainStore, NEW review, active["REVIEW_SESSION"] # 0,
         review.session = active["REVIEW_SESSION"],
         artifacts' = [artifacts EXCEPT ![active["REVIEW_SESSION"]].review = review],
         active' = active, stage' = "in-review"
  PROVE  ChainStore'
<1>1. /\ active["REVIEW_SESSION"] \in DOMAIN artifacts
      /\ artifacts \in [DOMAIN artifacts -> Artifact]
  BY ArtifactTypes DEF StoreTypeOK
<1>2. /\ DOMAIN artifacts' = DOMAIN artifacts
      /\ artifacts'[active["REVIEW_SESSION"]].review = review
      /\ \A i \in DOMAIN artifacts :
           /\ i # active["REVIEW_SESSION"] => artifacts'[i] = artifacts[i]
           /\ artifacts'[i].type = artifacts[i].type
           /\ artifacts'[i].parent = artifacts[i].parent
           /\ artifacts'[i].ok = artifacts[i].ok
  BY <1>1 DEF Artifact
<1>3. \A t \in ArtifactType : active[t] # 0 => active[t] \in DOMAIN artifacts
  BY DEF StoreTypeOK
<1>4. ActiveLineage'
  BY <1>2, <1>3 DEF ChainStore, ActiveLineage, Linked
<1>5. OnSuccesses'
  BY <1>2, <1>3, EmptyBelow, ArtifactTypes DEF ChainStore, OnSuccesses
<1>6. StageBacked'
  BY DEF StageBacked, RequiredActive
<1>7. ReviewInPlace'
  BY <1>2 DEF ChainStore, ReviewInPlace, OfType
<1> QED
  BY <1>4, <1>5, <1>6, <1>7 DEF ChainStore

LEMMA FromTypes ==
  /\ From(2) = ArtifactType \ {"INGESTION_RESULT"}
  /\ From(3) = ArtifactType \ {"INGESTION_RESULT", "CANDIDATE_EXTRACTION_RESULT"}
  /\ From(4) = {"APPROVED_REVIEW", "INTEGRATED_ASSESSMENT_RESULT",
                "DECISION_PACKAGE_RESULT"}
<1>1. \A i \in 1..6 : From(i) = {Chain[j] : j \in i..6}
  BY DEF From, Chain
<1>2. 2..6 = {2, 3, 4, 5, 6} /\ 3..6 = {3, 4, 5, 6} /\ 4..6 = {4, 5, 6}
  OBVIOUS
<1> QED
  BY <1>1, <1>2, ArtifactTypes DEF Chain

\* An extraction that was completed before is active again, on its source.
LEMMA Reactivated ==
  ASSUME StoreTypeOK, ChainStore, NEW i \in DOMAIN artifacts,
         artifacts[i].type = "CANDIDATE_EXTRACTION_RESULT",
         active["INGESTION_RESULT"] # 0, artifacts[i].parent = active["INGESTION_RESULT"],
         artifacts[active["INGESTION_RESULT"]].ok,
         ActivateArtifact(i, IF artifacts[i].ok THEN "candidate-ready" ELSE "ingested", From(3))
  PROVE  ChainStore'
<1>0. /\ i # 0 /\ UNCHANGED <<exists, artifacts>>
      /\ active' = [t \in ArtifactType |->
                      IF t = "CANDIDATE_EXTRACTION_RESULT" THEN i
                      ELSE IF t \in From(3) THEN 0 ELSE active[t]]
  BY DEF ActivateArtifact, StoreTypeOK
<1>1. /\ active'["CANDIDATE_EXTRACTION_RESULT"] = i /\ i # 0
      /\ active'["INGESTION_RESULT"] = active["INGESTION_RESULT"]
      /\ \A t \in ArtifactType \ {"INGESTION_RESULT", "CANDIDATE_EXTRACTION_RESULT"} : active'[t] = 0
      /\ UNCHANGED <<exists, artifacts>>
  BY <1>0, FromTypes, ArtifactTypes
<1>2. ActiveLineage'
  BY <1>1, ArtifactTypes DEF ActiveLineage, Linked, ExpectedParent
<1>3. OnSuccesses'
  BY <1>1, ArtifactTypes DEF OnSuccesses
<1>4. StageBacked'
  BY <1>1 DEF ActivateArtifact, StageBacked, RequiredActive
<1>5. ReviewInPlace'
  BY <1>1 DEF ChainStore, ReviewInPlace, OfType
<1> QED
  BY <1>2, <1>3, <1>4, <1>5 DEF ChainStore

\* Everything after the review is dropped.
LEMMA ResetChain ==
  ASSUME StoreTypeOK, ChainStore, active["REVIEW_SESSION"] # 0,
         InvalidateActive(From(4), "in-review")
  PROVE  ChainStore'
<1>1. /\ \A t \in From(4) : active'[t] = 0
      /\ \A t \in ArtifactType \ From(4) : active'[t] = active[t]
      /\ UNCHANGED <<exists, artifacts>> /\ stage' = "in-review"
      /\ From(4) \subseteq ArtifactType
  BY FromTypes, ArtifactTypes DEF InvalidateActive
<1>2. ActiveLineage'
  BY <1>1, FromTypes, ArtifactTypes DEF ChainStore, ActiveLineage, Linked, ExpectedParent
<1>3. OnSuccesses'
  BY <1>1, FromTypes, ArtifactTypes DEF ChainStore, OnSuccesses
<1>4. StageBacked'
  BY <1>1, FromTypes, ArtifactTypes DEF StageBacked, RequiredActive
<1>5. ReviewInPlace'
  BY <1>1 DEF ChainStore, ReviewInPlace, OfType
<1> QED
  BY <1>2, <1>3, <1>4, <1>5 DEF ChainStore

\* A new operation, and the end of one, leave the artifacts of the others.
LEMMA KindsOfOthers ==
  ASSUME KindsFit, UNCHANGED artifacts,
         \A k \in DOMAIN operations' : operations'[k].status = "completed" =>
           k \in DOMAIN operations /\ operations'[k] = operations[k]
  PROVE  KindsFit'
BY DEF KindsFit

LEMMA KindsSave ==
  ASSUME TypeInv, KindsFit, NEW c \in Clients, NEW a \in Artifact, Saving(c, a)
  PROVE  KindsFit'
<1>0. StoreTypeOK /\ ProducedFits
  BY DEF TypeInv, ServiceTypeOK
<1>1. \A i \in DOMAIN artifacts : artifacts'[i].type = artifacts[i].type
  <2>1. CASE artifacts' = Append(artifacts, a)
    BY <1>0, <2>1 DEF StoreTypeOK
  <2>2. ASSUME NEW j \in DOMAIN artifacts,
               artifacts' = [artifacts EXCEPT ![j].review = a.review]
        PROVE  \A i \in DOMAIN artifacts : artifacts'[i].type = artifacts[i].type
    BY <1>0, <2>2 DEF StoreTypeOK, Artifact
  <2> QED
    BY <2>1, <2>2 DEF Saving, SaveFits
<1>2. CASE key[c] = NoKey
  <2>1. operations' = operations
    BY <1>2 DEF Saving, SaveFits
  <2> QED
    BY <1>0, <1>1, <2>1 DEF KindsFit, ProducedFits
<1>3. CASE key[c] # NoKey
  <2>1. PICK k, n : k = key[c] /\ n = Len(artifacts) + 1
    OBVIOUS
  <2>2. /\ DOMAIN operations' = DOMAIN operations /\ k \in DOMAIN operations
        /\ operations'[k].produced = n
        /\ \A j \in DOMAIN operations : j # k => operations'[j] = operations[j]
    BY <1>3, <2>1 DEF Saving, SaveFits, Finish, Started
  <2>3. artifacts'[n] = a
    BY <1>0, <1>3, <2>1 DEF Saving, SaveFits, StoreTypeOK
  <2>4. /\ k[1] = "INGEST" => a.type = "INGESTION_RESULT"
        /\ k[1] = "EXTRACT" => a.type = "CANDIDATE_EXTRACTION_RESULT"
    BY <1>3, <2>1 DEF Saving, KeyFits, ProductFits, ServiceMethods, NoKey
  <2> QED
    BY <1>0, <1>1, <2>2, <2>3, <2>4 DEF KindsFit, ProducedFits
<1> QED
  BY <1>2, <1>3

\* Saving a review overwrites the active one, by a version of it.
LEMMA Overwrites ==
  ASSUME TypeInv, ChainStore, NEW c \in Clients, CallCurrent(c), Save(c),
         req[c].method = "save_review"
  PROVE  /\ active["REVIEW_SESSION"] # 0 /\ active["REVIEW_SESSION"] \in DOMAIN artifacts
         /\ req[c].review.session = active["REVIEW_SESSION"]
         /\ artifacts' = [artifacts EXCEPT ![active["REVIEW_SESSION"]].review = req[c].review]
         /\ active' = active /\ stage' = "in-review"
<1>0. /\ StoreTypeOK /\ ReadsCurrent(c)
      /\ exists /\ pc[c] = "save" /\ Working(c)
  BY DEF Save, TypeInv, ServiceTypeOK, Working, CallCurrent
<1>1. PICK ok \in BOOLEAN :
        SaveArtifact(Product(c, ok), StageAfter(Product(c, ok)), Deactivated(c),
                     req[c].method = "save_review", key[c])
  BY DEF Save
<1> DEFINE a == Product(c, ok)
<1>2. /\ active["REVIEW_SESSION"] # 0 /\ active["REVIEW_SESSION"] \in DOMAIN artifacts
      /\ artifacts[active["REVIEW_SESSION"]].type = "REVIEW_SESSION"
  BY <1>0, ArtifactTypes DEF ReadsCurrent, Allowed, StoreTypeOK
<1>3. req[c].review.session = active["REVIEW_SESSION"]
  BY <1>0, <1>2 DEF ReadsCurrent, Allowed, ChainStore, ReviewInPlace, OfType
<1>4. a.type = "REVIEW_SESSION" /\ a.review = req[c].review
  BY DEF Product, NewArtifact
<1>5. Deactivated(c) = {}
  BY DEF Deactivated
<1>6. [t \in ArtifactType |-> IF t \in {} THEN 0 ELSE active[t]] = active
  BY <1>0 DEF StoreTypeOK
<1>7. /\ artifacts' = [artifacts EXCEPT ![active["REVIEW_SESSION"]].review = req[c].review]
      /\ active' = [active EXCEPT !["REVIEW_SESSION"] = active["REVIEW_SESSION"]]
      /\ stage' = "in-review"
  BY <1>1, <1>2, <1>4, <1>5, <1>6 DEF SaveArtifact, Overwritten, StageAfter
<1>8. active' = active
  BY <1>0, <1>7 DEF StoreTypeOK
<1> QED
  BY <1>2, <1>3, <1>7, <1>8

\* A save goes on from the active chain, whatever the method.
LEMMA ChainSave ==
  ASSUME TypeInv, ChainStore, Recorded, NEW c \in Clients, CallCurrent(c), Save(c)
  PROVE  ChainStore'
<1>0. /\ StoreTypeOK /\ ServiceTypeOK
      /\ exists /\ pc[c] = "save" /\ Working(c) /\ req[c] \in Request
      /\ req[c].method \in ServiceMethods \ {"reset_to_review", "refresh"}
  BY DEF Save, TypeInv, ServiceTypeOK, Working, CallsFit, KeyFits, Request
<1>1. PICK ok \in BOOLEAN :
        /\ CanSave(Product(c, ok), key[c])
        /\ SaveArtifact(Product(c, ok), StageAfter(Product(c, ok)),
                        Deactivated(c), req[c].method = "save_review", key[c])
  BY DEF Save
<1> DEFINE a == Product(c, ok)
<1>2. ReadsCurrent(c) /\ Asked(c) /\ snap[c].active = active
  BY <1>0 DEF CallCurrent, ReadsCurrent
<1>3. a \in Artifact
  BY <1>0, Products DEF ProductFits
<1>4. ASSUME req[c].method # "save_review", Deactivated(c) = {}
      PROVE  /\ artifacts' = Append(artifacts, a)
             /\ active' = [active EXCEPT ![a.type] = Len(artifacts) + 1]
             /\ stage' = StageAfter(a) /\ exists' = exists
  <2>1. [t \in ArtifactType |-> IF t \in {} THEN 0 ELSE active[t]] = active
    BY <1>0 DEF StoreTypeOK
  <2> QED
    BY <1>1, <1>4, <2>1 DEF SaveArtifact, Overwritten
<1>5. CASE req[c].method = "ingest"
  <2>1. /\ a.type = "INGESTION_RESULT"
        /\ a.doc = req[c].doc
    BY <1>5 DEF Product, NewArtifact
  <2>2. stage' \in {"new", "ingested"}
    BY <1>1, <2>1 DEF SaveArtifact, StageAfter
  <2>3. artifacts' = Append(artifacts, a)
    BY <1>1, <1>5 DEF SaveArtifact, Overwritten
  <2>4. active'["INGESTION_RESULT"] # 0
    BY <1>0, <1>1, <1>5, <2>1, ArtifactTypes DEF SaveArtifact, Overwritten, StoreTypeOK
  <2>5. \A t \in ArtifactType \ {"INGESTION_RESULT"} : active'[t] = 0
    <3>1. CASE req[c].replace
      BY <1>1, <1>5, <2>1, <3>1, FromTypes DEF SaveArtifact, Deactivated
    <3>2. CASE ~req[c].replace
      <4>1. Deactivated(c) = {}
        BY <3>2 DEF Deactivated
      <4>2. ~(active["INGESTION_RESULT"] # 0 /\ artifacts[active["INGESTION_RESULT"]].ok)
        <5> SUFFICES ASSUME active["INGESTION_RESULT"] # 0,
                            artifacts[active["INGESTION_RESULT"]].ok
                     PROVE  FALSE
          OBVIOUS
        <5>1. artifacts[active["INGESTION_RESULT"]].doc = req[c].doc
          BY <1>2, <1>5, <3>2 DEF ReadsCurrent, Allowed
        <5>2. /\ active["INGESTION_RESULT"] \in DOMAIN artifacts
              /\ artifacts[active["INGESTION_RESULT"]].type = "INGESTION_RESULT"
          BY <1>0, ArtifactTypes DEF StoreTypeOK
        <5>3. Done(<<"INGEST", req[c].doc, 0>>, active["INGESTION_RESULT"])
          BY <5>1, <5>2 DEF Recorded
        <5>4. key[c] = <<"INGEST", req[c].doc, 0>> /\ key[c] # NoKey
          BY <1>0, <1>5 DEF TypeInv, CallsFit, KeyFits, NoKey
        <5> QED
          BY <1>1, <5>3, <5>4 DEF CanSave, Started, Done
      <4>3. active["CANDIDATE_EXTRACTION_RESULT"] = 0
        BY <4>2, EmptyBelow DEF ChainStore, OnSuccesses
      <4>4. \A t \in ArtifactType \ {"INGESTION_RESULT"} : active[t] = 0
        BY <4>3, EmptyBelow, ArtifactTypes DEF ChainStore
      <4> QED
        BY <1>0, <1>4, <1>5, <2>1, <4>1, <4>4 DEF StoreTypeOK
    <3> QED
      BY <3>1, <3>2
  <2>6. ReviewInPlace'
    BY <1>0, <1>3, <2>1, <2>3, AppendKeepsPlaces DEF ChainStore
  <2> QED
    BY <2>2, <2>4, <2>5, <2>6, RootOnly
<1>6. CASE req[c].method = "save_review"
  BY <1>0, <1>6, Overwrites, Rewritten
<1>7. CASE req[c].method \notin {"ingest", "save_review"}
  <2>1. /\ artifacts' = Append(artifacts, a)
        /\ active' = [active EXCEPT ![a.type] = Len(artifacts) + 1]
        /\ stage' = StageAfter(a)
    BY <1>4, <1>7 DEF Deactivated
  <2>2. CASE req[c].method \in {"extract", "retry"}
    <3>1. a.type = "CANDIDATE_EXTRACTION_RESULT" /\ a.parent = active["INGESTION_RESULT"]
      BY <1>2, <2>2 DEF Product, NewArtifact
    <3>2. a.parent # 0 /\ artifacts[a.parent].ok
      BY <1>2, <2>2, <3>1 DEF ReadsCurrent, Allowed
    <3>3. active["REVIEW_SESSION"] = 0
      BY <1>2, <2>2, EmptyBelow DEF Asked, ChainStore, OnSuccesses
    <3>4. \A t \in ArtifactType : ExpectedParent(t) = a.type => active[t] = 0
      BY <3>1, <3>3, ArtifactTypes DEF ExpectedParent
    <3>5. /\ ExpectedParent(a.type) = "INGESTION_RESULT"
          /\ RequiredActive(stage') \in {a.type, ExpectedParent(a.type)}
      BY <2>1, <3>1 DEF ExpectedParent, StageAfter, RequiredActive
    <3> QED
      BY <1>0, <1>3, <2>1, <3>1, <3>2, <3>4, <3>5, Extended
  <2>3. CASE req[c].method = "start_review"
    <3>1. /\ a.type = "REVIEW_SESSION" /\ a.parent = active["CANDIDATE_EXTRACTION_RESULT"]
          /\ a.review.session = Len(artifacts) + 1
      BY <1>2, <2>3 DEF Product, NewArtifact, NoReview
    <3>2. active["REVIEW_SESSION"] = 0 /\ a.parent # 0 /\ artifacts[a.parent].ok
      BY <1>2, <2>3, <3>1 DEF ReadsCurrent, Allowed
    <3>3. \A t \in ArtifactType : ExpectedParent(t) = a.type => active[t] = 0
      BY <3>1, <3>2, EmptyBelow, ArtifactTypes DEF ExpectedParent, ChainStore
    <3>4. /\ ExpectedParent(a.type) = "CANDIDATE_EXTRACTION_RESULT"
          /\ RequiredActive(stage') \in {a.type, ExpectedParent(a.type)}
      BY <2>1, <3>1 DEF ExpectedParent, StageAfter, RequiredActive
    <3> QED
      BY <1>0, <1>3, <2>1, <3>1, <3>2, <3>3, <3>4, Extended
  <2>4. CASE req[c].method = "approve"
    <3>1. a.type = "APPROVED_REVIEW" /\ a.parent = active["REVIEW_SESSION"]
      BY <1>2, <2>4 DEF Product, NewArtifact
    <3>2. a.parent # 0 /\ active["APPROVED_REVIEW"] = 0
      BY <1>2, <2>4, <3>1 DEF ReadsCurrent, Allowed
    <3>3. \A t \in ArtifactType : ExpectedParent(t) = a.type => active[t] = 0
      BY <3>1, <3>2, EmptyBelow, ArtifactTypes DEF ExpectedParent, ChainStore
    <3>4. /\ ExpectedParent(a.type) = "REVIEW_SESSION"
          /\ RequiredActive(stage') \in {a.type, ExpectedParent(a.type)}
      BY <2>1, <3>1 DEF ExpectedParent, StageAfter, RequiredActive
    <3> QED
      BY <1>0, <1>3, <2>1, <3>1, <3>2, <3>3, <3>4, Extended
  <2>5. CASE req[c].method = "assess"
    <3>1. a.type = "INTEGRATED_ASSESSMENT_RESULT" /\ a.parent = active["APPROVED_REVIEW"]
      BY <1>2, <2>5 DEF Product, NewArtifact
    <3>2. a.parent # 0 /\ active["INTEGRATED_ASSESSMENT_RESULT"] = 0
      BY <1>2, <2>5, <3>1 DEF ReadsCurrent, Allowed, Asked
    <3>3. \A t \in ArtifactType : ExpectedParent(t) = a.type => active[t] = 0
      BY <3>1, <3>2, EmptyBelow, ArtifactTypes DEF ExpectedParent, ChainStore
    <3>4. /\ ExpectedParent(a.type) = "APPROVED_REVIEW"
          /\ RequiredActive(stage') \in {a.type, ExpectedParent(a.type)}
      BY <2>1, <3>1 DEF ExpectedParent, StageAfter, RequiredActive
    <3> QED
      BY <1>0, <1>3, <2>1, <3>1, <3>2, <3>3, <3>4, Extended
  <2>6. CASE req[c].method = "generate_package"
    <3>1. a.type = "DECISION_PACKAGE_RESULT" /\ a.parent = active["INTEGRATED_ASSESSMENT_RESULT"]
      BY <1>2, <2>6 DEF Product, NewArtifact
    <3>2. a.parent # 0
      BY <1>2, <2>6, <3>1 DEF ReadsCurrent, Allowed
    <3>3. \A t \in ArtifactType : ExpectedParent(t) # a.type
      BY <3>1, ArtifactTypes DEF ExpectedParent
    <3>4. /\ ExpectedParent(a.type) = "INTEGRATED_ASSESSMENT_RESULT"
          /\ RequiredActive(stage') \in {a.type, ExpectedParent(a.type)}
      BY <2>1, <3>1 DEF ExpectedParent, StageAfter, RequiredActive
    <3> QED
      BY <1>0, <1>3, <2>1, <3>1, <3>2, <3>3, <3>4, Extended
  <2> QED
    BY <1>0, <1>7, <2>2, <2>3, <2>4, <2>5, <2>6 DEF ServiceMethods
<1> QED
  BY <1>5, <1>6, <1>7

\* Reading the workspace: the call goes on from what is active, or ends.
LEMMA ReadCurrent ==
  ASSUME TypeInv, NEW c \in Clients, exists, CallCurrent(c), ReadActive(c)
  PROVE  CallCurrent(c)'
<1> DEFINE r == req[c]
           i == active["REVIEW_SESSION"]
           s == [stage |-> snap[c].stage, active |-> active,
                 review |-> IF i # 0 THEN artifacts[i].review ELSE NoReview]
<1>0. ServiceTypeOK /\ pc[c] = "active" /\ UNCHANGED storeVars
  BY DEF ReadActive, TypeInv
<1>1. CASE Return(c) \/ Raise(c)
  BY <1>0, <1>1, ReturnsCurrent, RaisesCurrent DEF storeVars
<1>2. CASE /\ Goto(c, "idle")
           /\ view' = [view EXCEPT ![c] = s]
           /\ Forget(c)
  BY <1>0, <1>2
     DEF Goto, Forget, CallCurrent, ViewCurrent, Asked, Working, NoRequest, ServiceTypeOK,
         storeVars
<1>3. CASE /\ r.method # "refresh" /\ Allowed(r, s)
           /\ ~(r.method = "start_review" /\ s.active["REVIEW_SESSION"] # 0)
           /\ snap' = [snap EXCEPT ![c] = s]
           /\ Goto(c, IF KeyOf(r, s) = NoKey THEN "save" ELSE "begin")
           /\ UNCHANGED <<req, view>>
  <2>1. /\ snap'[c] = s /\ req'[c] = r /\ pc'[c] \in {"save", "begin"}
        /\ UNCHANGED <<artifacts, active, view>>
    BY <1>0, <1>3 DEF Goto, ServiceTypeOK, storeVars
  <2>2. PICK t : t = s
    OBVIOUS
  <2>3. Allowed(req[c], snap[c])'
    BY <1>3, <2>1, <2>2, AllowedKeeps
  <2>4. ReadsCurrent(c)'
    BY <1>3, <2>1, <2>3 DEF ReadsCurrent
  <2>5. Asked(c)'
    BY <1>0, <2>1 DEF CallCurrent, Asked
  <2>6. ViewCurrent(c)'
    BY <1>3, <2>1 DEF CallCurrent, ViewCurrent
  <2> QED
    BY <2>1, <2>4, <2>5, <2>6 DEF CallCurrent
<1> QED
  BY <1>1, <1>2, <1>3 DEF ReadActive

\* A button is offered on what is active.
LEMMA AskedCurrent ==
  ASSUME TypeInv, NEW c \in Clients, exists, CallCurrent(c), Call(c)
  PROVE  CallCurrent(c)'
<1>0. /\ ServiceTypeOK /\ pc[c] = "idle" /\ pc'[c] = "stage"
      /\ UNCHANGED <<active, artifacts, view>>
  BY DEF TypeInv, ServiceTypeOK, Call, IngestButton, ExtractButton, RetryButton,
         StartReviewButton, ReviewEdit, ApproveButton, AssessButton, PackageButton,
         ResetCall, RefreshPage, AskPlain, Ask, Goto, storeVars
<1>1. ViewCurrent(c) /\ ViewCurrent(c)' /\ view[c].active \in {active, NoneActive}
  BY <1>0 DEF CallCurrent, ViewCurrent
<1>2. \A t \in ArtifactType : NoneActive[t] = 0
  BY DEF NoneActive
<1>3. Asked(c)'
  <2>1. CASE ExtractButton(c)
    <3>1. req'[c].method = "extract" /\ view[c].active["CANDIDATE_EXTRACTION_RESULT"] = 0
          /\ view[c].active["INGESTION_RESULT"] # 0
      BY <1>0, <2>1 DEF ExtractButton, AskPlain, Ask, Shown, ServiceTypeOK
    <3>2. view[c].active = active
      BY <1>1, <1>2, <3>1, ArtifactTypes
    <3> QED
      BY <1>0, <3>1, <3>2 DEF Asked
  <2>2. CASE RetryButton(c)
    <3>1. /\ req'[c].method = "retry"
          /\ req'[c].artifact = view[c].active["CANDIDATE_EXTRACTION_RESULT"]
          /\ view[c].active["CANDIDATE_EXTRACTION_RESULT"] # 0
          /\ ~artifacts[view[c].active["CANDIDATE_EXTRACTION_RESULT"]].ok
      BY <1>0, <2>2 DEF RetryButton, Ask, Shown, ServiceTypeOK
    <3>2. view[c].active = active
      BY <1>1, <1>2, <3>1, ArtifactTypes
    <3> QED
      BY <1>0, <3>1, <3>2 DEF Asked
  <2>3. CASE AssessButton(c)
    <3>1. req'[c].method = "assess" /\ view[c].active["INTEGRATED_ASSESSMENT_RESULT"] = 0
          /\ view[c].active["APPROVED_REVIEW"] # 0
      BY <1>0, <2>3 DEF AssessButton, AskPlain, Ask, Shown, ServiceTypeOK
    <3>2. view[c].active = active
      BY <1>1, <1>2, <3>1, ArtifactTypes
    <3> QED
      BY <1>0, <3>1, <3>2 DEF Asked
  <2>4. CASE ReviewEdit(c)
    <3>1. /\ req'[c].method = "save_review" /\ view[c].active["REVIEW_SESSION"] # 0
          /\ view[c].review.edits \subseteq req'[c].review.edits
      BY <1>0, <2>4 DEF ReviewEdit, Ask, Shown, ServiceTypeOK
    <3>2. view[c].active = active
      BY <1>1, <1>2, <3>1, ArtifactTypes
    <3> QED
      BY <1>0, <1>1, <3>1, <3>2 DEF Asked, ViewCurrent
  <2>5. CASE ApproveButton(c)
    <3>1. /\ req'[c].method = "approve" /\ view[c].active["REVIEW_SESSION"] # 0
          /\ req'[c].review = view[c].review
      BY <1>0, <2>5 DEF ApproveButton, Ask, Shown, ServiceTypeOK
    <3>2. view[c].active = active
      BY <1>1, <1>2, <3>1, ArtifactTypes
    <3> QED
      BY <1>0, <1>1, <3>1, <3>2 DEF Asked, ViewCurrent
  <2>6. CASE \/ IngestButton(c) \/ StartReviewButton(c) \/ PackageButton(c)
             \/ ResetCall(c) \/ RefreshPage(c)
    <3>1. req'[c].method \notin {"extract", "retry", "assess", "save_review", "approve"}
      BY <1>0, <2>6
         DEF IngestButton, StartReviewButton, PackageButton, ResetCall, RefreshPage,
             AskPlain, Ask, ServiceTypeOK
    <3> QED
      BY <3>1 DEF Asked
  <2> QED
    BY <2>1, <2>2, <2>3, <2>4, <2>5, <2>6 DEF Call
<1> QED
  BY <1>0, <1>1, <1>3 DEF CallCurrent, Working

LEMMA ChainStep ==
  ASSUME TypeInv, ChainInv, Recorded, [Next]_vars, \A c, d \in Clients : c = d
  PROVE  ChainInv'
<1>0. ServiceTypeOK /\ StoreTypeOK /\ ChainStore /\ KindsFit
  BY DEF TypeInv, ServiceTypeOK, ChainInv
<1>1. CASE UNCHANGED vars
  <2>1. ASSUME NEW c \in Clients, exists PROVE CallCurrent(c)'
    <3>1. CallCurrent(c)
      BY <2>1 DEF ChainInv
    <3>2. Working(c) => ReadsCurrent(c)'
      BY <1>1, <3>1, ReadsKeep DEF vars, CallCurrent
    <3> QED
      BY <1>1, <3>1, <3>2 DEF vars, CallCurrent, ViewCurrent, Asked, Working
  <2> QED
    BY <1>0, <1>1, <2>1, StoreKeeps, KindsKeep DEF vars, ChainInv
<1>2. CASE Crash
  <2>1. ASSUME NEW c \in Clients PROVE CallCurrent(c)'
    BY <1>2, ArtifactTypes
       DEF Crash, CallCurrent, ViewCurrent, Working, NoSnapshot, NoneActive
  <2> QED
    BY <1>0, <1>2, <2>1, StoreKeeps, KindsKeep DEF Crash, storeVars, ChainInv
<1>3. ASSUME NEW c \in Clients, exists => CallCurrent(c)', UNCHANGED storeVars
      PROVE  ChainInv'
  BY <1>0, <1>3, StoreKeeps, KindsKeep, OneCall DEF storeVars
<1>4. ASSUME NEW c \in Clients, Raise(c), pc[c] # "idle", UNCHANGED storeVars
      PROVE  ChainInv'
  BY <1>0, <1>3, <1>4, RaisesCurrent DEF storeVars, ChainInv
<1>5. ASSUME NEW c \in Clients, Call(c) PROVE ChainInv'
  <2>1. exists /\ UNCHANGED storeVars
    BY <1>5 DEF Call, IngestButton, ExtractButton, RetryButton, StartReviewButton,
                ReviewEdit, ApproveButton, AssessButton, PackageButton, ResetCall,
                RefreshPage, AskPlain, Ask
  <2> QED
    BY <1>3, <1>5, <2>1, AskedCurrent DEF ChainInv
<1>6. ASSUME NEW c \in Clients, ReadStage(c) PROVE ChainInv'
  <2>1. CASE Raise(c)
    BY <1>4, <1>6, <2>1 DEF ReadStage
  <2>2. CASE exists /\ Goto(c, "active") /\ UNCHANGED <<req, key, view>>
    <3>1. CallCurrent(c)
      BY <2>2 DEF ChainInv
    <3>2. CallCurrent(c)'
      BY <1>0, <1>6, <2>2, <3>1
         DEF ReadStage, Goto, CallCurrent, ViewCurrent, Asked, Working, storeVars, ServiceTypeOK
    <3> QED
      BY <1>3, <1>6, <3>2 DEF ReadStage
  <2> QED
    BY <1>6, <2>1, <2>2 DEF ReadStage
<1>7. ASSUME NEW c \in Clients, ReadActive(c) PROVE ChainInv'
  BY <1>3, <1>7, ReadCurrent DEF ReadActive, ChainInv
<1>8. ASSUME NEW c \in Clients, Begin(c) PROVE ChainInv'
  <2>1. /\ exists /\ CallCurrent(c) /\ pc[c] = "begin" /\ pc'[c] \in {"save", "fail"}
        /\ UNCHANGED <<exists, stage, artifacts, active, req, snap, view>>
    BY <1>0, <1>8 DEF Begin, CanBegin, BeginOperation, Goto, ChainInv, ServiceTypeOK
  <2>2. ReadsCurrent(c)'
    BY <2>1, ReadsKeep DEF CallCurrent, Working
  <2>3. CallCurrent(c)'
    BY <2>1, <2>2 DEF CallCurrent, ViewCurrent, Asked
  <2>4. KindsFit'
    BY <1>0, <1>8, KindsOfOthers DEF Begin, BeginOperation
  <2> QED
    BY <1>0, <2>1, <2>3, <2>4, StoreKeeps, OneCall
<1>9. ASSUME NEW c \in Clients, Replay(c) PROVE ChainInv'
  <2>0. /\ exists /\ CallCurrent(c) /\ pc[c] = "begin" /\ UNCHANGED storeVars
        /\ Working(c)
    BY <1>9 DEF Replay, Completed, ChainInv, Working
  <2>1. CASE Return(c) \/ Raise(c)
    BY <1>0, <1>3, <1>4, <2>0, <2>1, ReturnsCurrent
  <2>2. CASE /\ Goto(c, "activate") /\ UNCHANGED <<req, snap, key, view>>
             /\ \/ req[c].method = "ingest"
                \/ /\ req[c].method = "extract"
                   /\ artifacts[operations[key[c]].produced].parent
                        = snap[c].active["INGESTION_RESULT"]
    <3>1. ReadsCurrent(c)'
      BY <2>0, <2>2, ReadsKeep DEF CallCurrent, storeVars
    <3>2. pc'[c] = "activate"
      BY <1>0, <2>2 DEF Goto, ServiceTypeOK
    <3>3. CallCurrent(c)'
      BY <2>0, <2>2, <3>1, <3>2 DEF CallCurrent, ViewCurrent, Asked, ReadsCurrent, storeVars
    <3> QED
      BY <1>3, <2>0, <3>3
  <2> QED
    BY <1>9, <2>1, <2>2 DEF Replay
<1>10. ASSUME NEW c \in Clients, Activate(c) PROVE ChainInv'
  <2>1. CASE ~exists
    BY <1>4, <1>10, <2>1 DEF Activate
  <2>2. CASE exists
    <3>1. /\ Return(c) /\ CallCurrent(c)' /\ CallCurrent(c) /\ ReadsCurrent(c)
          /\ KeyFits(c) /\ pc[c] = "activate"
          /\ req[c].method \in {"ingest", "extract"}
      BY <1>0, <1>10, <2>2, ReturnsCurrent
         DEF Activate, ChainInv, CallCurrent, Working, TypeInv, CallsFit
    <3>2. PICK i : i = operations[key[c]].produced
      OBVIOUS
    <3>3. /\ i \in DOMAIN artifacts /\ i # 0
          /\ key[c][1] = "INGEST" => artifacts[i].type = "INGESTION_RESULT"
          /\ key[c][1] = "EXTRACT" => artifacts[i].type = "CANDIDATE_EXTRACTION_RESULT"
      BY <1>0, <2>2, <3>1, <3>2 DEF TypeInv, ProducedFits, KindsFit, StoreTypeOK
    <3>4. KindsFit' /\ UNCHANGED artifacts
      BY <1>0, <1>10, <2>2, KindsKeep DEF Activate, ActivateArtifact
    <3>5. CASE req[c].method = "ingest"
      <4>1. artifacts[i].type = "INGESTION_RESULT"
        BY <3>1, <3>3, <3>5 DEF KeyFits
      <4>2. /\ stage' \in {"new", "ingested"}
            /\ active' = [t \in ArtifactType |->
                            IF t = "INGESTION_RESULT" THEN i
                            ELSE IF t \in From(2) THEN 0 ELSE active[t]]
        BY <1>10, <2>2, <3>2, <3>5, <4>1 DEF Activate, ActivateArtifact
      <4>3. ReviewInPlace'
        BY <1>0, <3>4 DEF ChainStore, ReviewInPlace, OfType
      <4>4. ChainStore'
        BY <3>3, <4>2, <4>3, RootOnly, FromTypes, ArtifactTypes
      <4> QED
        BY <3>1, <3>4, <4>4, OneCall
    <3>6. CASE req[c].method = "extract"
      <4>1. artifacts[i].type = "CANDIDATE_EXTRACTION_RESULT"
        BY <3>1, <3>3, <3>6 DEF KeyFits
      <4>2. /\ active["INGESTION_RESULT"] # 0 /\ artifacts[active["INGESTION_RESULT"]].ok
            /\ artifacts[i].parent = active["INGESTION_RESULT"]
        BY <3>1, <3>2, <3>6 DEF CallCurrent, ReadsCurrent, Allowed
      <4>3. ActivateArtifact(i, IF artifacts[i].ok THEN "candidate-ready" ELSE "ingested",
                             From(3))
        BY <1>10, <2>2, <3>2, <3>6 DEF Activate
      <4>4. ChainStore'
        BY <1>0, <3>3, <4>1, <4>2, <4>3, Reactivated
      <4> QED
        BY <3>1, <3>4, <4>4, OneCall
    <3> QED
      BY <3>1, <3>5, <3>6
  <2> QED
    BY <2>1, <2>2
<1>11. ASSUME NEW c \in Clients, Save(c) PROVE ChainInv'
  <2>1. ChainStore'
    BY <1>0, <1>11, ChainSave DEF ChainInv, Save
  <2>2. PICK a \in Artifact : ProductFits(c, a) /\ SaveFits(c, a)
    BY <1>11, Saves
  <2>3. Saving(c, a)
    BY <1>0, <1>11, <2>2
       DEF Saving, Save, TypeInv, CallsFit, Working, KeyFits, ServiceTypeOK, Request
  <2>4. KindsFit'
    BY <1>0, <2>3, KindsSave
  <2>5. CallCurrent(c)'
    BY <1>0, <1>11, ReturnsCurrent DEF Save
  <2> QED
    BY <2>1, <2>4, <2>5, OneCall
<1>12. ASSUME NEW c \in Clients, SaveRefused(c) \/ SaveFault(c) \/ EngineRaises(c)
       PROVE  ChainInv'
  <2>1. UNCHANGED storeVars /\ pc[c] = "save"
    BY <1>12 DEF SaveRefused, SaveFault, EngineRaises
  <2>2. CASE Raise(c)
    BY <1>4, <2>1, <2>2
  <2>3. CASE Goto(c, "fail") /\ UNCHANGED <<req, snap, key, view>>
    <3>1. ASSUME exists PROVE CallCurrent(c)'
      <4>1. CallCurrent(c) /\ pc'[c] = "fail" /\ Working(c)
        BY <1>0, <2>1, <2>3, <3>1 DEF ChainInv, Goto, ServiceTypeOK, Working
      <4>2. ReadsCurrent(c)'
        BY <2>1, <2>3, <4>1, ReadsKeep DEF CallCurrent, storeVars
      <4> QED
        BY <2>1, <2>3, <4>1, <4>2 DEF CallCurrent, ViewCurrent, Asked, storeVars
    <3> QED
      BY <1>3, <2>1, <3>1
  <2> QED
    BY <1>12, <2>2, <2>3 DEF SaveRefused, SaveFault, EngineRaises, SaveRaises
<1>13. ASSUME NEW c \in Clients, Fail(c) PROVE ChainInv'
  <2>1. /\ Raise(c) /\ pc[c] = "fail"
        /\ UNCHANGED <<exists, stage, artifacts, active>>
    BY <1>13 DEF Fail, FailOperation, storeVars
  <2>2. exists => CallCurrent(c)'
    BY <1>0, <2>1, RaisesCurrent DEF ChainInv
  <2>3. KindsFit'
    BY <1>0, <1>13, KindsOfOthers DEF Fail, FailOperation, Finish, storeVars
  <2> QED
    BY <1>0, <2>1, <2>2, <2>3, StoreKeeps, OneCall
<1>14. ASSUME NEW c \in Clients, ResetToReview(c) PROVE ChainInv'
  <2>1. CASE ~exists
    BY <1>4, <1>14, <2>1 DEF ResetToReview
  <2>2. CASE exists
    <3>1. /\ Return(c) /\ CallCurrent(c)' /\ ReadsCurrent(c)
          /\ InvalidateActive(From(4), "in-review")
      BY <1>0, <1>14, <2>2, ReturnsCurrent DEF ResetToReview, ChainInv, CallCurrent, Working
    <3>2. active["REVIEW_SESSION"] # 0
      BY <1>14, <3>1 DEF ResetToReview, ReadsCurrent, Allowed
    <3>3. ChainStore' /\ KindsFit'
      BY <1>0, <3>1, <3>2, ResetChain, KindsKeep DEF InvalidateActive
    <3> QED
      BY <3>1, <3>3, OneCall
  <2> QED
    BY <2>1, <2>2
<1>15. ASSUME NEW c \in Clients, Pin(c) PROVE ChainInv'
  <2>1. UNCHANGED <<exists, stage, artifacts, active, operations, pc, req, snap, key, view>>
        /\ pc[c] = "idle"
    BY <1>15 DEF Pin, PinDecisionContract
  <2>2. exists => CallCurrent(c)'
    BY <2>1 DEF ChainInv, CallCurrent, ViewCurrent, Working
  <2> QED
    BY <1>0, <2>1, <2>2, StoreKeeps, KindsKeep, OneCall
<1>16. ASSUME NEW c \in Clients, Delete(c) PROVE ChainInv'
  <2>1. ~exists' /\ artifacts' = << >> /\ active' = NoneActive /\ operations' = NoOperations
    BY <1>16 DEF Delete, DeleteAssessment
  <2>2. ChainStore'
    BY <2>1, ArtifactTypes
       DEF ChainStore, ActiveLineage, Linked, OnSuccesses, StageBacked, ReviewInPlace,
           OfType, NoneActive
  <2>3. KindsFit'
    BY <2>1 DEF KindsFit, NoOperations
  <2> QED
    BY <2>1, <2>2, <2>3, OneCall
<1>17. ASSUME NEW c \in Clients, BeginRefused(c) PROVE ChainInv'
  BY <1>4, <1>17 DEF BeginRefused
<1> QED
  BY <1>1, <1>2, <1>5, <1>6, <1>7, <1>8, <1>9, <1>10, <1>11, <1>12, <1>13, <1>14,
     <1>15, <1>16, <1>17 DEF Next, Step

LEMMA RecordedInvariant == Spec => []Recorded
<1>1. Init => Recorded
  BY DEF Init, StoreInit, Recorded
<1>2. TypeInv /\ Recorded /\ [Next]_vars => Recorded'
  BY StoreSteps, RecordedStep
<1> QED
  BY <1>1, <1>2, TypeInvariant, PTL DEF Spec

LEMMA ChainInvariant ==
  ASSUME \A c, d \in Clients : c = d
  PROVE  Spec => []ChainInv
<1>1. Init => ChainInv
  <2> SUFFICES ASSUME Init PROVE ChainInv
    OBVIOUS
  <2>1. ChainStore
    BY ArtifactTypes
       DEF Init, StoreInit, ChainStore, ActiveLineage, Linked, OnSuccesses, StageBacked,
           RequiredActive, ReviewInPlace, OfType, NoneActive
  <2>2. KindsFit
    BY DEF Init, StoreInit, KindsFit, NoOperations
  <2>3. \A c \in Clients : CallCurrent(c)
    BY ArtifactTypes
       DEF Init, StoreInit, CallCurrent, ViewCurrent, Working, NoSnapshot, NoneActive
  <2> QED
    BY <2>1, <2>2, <2>3 DEF ChainInv
<1>2. TypeInv /\ Recorded /\ ChainInv /\ [Next]_vars => ChainInv'
  BY ChainStep
<1> QED
  BY <1>1, <1>2, TypeInvariant, RecordedInvariant, PTL DEF Spec

\* For one session, whatever it calls, in whatever order, and whatever fails or
\* crashes on the way: the workspace can be opened, what is active is one
\* derivation from the source on, and each review is in the row it was started
\* in (load_workspace, save_artifact_and_advance, activate_artifact).
THEOREM SoundChainHolds ==
  ASSUME \A c, d \in Clients : c = d
  PROVE  Spec => []SoundChain
<1>1. ChainInv => SoundChain
  <2> SUFFICES ASSUME ChainInv PROVE SoundChain
    OBVIOUS
  <2>1. Linked("INTEGRATED_ASSESSMENT_RESULT") /\ Linked("DECISION_PACKAGE_RESULT")
    BY ArtifactTypes DEF ChainInv, ChainStore, ActiveLineage
  <2> QED
    BY <2>1
       DEF ChainInv, ChainStore, SoundChain, WorkspaceLoads, ActiveChainValid, StageBacked
<1> QED
  BY <1>1, ChainInvariant, PTL

LEMMA ReviewKeptStep ==
  ASSUME TypeInv, ChainInv, [Next]_vars, \A c, d \in Clients : c = d
  PROVE  /\ exists' => \A i \in OfType("REVIEW_SESSION") :
              artifacts[i].review.edits \subseteq artifacts'[i].review.edits
         /\ \A c \in Clients :
              req[c].method = "approve" /\ Len(artifacts') > Len(artifacts)
                /\ pc[c] = "save" /\ pc'[c] # "save"
              => artifacts'[Len(artifacts')].review = req[c].review
<1>0. StoreTypeOK /\ ChainStore
  BY DEF TypeInv, ServiceTypeOK, ChainInv
<1>1. CASE \A c \in Clients : ~Save(c)
  <2>1. UNCHANGED artifacts \/ (artifacts' = << >> /\ ~exists')
    <3>1. ASSUME NEW c \in Clients,
                 \/ Call(c) \/ ReadStage(c) \/ ReadActive(c) \/ BeginRefused(c)
                 \/ Replay(c) \/ SaveRefused(c) \/ SaveFault(c) \/ EngineRaises(c)
          PROVE  UNCHANGED artifacts
      BY <3>1 DEF Call, IngestButton, ExtractButton, RetryButton, StartReviewButton,
         ReviewEdit, ApproveButton, AssessButton, PackageButton, ResetCall, RefreshPage,
         AskPlain, Ask, ReadStage, ReadActive, BeginRefused, Replay, SaveRefused,
         SaveFault, EngineRaises, storeVars
    <3>2. ASSUME NEW c \in Clients,
                 \/ Begin(c) \/ Activate(c) \/ Fail(c) \/ ResetToReview(c) \/ Pin(c)
          PROVE  UNCHANGED artifacts
      BY <3>2 DEF Begin, BeginOperation, Activate, ActivateArtifact, Fail, FailOperation,
         ResetToReview, InvalidateActive, Pin, PinDecisionContract, storeVars
    <3> QED
      BY <1>1, <3>1, <3>2
         DEF Next, Step, vars, storeVars, Crash, Delete, DeleteAssessment
  <2> QED
    BY <1>0, <2>1 DEF StoreTypeOK, OfType
<1>2. ASSUME NEW c \in Clients, Save(c)
      PROVE  /\ \A i \in OfType("REVIEW_SESSION") :
                  artifacts[i].review.edits \subseteq artifacts'[i].review.edits
             /\ req[c].method = "approve" =>
                  artifacts'[Len(artifacts')].review = req[c].review
  <2>1. /\ exists /\ pc[c] = "save" /\ CallCurrent(c) /\ Asked(c) /\ ReadsCurrent(c)
    BY <1>2 DEF Save, ChainInv, CallCurrent, Working
  <2>2. PICK ok \in BOOLEAN :
          SaveArtifact(Product(c, ok), StageAfter(Product(c, ok)), Deactivated(c),
                       req[c].method = "save_review", key[c])
    BY <1>2 DEF Save
  <2>3. CASE req[c].method = "save_review"
    <3>1. /\ active["REVIEW_SESSION"] \in DOMAIN artifacts
          /\ artifacts' = [artifacts EXCEPT ![active["REVIEW_SESSION"]].review = req[c].review]
      BY <1>0, <1>2, <2>1, <2>3, Overwrites
    <3>2. artifacts[active["REVIEW_SESSION"]].review.edits \subseteq req[c].review.edits
      BY <2>1, <2>3 DEF Asked
    <3> QED
      BY <1>0, <2>3, <3>1, <3>2 DEF StoreTypeOK, OfType, Artifact
  <2>4. CASE req[c].method # "save_review"
    <3>1. artifacts' = Append(artifacts, Product(c, ok))
      BY <2>2, <2>4 DEF SaveArtifact, Overwritten
    <3>2. /\ \A i \in DOMAIN artifacts : artifacts'[i] = artifacts[i]
          /\ artifacts'[Len(artifacts')] = Product(c, ok)
      BY <1>0, <3>1 DEF StoreTypeOK
    <3>3. CASE req[c].method = "approve"
      <4>1. Product(c, ok).review = snap[c].review
        BY <3>3 DEF Product, NewArtifact
      <4>2. snap[c].review = req[c].review
        BY <2>1, <3>3 DEF Asked, ReadsCurrent
      <4> QED
        BY <3>2, <4>1, <4>2 DEF OfType
    <3> QED
      BY <3>2, <3>3 DEF OfType
  <2> QED
    BY <2>3, <2>4
<1> QED
  BY <1>1, <1>2

\* For one session no edit of a review is lost or slipped in between the page
\* and the store: a saved review holds every edit it held before, and what is
\* approved is the review that was shown (save_review, approve_review).
THEOREM ReviewKeptHolds ==
  ASSUME \A c, d \in Clients : c = d
  PROVE  Spec => ReviewKept
<1>1. TypeInv /\ ChainInv /\ [Next]_vars =>
        /\ exists' => \A i \in OfType("REVIEW_SESSION") :
             artifacts[i].review.edits \subseteq artifacts'[i].review.edits
        /\ \A c \in Clients :
             req[c].method = "approve" /\ Len(artifacts') > Len(artifacts)
               /\ pc[c] = "save" /\ pc'[c] # "save"
             => artifacts'[Len(artifacts')].review = req[c].review
  BY ReviewKeptStep
<1> QED
  BY <1>1, TypeInvariant, ChainInvariant, PTL
     DEF Spec, ReviewKept, TrailAppendOnly, ApprovedAsShown

\* What is assessed and packaged had its approval and its contract, together.
THEOREM OutcomesSoundHolds == Spec => []OutcomesSound
BY AssessedOnlyIfApprovedHolds, OutcomesMatchPinHolds, PTL DEF OutcomesSound
=============================================================================
