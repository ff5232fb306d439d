--------------------------- MODULE SuccessorStore ---------------------------
(***************************************************************************)
(* The runs of a controlled reassessment and the baseline they are pinned  *)
(* to.  A run leads one supporting document through human review, approval *)
(* and a successor assessment; the workspace it started from goes on       *)
(* changing meanwhile.                                                     *)
(*                                                                         *)
(* The legacy family (grw/m2, persistence/reassessment.py) and the         *)
(* four-gate family (grw/four_gate_m2, persistence/                        *)
(* four_gate_reassessment.py) keep the same tables; the modules            *)
(* LegacySuccessor and FourGateSuccessor are their services.               *)
(*                                                                         *)
(* A run is created once for one package, so it has the number of that     *)
(* package.  Packages and policies are numbered in the order in which they *)
(* become current: one that was replaced never comes back.                 *)
(***************************************************************************)
EXTENDS Naturals, Sequences, FiniteSets

CONSTANTS
  MaxPackages,  \* bound: decision packages of the assessment
  MaxPolicies,  \* bound: versions of policy and instrument that are loaded
  Documents,    \* contents a user may submit
  Findings,     \* what a reviewer may find of the document
  Approvers,    \* who may approve the reassessment
  Windows,      \* browser windows in which calls are made
  MaxCrashes    \* bound: processes that end in the middle of a call

ASSUME FindingsAssumption ==
  Findings \subseteq {"admissible", "rejected", "insufficient", "conflict"}
ASSUME BoundsAssumption == MaxPackages \in Nat \ {0} /\ MaxPolicies \in Nat \ {0}

VARIABLES
  packages,  \* the policy each package was made under; the last is active
  policy,    \* the policy that the loaders return now
  stage,     \* stage of each run, "none" before it is created
  saved,     \* what each step of the run saved, after its manifest
  docs,      \* the run that holds a document, 0 if none does
  under,     \* the policy in the result of the successor assessment, or 0
  call,      \* the call that each window is in
  crashes

storeVars == <<packages, policy, stage, saved, docs, under>>

Runs == 1..MaxPackages

\* The steps of a run, in order: who decides and what may be decided.  The
\* others have one outcome.
Steps == <<"submit", "review", "resolve", "request", "approve",
           "build", "assess", "package", "compare">>
Inputs(k) ==
  CASE Steps[k] = "submit"  -> Documents
    [] Steps[k] = "review"  -> Findings
    [] Steps[k] = "resolve" -> {"known", "unknown"}
    [] Steps[k] = "approve" -> Approvers
    [] OTHER -> {"derived"}

\* Working[k] is the stage in which step k is taken.
Working == <<"OPEN", "DOCUMENT_SUBMITTED", "EVIDENCE_REVIEWED", "RESOLUTION_PROPOSED",
             "REQUESTED", "APPROVED", "SUCCESSOR_REVIEW_READY", "ASSESSED", "PACKAGE_READY">>
Refusals == {"EVIDENCE_REJECTED", "INSUFFICIENT", "BLOCKED_CONFLICT"}
Ends == Refusals \cup {"COMPARED", "STALE", "FAILED"}

\* Only a finding of the reviewer refuses; any other input leads on.
After(k, i) ==
  CASE Steps[k] = "review" /\ i = "rejected"     -> "EVIDENCE_REJECTED"
    [] Steps[k] = "review" /\ i = "insufficient" -> "INSUFFICIENT"
    [] Steps[k] = "review" /\ i = "conflict"     -> "BLOCKED_CONFLICT"
    [] k = Len(Steps)              -> "COMPARED"
    [] OTHER -> Working[k + 1]

\* A step was taken if what it saves is there.
Taken(r, k) == Len(saved[r]) >= k

\* What a reviewer left unknown cannot be requested.
Requestable(r, k) == Steps[k] = "request" => saved[r][k - 1] = "known"

Engines == {"assess", "package", "compare"}
Idle == [at |-> "idle", run |-> 0, step |-> 0, input |-> "none", end |-> "none", result |-> 0]

StoreInit ==
  /\ packages = <<1>> /\ policy = 1
  /\ stage = [r \in Runs |-> "none"]
  /\ saved = [r \in Runs |-> << >>]
  /\ docs = [d \in Documents |-> 0]
  /\ under = [r \in Runs |-> 0]
  /\ call = [w \in Windows |-> Idle]
  /\ crashes = 0

(***************************************************************************)
(* The baseline workspace and the policy files                             *)
(***************************************************************************)
\* The source, review or assessment is replaced, and a new package made.
ReplacePackage ==
  /\ Len(packages) < MaxPackages
  /\ packages' = Append(packages, policy)
  /\ UNCHANGED <<policy, stage, saved, docs, under>>

ChangePolicy ==
  /\ policy < MaxPolicies
  /\ policy' = policy + 1
  /\ UNCHANGED <<packages, stage, saved, docs, under>>

\* The package of run r is active and was made under the policy of now.
Fresh(r) == r = Len(packages) /\ packages[r] = policy

(***************************************************************************)
(* Calls.  A call looks for the result of its step first; one that is      *)
(* there is returned, or refused, without a trace.                         *)
(***************************************************************************)
Goes(w, place) == call' = [call EXCEPT ![w].at = place]
Returns(w) == call' = [call EXCEPT ![w] = Idle]

Start(w, r, k, i) ==
  /\ call[w].at = "idle"
  /\ stage[r] = Working[k] /\ ~Taken(r, k)
  /\ call' = [call EXCEPT ![w] =
       [Idle EXCEPT !.at = "check", !.run = r, !.step = k, !.input = i]]
  /\ UNCHANGED <<storeVars, crashes>>

Press(w, r) == \E k \in DOMAIN Steps : \E i \in Inputs(k) : Start(w, r, k, i)

\* The process ends in the middle of a call: what it committed stays.
Crash(w) ==
  /\ call[w].at # "idle" /\ crashes < MaxCrashes
  /\ crashes' = crashes + 1
  /\ Returns(w)
  /\ UNCHANGED storeVars

(***************************************************************************)
(* Transactions                                                            *)
(***************************************************************************)
\* What saving the result of step k must find: the run in its stage, nothing
\* saved for the step, and what it builds on.  A document has one row.
CanSave(r, k, i) ==
  /\ stage[r] = Working[k]
  /\ Len(saved[r]) = k - 1
  /\ k = 1 => docs[i] = 0

SaveStep(r, k, i, result) ==
  /\ saved' = [saved EXCEPT ![r] = Append(@, i)]
  /\ stage' = [stage EXCEPT ![r] = After(k, i)]
  /\ docs' = IF k = 1 THEN [docs EXCEPT ![i] = r] ELSE docs
  /\ under' = IF Steps[k] = "assess" THEN [under EXCEPT ![r] = result] ELSE under

CreateRun(r) ==
  /\ stage[r] = "none"
  /\ stage' = [stage EXCEPT ![r] = "OPEN"]
  /\ UNCHANGED <<packages, policy, saved, docs, under>>
=============================================================================
