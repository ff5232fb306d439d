--------------------------- MODULE LegacySuccessor ---------------------------
(***************************************************************************)
(* M2ReassessmentService over SQLiteReassessmentRepository.  Every call is *)
(* a sequence of reads and transactions of its own connection: it looks    *)
(* for the result of its step, checks that the baseline is still the one   *)
(* the run is pinned to, begins an operation under a key of its input,     *)
(* calls an engine, and saves.  A call that is refused after it began      *)
(* marks its operation failed, and with it the run.                        *)
(***************************************************************************)
EXTENDS SuccessorStore

VARIABLE operations  \* reassessment_operations: their status by run, step and input

legacyVars == <<storeVars, call, crashes, operations>>

Marker == 0   \* the operations STALE_..., which are no step of the run

LegacyInit ==
  /\ StoreInit
  /\ operations = [o \in {} |-> "none"]

KeyOf(c) == <<c.run, c.step, c.input>>
StatusOf(o) == IF o \in DOMAIN operations THEN operations[o] ELSE "absent"
SetOperation(o, status) ==
  operations' = [x \in DOMAIN operations \cup {o} |-> IF x = o THEN status ELSE operations[x]]

FailsAs(w, end) == call' = [call EXCEPT ![w] = [@ EXCEPT !.at = "fail", !.end = end]]

\* create_run returns the run of the package if there is one.
Create(r) ==
  /\ r \in DOMAIN packages
  /\ CreateRun(r)
  /\ UNCHANGED <<call, crashes, operations>>

\* _assert_fresh_baseline, _assert_document_and_policy_fresh: a call that finds
\* the run stale turns into one that opens the marker of that and fails it.
Stale(c) ==
  [c EXCEPT !.at = "fail", !.step = Marker, !.end = "STALE",
            !.input = IF c.run # Len(packages) THEN "baseline" ELSE "policy"]

Check(w) ==
  LET c == call[w]
  IN /\ c.at = "check"
     /\ IF Fresh(c.run)
        THEN /\ IF Requestable(c.run, c.step) THEN Goes(w, "begin") ELSE Returns(w)
             /\ UNCHANGED operations
        ELSE IF StatusOf(KeyOf(Stale(c))) = "FAILED"
        THEN Returns(w) /\ UNCHANGED operations
        ELSE /\ call' = [call EXCEPT ![w] = Stale(c)]
             /\ SetOperation(KeyOf(Stale(c)), "PENDING")
     /\ UNCHANGED <<storeVars, crashes>>

\* Mutant: an operation that is pending waits for its recovery, as in the
\* workspace.
WorkableOnce(status) == status = "absent"

\* A pending operation is carried on by whoever asks for it again.
Workable(status) == status \in {"absent", "PENDING"}

Begin(w) ==
  /\ call[w].at = "begin"
  /\ IF Workable(StatusOf(KeyOf(call[w])))
     THEN /\ Goes(w, IF Steps[call[w].step] \in Engines THEN "engine" ELSE "save")
          /\ SetOperation(KeyOf(call[w]), "PENDING")
     ELSE Returns(w) /\ UNCHANGED operations
  /\ UNCHANGED <<storeVars, crashes>>

\* Mutant: a result is taken under whatever policy it was made.
AgreesWithAny(r) == TRUE

\* verify_successor_for_phase5.
Accepts(r) == stage[r] = "SUCCESSOR_REVIEW_READY" /\ r = Len(packages)
\* The result names the policy of the baseline.
Agrees(r) == policy = packages[r]

\* The engine runs for long on what was read; it may also fail.
Engine(w) ==
  LET r == call[w].run
      assesses == Steps[call[w].step] = "assess"
  IN /\ call[w].at = "engine"
     /\ \/ FailsAs(w, "FAILED")
        \/ assesses /\ Accepts(r) /\ ~Agrees(r) /\ FailsAs(w, "STALE")
        \/ /\ assesses => Accepts(r) /\ Agrees(r)
           /\ call' = [call EXCEPT ![w] = [@ EXCEPT !.at = "save", !.result = policy]]
     /\ UNCHANGED <<storeVars, operations, crashes>>

Save(w) ==
  LET c == call[w]
  IN /\ c.at = "save"
     /\ IF CanSave(c.run, c.step, c.input) /\ operations[KeyOf(c)] = "PENDING"
        THEN /\ SaveStep(c.run, c.step, c.input, c.result)
             /\ SetOperation(KeyOf(c), "COMPLETED")
             /\ Returns(w)
        ELSE FailsAs(w, "FAILED") /\ UNCHANGED <<saved, stage, docs, under, operations>>
     /\ UNCHANGED <<packages, policy, crashes>>

\* Mutant: a completed operation is failed as well.
FailsWhat(status) == TRUE

\* fail_operation refuses a completed operation; it does not look at the stage.
Fails(status) == status # "COMPLETED"

Fail(w) ==
  LET c == call[w]
  IN /\ c.at = "fail"
     /\ IF Fails(operations[KeyOf(c)])
        THEN /\ SetOperation(KeyOf(c), "FAILED")
             /\ stage' = [stage EXCEPT ![c.run] = c.end]
        ELSE UNCHANGED <<operations, stage>>
     /\ Returns(w)
     /\ UNCHANGED <<packages, policy, saved, docs, under, crashes>>

Works(w) == Check(w) \/ Begin(w) \/ Engine(w) \/ Save(w) \/ Fail(w)

\* list_runs_for_baseline shows a run only if what it saved is what its
\* stage stands for; it refuses the whole list otherwise.
Listed(r) ==
  \/ stage[r] \in {"none", "STALE", "FAILED"}
  \/ stage[r] = "COMPARED" /\ Len(saved[r]) = Len(Steps)
  \/ stage[r] \in Refusals /\ Len(saved[r]) = 2
  \/ \E k \in DOMAIN Working : stage[r] = Working[k] /\ Len(saved[r]) = k - 1

LegacyNext ==
  \/ \E r \in Runs : Create(r)
  \/ \E w \in Windows, r \in Runs : Press(w, r) /\ UNCHANGED operations
  \/ \E w \in Windows : Works(w)
  \/ \E w \in Windows : Crash(w) /\ UNCHANGED operations
  \/ (ReplacePackage \/ ChangePolicy) /\ UNCHANGED <<call, crashes, operations>>

\* Calls run to their end unless the process ends, and somebody goes on
\* asking for the next step of every run.
LegacyFairness ==
  \A w \in Windows :
    /\ WF_legacyVars(Works(w))
    /\ \A r \in Runs : SF_legacyVars(Press(w, r) /\ UNCHANGED operations)

LegacySpec == LegacyInit /\ [][LegacyNext]_legacyVars /\ LegacyFairness
=============================================================================
