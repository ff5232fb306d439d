-------------------------- MODULE FourGateSuccessor --------------------------
(***************************************************************************)
(* FourGateM2Service over SQLiteFourGateReassessmentRepository.  The same  *)
(* workflow for assessments under the four-gate framework, with simpler    *)
(* calls: an operation is recorded together with what it saved, so a call  *)
(* that is refused or fails leaves nothing behind, and no run is marked    *)
(* stale or failed.                                                        *)
(***************************************************************************)
EXTENDS SuccessorStore

fourGateVars == <<storeVars, call, crashes>>

\* create_run: the chain of the package must be active when it is saved.
CreateFourGate(r) ==
  /\ r = Len(packages) /\ packages[r] = policy
  /\ CreateRun(r)
  /\ UNCHANGED <<call, crashes>>

\* _assert_fresh, and the policy that the engine will run under.
CheckFourGate(w) ==
  LET c == call[w]
  IN /\ c.at = "check"
     /\ IF Fresh(c.run) /\ Requestable(c.run, c.step)
        THEN call' = [call EXCEPT ![w] = [@ EXCEPT
               !.at = IF Steps[c.step] \in Engines THEN "engine" ELSE "save",
               !.result = policy]]
        ELSE Returns(w)
     /\ UNCHANGED <<storeVars, crashes>>

\* The engine that fails or returns something else raises.
EngineFourGate(w) ==
  /\ call[w].at = "engine"
  /\ Goes(w, "save") \/ Returns(w)
  /\ UNCHANGED <<storeVars, crashes>>

\* Mutant: the stage is not required, only what the step builds on is.
SavesOnParent(r, k, i) == Taken(r, k - 1) /\ (k = 1 => docs[i] = 0)

\* _require_stage, the parent, and the primary key of a document.
SavesFourGate(r, k, i) == stage[r] = Working[k] /\ Taken(r, k - 1) /\ (k = 1 => docs[i] = 0)

SaveFourGate(w) ==
  LET c == call[w]
  IN /\ c.at = "save"
     /\ IF SavesFourGate(c.run, c.step, c.input)
        THEN SaveStep(c.run, c.step, c.input, c.result)
        ELSE UNCHANGED <<saved, stage, docs, under>>
     /\ Returns(w)
     /\ UNCHANGED <<packages, policy, crashes>>

FourGateNext ==
  \/ \E r \in Runs : CreateFourGate(r)
  \/ \E w \in Windows, r \in Runs : Press(w, r)
  \/ \E w \in Windows : CheckFourGate(w) \/ EngineFourGate(w) \/ SaveFourGate(w) \/ Crash(w)
  \/ (ReplacePackage \/ ChangePolicy) /\ UNCHANGED <<call, crashes>>

FourGateSpec == StoreInit /\ [][FourGateNext]_fourGateVars
=============================================================================
