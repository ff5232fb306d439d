-------------------------- MODULE FormalProperties --------------------------
(***************************************************************************)
(* What the formal assessment run service promises.                        *)
(***************************************************************************)
EXTENDS FormalRun

Statuses == {"RUNNING", "COMPLETED_PENDING_REVIEW", "FAILED", "INTERRUPTED",
             "RETRY_AVAILABLE", "ABANDONED"}

Requests == (Runs \cup Callers) \X Nat

Calls == [pc : {"idle", "create", "engine", "append", "recover", "guide", "heads",
                "supersede", "link"},
          at : Results \cup {<< >>}, request : Requests \cup {<< >>},
          seen : Statuses \cup {""}, to : Statuses \cup {""}, todo : SUBSET Results]

\* What a call in progress has for its next step.
CallOK(x) ==
    /\ x \in Calls
    /\ x.pc # "idle" => x.at \in Results
    /\ x.pc = "create" => x.request \in Requests
    /\ x.pc = "append" => x.to \in {"COMPLETED_PENDING_REVIEW", "FAILED"}
    /\ x.pc = "recover" =>
         \E o \in DOMAIN Recoveries :
             x.seen \in Recoveries[o].allowed /\ x.to = Recoveries[o].target

\* The store and the calls keep their types (models/formal_assessment.py).
FormalTypeOK ==
    /\ attempts \in [Runs -> Seq([status : Statuses, record : {"none", "result", "failure"},
                                  engine : Nat, request : Requests])]
    /\ \A r \in Runs : Len(attempts[r]) <= MaxAttempts[r]
    /\ rows \in Seq(Results)
    /\ links \subseteq Results \X Results
    /\ guided \subseteq Results
    /\ call \in [Callers -> Calls]
    /\ \A c \in Callers : CallOK(call[c])

\* Only the latest attempt of a run is alive: every earlier one was failed or
\* interrupted, made available for a retry, and at most abandoned since, so two
\* attempts of a run are never assessed together (retry, run_service.py:393).
OneLiveAttempt ==
    \A r \in Runs : \A n \in 1 .. Len(attempts[r]) :
        n < Len(attempts[r]) => attempts[r][n].status \in {"RETRY_AVAILABLE", "ABANDONED"}

\* The engine runs at most once for an attempt, whoever repeats the request, and
\* a result is only of an attempt whose engine ran.
EngineOnce ==
    \A r \in Runs : \A n \in 1 .. Len(attempts[r]) :
        /\ attempts[r][n].engine <= 1
        /\ attempts[r][n].record = "result" => attempts[r][n].engine = 1

\* A run has at most one successful result, and it is the record of an attempt
\* that completed: what an interrupted attempt's engine still returns is never
\* stored, before or after a retry (_validate_state_extension).
OneResultPerRun ==
    /\ \A i, j \in 1 .. Len(rows) : rows[i][1] = rows[j][1] => i = j
    /\ \A i \in 1 .. Len(rows) :
         Attempt(rows[i]).status = "COMPLETED_PENDING_REVIEW"

\* A caller who is told that the assessment completed is told so of a result in
\* the store, after a crash as before it.
AnsweredIsStored ==
    \A c \in Callers :
        At(c, "idle") /\ call[c].at # << >> => call[c].at \in Stored

\* While there are results one of them is current: the supersessions, of callers
\* who each saw both results as heads, never form a cycle.
SomeResultIsCurrent == rows # << >> => Heads # {}

\* What callers who interfere, repeat their requests and are interrupted may not
\* spoil: one attempt of a run is alive, its engine runs once, one result of the
\* run is kept, and whoever is answered is answered from the store.
AttemptsSound ==
    OneLiveAttempt /\ EngineOnce /\ OneResultPerRun /\ AnsweredIsStored /\ SomeResultIsCurrent

\* The store implements what the frozen contracts say of attempts: gap-free, along
\* permitted transitions only, one immutable terminal record each.
Contract == INSTANCE FormalAttemptContract WITH
    history <- [r \in Runs |->
                  [n \in 1 .. Len(attempts[r]) |->
                     [status |-> attempts[r][n].status, record |-> attempts[r][n].record]]]

KeepsContract == Contract!Spec

\* Every call returns, whatever fails and whoever interferes.
CallsReturn == \A c \in Callers : ~At(c, "idle") ~> At(c, "idle")

=============================================================================
