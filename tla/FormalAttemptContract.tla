------------------------ MODULE FormalAttemptContract ------------------------
(***************************************************************************)
(* What the frozen contracts of a formal assessment promise about one run: *)
(* its attempts form a gap-free sequence, an attempt moves only along the  *)
(* permitted transitions, and it carries at most one terminal record, which *)
(* never changes.  It knows nothing of callers, reads or failures.         *)
(***************************************************************************)
EXTENDS Naturals, Sequences

CONSTANTS Runs          \* the runs, each the run of one authorization

VARIABLE history        \* [Runs -> Seq(Attempt)], the attempts of each run

Statuses == {"RUNNING", "COMPLETED_PENDING_REVIEW", "FAILED", "INTERRUPTED",
             "RETRY_AVAILABLE", "ABANDONED"}

Records == {"none", "result", "failure"}

Attempt == [status: Statuses, record: Records]

\* The transitions an event may record once its attempt has started, with the
\* terminal record that is written along with it.
Permitted ==
    { <<"RUNNING", "COMPLETED_PENDING_REVIEW">>, <<"RUNNING", "FAILED">>,
      <<"RUNNING", "INTERRUPTED">>,
      <<"INTERRUPTED", "ABANDONED">>, <<"RETRY_AVAILABLE", "ABANDONED">>,
      <<"FAILED", "RETRY_AVAILABLE">>, <<"INTERRUPTED", "RETRY_AVAILABLE">> }

RecordAfter(attempt, to) ==
    CASE to = "COMPLETED_PENDING_REVIEW" -> "result"
      [] to = "FAILED" -> "failure"
      [] to = "ABANDONED" -> IF attempt.record = "none" THEN "failure" ELSE attempt.record
      [] OTHER -> attempt.record

Init == history = [r \in Runs |-> << >>]

\* The manifest of the next attempt is stored together with its start event.
\* An attempt after the first continues one a retry was made available for,
\* which may have been abandoned since.
Start(r) ==
    /\ \/ history[r] = << >>
       \/ /\ history[r] # << >>
          /\ history[r][Len(history[r])].status \in {"RETRY_AVAILABLE", "ABANDONED"}
    /\ history' = [history EXCEPT ![r] =
                      Append(@, [status |-> "RUNNING", record |-> "none"])]

\* An event is appended to one attempt, the latest or an earlier one.
Advance(r) ==
    \E n \in DOMAIN history[r], to \in Statuses :
        /\ <<history[r][n].status, to>> \in Permitted
        /\ history' = [history EXCEPT ![r][n] =
                          [status |-> to, record |-> RecordAfter(@, to)]]

Next == \E r \in Runs : Start(r) \/ Advance(r)

Spec == Init /\ [][Next]_history

=============================================================================
