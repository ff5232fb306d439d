------------------------------ MODULE FormalRun ------------------------------
(***************************************************************************)
(* The formal assessment run service over its append-only store            *)
(* (formal/run_service.py, persistence/formal_assessment.py) and what the  *)
(* Organisational page does with its outcomes.  A caller is one script run *)
(* of a session; each of its reads and each of its transactions is a step, *)
(* so calls interleave between reading the history and appending to it.    *)
(***************************************************************************)
EXTENDS Naturals, Sequences, FiniteSets

CONSTANTS Runs,         \* authorizations of one lifecycle, each with its run
          Callers,      \* concurrent script runs
          MaxAttempts,  \* [Runs -> Nat \ {0}]: bound on the attempts of a run
          StoreFails    \* whether a transaction may fail for want of the store

ASSUME BoundsAssumption == MaxAttempts \in [Runs -> Nat \ {0}] /\ StoreFails \in BOOLEAN

VARIABLES attempts,     \* [Runs -> Seq(attempt)]: manifests, events and terminals
          rows,         \* the successful results in the order they were stored
          links,        \* supersessions <<superseded, successor>>
          guided,       \* the results whose guidance is stored
          call          \* [Callers -> call in progress, or what it answered]

store == <<attempts, rows, links, guided>>
vars == <<attempts, rows, links, guided, call>>

-----------------------------------------------------------------------------
(* Records.                                                                *)

\* A result is named by the run and the attempt whose record it is.
Results == UNION { {r} \X (1 .. MaxAttempts[r]) : r \in Runs }

\* The request token of attempt 1 belongs to the draft; the page derives the
\* token of an action from the session and the attempt it showed.
DraftRequest(r) == <<r, 0>>
ActionRequest(c, shown) == <<c, shown>>

StartedBy(request) ==
    [status |-> "RUNNING", record |-> "none", engine |-> 0, request |-> request]

InCall(pc, at) ==
    [pc |-> pc, at |-> at, request |-> << >>, seen |-> "", to |-> "", todo |-> {}]

\* A caller is answered that an assessment completed, or with a notice: it
\* failed, was rejected, raised, or needs a recovery action.
Completed(at) == InCall("idle", at)
Notice == InCall("idle", << >>)

\* The statuses each recovery action accepts and the one it leads to.
Recoveries ==
    [INTERRUPT |-> [allowed |-> {"RUNNING"}, target |-> "INTERRUPTED"],
     MARK_RETRY_AVAILABLE |-> [allowed |-> {"FAILED", "INTERRUPTED"},
                               target |-> "RETRY_AVAILABLE"],
     ABANDON |-> [allowed |-> {"INTERRUPTED", "RETRY_AVAILABLE"},
                  target |-> "ABANDONED"]]

Stored == { rows[i] : i \in 1 .. Len(rows) }

IsHead(result) == \A l \in links : l[1] # result

\* The successful results that no supersession supersedes.
Heads == { result \in Stored : IsHead(result) }

\* The first and the last of some results, in the order they were stored.
IsFirst(result, some) ==
    \E i \in 1 .. Len(rows) :
        rows[i] = result /\ result \in some /\ \A j \in 1 .. i - 1 : rows[j] \notin some
IsLast(result, some) ==
    \E i \in 1 .. Len(rows) :
        rows[i] = result /\ result \in some /\ \A j \in i + 1 .. Len(rows) : rows[j] \notin some

\* The results reached from one along the supersessions, itself included: those
\* in every set that holds it and, with a result, what superseded that.
Successors(result) ==
    LET closed == { some \in SUBSET Results :
                      result \in some /\ \A l \in links : l[1] \in some => l[2] \in some }
    IN  { reached \in Results : \A some \in closed : reached \in some }

Init ==
    /\ attempts = [r \in Runs |-> << >>]
    /\ rows = << >>
    /\ links = {}
    /\ guided = {}
    /\ call = [c \in Callers |-> Notice]

-----------------------------------------------------------------------------
(* Steps of a call.                                                        *)

At(c, pc) == call[c].pc = pc

Proceed(c, next) == call' = [call EXCEPT ![c] = next]

Attempt(at) == attempts[at[1]][at[2]]

Latest(r) == Len(attempts[r])

\* What the persisted attempt answers; a completed one is finalized by the page.
Answer(c, at) ==
    Proceed(c, IF Attempt(at).status = "COMPLETED_PENDING_REVIEW"
               THEN InCall("guide", at) ELSE Notice)

\* execute: an attempt of the same request is answered from the store; else
\* the policy, the review and the projection are checked before it is created.
Execute(c, r) ==
    /\ At(c, "idle")
    /\ \/ /\ attempts[r] # << >>
          /\ Answer(c, <<r, 1>>)
       \/ /\ attempts[r] = << >>
          /\ Proceed(c, [InCall("create", <<r, 1>>) EXCEPT !.request = DraftRequest(r)])
       \/ /\ attempts[r] = << >>
          /\ Proceed(c, Notice)
    /\ UNCHANGED store

\* retry of the latest attempt, asked for by a page that showed one of them.
Retry(c, r) ==
    /\ At(c, "idle")
    /\ \E shown \in 1 .. Latest(r) :
         LET request == ActionRequest(c, shown)
             Used == { n \in 1 .. Latest(r) : attempts[r][n].request = request }
         IN  IF Latest(r) \in Used THEN Answer(c, <<r, Latest(r)>>)
             ELSE IF Used # {} \/ attempts[r][Latest(r)].status # "RETRY_AVAILABLE"
                  THEN Proceed(c, Notice)
             ELSE /\ Latest(r) < MaxAttempts[r]
                  /\ \/ Proceed(c, [InCall("create", <<r, Latest(r) + 1>>)
                                      EXCEPT !.request = request])
                     \/ Proceed(c, Notice)
    /\ UNCHANGED store

\* Whether the manifest of the attempt is still to be created.
Vacant(r, n) == Len(attempts[r]) = n - 1

\* create_manifest_and_start: the manifest, its start event and the running
\* state in one transaction.  When another caller created the attempt, from the
\* same request or not, this one is refused: its answer is an error notice.
Create(c) ==
    LET r == call[c].at[1]
        n == call[c].at[2]
        stored == SubSeq(attempts[r], 1, n - 1) \o << StartedBy(call[c].request) >>
    IN  /\ At(c, "create")
        /\ \/ /\ Vacant(r, n)
              /\ attempts' = [attempts EXCEPT ![r] = stored]
              /\ Proceed(c, InCall("engine", call[c].at))
           \/ /\ ~Vacant(r, n) \/ StoreFails
              /\ Proceed(c, Notice)
              /\ UNCHANGED attempts
        /\ UNCHANGED <<rows, links, guided>>

\* The engine runs outside any transaction; it returns a result, raises, or
\* returns what the projection does not accept.
RunEngine(c) ==
    LET r == call[c].at[1]
        n == call[c].at[2]
    IN  /\ At(c, "engine")
        /\ attempts' = [attempts EXCEPT ![r][n].engine = @ + 1]
        /\ \E to \in {"COMPLETED_PENDING_REVIEW", "FAILED"} :
             Proceed(c, [InCall("append", call[c].at) EXCEPT !.to = to])
        /\ UNCHANGED <<rows, links, guided>>

\* Mutant: the transaction does not compare the history with the one read.
ExtendsAny(at, seen) == TRUE

\* _validate_state_extension: the events stored are still those that were read.
\* An attempt is never twice in a status, so the status tells its events.
Extends(at, seen) == Attempt(at).status = seen

RecordWith(record, to) ==
    CASE to = "COMPLETED_PENDING_REVIEW" -> "result"
      [] to \in {"FAILED", "ABANDONED"} -> IF record = "none" THEN "failure" ELSE record
      [] OTHER -> record

\* append_event: one event, the state it leads to and a terminal record.
AppendEvent(at, to) ==
    LET changed == [Attempt(at) EXCEPT !.status = to,
                                       !.record = RecordWith(Attempt(at).record, to)]
    IN  attempts' = [attempts EXCEPT ![at[1]][at[2]] = changed]

AppendTerminal(c) ==
    LET at == call[c].at
    IN  /\ At(c, "append")
        /\ \/ /\ Extends(at, "RUNNING")
              /\ AppendEvent(at, call[c].to)
              /\ IF call[c].to = "FAILED"
                 THEN rows' = rows /\ Proceed(c, Notice)
                 ELSE rows' = Append(rows, at) /\ Proceed(c, InCall("guide", at))
           \/ /\ ~Extends(at, "RUNNING") \/ StoreFails
              /\ Proceed(c, Notice)
              /\ UNCHANGED <<attempts, rows>>
        /\ UNCHANGED <<links, guided>>

\* interrupt_running, mark_retry_available and abandon read the latest attempt;
\* a request that was used is answered from the store.
Recover(c, r) ==
    /\ At(c, "idle")
    /\ \E operation \in DOMAIN Recoveries :
         LET rule == Recoveries[operation]
             at == <<r, Latest(r)>>
         IN  IF attempts[r] = << >> THEN Proceed(c, Notice)
             ELSE \/ /\ \E n \in 1 .. Latest(r) :
                          attempts[r][n].status \in {"INTERRUPTED", "RETRY_AVAILABLE", "ABANDONED"}
                     /\ Answer(c, at)
                  \/ /\ Attempt(at).status \notin rule.allowed
                     /\ Proceed(c, Notice)
                  \/ /\ Attempt(at).status \in rule.allowed
                     /\ Proceed(c, [InCall("recover", at) EXCEPT
                                      !.seen = Attempt(at).status, !.to = rule.target])
    /\ UNCHANGED store

AppendRecovery(c) ==
    LET at == call[c].at
    IN  /\ At(c, "recover")
        /\ \/ /\ Extends(at, call[c].seen)
              /\ AppendEvent(at, call[c].to)
              /\ Proceed(c, Notice)
           \/ /\ ~Extends(at, call[c].seen) \/ StoreFails
              /\ Proceed(c, Notice)
              /\ UNCHANGED attempts
        /\ UNCHANGED <<rows, links, guided>>

-----------------------------------------------------------------------------
(* What the page does with a completed result.                             *)

\* _ensure_guidance: loaded, or derived and stored; a failure only warns.
EnsureGuidance(result) ==
    \/ guided' = guided \cup {result}
    \/ StoreFails /\ guided' = guided

Guide(c) ==
    /\ At(c, "guide")
    /\ EnsureGuidance(call[c].at)
    /\ Proceed(c, InCall("heads", call[c].at))
    /\ UNCHANGED <<attempts, rows, links>>

\* _supersede_earlier_heads: every other head is to be superseded by this result.
ReadHeads(c) ==
    /\ At(c, "heads")
    /\ Proceed(c, [InCall("supersede", call[c].at) EXCEPT !.todo = Heads \ {call[c].at}])
    /\ UNCHANGED store

\* supersede_result, before its transaction: a supersession already recorded is
\* replayed, and one between results that are not both heads is rejected; the
\* page goes on with the next head after either.
CheckSupersession(c) ==
    /\ At(c, "supersede")
    /\ \E old \in call[c].todo :
         /\ IsFirst(old, call[c].todo)
         /\ IF {old, call[c].at} \subseteq Heads
            THEN Proceed(c, [call[c] EXCEPT !.pc = "link"])
            ELSE Proceed(c, [call[c] EXCEPT !.todo = @ \ {old}])
    /\ UNCHANGED store

\* Mutant: the supersession is stored without the trigger against a cycle.
LinksOnce(old, new) ==
    old[1] # new[1] /\ \A l \in links : l[1] # old /\ l[2] # new

\* What the tables accept: a result is superseded once, succeeds once, by a
\* result of another run, and without closing a cycle.
Linkable(old, new) ==
    /\ old[1] # new[1]
    /\ \A l \in links : l[1] # old /\ l[2] # new
    /\ old \notin Successors(new)

AppendSupersession(c) ==
    /\ At(c, "link")
    /\ \E old \in call[c].todo :
         /\ IsFirst(old, call[c].todo)
         /\ \/ Linkable(old, call[c].at) /\ links' = links \cup {<<old, call[c].at>>}
            \/ ~Linkable(old, call[c].at) /\ UNCHANGED links
            \/ StoreFails /\ UNCHANGED links
         /\ Proceed(c, [call[c] EXCEPT !.pc = "supersede", !.todo = @ \ {old}])
    /\ UNCHANGED <<attempts, rows, guided>>

\* Mutant: the call waits until the result has its guidance.
ReturnsGuided(c) ==
    /\ At(c, "supersede")
    /\ call[c].todo = {} /\ call[c].at \in guided
    /\ Proceed(c, Completed(call[c].at))
    /\ UNCHANGED store

\* The call has gone through the heads.
Return(c) ==
    /\ At(c, "supersede")
    /\ call[c].todo = {}
    /\ Proceed(c, Completed(call[c].at))
    /\ UNCHANGED store

\* The page shows a result and stores its guidance if it has none.
ShowResult(c) ==
    /\ At(c, "idle")
    /\ \E result \in Stored : EnsureGuidance(result)
    /\ UNCHANGED <<attempts, rows, links, call>>

\* "Record the latest completed result as current", while several are heads.
RecordCurrent(c) ==
    /\ At(c, "idle")
    /\ \E latest \in Heads :
         /\ IsLast(latest, Heads)
         /\ Heads # {latest}
         /\ Proceed(c, InCall("heads", latest))
    /\ UNCHANGED store

\* The process ends: what was stored is all that is left.
Crash ==
    /\ \E c \in Callers : ~At(c, "idle")
    /\ call' = [c \in Callers |-> Notice]
    /\ UNCHANGED store

-----------------------------------------------------------------------------
(* A call that has begun goes on by itself; a page asks what it asks.      *)

Continue(c) ==
    \/ Create(c) \/ RunEngine(c) \/ AppendTerminal(c) \/ AppendRecovery(c)
    \/ Guide(c) \/ ReadHeads(c) \/ CheckSupersession(c) \/ AppendSupersession(c)
    \/ Return(c)

Ask(c) ==
    \/ \E r \in Runs : Execute(c, r) \/ Retry(c, r) \/ Recover(c, r)
    \/ ShowResult(c) \/ RecordCurrent(c)

Next == (\E c \in Callers : Ask(c) \/ Continue(c)) \/ Crash

Spec == Init /\ [][Next]_vars

FairSpec == Spec /\ \A c \in Callers : WF_vars(Continue(c))

=============================================================================
