------------------------- MODULE PreliminaryJourney -------------------------
(***************************************************************************)
(* The journey of one approved review: its route choices, the Preliminary  *)
(* runs made for it, their results, and the start of the formal lifecycle  *)
(* (preliminary/journey.py, run.py and formal.py over the isolated tables   *)
(* of persistence/preliminary_migrations.py).                              *)
(*                                                                         *)
(* Every operation reads and validates the whole journey and writes under  *)
(* BEGIN IMMEDIATE, so it is one action; only an evaluation runs between   *)
(* two transactions, the one that starts its run and the one that settles  *)
(* it.  Callers are any number of windows and processes: their tokens,     *)
(* route pins and predecessors are parameters of the actions.  A call that *)
(* raises, or that replays a token, changes nothing.                       *)
(*                                                                         *)
(* Runs are named by their order, events by their sequence number.         *)
(***************************************************************************)
EXTENDS Integers, Sequences, FiniteSets

CONSTANTS
  RouteTokens,   \* request tokens of route selections
  RunTokens,     \* request tokens of runs, retries and abandonments
  FormalTokens,  \* request tokens of formal starts
  NoToken

ASSUME TokensAssumption == NoToken \notin RunTokens

VARIABLES
  sourceActive,  \* the approved review is the active one of its assessment
  events,        \* preliminary_journey_events by event_sequence
  requests,      \* preliminary_route_requests by token
  runs,          \* run manifests with the status of their run events
  supersessions, \* result supersession links <<superseded, superseding>>
  formal,        \* formal lifecycles with the requests that started them
  evaluating     \* the runs whose evaluation is in progress

vars == <<sourceActive, events, requests, runs, supersessions, formal,
          evaluating>>

Explore == "EXPLORE_PROCESS"
Organisational == "ORGANISATIONAL_ASSESSMENT"
Routes == {Explore, Organisational}

\* The compatibility identity a service is configured with: evaluator, rule
\* set and output schema change together.
Identities == {"v0.1", "v0.2"}

RouteTypes == {"ROUTE_SELECTED", "ROUTE_CHANGED"}
EventTypes == RouteTypes \cup
  {"JOURNEY_CREATED", "RUN_LINKED", "RUN_RECOVERY_RECORDED",
   "RESULT_RECORDED", "RESULT_SUPERSEDED", "FORMAL_LIFECYCLE_STARTED"}

\* run is the run (or the result of the run) an event is about; of is the
\* run it abandons or retries, or whose result it supersedes.
Event == [type : EventTypes, route : Routes \cup {"none"}, run : Nat,
          of : Nat, token : RunTokens \cup {NoToken}]

RunStatus == {"STARTED", "COMPLETED", "FAILED", "ABANDONED"}
Retryable == {"FAILED", "ABANDONED"}
Run == [token : RunTokens, retryOf : Nat, pin : Nat,
        identity : Identities, status : RunStatus]

RouteRequest == [route : Routes, expected : Nat, appended : BOOLEAN,
                 effective : Nat, after : Nat]
FormalLifecycle == [token : FormalTokens, pin : Nat, context : Nat]

JourneyTypeOK ==
  /\ sourceActive \in BOOLEAN
  /\ events \in Seq(Event)
  /\ DOMAIN requests \subseteq RouteTokens
  /\ \A t \in DOMAIN requests : requests[t] \in RouteRequest
  /\ runs \in Seq(Run)
  /\ supersessions \subseteq (DOMAIN runs) \X (DOMAIN runs)
  /\ formal \subseteq FormalLifecycle
  /\ evaluating \subseteq DOMAIN runs

Init ==
  /\ sourceActive = TRUE
  /\ events = << >>
  /\ requests = [t \in {} |-> 0]
  /\ runs = << >>
  /\ supersessions = {}
  /\ formal = {}
  /\ evaluating = {}

(***************************************************************************)
(* Reads                                                                   *)
(***************************************************************************)
RouteEvents(ev) == {n \in DOMAIN ev : ev[n].type \in RouteTypes}

\* n is the latest route choice.
LatestRoute(ev, n) == n \in RouteEvents(ev) /\ \A m \in RouteEvents(ev) : m <= n
OnRoute(route) == \E n \in DOMAIN events :
                     LatestRoute(events, n) /\ events[n].route = route

Open == {r \in DOMAIN runs : runs[r].status = "STARTED"}
Compatible(id) == {r \in DOMAIN runs : runs[r].identity = id}
Results(id) == {r \in Compatible(id) : runs[r].status = "COMPLETED"}

\* r is the latest of a set of runs.
Newest(r, S) == r \in S /\ \A q \in S : q <= r

\* The journey exists and its source is still the active approval.
Ready == events # << >> /\ sourceActive

\* The caller pins the latest route choice, and it is the given route.
Pins(pin, route) == LatestRoute(events, pin) /\ events[pin].route = route

UsedRunTokens == {runs[r].token : r \in DOMAIN runs}
RecoveryTokens == {events[n].token : n \in
  {m \in DOMAIN events : events[m].type = "RUN_RECOVERY_RECORDED"}}

(***************************************************************************)
(* Events                                                                  *)
(***************************************************************************)
NewEvent(type) == [type |-> type, route |-> "none", run |-> 0, of |-> 0,
                   token |-> NoToken]
RouteChosen(route) ==
  [NewEvent(IF RouteEvents(events) = {} THEN "ROUTE_SELECTED"
            ELSE "ROUTE_CHANGED") EXCEPT !.route = route]
About(type, r, of) == [NewEvent(type) EXCEPT !.run = r, !.of = of]
Recovery(r, of, token) ==
  [About("RUN_RECOVERY_RECORDED", r, of) EXCEPT !.token = token]

Settle(r, status) == [runs EXCEPT ![r].status = status]

(***************************************************************************)
(* PreliminaryJourneyService                                               *)
(***************************************************************************)
CreateJourney ==
  /\ events = << >> /\ sourceActive
  /\ events' = <<NewEvent("JOURNEY_CREATED")>>
  /\ UNCHANGED <<sourceActive, requests, runs, supersessions, formal,
                 evaluating>>

\* Mutant: a stale sequence is not refused.
ExpectedAnything(expected) == TRUE

ExpectedLatest(expected) == expected = Len(events)

Record(token, route, expected, appended, effective, after) ==
  requests' = [t \in DOMAIN requests \cup {token} |->
                 IF t = token
                 THEN [route |-> route, expected |-> expected,
                       appended |-> appended, effective |-> effective,
                       after |-> after]
                 ELSE requests[t]]

\* select_route with the sequence the caller saw last.
SelectRoute(route, token, expected) ==
  /\ Ready
  /\ token \notin DOMAIN requests
  /\ ExpectedLatest(expected)
  /\ \/ /\ ~OnRoute(route)
        /\ events' = Append(events, RouteChosen(route))
        /\ Record(token, route, expected, TRUE, Len(events'), Len(events'))
     \/ \E n \in DOMAIN events :
          /\ Pins(n, route)
          /\ Record(token, route, expected, FALSE, n, Len(events))
          /\ UNCHANGED events
  /\ UNCHANGED <<sourceActive, runs, supersessions, formal, evaluating>>

(***************************************************************************)
(* PreliminaryRunResultService, configured with identity id                *)
(***************************************************************************)
NoOpenRun(id) == Open = {}
PinsLatestExplore(pin) == Pins(pin, Explore)

\* The first transaction of a run; after it the evaluation is in progress.
StartRun(id, token, pin, of, recovery) ==
  /\ NoOpenRun(id)
  /\ PinsLatestExplore(pin)
  /\ runs' = Append(runs, [token |-> token, retryOf |-> of, pin |-> pin,
                           identity |-> id, status |-> "STARTED"])
  /\ events' = events \o <<About("RUN_LINKED", Len(runs'), 0)>> \o recovery
  /\ evaluating' = evaluating \cup {Len(runs')}
  /\ UNCHANGED <<sourceActive, requests, supersessions, formal>>

\* The latest attempt of this identity failed or was abandoned.
NeedsRetry(id) == \E r \in Compatible(id) :
                    Newest(r, Compatible(id)) /\ runs[r].status \in Retryable

CanEvaluate(id, pin) == Ready /\ PinsLatestExplore(pin) /\ NoOpenRun(id)
                          /\ ~NeedsRetry(id)

Evaluate(id, token, pin) ==
  /\ CanEvaluate(id, pin)
  /\ token \notin UsedRunTokens
  /\ StartRun(id, token, pin, 0, << >>)

\* Mutant: a retry without its audit event.
NotRecovered(r, of, token) == << >>

CanBeRetried(r) == runs[r].status \in Retryable
Recovered(r, of, token) == <<Recovery(r, of, token)>>

Retry(id, r, token, pin) ==
  /\ Ready
  /\ token \notin UsedRunTokens \cup RecoveryTokens
  /\ r \in Compatible(id) /\ CanBeRetried(r)
  /\ StartRun(id, token, pin, r, Recovered(Len(runs) + 1, r, token))

CanAbandon(id, r) == Ready /\ r \in Compatible(id) \cap Open

\* abandon_interrupted_run takes the caller's word that the run stopped.
Abandon(id, r, token) ==
  /\ CanAbandon(id, r)
  /\ token \notin RecoveryTokens
  /\ runs' = Settle(r, "ABANDONED")
  /\ events' = events \o Recovered(0, r, token)
  /\ UNCHANGED <<sourceActive, requests, supersessions, formal, evaluating>>

\* Mutant: the evaluation settles its run whatever has become of it.
StillOpenAnyway(r) == TRUE

\* _require_open_run.
StillOpen(r) == runs[r].status = "STARTED"

\* Mutant: the result superseded is the first one.
SupersededFirst(p, r) == p \in Results(runs[r].identity)
                          /\ \A q \in Results(runs[r].identity) : p <= q

\* _latest_compatible_result of the run's identity.
Superseded(p, r) == Newest(p, Results(runs[r].identity))

\* The second transaction, with the evaluator's result.
Complete(r) ==
  /\ r \in evaluating /\ StillOpen(r)
  /\ runs' = Settle(r, "COMPLETED")
  /\ \/ /\ Results(runs[r].identity) = {}
        /\ events' = Append(events, About("RESULT_RECORDED", r, 0))
        /\ UNCHANGED supersessions
     \/ \E p \in DOMAIN runs :
          /\ Superseded(p, r)
          /\ events' = events \o <<About("RESULT_RECORDED", r, 0),
                                   About("RESULT_SUPERSEDED", r, p)>>
          /\ supersessions' = supersessions \cup {<<p, r>>}
  /\ evaluating' = evaluating \ {r}
  /\ UNCHANGED <<sourceActive, requests, formal>>

\* The second transaction, with a typed failure.
Fail(r) ==
  /\ r \in evaluating /\ StillOpen(r)
  /\ runs' = Settle(r, "FAILED")
  /\ evaluating' = evaluating \ {r}
  /\ UNCHANGED <<sourceActive, events, requests, supersessions, formal>>

\* The second transaction is refused (PreliminaryRunFinalizationError).
Refused(r) ==
  /\ r \in evaluating /\ ~StillOpen(r)
  /\ evaluating' = evaluating \ {r}
  /\ UNCHANGED <<sourceActive, events, requests, runs, supersessions, formal>>

\* The evaluator raises, the second transaction does not commit, or the
\* server stops: the run stays started.
Interrupted(r) ==
  /\ r \in evaluating /\ StillOpen(r)
  /\ evaluating' = evaluating \ {r}
  /\ UNCHANGED <<sourceActive, events, requests, runs, supersessions, formal>>

(***************************************************************************)
(* PreliminaryFormalStartService, always of identity v0.1                  *)
(***************************************************************************)
NoFormal == formal = {}
PinsLatestOrganisational(pin) == Pins(pin, Organisational)

CanReference(context) == context \in {0} \cup Results("v0.1")

StartFormal(token, pin, context) ==
  /\ Ready /\ NoFormal
  /\ PinsLatestOrganisational(pin)
  /\ CanReference(context)
  /\ formal' = formal \cup
       {[token |-> token, pin |-> pin, context |-> context]}
  /\ events' = Append(events, NewEvent("FORMAL_LIFECYCLE_STARTED"))
  /\ UNCHANGED <<sourceActive, requests, runs, supersessions, evaluating>>

(***************************************************************************)
(* The workspace replaces the source of the assessment: the approval is    *)
(* not the active one any more, and never becomes it again.                *)
(***************************************************************************)
Deactivate ==
  /\ sourceActive /\ sourceActive' = FALSE
  /\ UNCHANGED <<events, requests, runs, supersessions, formal, evaluating>>

Next ==
  \/ CreateJourney
  \/ \E route \in Routes, t \in RouteTokens, n \in DOMAIN events :
       SelectRoute(route, t, n)
  \/ \E id \in Identities, t \in RunTokens, n \in DOMAIN events :
       \/ Evaluate(id, t, n)
       \/ \E r \in DOMAIN runs : Retry(id, r, t, n)
  \/ \E id \in Identities, t \in RunTokens, r \in DOMAIN runs :
       Abandon(id, r, t)
  \/ \E r \in evaluating :
       Complete(r) \/ Fail(r) \/ Refused(r) \/ Interrupted(r)
  \/ \E t \in FormalTokens, n \in DOMAIN events, r \in 0..Len(runs) :
       StartFormal(t, n, r)
  \/ Deactivate

Spec == Init /\ [][Next]_vars
=============================================================================
