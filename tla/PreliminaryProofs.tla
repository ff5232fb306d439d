-------------------------- MODULE PreliminaryProofs --------------------------
(***************************************************************************)
(* Theorems about a Preliminary journey, for any tokens and any number of  *)
(* runs, about the reads of one workspace, and about the directions the    *)
(* evaluator of texts gives, for any activities and any texts.             *)
(***************************************************************************)
EXTENDS PreliminaryProperties, PreliminaryReads, PreliminaryRulesV2, SequenceTheorems,
        FiniteSetTheorems, WellFoundedInduction, TLAPS

(***************************************************************************)
(* The operators the actions are built from                                *)
(***************************************************************************)
LEMMA NewEventType ==
  ASSUME NEW type \in EventTypes
  PROVE  NewEvent(type) \in Event
  BY DEF NewEvent, Event

LEMMA AboutType ==
  ASSUME NEW type \in EventTypes, NEW r \in Nat, NEW of \in Nat
  PROVE  About(type, r, of) \in Event
  BY NewEventType DEF About, NewEvent, Event

LEMMA RecoveryType ==
  ASSUME NEW r \in Nat, NEW of \in Nat, NEW token \in RunTokens
  PROVE  Recovery(r, of, token) \in Event
  BY DEF Recovery, About, NewEvent, Event, EventTypes

LEMMA RouteChosenType ==
  ASSUME NEW route \in Routes
  PROVE  RouteChosen(route) \in Event
  BY DEF RouteChosen, NewEvent, Event, EventTypes, RouteTypes

\* Settling a run changes nothing but its status.
LEMMA SettleKeeps ==
  ASSUME runs \in Seq(Run), NEW r \in DOMAIN runs, NEW status \in RunStatus
  PROVE  /\ Settle(r, status) \in Seq(Run)
         /\ Len(Settle(r, status)) = Len(runs)
         /\ DOMAIN Settle(r, status) = DOMAIN runs
         /\ Settle(r, status)[r] = [runs[r] EXCEPT !.status = status]
         /\ Settle(r, status)[r].status = status
         /\ Settle(r, status)[r].identity = runs[r].identity
         /\ \A q \in DOMAIN runs \ {r} : Settle(r, status)[q] = runs[q]
  <1>1. runs[r] \in Run
    OBVIOUS
  <1>2. [runs[r] EXCEPT !.status = status] \in Run
    BY <1>1 DEF Run
  <1>. QED
    BY <1>1, <1>2 DEF Settle, Run

(***************************************************************************)
(* Type correctness                                                        *)
(***************************************************************************)
LEMMA StartRunType ==
  ASSUME JourneyTypeOK, NEW id \in Identities, NEW token \in RunTokens,
         NEW pin \in Nat, NEW of \in Nat, NEW recovery \in Seq(Event),
         StartRun(id, token, pin, of, recovery)
  PROVE  JourneyTypeOK'
  <1> DEFINE run == [token |-> token, retryOf |-> of, pin |-> pin,
                     identity |-> id, status |-> "STARTED"]
  <1>1. run \in Run
    BY DEF Run, RunStatus
  <1>2. /\ runs' = Append(runs, run) /\ runs' \in Seq(Run)
        /\ Len(runs') = Len(runs) + 1 /\ DOMAIN runs \subseteq DOMAIN runs'
        /\ Len(runs') \in DOMAIN runs'
    <2>1. runs' = Append(runs, run)
      BY DEF StartRun
    <2>2. runs \in Seq(Run)
      BY DEF JourneyTypeOK
    <2>. HIDE DEF run
    <2>. QED
      BY <1>1, <2>1, <2>2
  <1>3. events' \in Seq(Event)
    <2>1. About("RUN_LINKED", Len(runs'), 0) \in Event
      <3>1. Len(runs') \in Nat /\ "RUN_LINKED" \in EventTypes
        BY <1>2 DEF EventTypes
      <3>. QED
        BY <3>1, AboutType
    <2>2. events' = events \o <<About("RUN_LINKED", Len(runs'), 0)>> \o recovery
      BY DEF StartRun
    <2>. QED
      BY <2>1, <2>2 DEF JourneyTypeOK
  <1>4. evaluating' \subseteq DOMAIN runs'
    BY <1>2 DEF StartRun, JourneyTypeOK
  <1>5. supersessions' \subseteq (DOMAIN runs') \X (DOMAIN runs')
    BY <1>2 DEF StartRun, JourneyTypeOK
  <1>. QED
    BY <1>2, <1>3, <1>4, <1>5 DEF StartRun, JourneyTypeOK

LEMMA SettleType ==
  ASSUME JourneyTypeOK, NEW r \in DOMAIN runs, NEW status \in RunStatus,
         runs' = Settle(r, status),
         events' \in Seq(Event),
         supersessions' \subseteq (DOMAIN runs) \X (DOMAIN runs),
         evaluating' \subseteq evaluating,
         UNCHANGED <<sourceActive, requests, formal>>
  PROVE  JourneyTypeOK'
  BY SettleKeeps DEF JourneyTypeOK

\* The state of a journey keeps its types (Run, Event, RouteRequest,
\* FormalLifecycle), and links and evaluations are of runs that exist.
THEOREM TypeCorrect == Spec => []JourneyTypeOK
  <1>1. Init => JourneyTypeOK
    BY DEF Init, JourneyTypeOK
  <1>2. JourneyTypeOK /\ [Next]_vars => JourneyTypeOK'
    <2> SUFFICES ASSUME JourneyTypeOK, [Next]_vars PROVE JourneyTypeOK'
      OBVIOUS
    <2>. USE DEF RunStatus
    <2>1. CASE CreateJourney
      <3>1. NewEvent("JOURNEY_CREATED") \in Event
        BY NewEventType DEF EventTypes
      <3>. QED
        BY <2>1, <3>1 DEF CreateJourney, JourneyTypeOK
    <2>2. ASSUME NEW route \in Routes, NEW t \in RouteTokens,
                 NEW n \in DOMAIN events, SelectRoute(route, t, n)
          PROVE  JourneyTypeOK'
      <3>1. PICK appended \in BOOLEAN, effective \in Nat, after \in Nat :
              /\ Record(t, route, n, appended, effective, after)
              /\ events' \in Seq(Event)
        <4>1. CASE /\ events' = Append(events, RouteChosen(route))
                   /\ Record(t, route, n, TRUE, Len(events'), Len(events'))
          <5>1. events' \in Seq(Event) /\ Len(events') \in Nat
            BY <4>1, RouteChosenType DEF JourneyTypeOK
          <5>. QED
            BY <4>1, <5>1
        <4>2. ASSUME NEW m \in DOMAIN events,
                     Record(t, route, n, FALSE, m, Len(events)),
                     UNCHANGED events
              PROVE  \E appended \in BOOLEAN, effective \in Nat, after \in Nat :
                       /\ Record(t, route, n, appended, effective, after)
                       /\ events' \in Seq(Event)
          <5>1. m \in Nat /\ Len(events) \in Nat /\ events' \in Seq(Event)
            BY <4>2 DEF JourneyTypeOK
          <5>. QED
            BY <4>2, <5>1
        <4>. QED
          BY <2>2, <4>1, <4>2 DEF SelectRoute
      <3>2. /\ DOMAIN requests' = DOMAIN requests \cup {t}
            /\ requests'[t] = [route |-> route, expected |-> n,
                              appended |-> appended, effective |-> effective,
                              after |-> after]
            /\ \A u \in DOMAIN requests' \ {t} : requests'[u] = requests[u]
        BY <3>1 DEF Record
      <3>3. requests'[t] \in RouteRequest
        BY <3>1, <3>2, <2>2 DEF RouteRequest, JourneyTypeOK
      <3>4. \A u \in DOMAIN requests' : requests'[u] \in RouteRequest
        BY <3>2, <3>3 DEF JourneyTypeOK
      <3>. QED
        BY <2>2, <3>1, <3>2, <3>4 DEF SelectRoute, JourneyTypeOK
    <2>3. ASSUME NEW id \in Identities, NEW t \in RunTokens,
                 NEW n \in DOMAIN events, Evaluate(id, t, n)
          PROVE  JourneyTypeOK'
      <3>1. n \in Nat /\ << >> \in Seq(Event)
        BY DEF JourneyTypeOK
      <3>. QED
        BY <2>3, <3>1, StartRunType DEF Evaluate
    <2>4. ASSUME NEW id \in Identities, NEW t \in RunTokens,
                 NEW n \in DOMAIN events, NEW r \in DOMAIN runs,
                 Retry(id, r, t, n)
          PROVE  JourneyTypeOK'
      <3>1. n \in Nat /\ r \in Nat /\ Len(runs) + 1 \in Nat
        BY DEF JourneyTypeOK
      <3>2. Recovered(Len(runs) + 1, r, t) \in Seq(Event)
        BY <3>1, RecoveryType DEF Recovered
      <3>. QED
        BY <2>4, <3>1, <3>2, StartRunType DEF Retry
    <2>5. ASSUME NEW id \in Identities, NEW t \in RunTokens,
                 NEW r \in DOMAIN runs, Abandon(id, r, t)
          PROVE  JourneyTypeOK'
      <3>1. r \in Nat
        BY DEF JourneyTypeOK
      <3>2. Recovered(0, r, t) \in Seq(Event)
        BY <3>1, RecoveryType DEF Recovered
      <3>3. events' \in Seq(Event)
        BY <2>5, <3>2 DEF Abandon, JourneyTypeOK
      <3>. QED
        BY <2>5, <3>3, SettleType DEF Abandon, JourneyTypeOK
    <2>6. ASSUME NEW r \in evaluating, Complete(r)
          PROVE  JourneyTypeOK'
      <3>1. r \in DOMAIN runs /\ r \in Nat
        BY DEF JourneyTypeOK
      <3>2. /\ events' \in Seq(Event)
            /\ supersessions' \subseteq (DOMAIN runs) \X (DOMAIN runs)
        <4>1. About("RESULT_RECORDED", r, 0) \in Event
          BY <3>1, AboutType DEF EventTypes
        <4>2. ASSUME NEW p \in DOMAIN runs
              PROVE  About("RESULT_SUPERSEDED", r, p) \in Event
          <5>1. p \in Nat /\ "RESULT_SUPERSEDED" \in EventTypes
            BY DEF EventTypes, JourneyTypeOK
          <5>. QED
            BY <3>1, <5>1, AboutType
        <4>3. CASE /\ events' = Append(events, About("RESULT_RECORDED", r, 0))
                   /\ UNCHANGED supersessions
          BY <4>1, <4>3 DEF JourneyTypeOK
        <4>4. ASSUME NEW p \in DOMAIN runs,
                     events' = events \o <<About("RESULT_RECORDED", r, 0),
                                           About("RESULT_SUPERSEDED", r, p)>>,
                     supersessions' = supersessions \cup {<<p, r>>}
              PROVE  /\ events' \in Seq(Event)
                     /\ supersessions' \subseteq (DOMAIN runs) \X (DOMAIN runs)
          <5>1. events' \in Seq(Event)
            BY <4>1, <4>2, <4>4 DEF JourneyTypeOK
          <5>2. supersessions' \subseteq (DOMAIN runs) \X (DOMAIN runs)
            BY <3>1, <4>4 DEF JourneyTypeOK
          <5>. QED
            BY <5>1, <5>2
        <4>. QED
          BY <2>6, <4>3, <4>4 DEF Complete
      <3>. QED
        BY <2>6, <3>1, <3>2, SettleType DEF Complete
    <2>7. ASSUME NEW r \in evaluating, Fail(r)
          PROVE  JourneyTypeOK'
      <3>1. r \in DOMAIN runs
        BY DEF JourneyTypeOK
      <3>. QED
        BY <2>7, <3>1, SettleType DEF Fail, JourneyTypeOK
    <2>8. ASSUME NEW r \in evaluating, Refused(r) \/ Interrupted(r)
          PROVE  JourneyTypeOK'
      BY <2>8 DEF Refused, Interrupted, JourneyTypeOK
    <2>9. ASSUME NEW t \in FormalTokens, NEW n \in DOMAIN events,
                 NEW r \in 0..Len(runs), StartFormal(t, n, r)
          PROVE  JourneyTypeOK'
      <3>1. n \in Nat /\ r \in Nat
        BY DEF JourneyTypeOK
      <3>2. NewEvent("FORMAL_LIFECYCLE_STARTED") \in Event
        BY NewEventType DEF EventTypes
      <3>3. formal' \subseteq FormalLifecycle
        BY <2>9, <3>1 DEF StartFormal, FormalLifecycle, JourneyTypeOK
      <3>. QED
        BY <2>9, <3>2, <3>3 DEF StartFormal, JourneyTypeOK
    <2>10. CASE Deactivate
      BY <2>10 DEF Deactivate, JourneyTypeOK
    <2>11. CASE UNCHANGED vars
      BY <2>11 DEF vars, JourneyTypeOK
    <2>. QED
      BY <2>1, <2>2, <2>3, <2>4, <2>5, <2>6, <2>7, <2>8, <2>9, <2>10, <2>11
      DEF Next
  <1>. QED
    BY <1>1, <1>2, PTL DEF Spec

(***************************************************************************)
(* One open run, and the chain of results                                  *)
(***************************************************************************)
\* An open run is the newest: nothing starts while it is open.  With it the
\* results a completion finds are all older than its own.
OpenIsNewest == \A r \in Open : r = Len(runs)

\* What the actions do to the runs, their links and results.
LEMMA RunSteps ==
  ASSUME JourneyTypeOK, [Next]_vars
  PROVE  \/ /\ Open = {}
            /\ \E run \in Run : runs' = Append(runs, run) /\ run.status = "STARTED"
            /\ UNCHANGED supersessions
         \/ \E r \in Open, status \in Retryable :
              /\ runs' = Settle(r, status)
              /\ UNCHANGED supersessions
         \/ \E r \in Open :
              /\ runs' = Settle(r, "COMPLETED")
              /\ \/ /\ Results(runs[r].identity) = {}
                    /\ UNCHANGED supersessions
                 \/ \E p \in DOMAIN runs :
                      /\ Newest(p, Results(runs[r].identity))
                      /\ supersessions' = supersessions \cup {<<p, r>>}
         \/ UNCHANGED <<runs, supersessions>>
  <1>1. CASE CreateJourney
    BY <1>1 DEF CreateJourney
  <1>2. ASSUME NEW route \in Routes, NEW t \in RouteTokens,
               NEW n \in DOMAIN events, SelectRoute(route, t, n)
        PROVE  UNCHANGED <<runs, supersessions>>
    BY <1>2 DEF SelectRoute
  <1>3. ASSUME NEW id \in Identities, NEW t \in RunTokens, NEW n \in Nat,
               NEW of \in Nat, NEW recovery, StartRun(id, t, n, of, recovery)
        PROVE  /\ Open = {}
               /\ \E run \in Run : runs' = Append(runs, run) /\ run.status = "STARTED"
               /\ UNCHANGED supersessions
    <2>1. [token |-> t, retryOf |-> of, pin |-> n, identity |-> id,
           status |-> "STARTED"] \in Run
      BY DEF Run, RunStatus
    <2>. QED
      BY <1>3, <2>1 DEF StartRun, NoOpenRun
  <1>4. ASSUME NEW id \in Identities, NEW t \in RunTokens,
               NEW n \in DOMAIN events,
               Evaluate(id, t, n) \/ \E r \in DOMAIN runs : Retry(id, r, t, n)
        PROVE  /\ Open = {}
               /\ \E run \in Run : runs' = Append(runs, run) /\ run.status = "STARTED"
               /\ UNCHANGED supersessions
    <2>1. n \in Nat /\ DOMAIN runs \subseteq Nat /\ 0 \in Nat
      BY DEF JourneyTypeOK
    <2>2. CASE Evaluate(id, t, n)
      BY <1>3, <2>1, <2>2 DEF Evaluate
    <2>3. CASE \E r \in DOMAIN runs : Retry(id, r, t, n)
      BY <1>3, <2>1, <2>3 DEF Retry
    <2>. QED
      BY <1>4, <2>2, <2>3
  <1>5. ASSUME NEW id \in Identities, NEW t \in RunTokens,
               NEW r \in DOMAIN runs, Abandon(id, r, t)
        PROVE  /\ r \in Open /\ "ABANDONED" \in Retryable
               /\ runs' = Settle(r, "ABANDONED") /\ UNCHANGED supersessions
    BY <1>5 DEF Abandon, CanAbandon, Retryable
  <1>6. ASSUME NEW r \in evaluating, Complete(r)
        PROVE  /\ r \in Open
               /\ runs' = Settle(r, "COMPLETED")
               /\ \/ /\ Results(runs[r].identity) = {}
                     /\ UNCHANGED supersessions
                  \/ \E p \in DOMAIN runs :
                       /\ Newest(p, Results(runs[r].identity))
                       /\ supersessions' = supersessions \cup {<<p, r>>}
    <2>1. r \in Open
      BY <1>6 DEF Complete, StillOpen, Open, JourneyTypeOK
    <2>. QED
      BY <1>6, <2>1 DEF Complete, Superseded
  <1>7. ASSUME NEW r \in evaluating, Fail(r)
        PROVE  /\ r \in Open /\ "FAILED" \in Retryable
               /\ runs' = Settle(r, "FAILED") /\ UNCHANGED supersessions
    BY <1>7 DEF Fail, StillOpen, Open, Retryable, JourneyTypeOK
  <1>8. ASSUME NEW r \in evaluating, Refused(r) \/ Interrupted(r)
        PROVE  UNCHANGED <<runs, supersessions>>
    BY <1>8 DEF Refused, Interrupted
  <1>9. ASSUME NEW t \in FormalTokens, NEW n \in DOMAIN events,
               NEW r \in 0..Len(runs), StartFormal(t, n, r)
        PROVE  UNCHANGED <<runs, supersessions>>
    BY <1>9 DEF StartFormal
  <1>10. CASE Deactivate
    BY <1>10 DEF Deactivate
  <1>11. CASE UNCHANGED vars
    BY <1>11 DEF vars
  <1>. QED
    BY <1>1, <1>2, <1>4, <1>5, <1>6, <1>7, <1>8, <1>9, <1>10, <1>11 DEF Next

LEMMA SettledRun ==
  ASSUME JourneyTypeOK, NEW r \in DOMAIN runs, NEW status \in RunStatus,
         runs' = Settle(r, status)
  PROVE  /\ Len(runs') = Len(runs) /\ Len(runs) \in Nat
         /\ DOMAIN runs' = DOMAIN runs /\ DOMAIN runs = 1..Len(runs)
         /\ runs'[r].status = status
         /\ runs'[r].identity = runs[r].identity
         /\ \A q \in DOMAIN runs \ {r} : runs'[q] = runs[q]
  <1>1. runs \in Seq(Run)
    BY DEF JourneyTypeOK
  <1>2. /\ Len(Settle(r, status)) = Len(runs)
        /\ DOMAIN Settle(r, status) = DOMAIN runs
        /\ Settle(r, status)[r].status = status
        /\ Settle(r, status)[r].identity = runs[r].identity
        /\ \A q \in DOMAIN runs \ {r} : Settle(r, status)[q] = runs[q]
    BY <1>1, SettleKeeps
  <1>. QED
    BY <1>1, <1>2

LEMMA AppendRun ==
  ASSUME JourneyTypeOK, NEW run \in Run, runs' = Append(runs, run)
  PROVE  /\ Len(runs') = Len(runs) + 1 /\ Len(runs) \in Nat
         /\ DOMAIN runs' = DOMAIN runs \cup {Len(runs')}
         /\ DOMAIN runs \subseteq Nat
         /\ \A r \in DOMAIN runs : runs'[r] = runs[r] /\ r < Len(runs')
         /\ runs'[Len(runs')] = run
  BY DEF JourneyTypeOK

LEMMA OpenIsNewestStep ==
  ASSUME JourneyTypeOK, OpenIsNewest, [Next]_vars
  PROVE  OpenIsNewest'
  <1>1. ASSUME Open = {}, NEW run \in Run, runs' = Append(runs, run)
        PROVE  OpenIsNewest'
    BY <1>1, AppendRun DEF Open, OpenIsNewest
  <1>2. ASSUME NEW r \in Open, NEW status \in RunStatus \ {"STARTED"},
               runs' = Settle(r, status)
        PROVE  OpenIsNewest'
    <2>1. r \in DOMAIN runs /\ status \in RunStatus /\ runs \in Seq(Run)
      BY DEF Open, JourneyTypeOK
    <2>2. /\ DOMAIN runs' = DOMAIN runs /\ Len(runs') = Len(runs)
          /\ runs'[r].status = status
          /\ \A q \in DOMAIN runs \ {r} : runs'[q] = runs[q]
      BY <1>2, <2>1, SettledRun
    <2>3. Open' \subseteq Open
      BY <1>2, <2>2 DEF Open
    <2>. QED
      BY <2>2, <2>3 DEF OpenIsNewest
  <1>3. CASE UNCHANGED runs
    BY <1>3 DEF Open, OpenIsNewest
  <1>4. /\ Retryable \subseteq RunStatus \ {"STARTED"}
        /\ "COMPLETED" \in RunStatus \ {"STARTED"}
    BY DEF Retryable, RunStatus
  <1>. QED
    BY <1>1, <1>2, <1>3, <1>4, RunSteps

\* At most one run of a journey is ever in progress, for any number of windows
\* and services of either evaluator identity.
THEOREM OneOpenRunHolds == Spec => []OneOpenRun
  <1>1. Init => OpenIsNewest
    BY DEF Init, OpenIsNewest, Open
  <1>2. JourneyTypeOK /\ OpenIsNewest /\ [Next]_vars => OpenIsNewest'
    BY OpenIsNewestStep
  <1>3. OpenIsNewest => OneOpenRun
    BY DEF OpenIsNewest, OneOpenRun
  <1>. QED
    BY <1>1, <1>2, <1>3, TypeCorrect, PTL DEF Spec

\* A run that is started, or that settles without a result, leaves the chain.
LEMMA SameResultsSameChain ==
  ASSUME JourneyTypeOK, SupersessionChain, UNCHANGED supersessions,
         DOMAIN runs \subseteq DOMAIN runs',
         \A q \in DOMAIN runs : runs'[q].identity = runs[q].identity,
         \A q \in DOMAIN runs' :
           runs'[q].status = "COMPLETED"
             <=> q \in DOMAIN runs /\ runs[q].status = "COMPLETED"
  PROVE  SupersessionChain'
  <1> SUFFICES ASSUME NEW p \in DOMAIN runs', NEW r \in DOMAIN runs'
               PROVE  <<p, r>> \in supersessions <=> Successive(p, r)'
    BY DEF SupersessionChain
  <1>1. \A id \in Identities : Results(id)' = Results(id)
    BY DEF Results, Compatible
  <1>2. CASE p \in DOMAIN runs /\ r \in DOMAIN runs
    <2>1. /\ runs'[r].identity = runs[r].identity
          /\ runs[r].identity \in Identities
      <3>1. runs[r] \in Run
        BY <1>2 DEF JourneyTypeOK
      <3>. QED
        BY <1>2, <3>1 DEF Run
    <2>2. Results(runs[r].identity)' = Results(runs[r].identity)
      <3>1. ASSUME NEW id \in Identities, runs'[r].identity = id,
                   runs[r].identity = id
            PROVE  Results(runs[r].identity)' = Results(runs[r].identity)
        BY <1>1, <3>1
      <3>. QED
        BY <2>1, <3>1
    <2>. QED
      BY <1>2, <2>2 DEF SupersessionChain, Successive
  <1>3. CASE ~(p \in DOMAIN runs /\ r \in DOMAIN runs)
    <2>1. <<p, r>> \notin supersessions
      BY <1>3 DEF JourneyTypeOK
    <2>2. ~({p, r} \subseteq Results(runs[r].identity)')
      BY <1>3 DEF Results, Compatible
    <2>. QED
      BY <2>1, <2>2 DEF Successive
  <1>. QED
    BY <1>2, <1>3

\* A completion links the newest result of its identity to its own, which is
\* newer than every one.
LEMMA CompletionExtendsChain ==
  ASSUME JourneyTypeOK, OpenIsNewest, SupersessionChain,
         NEW r \in Open, runs' = Settle(r, "COMPLETED"),
         \/ /\ Results(runs[r].identity) = {}
            /\ UNCHANGED supersessions
         \/ \E p \in DOMAIN runs :
              /\ Newest(p, Results(runs[r].identity))
              /\ supersessions' = supersessions \cup {<<p, r>>}
  PROVE  SupersessionChain'
  <1>1. /\ r \in DOMAIN runs /\ runs[r].status = "STARTED" /\ r = Len(runs)
        /\ DOMAIN runs = 1..Len(runs) /\ Len(runs) \in Nat
    BY DEF Open, OpenIsNewest, JourneyTypeOK
  <1>2. /\ DOMAIN runs' = DOMAIN runs
        /\ runs'[r].status = "COMPLETED"
        /\ \A q \in DOMAIN runs : runs'[q].identity = runs[q].identity
        /\ \A q \in DOMAIN runs \ {r} : runs'[q].status = runs[q].status
    <2>1. "COMPLETED" \in RunStatus
      BY DEF RunStatus
    <2>. QED
      BY <1>1, <2>1, SettledRun
  <1> DEFINE id == runs[r].identity
  <1>3. /\ \A q \in Results(id)' : q = r \/ q \in Results(id)
        /\ r \in Results(id)' /\ Results(id) \subseteq Results(id)'
        /\ r \notin Results(id)
    BY <1>1, <1>2 DEF Results, Compatible
  <1>4. \A j : j # id => Results(j)' = Results(j)
    BY <1>1, <1>2 DEF Results, Compatible
  <1> SUFFICES ASSUME NEW a \in DOMAIN runs, NEW b \in DOMAIN runs
               PROVE  <<a, b>> \in supersessions' <=> Successive(a, b)'
    BY <1>2 DEF SupersessionChain
  <1>5. /\ a \in Nat /\ b \in Nat /\ a <= r /\ b <= r
        /\ runs'[b].identity = runs[b].identity
        /\ <<a, b>> \in supersessions <=> Successive(a, b)
        /\ \A q \in Results(id) : q \in Nat /\ q <= r
    BY <1>1, <1>2 DEF SupersessionChain, Results, Compatible
  \* The link of an older result is as before.
  <1>6. CASE b # r
    <2>1. <<a, b>> \in supersessions' <=> <<a, b>> \in supersessions
      BY <1>6
    <2>2. Successive(a, b)' <=> Successive(a, b)
      <3>1. CASE runs[b].identity = id
        <4>1. {a, b} \subseteq Results(id)' /\ a < b
                <=> {a, b} \subseteq Results(id) /\ a < b
          BY <1>1, <1>3, <1>5, <1>6
        <4>2. (\A q \in Results(id)' : q <= a \/ b <= q)
                <=> (\A q \in Results(id) : q <= a \/ b <= q)
          BY <1>1, <1>3, <1>5, <1>6
        <4>3. Results(runs[b].identity)' = Results(id)'
          BY <3>1, <1>1, <1>2, <1>5 DEF Results, Compatible
        <4>4. Successive(a, b)'
                <=> /\ a < b /\ {a, b} \subseteq Results(id)'
                    /\ \A q \in Results(id)' : q <= a \/ b <= q
          BY <4>3 DEF Successive
        <4>5. Successive(a, b)
                <=> /\ a < b /\ {a, b} \subseteq Results(id)
                    /\ \A q \in Results(id) : q <= a \/ b <= q
          BY <3>1 DEF Successive
        <4>. QED
          BY <4>1, <4>2, <4>4, <4>5
      <3>2. CASE runs[b].identity # id
        BY <3>2, <1>4, <1>5 DEF Successive
      <3>. QED
        BY <3>1, <3>2
    <2>. QED
      BY <2>1, <2>2, <1>5
  \* The new result is linked to the newest one, if there is one.
  <1>7. CASE b = r
    <2>1. <<a, r>> \notin supersessions
      BY <1>1, <1>5, <1>7 DEF Successive, Results
    <2>2. Successive(a, r)' <=> Newest(a, Results(id))
      <3>1. Successive(a, r)'
              <=> /\ a < r /\ {a, r} \subseteq Results(id)'
                  /\ \A q \in Results(id)' : q <= a \/ r <= q
        BY <1>1, <1>2 DEF Successive
      <3>2. a < r /\ {a, r} \subseteq Results(id)' <=> a \in Results(id)
        BY <1>1, <1>3, <1>5
      <3>3. (\A q \in Results(id)' : q <= a \/ r <= q)
              <=> (\A q \in Results(id) : q <= a)
        BY <1>1, <1>3, <1>5
      <3>. QED
        BY <3>1, <3>2, <3>3 DEF Newest
    <2>3. <<a, r>> \in supersessions' <=> Newest(a, Results(id))
      <3>1. CASE Results(id) = {} /\ UNCHANGED supersessions
        BY <2>1, <3>1 DEF Newest
      <3>2. ASSUME NEW p \in DOMAIN runs, Newest(p, Results(id)),
                   supersessions' = supersessions \cup {<<p, r>>}
            PROVE  <<a, r>> \in supersessions' <=> Newest(a, Results(id))
        <4>1. <<a, r>> \in supersessions' <=> a = p
          BY <2>1, <3>2
        <4>2. Newest(a, Results(id)) <=> a = p
          BY <3>2, <1>5 DEF Newest
        <4>. QED
          BY <4>1, <4>2
      <3>. QED
        BY <3>1, <3>2
    <2>. QED
      BY <1>7, <2>2, <2>3
  <1>. QED
    BY <1>6, <1>7

LEMMA SupersessionChainStep ==
  ASSUME JourneyTypeOK, OpenIsNewest, SupersessionChain, [Next]_vars
  PROVE  SupersessionChain'
  <1>1. ASSUME Open = {}, NEW run \in Run, runs' = Append(runs, run),
               UNCHANGED supersessions, run.status = "STARTED"
        PROVE  SupersessionChain'
    <2>1. /\ DOMAIN runs \subseteq DOMAIN runs'
          /\ \A q \in DOMAIN runs : runs'[q].identity = runs[q].identity
          /\ \A q \in DOMAIN runs' :
               runs'[q].status = "COMPLETED"
                 <=> q \in DOMAIN runs /\ runs[q].status = "COMPLETED"
      BY <1>1, AppendRun
    <2>. QED
      BY <1>1, <2>1, SameResultsSameChain
  <1>2. ASSUME NEW r \in Open, NEW status \in Retryable,
               runs' = Settle(r, status), UNCHANGED supersessions
        PROVE  SupersessionChain'
    <2>1. /\ r \in DOMAIN runs /\ runs[r].status # "COMPLETED"
          /\ status \in RunStatus /\ status # "COMPLETED"
      BY DEF Open, Retryable, RunStatus
    <2>2. /\ DOMAIN runs' = DOMAIN runs
          /\ runs'[r].status = status
          /\ runs'[r].identity = runs[r].identity
          /\ \A q \in DOMAIN runs \ {r} : runs'[q] = runs[q]
      BY <1>2, <2>1, SettledRun
    <2>3. /\ \A q \in DOMAIN runs : runs'[q].identity = runs[q].identity
          /\ \A q \in DOMAIN runs' :
               runs'[q].status = "COMPLETED"
                 <=> q \in DOMAIN runs /\ runs[q].status = "COMPLETED"
      BY <2>1, <2>2
    <2>. QED
      BY <1>2, <2>2, <2>3, SameResultsSameChain
  <1>3. CASE UNCHANGED <<runs, supersessions>>
    BY <1>3, SameResultsSameChain
  <1>. QED
    BY <1>1, <1>2, <1>3, CompletionExtendsChain, RunSteps

\* The results of each evaluator identity form one line in which each is
\* superseded by the next, for any number of reruns.
THEOREM SupersessionChainHolds == Spec => []SupersessionChain
  <1>1. Init => OpenIsNewest /\ SupersessionChain
    BY DEF Init, OpenIsNewest, Open, SupersessionChain
  <1>2. /\ JourneyTypeOK /\ OpenIsNewest /\ SupersessionChain /\ [Next]_vars
        => OpenIsNewest' /\ SupersessionChain'
    BY OpenIsNewestStep, SupersessionChainStep
  <1>. QED
    BY <1>1, <1>2, TypeCorrect, PTL DEF Spec

\* The runs of a journey are one line: one is open, their results succeed each other.
THEOREM RunsInOneLineHolds == Spec => []RunsInOneLine
BY OneOpenRunHolds, SupersessionChainHolds, PTL DEF RunsInOneLine

-----------------------------------------------------------------------------
(***************************************************************************)
(* Theorems about what a Preliminary journey records: nothing is taken      *)
(* back, nothing is changed blindly, nothing is done twice.                 *)
(***************************************************************************)

\* A step changes the events, the requests and the formal lifecycles only by
\* adding to them.
LEMMA EventsKept ==
  ASSUME JourneyTypeOK, [Next]_vars
  PROVE  \A n \in DOMAIN events : n \in DOMAIN events' /\ events'[n] = events[n]
  <1>1. ASSUME NEW more \in Seq(Event), events' = events \o more
        PROVE  \A n \in DOMAIN events :
                 n \in DOMAIN events' /\ events'[n] = events[n]
    BY <1>1 DEF JourneyTypeOK
  <1>2. ASSUME NEW e, events' = Append(events, e)
        PROVE  \A n \in DOMAIN events :
                 n \in DOMAIN events' /\ events'[n] = events[n]
    BY <1>2 DEF JourneyTypeOK
  <1>3. ASSUME NEW e, NEW f, events' = events \o <<e, f>>
        PROVE  \A n \in DOMAIN events :
                 n \in DOMAIN events' /\ events'[n] = events[n]
    BY <1>3 DEF JourneyTypeOK
  <1>4. ASSUME NEW e, events' = events \o <<e>> \o << >>
        PROVE  \A n \in DOMAIN events :
                 n \in DOMAIN events' /\ events'[n] = events[n]
    BY <1>4 DEF JourneyTypeOK
  <1>5. ASSUME NEW e, NEW f, events' = events \o <<e>> \o <<f>>
        PROVE  \A n \in DOMAIN events :
                 n \in DOMAIN events' /\ events'[n] = events[n]
    BY <1>5 DEF JourneyTypeOK
  <1>6. ASSUME NEW e, events' = events \o <<e>>
        PROVE  \A n \in DOMAIN events :
                 n \in DOMAIN events' /\ events'[n] = events[n]
    BY <1>6 DEF JourneyTypeOK
  <1>7. CASE UNCHANGED events
    BY <1>7
  <1>8. CASE CreateJourney
    BY <1>8 DEF CreateJourney
  <1>9. ASSUME NEW route \in Routes, NEW t \in RouteTokens,
               NEW n \in DOMAIN events, SelectRoute(route, t, n)
        PROVE  \/ \E e : events' = Append(events, e)
               \/ UNCHANGED events
    BY <1>9 DEF SelectRoute
  <1>10. ASSUME NEW id \in Identities, NEW t \in RunTokens,
                NEW n \in DOMAIN events, Evaluate(id, t, n)
         PROVE  \E e : events' = events \o <<e>> \o << >>
    BY <1>10 DEF Evaluate, StartRun
  <1>11. ASSUME NEW id \in Identities, NEW t \in RunTokens,
                NEW n \in DOMAIN events, NEW r \in DOMAIN runs,
                Retry(id, r, t, n)
         PROVE  \E e, f : events' = events \o <<e>> \o <<f>>
    BY <1>11 DEF Retry, StartRun, Recovered
  <1>12. ASSUME NEW id \in Identities, NEW t \in RunTokens,
                NEW r \in DOMAIN runs, Abandon(id, r, t)
         PROVE  \E e : events' = events \o <<e>>
    BY <1>12 DEF Abandon, Recovered
  <1>13. ASSUME NEW r \in evaluating, Complete(r)
         PROVE  \/ \E e : events' = Append(events, e)
                \/ \E e, f : events' = events \o <<e, f>>
    BY <1>13 DEF Complete
  <1>14. ASSUME NEW r \in evaluating, Fail(r) \/ Refused(r) \/ Interrupted(r)
         PROVE  UNCHANGED events
    BY <1>14 DEF Fail, Refused, Interrupted
  <1>15. ASSUME NEW t \in FormalTokens, NEW n \in DOMAIN events,
                NEW r \in 0..Len(runs), StartFormal(t, n, r)
         PROVE  \E e : events' = Append(events, e)
    BY <1>15 DEF StartFormal
  <1>16. CASE Deactivate
    BY <1>7, <1>16 DEF Deactivate
  <1>17. CASE UNCHANGED vars
    BY <1>7, <1>17 DEF vars
  <1>. QED
    BY <1>2, <1>3, <1>4, <1>5, <1>6, <1>7, <1>8, <1>9, <1>10, <1>11, <1>12,
       <1>13, <1>14, <1>15, <1>16, <1>17 DEF Next

\* A step adds route requests, each with what it was recorded with.
LEMMA RequestSteps ==
  ASSUME [Next]_vars
  PROVE  \/ UNCHANGED requests
         \/ \E route \in Routes, t \in RouteTokens, n \in DOMAIN events :
              SelectRoute(route, t, n)
  BY DEF Next, vars, CreateJourney, Evaluate, Retry, StartRun, Abandon,
         Complete, Fail, Refused, Interrupted, StartFormal, Deactivate

LEMMA FormalKept ==
  ASSUME [Next]_vars
  PROVE  formal \subseteq formal'
  BY DEF Next, vars, CreateJourney, SelectRoute, Evaluate, Retry, StartRun,
         Abandon, Complete, Fail, Refused, Interrupted, StartFormal, Deactivate

LEMMA RunsKept ==
  ASSUME JourneyTypeOK, [Next]_vars
  PROVE  /\ supersessions \subseteq supersessions'
         /\ \A r \in DOMAIN runs :
              /\ r \in DOMAIN runs'
              /\ runs'[r] = [runs[r] EXCEPT !.status = runs'[r].status]
              /\ runs[r].status # "STARTED" => runs'[r] = runs[r]
  <1>1. \A r \in DOMAIN runs : runs[r] \in Run
    BY DEF JourneyTypeOK
  <1>2. ASSUME NEW run \in Run, runs' = Append(runs, run)
        PROVE  \A r \in DOMAIN runs : r \in DOMAIN runs' /\ runs'[r] = runs[r]
    BY <1>2, AppendRun
  <1>3. ASSUME NEW r \in Open, NEW status \in RunStatus,
               runs' = Settle(r, status)
        PROVE  \A q \in DOMAIN runs :
                 /\ q \in DOMAIN runs'
                 /\ runs'[q] = [runs[q] EXCEPT !.status = runs'[q].status]
                 /\ runs[q].status # "STARTED" => runs'[q] = runs[q]
    <2>1. r \in DOMAIN runs /\ runs[r].status = "STARTED" /\ runs \in Seq(Run)
      BY DEF Open, JourneyTypeOK
    <2>2. /\ DOMAIN runs' = DOMAIN runs
          /\ \A q \in DOMAIN runs \ {r} : runs'[q] = runs[q]
      BY <1>3, <2>1, SettledRun
    <2>3. /\ runs'[r] = [runs[r] EXCEPT !.status = status]
          /\ runs'[r].status = status
      BY <1>3, <2>1, SettleKeeps
    <2>4. \A q \in DOMAIN runs :
            runs[q] = [runs[q] EXCEPT !.status = runs[q].status]
      BY <1>1 DEF Run
    <2>. QED
      BY <2>1, <2>2, <2>3, <2>4
  <1>4. Retryable \subseteq RunStatus /\ "COMPLETED" \in RunStatus
    BY DEF Retryable, RunStatus
  <1>5. \A r \in DOMAIN runs :
          runs[r] = [runs[r] EXCEPT !.status = runs[r].status]
    BY <1>1 DEF Run
  <1>6. supersessions \subseteq supersessions'
    BY RunSteps
  <1>7. CASE UNCHANGED runs
    BY <1>5, <1>6, <1>7
  <1>8. CASE \E run \in Run : runs' = Append(runs, run)
    BY <1>2, <1>5, <1>6, <1>8
  <1>9. CASE \E r \in Open, status \in RunStatus : runs' = Settle(r, status)
    BY <1>3, <1>6, <1>9
  <1>. QED
    BY <1>4, <1>7, <1>8, <1>9, RunSteps

LEMMA RequestsKept ==
  ASSUME [Next]_vars
  PROVE  \A t \in DOMAIN requests :
           t \in DOMAIN requests' /\ requests'[t] = requests[t]
  <1>1. ASSUME NEW route \in Routes, NEW t \in RouteTokens,
               NEW n \in DOMAIN events, SelectRoute(route, t, n)
        PROVE  \A u \in DOMAIN requests :
                 u \in DOMAIN requests' /\ requests'[u] = requests[u]
    BY <1>1 DEF SelectRoute, Record
  <1>. QED
    BY <1>1, RequestSteps

\* Whatever windows and services do, what a journey recorded stays, and a run
\* that was settled is never settled again.
THEOREM HistoryKeptHolds == Spec => HistoryKept
  <1> DEFINE Kept ==
        /\ \A n \in DOMAIN events : n \in DOMAIN events' /\ events'[n] = events[n]
        /\ \A t \in DOMAIN requests :
             t \in DOMAIN requests' /\ requests'[t] = requests[t]
        /\ supersessions \subseteq supersessions' /\ formal \subseteq formal'
        /\ \A r \in DOMAIN runs :
             /\ r \in DOMAIN runs'
             /\ runs'[r] = [runs[r] EXCEPT !.status = runs'[r].status]
             /\ runs[r].status # "STARTED" => runs'[r] = runs[r]
  <1>1. JourneyTypeOK /\ [Next]_vars => [Kept]_vars
    BY EventsKept, RequestsKept, FormalKept, RunsKept
  <1> HIDE DEF Kept
  <1>2. Spec => [][Kept]_vars
    BY <1>1, TypeCorrect, PTL DEF Spec
  <1> USE DEF Kept
  <1>. QED
    BY <1>2 DEF HistoryKept

\* A route choice is only ever appended to the journey its caller had seen.
THEOREM NoBlindRouteChangeHolds == Spec => []NoBlindRouteChange
  <1>1. Init => NoBlindRouteChange
    BY DEF Init, NoBlindRouteChange
  <1>2. JourneyTypeOK /\ NoBlindRouteChange /\ [Next]_vars => NoBlindRouteChange'
    <2> SUFFICES ASSUME JourneyTypeOK, NoBlindRouteChange, [Next]_vars
                 PROVE  NoBlindRouteChange'
      OBVIOUS
    <2>1. ASSUME NEW route \in Routes, NEW t \in RouteTokens,
                 NEW n \in DOMAIN events, SelectRoute(route, t, n)
          PROVE  NoBlindRouteChange'
      <3>1. n = Len(events) /\ n \in Nat
        BY <2>1 DEF SelectRoute, ExpectedLatest, JourneyTypeOK
      <3>2. CASE /\ events' = Append(events, RouteChosen(route))
                 /\ Record(t, route, n, TRUE, Len(events'), Len(events'))
        <4>1. Len(events') = n + 1
          BY <3>1, <3>2 DEF JourneyTypeOK
        <4>. QED
          BY <3>2, <4>1 DEF Record, NoBlindRouteChange
      <3>3. ASSUME NEW m \in DOMAIN events,
                   Record(t, route, n, FALSE, m, Len(events))
            PROVE  NoBlindRouteChange'
        <4>1. m \in Nat /\ m <= n
          BY <3>1 DEF JourneyTypeOK
        <4>. QED
          BY <3>1, <3>3, <4>1 DEF Record, NoBlindRouteChange
      <3>. QED
        BY <2>1, <3>2, <3>3 DEF SelectRoute
    <2>2. CASE UNCHANGED requests
      BY <2>2 DEF NoBlindRouteChange
    <2>. QED
      BY <2>1, <2>2, RequestSteps
  <1>. QED
    BY <1>1, <1>2, TypeCorrect, PTL DEF Spec

-----------------------------------------------------------------------------
(***************************************************************************)
(* Whatever is committed can be loaded again                               *)
(***************************************************************************)
\* A history ev goes on to ev2; the runs ms go on to ms2, with the same
\* manifests, and what was settled stays settled.
Grows(ev, ev2) == /\ Len(ev) <= Len(ev2)
                  /\ \A n \in DOMAIN ev : ev2[n] = ev[n]
Added(ev, ev2) == {ev2[n].type : n \in DOMAIN ev2 \ DOMAIN ev}

GoesOn(ms, ms2) ==
  /\ DOMAIN ms \subseteq DOMAIN ms2
  /\ \A r \in DOMAIN ms :
       /\ ms2[r].token = ms[r].token /\ ms2[r].retryOf = ms[r].retryOf
       /\ ms2[r].pin = ms[r].pin /\ ms2[r].identity = ms[r].identity
       /\ ms[r].status # "STARTED" => ms2[r].status = ms[r].status

LEMMA SequenceDomains ==
  ASSUME NEW S, NEW s \in Seq(S)
  PROVE  Len(s) \in Nat /\ DOMAIN s = 1..Len(s) /\ (s = << >> <=> Len(s) = 0)
  OBVIOUS

LEMMA GrownEvents ==
  ASSUME NEW ev \in Seq(Event), NEW ev2 \in Seq(Event), Grows(ev, ev2)
  PROVE  /\ DOMAIN ev \subseteq DOMAIN ev2
         /\ \A type : type \notin Added(ev, ev2) => EventsOf(ev2, type) = EventsOf(ev, type)
         /\ \A m \in RouteEvents(ev2) : m \in RouteEvents(ev) \/ m > Len(ev)
         /\ RouteEvents(ev) \subseteq RouteEvents(ev2)
         /\ RouteTypes \cap Added(ev, ev2) = {} => RouteEvents(ev2) = RouteEvents(ev)
  <1>1. /\ DOMAIN ev = 1..Len(ev) /\ DOMAIN ev2 = 1..Len(ev2)
        /\ Len(ev) \in Nat /\ Len(ev2) \in Nat /\ Len(ev) <= Len(ev2)
        /\ \A n \in DOMAIN ev : ev2[n] = ev[n]
    BY DEF Grows
  <1>2. DOMAIN ev \subseteq DOMAIN ev2
    BY <1>1
  <1>3. ASSUME NEW type, type \notin Added(ev, ev2)
        PROVE  EventsOf(ev2, type) = EventsOf(ev, type)
    <2>1. \A n \in DOMAIN ev2 : ev2[n].type = type => n \in DOMAIN ev
      BY <1>3 DEF Added
    <2>. QED
      BY <1>1, <1>2, <2>1 DEF EventsOf
  <1>4. /\ \A m \in RouteEvents(ev2) : m \in RouteEvents(ev) \/ m > Len(ev)
        /\ RouteEvents(ev) \subseteq RouteEvents(ev2)
    BY <1>1 DEF RouteEvents
  <1>5. ASSUME RouteTypes \cap Added(ev, ev2) = {}
        PROVE  RouteEvents(ev2) = RouteEvents(ev)
    <2>1. \A n \in DOMAIN ev2 : ev2[n].type \in RouteTypes => n \in DOMAIN ev
      BY <1>5 DEF Added
    <2>. QED
      BY <1>1, <1>2, <2>1 DEF RouteEvents
  <1>. QED
    BY <1>2, <1>3, <1>4, <1>5

\* What was between two events stays between them.
LEMMA SameRouteKeeps ==
  ASSUME NEW ev \in Seq(Event), NEW ev2 \in Seq(Event), Grows(ev, ev2),
         NEW a \in Nat, NEW b \in Nat, b <= Len(ev) + 1
  PROVE  SameRoute(ev2, a, b) <=> SameRoute(ev, a, b)
  <1>1. Len(ev) \in Nat /\ DOMAIN ev2 \subseteq Nat /\ RouteEvents(ev2) \subseteq DOMAIN ev2
    BY DEF RouteEvents
  <1>. QED
    BY <1>1, GrownEvents DEF SameRoute

\* The loads that an addition does not concern.
LEMMA EventsLoadKeeps ==
  ASSUME NEW ev \in Seq(Event), NEW ev2 \in Seq(Event), Grows(ev, ev2),
         RouteTypes \cap Added(ev, ev2) = {}, EventsLoad(ev)
  PROVE  EventsLoad(ev2)
  <1>1. RouteEvents(ev2) = RouteEvents(ev) /\ RouteEvents(ev) \subseteq DOMAIN ev
    BY GrownEvents DEF RouteEvents
  <1>2. \A a, b : SameRoute(ev2, a, b) <=> SameRoute(ev, a, b)
    BY <1>1 DEF SameRoute
  <1>3. \A n \in DOMAIN ev : ev2[n] = ev[n]
    BY DEF Grows
  <1>4. ev # << >> /\ 1 \in DOMAIN ev /\ ev2 # << >>
    BY DEF EventsLoad, Grows
  <1>. QED
    BY <1>1, <1>2, <1>3, <1>4 DEF EventsLoad

LEMMA RequestsLoadKeeps ==
  ASSUME NEW ev \in Seq(Event), NEW ev2 \in Seq(Event), Grows(ev, ev2),
         NEW rq, \A t \in DOMAIN rq : rq[t] \in RouteRequest, RequestsLoad(ev, rq)
  PROVE  RequestsLoad(ev2, rq)
  <1> SUFFICES ASSUME NEW t \in DOMAIN rq
               PROVE  /\ rq[t].after <= Len(ev2)
                      /\ rq[t].effective \in RouteEvents(ev2)
                      /\ ev2[rq[t].effective].route = rq[t].route
                      /\ rq[t].effective <= rq[t].after
                      /\ SameRoute(ev2, rq[t].effective, rq[t].after + 1)
    BY DEF RequestsLoad
  <1>1. rq[t].after \in Nat /\ rq[t].effective \in Nat /\ Len(ev) \in Nat /\ Len(ev2) \in Nat
    BY DEF RouteRequest
  <1>2. /\ rq[t].after <= Len(ev) /\ rq[t].effective \in RouteEvents(ev)
        /\ ev[rq[t].effective].route = rq[t].route
        /\ rq[t].effective <= rq[t].after
        /\ SameRoute(ev, rq[t].effective, rq[t].after + 1)
    BY DEF RequestsLoad
  <1>3. SameRoute(ev2, rq[t].effective, rq[t].after + 1)
    BY <1>1, <1>2, SameRouteKeeps
  <1>. QED
    BY <1>1, <1>2, <1>3, GrownEvents DEF Grows, RouteEvents

LEMMA RunsLoadKeeps ==
  ASSUME NEW ms, NEW ms2, GoesOn(ms, ms2), RunsLoad(ms, ms),
         \A r \in DOMAIN ms2 \ DOMAIN ms :
           LET p == ms2[r].retryOf
           IN p # 0 => /\ p \in DOMAIN ms
                       /\ ms2[p].token # ms2[r].token
                       /\ ms[p].identity = ms2[r].identity
                       /\ ms[p].status \in Retryable
  PROVE  RunsLoad(ms2, ms2)
  BY DEF RunsLoad, GoesOn, Retryable

LEMMA RunOrderKeeps ==
  ASSUME NEW ev \in Seq(Event), NEW ev2 \in Seq(Event), Grows(ev, ev2),
         "RUN_LINKED" \notin Added(ev, ev2),
         NEW ms \in Seq(Run), NEW ms2, GoesOn(ms, ms2), DOMAIN ms2 = DOMAIN ms,
         RunOrderLoads(ev, ms)
  PROVE  RunOrderLoads(ev2, ms2)
  <1>1. EventsOf(ev2, "RUN_LINKED") = EventsOf(ev, "RUN_LINKED")
    BY GrownEvents
  <1>2. \A n \in EventsOf(ev, "RUN_LINKED") : n \in DOMAIN ev /\ ev2[n] = ev[n]
    BY DEF EventsOf, Grows
  <1>3. ASSUME NEW n \in EventsOf(ev, "RUN_LINKED")
        PROVE  LET r == ev[n].run
               IN /\ r \in DOMAIN ms
                  /\ ms[r].pin \in RouteEvents(ev2) /\ ev2[ms[r].pin].route = Explore
                  /\ ms[r].pin < n
                  /\ SameRoute(ev2, ms[r].pin, n)
    <2>1. PICK r \in DOMAIN ms : r = ev[n].run
      BY DEF RunOrderLoads
    <2>2. /\ ms[r].pin \in RouteEvents(ev) /\ ev[ms[r].pin].route = Explore
          /\ ms[r].pin < n /\ SameRoute(ev, ms[r].pin, n)
      BY <2>1 DEF RunOrderLoads
    <2>3. ms[r].pin \in Nat /\ n \in Nat /\ n <= Len(ev) + 1
      <3>1. ms[r] \in Run /\ n \in 1..Len(ev) /\ Len(ev) \in Nat
        BY <1>2
      <3>. QED
        BY <3>1 DEF Run
    <2>4. SameRoute(ev2, ms[r].pin, n)
      BY <2>2, <2>3, SameRouteKeeps
    <2>5. ev2[ms[r].pin] = ev[ms[r].pin] /\ ms[r].pin \in RouteEvents(ev2)
      BY <2>2, GrownEvents DEF Grows, RouteEvents
    <2>. QED
      BY <2>1, <2>2, <2>4, <2>5
  <1>4. \A r : {n \in EventsOf(ev2, "RUN_LINKED") : ev2[n].run = r}
                 = {n \in EventsOf(ev, "RUN_LINKED") : ev[n].run = r}
    BY <1>1, <1>2
  <1>5. \A r \in DOMAIN ms2 : One({n \in EventsOf(ev2, "RUN_LINKED") : ev2[n].run = r})
    BY <1>4 DEF RunOrderLoads, GoesOn
  <1>. QED
    BY <1>1, <1>2, <1>3, <1>5, SMTT(30) DEF RunOrderLoads, GoesOn

LEMMA RecoveriesKeep ==
  ASSUME NEW ev \in Seq(Event), NEW ev2 \in Seq(Event), Grows(ev, ev2),
         "RUN_RECOVERY_RECORDED" \notin Added(ev, ev2),
         NEW ms \in Seq(Run), NEW ms2, GoesOn(ms, ms2), RecoveriesLoad(ev, ms, ms),
         \A r \in DOMAIN ms2 \ DOMAIN ms : ms2[r].retryOf = 0
  PROVE  RecoveriesLoad(ev2, ms2, ms2)
  <1>1. EventsOf(ev2, "RUN_RECOVERY_RECORDED") = EventsOf(ev, "RUN_RECOVERY_RECORDED")
    BY GrownEvents
  <1>2. \A n \in EventsOf(ev, "RUN_RECOVERY_RECORDED") : n \in DOMAIN ev /\ ev2[n] = ev[n]
    BY DEF EventsOf, Grows
  <1> DEFINE R == EventsOf(ev, "RUN_RECOVERY_RECORDED")
             A == {n \in R : ev[n].run = 0}
  <1>3. {n \in R : ev2[n].run = 0} = A
    BY <1>2
  <1>4. \A token : {m \in R : ev2[m].token = token} = {m \in R : ev[m].token = token}
    BY <1>2
  <1>7. {ev2[n].run : n \in R \ A} = {ev[n].run : n \in R \ A}
    BY <1>2
  <1>8. {r \in DOMAIN ms2 : ms2[r].retryOf # 0} = {r \in DOMAIN ms : ms[r].retryOf # 0}
    BY DEF GoesOn
  <1>9. /\ \A n \in R :
             /\ ev[n].of \in DOMAIN ms
             /\ One({m \in R : ev[m].token = ev[n].token})
        /\ \A n \in A :
             /\ ms[ev[n].of].status = "ABANDONED"
             /\ One({m \in A : ev[m].of = ev[n].of})
        /\ \A n \in R \ A :
             /\ ev[n].run \in DOMAIN ms
             /\ ms[ev[n].run].retryOf = ev[n].of
             /\ ms[ev[n].run].token = ev[n].token
             /\ ms[ev[n].of].status \in Retryable
             /\ One({m \in R \ A : ev[m].run = ev[n].run})
        /\ {ev[n].run : n \in R \ A} = {r \in DOMAIN ms : ms[r].retryOf # 0}
    BY DEF RecoveriesLoad
  <1> HIDE DEF R, A
  <1>10. ASSUME NEW n \in R
         PROVE  /\ ev2[n].of \in DOMAIN ms2
                /\ One({m \in R : ev2[m].token = ev2[n].token})
    <2>1. ev2[n] = ev[n] /\ ev[n].of \in DOMAIN ms
      BY <1>2, <1>9 DEF R
    <2>2. {m \in R : ev2[m].token = ev2[n].token} = {m \in R : ev[m].token = ev[n].token}
      BY <1>4, <2>1
    <2>. QED
      BY <1>9, <2>1, <2>2 DEF GoesOn
  <1>11. ASSUME NEW n \in A
         PROVE  /\ ms2[ev2[n].of].status = "ABANDONED"
                /\ One({m \in A : ev2[m].of = ev2[n].of})
    <2>0. \A m \in A : ev2[m] = ev[m]
      BY <1>2 DEF R, A
    <2>1. ev2[n] = ev[n] /\ ev[n].of \in DOMAIN ms /\ ms[ev[n].of].status = "ABANDONED"
      BY <1>2, <1>9 DEF R, A
    <2>2. {m \in A : ev2[m].of = ev2[n].of} = {m \in A : ev[m].of = ev[n].of}
      BY <2>0, <2>1
    <2>3. ms2[ev[n].of].status = "ABANDONED"
      BY <2>1 DEF GoesOn
    <2>. QED
      BY <1>9, <2>1, <2>2, <2>3
  <1>12. ASSUME NEW n \in R \ A
         PROVE  /\ ev2[n].run \in DOMAIN ms2
                /\ ms2[ev2[n].run].retryOf = ev2[n].of
                /\ ms2[ev2[n].run].token = ev2[n].token
                /\ ms2[ev2[n].of].status \in Retryable
                /\ One({m \in R \ A : ev2[m].run = ev2[n].run})
    <2>0. \A m \in R \ A : ev2[m] = ev[m]
      BY <1>2 DEF R
    <2>1. /\ ev2[n] = ev[n] /\ ev[n].of \in DOMAIN ms /\ ms[ev[n].of].status \in Retryable
          /\ ev[n].run \in DOMAIN ms /\ ms[ev[n].run].retryOf = ev[n].of
          /\ ms[ev[n].run].token = ev[n].token
      BY <1>2, <1>9 DEF R
    <2>2. {m \in R \ A : ev2[m].run = ev2[n].run} = {m \in R \ A : ev[m].run = ev[n].run}
      BY <2>0, <2>1
    <2>3. /\ ms2[ev[n].of].status \in Retryable
          /\ ev[n].run \in DOMAIN ms2 /\ ms2[ev[n].run].retryOf = ev[n].of
          /\ ms2[ev[n].run].token = ev[n].token
      BY <2>1 DEF GoesOn, Retryable
    <2>. QED
      BY <1>9, <2>1, <2>2, <2>3
  <1>13. {ev2[n].run : n \in R \ A} = {r \in DOMAIN ms2 : ms2[r].retryOf # 0}
    BY <1>7, <1>8, <1>9
  <1>14. EventsOf(ev2, "RUN_RECOVERY_RECORDED") = R /\ {n \in R : ev2[n].run = 0} = A
    BY <1>1, <1>3 DEF R
  <1>. QED
    BY <1>10, <1>11, <1>12, <1>13, <1>14 DEF RecoveriesLoad

LEMMA SupersessionsKeep ==
  ASSUME NEW ev \in Seq(Event), NEW ev2 \in Seq(Event), Grows(ev, ev2),
         {"RESULT_RECORDED", "RESULT_SUPERSEDED"} \cap Added(ev, ev2) = {},
         NEW cs, NEW cs2, NEW ss, Completed(cs2) = Completed(cs),
         \A r \in Completed(cs) : cs2[r].identity = cs[r].identity,
         SupersessionsLoad(ev, cs, ss)
  PROVE  SupersessionsLoad(ev2, cs2, ss)
  <1> DEFINE R == EventsOf(ev, "RESULT_RECORDED")
             S == EventsOf(ev, "RESULT_SUPERSEDED")
  <1>1. EventsOf(ev2, "RESULT_RECORDED") = R /\ EventsOf(ev2, "RESULT_SUPERSEDED") = S
    BY GrownEvents
  <1>2. \A n \in R \cup S : ev2[n] = ev[n]
    BY DEF EventsOf, Grows
  <1>3. /\ \A r \in Completed(cs) : One({n \in R : ev[n].run = r})
        /\ {ev[n].run : n \in R} \subseteq Completed(cs)
        /\ \A s \in ss :
             /\ s[1] \in Completed(cs) /\ s[2] \in Completed(cs)
             /\ cs[s[1]].identity = cs[s[2]].identity
             /\ s[1] < s[2]
             /\ One({o \in ss : o[2] = s[2]})
             /\ One({n \in S : <<ev[n].of, ev[n].run>> = s})
        /\ {<<ev[n].of, ev[n].run>> : n \in S} \subseteq ss
    BY DEF SupersessionsLoad
  <1> HIDE DEF R, S
  <1>4. \A r : {n \in R : ev2[n].run = r} = {n \in R : ev[n].run = r}
    BY <1>2
  <1>5. \A s : {n \in S : <<ev2[n].of, ev2[n].run>> = s} = {n \in S : <<ev[n].of, ev[n].run>> = s}
    BY <1>2
  <1>6. /\ {ev2[n].run : n \in R} = {ev[n].run : n \in R}
        /\ {<<ev2[n].of, ev2[n].run>> : n \in S} = {<<ev[n].of, ev[n].run>> : n \in S}
    BY <1>2
  <1>. QED
    BY <1>1, <1>3, <1>4, <1>5, <1>6 DEF SupersessionsLoad

LEMMA FormalKeeps ==
  ASSUME NEW ev \in Seq(Event), NEW ev2 \in Seq(Event), Grows(ev, ev2),
         "FORMAL_LIFECYCLE_STARTED" \notin Added(ev, ev2),
         NEW fm \in SUBSET FormalLifecycle, FormalLoads(ev, fm)
  PROVE  FormalLoads(ev2, fm)
  <1>1. EventsOf(ev2, "FORMAL_LIFECYCLE_STARTED") = EventsOf(ev, "FORMAL_LIFECYCLE_STARTED")
    BY GrownEvents
  <1>2. CASE fm = {}
    BY <1>1, <1>2 DEF FormalLoads
  <1>3. CASE fm # {}
    <2>1. ASSUME NEW f \in fm, NEW n \in EventsOf(ev, "FORMAL_LIFECYCLE_STARTED")
          PROVE  /\ f.pin \in RouteEvents(ev2)
                 /\ ev2[f.pin].route = Organisational
                 /\ f.pin < n
                 /\ SameRoute(ev2, f.pin, n)
      <3>1. /\ f.pin \in RouteEvents(ev) /\ ev[f.pin].route = Organisational
            /\ f.pin < n /\ SameRoute(ev, f.pin, n)
        BY <1>3 DEF FormalLoads
      <3>2. f.pin \in Nat /\ n \in Nat /\ n <= Len(ev) + 1
        BY DEF FormalLifecycle, EventsOf
      <3>3. SameRoute(ev2, f.pin, n)
        BY <3>1, <3>2, SameRouteKeeps
      <3>. QED
        BY <3>1, <3>3, GrownEvents DEF Grows, RouteEvents
    <2>. QED
      BY <1>1, <1>3, <2>1 DEF FormalLoads
  <1>. QED
    BY <1>2, <1>3

(***************************************************************************)
(* What is added loads too                                                 *)
(***************************************************************************)
LEMMA OneAdded ==
  ASSUME NEW ev \in Seq(Event), NEW e \in Event, NEW ev2, ev2 = Append(ev, e)
  PROVE  /\ ev2 \in Seq(Event) /\ Len(ev2) = Len(ev) + 1
         /\ Grows(ev, ev2) /\ Added(ev, ev2) = {e.type}
         /\ ev2[Len(ev) + 1] = e /\ Len(ev) + 1 \notin DOMAIN ev
         /\ EventsOf(ev2, e.type) = EventsOf(ev, e.type) \cup {Len(ev) + 1}
  <1>1. /\ ev2 \in Seq(Event) /\ Len(ev2) = Len(ev) + 1 /\ Len(ev) \in Nat
        /\ DOMAIN ev = 1..Len(ev) /\ DOMAIN ev2 = DOMAIN ev \cup {Len(ev) + 1}
        /\ ev2[Len(ev) + 1] = e /\ \A n \in DOMAIN ev : ev2[n] = ev[n]
        /\ Len(ev) + 1 \notin DOMAIN ev
    OBVIOUS
  <1>2. Grows(ev, ev2)
    BY <1>1 DEF Grows
  <1>3. DOMAIN ev2 \ DOMAIN ev = {Len(ev) + 1}
    BY <1>1
  <1>4. Added(ev, ev2) = {e.type}
    BY <1>1, <1>3 DEF Added
  <1>5. EventsOf(ev2, e.type) = EventsOf(ev, e.type) \cup {Len(ev) + 1}
    BY <1>1 DEF EventsOf
  <1>. QED
    BY <1>1, <1>2, <1>4, <1>5

LEMMA TwoAdded ==
  ASSUME NEW ev \in Seq(Event), NEW ev2 \in Seq(Event), Len(ev2) = Len(ev) + 2,
         \A n \in DOMAIN ev : ev2[n] = ev[n],
         NEW a, ev2[Len(ev) + 1].type = a, NEW b, ev2[Len(ev) + 2].type = b, a # b
  PROVE  /\ Grows(ev, ev2) /\ Added(ev, ev2) = {a, b}
         /\ Len(ev) + 1 \notin DOMAIN ev /\ Len(ev) + 2 \notin DOMAIN ev
  <1>1. /\ Len(ev) \in Nat /\ DOMAIN ev = 1..Len(ev) /\ DOMAIN ev2 = 1..(Len(ev) + 2)
    OBVIOUS
  <1>2. /\ DOMAIN ev2 = DOMAIN ev \cup {Len(ev) + 1, Len(ev) + 2}
        /\ Len(ev) + 1 \notin DOMAIN ev /\ Len(ev) + 2 \notin DOMAIN ev
    BY <1>1
  <1>3. Grows(ev, ev2)
    BY <1>1 DEF Grows
  <1>4. DOMAIN ev2 \ DOMAIN ev = {Len(ev) + 1, Len(ev) + 2}
    BY <1>2
  <1>5. Added(ev, ev2) = {a, b}
    BY <1>1, <1>4 DEF Added
  <1>. QED
    BY <1>1, <1>2, <1>3, <1>5

LEMMA RouteAdds ==
  ASSUME JourneyTypeOK, EventsLoad(events), NEW route \in Routes, ~OnRoute(route),
         events' = Append(events, RouteChosen(route))
  PROVE  EventsLoad(events)'
  <1> DEFINE n == Len(events) + 1
  <1>1. /\ n \in Nat /\ n # 1 /\ DOMAIN events = 1..(n - 1) /\ events # << >>
        /\ DOMAIN events' = DOMAIN events \cup {n} /\ 1 \in DOMAIN events
        /\ \A m \in DOMAIN events : events'[m] = events[m] /\ m < n
        /\ events'[n] = RouteChosen(route)
    BY DEF JourneyTypeOK, EventsLoad
  <1> HIDE DEF n
  <1>2. /\ events'[n].route = route
        /\ events'[n].type = IF RouteEvents(events) = {} THEN "ROUTE_SELECTED"
                                                         ELSE "ROUTE_CHANGED"
    BY <1>1 DEF RouteChosen, NewEvent
  <1>3. RouteEvents(events)' = RouteEvents(events) \cup {n}
    BY <1>1, <1>2 DEF RouteEvents, RouteTypes
  <1>4. RouteEvents(events) \subseteq DOMAIN events /\ DOMAIN events \subseteq Nat
    BY DEF RouteEvents, JourneyTypeOK
  <1>5. ASSUME NEW m \in RouteEvents(events)
        PROVE  /\ events'[m].type = "ROUTE_SELECTED"
                    <=> \A q \in RouteEvents(events)' : q <= 0 \/ m <= q
               /\ \A q \in RouteEvents(events)' :
                    q < m /\ (\A x \in RouteEvents(events)' : x <= q \/ m <= x)
                      => events'[q].route # events'[m].route
    <2>1. /\ events[m].type = "ROUTE_SELECTED" <=> \A q \in RouteEvents(events) : q <= 0 \/ m <= q
          /\ \A q \in RouteEvents(events) :
               q < m /\ (\A x \in RouteEvents(events) : x <= q \/ m <= x)
                 => events[q].route # events[m].route
      BY DEF EventsLoad, SameRoute
    <2>. QED
      BY <1>1, <1>3, <1>4, <2>1
  <1>6. events'[n].type = "ROUTE_SELECTED" <=> \A q \in RouteEvents(events)' : q <= 0 \/ n <= q
    BY <1>1, <1>2, <1>3, <1>4
  <1>7. ASSUME NEW q \in RouteEvents(events)', q < n,
               \A x \in RouteEvents(events)' : x <= q \/ n <= x
        PROVE  events'[q].route # events'[n].route
    <2>1. q \in RouteEvents(events) /\ \A x \in RouteEvents(events) : x <= q
      BY <1>1, <1>3, <1>4, <1>7
    <2>2. events[q].route # route
      BY <1>4, <2>1 DEF OnRoute, LatestRoute
    <2>. QED
      BY <1>1, <1>2, <1>4, <2>1, <2>2
  <1>8. events' # << >> /\ events'[1].type = "JOURNEY_CREATED"
    BY <1>1 DEF EventsLoad
  <1>9. ASSUME NEW m \in RouteEvents(events)'
        PROVE  /\ events'[m].type = "ROUTE_SELECTED"
                    <=> \A q \in RouteEvents(events)' : q <= 0 \/ m <= q
               /\ \A q \in RouteEvents(events)' :
                    q < m /\ (\A x \in RouteEvents(events)' : x <= q \/ m <= x)
                      => events'[q].route # events'[m].route
    <2>1. CASE m \in RouteEvents(events)
      BY <1>5, <2>1
    <2>2. CASE m = n
      BY <1>6, <1>7, <2>2
    <2>. QED
      BY <1>3, <2>1, <2>2
  <1>. QED
    BY <1>8, <1>9 DEF EventsLoad, SameRoute

LEMMA LinkAdds ==
  ASSUME NEW ev \in Seq(Event), NEW ev2 \in Seq(Event), Grows(ev, ev2),
         NEW k, k = Len(ev) + 1, k \notin DOMAIN ev,
         EventsOf(ev2, "RUN_LINKED") = EventsOf(ev, "RUN_LINKED") \cup {k},
         NEW ms \in Seq(Run), NEW run \in Run, NEW ms2, ms2 = Append(ms, run),
         ev2[k].run = Len(ms) + 1,
         LatestRoute(ev, run.pin), ev[run.pin].route = Explore, RunOrderLoads(ev, ms)
  PROVE  RunOrderLoads(ev2, ms2)
  <1>1. \A n \in EventsOf(ev, "RUN_LINKED") : n \in DOMAIN ev /\ ev2[n] = ev[n]
    BY DEF EventsOf, Grows
  <1>2. /\ DOMAIN ms2 = DOMAIN ms \cup {Len(ms) + 1} /\ Len(ms) + 1 \notin DOMAIN ms
        /\ \A r \in DOMAIN ms : ms2[r] = ms[r]
        /\ ms2[Len(ms) + 1] = run
    OBVIOUS
  <1>3. Len(ev) \in Nat /\ DOMAIN ev = 1..Len(ev)
    OBVIOUS
  <1>4. ASSUME NEW n \in EventsOf(ev, "RUN_LINKED")
        PROVE  LET r == ev2[n].run
               IN /\ r \in DOMAIN ms2
                  /\ ms2[r].pin \in RouteEvents(ev2) /\ ev2[ms2[r].pin].route = Explore
                  /\ ms2[r].pin < n
                  /\ SameRoute(ev2, ms2[r].pin, n)
    <2>1. PICK r \in DOMAIN ms : r = ev2[n].run
      BY <1>1 DEF RunOrderLoads
    <2>2. /\ ms[r].pin \in RouteEvents(ev) /\ ev[ms[r].pin].route = Explore
          /\ ms[r].pin < n /\ SameRoute(ev, ms[r].pin, n)
      BY <1>1, <2>1 DEF RunOrderLoads
    <2>3. ms[r].pin \in Nat /\ n \in Nat /\ n <= Len(ev) + 1
      <3>1. ms[r] \in Run /\ n \in 1..Len(ev) /\ Len(ev) \in Nat
        BY <1>1
      <3>. QED
        BY <3>1 DEF Run
    <2>4. SameRoute(ev2, ms[r].pin, n)
      BY <2>2, <2>3, SameRouteKeeps
    <2>5. ev2[ms[r].pin] = ev[ms[r].pin] /\ ms[r].pin \in RouteEvents(ev2)
      BY <2>2, GrownEvents DEF Grows, RouteEvents
    <2>. QED
      BY <1>2, <2>1, <2>2, <2>4, <2>5
  <1>5. LET r == ev2[k].run
        IN /\ r \in DOMAIN ms2
           /\ ms2[r].pin \in RouteEvents(ev2) /\ ev2[ms2[r].pin].route = Explore
           /\ ms2[r].pin < k
           /\ SameRoute(ev2, ms2[r].pin, k)
    <2>1. run.pin \in RouteEvents(ev) /\ run.pin \in DOMAIN ev
      BY DEF LatestRoute, RouteEvents
    <2>2. run.pin \in Nat /\ run.pin < k /\ k \in Nat
      BY <1>3, <2>1
    <2>3. SameRoute(ev, run.pin, k)
      BY DEF SameRoute, LatestRoute
    <2>4. SameRoute(ev2, run.pin, k)
      BY <1>3, <2>2, <2>3, SameRouteKeeps
    <2>5. ev2[run.pin] = ev[run.pin] /\ run.pin \in RouteEvents(ev2)
      BY <2>1, GrownEvents DEF Grows
    <2>. QED
      BY <1>2, <2>2, <2>4, <2>5
  <1>6. ASSUME NEW r \in DOMAIN ms
        PROVE  One({n \in EventsOf(ev2, "RUN_LINKED") : ev2[n].run = r})
    <2>1. {n \in EventsOf(ev2, "RUN_LINKED") : ev2[n].run = r}
            = {n \in EventsOf(ev, "RUN_LINKED") : ev[n].run = r}
      BY <1>1, <1>2
    <2>. QED
      BY <2>1 DEF RunOrderLoads
  <1>7. {n \in EventsOf(ev2, "RUN_LINKED") : ev2[n].run = Len(ms) + 1} = {k}
    <2>1. \A n \in EventsOf(ev, "RUN_LINKED") : ev2[n].run \in DOMAIN ms
      BY <1>1 DEF RunOrderLoads
    <2>. QED
      BY <1>2, <2>1
  <1>8. One({n \in EventsOf(ev2, "RUN_LINKED") : ev2[n].run = Len(ms) + 1})
    BY <1>7 DEF One
  <1>9. \A r \in DOMAIN ms2 : One({n \in EventsOf(ev2, "RUN_LINKED") : ev2[n].run = r})
    BY <1>2, <1>6, <1>8
  <1>10. ASSUME NEW n \in EventsOf(ev2, "RUN_LINKED")
         PROVE  LET r == ev2[n].run
                IN /\ r \in DOMAIN ms2
                   /\ ms2[r].pin \in RouteEvents(ev2) /\ ev2[ms2[r].pin].route = Explore
                   /\ ms2[r].pin < n
                   /\ SameRoute(ev2, ms2[r].pin, n)
    BY <1>4, <1>5
  <1>. QED
    BY <1>9, <1>10 DEF RunOrderLoads

LEMMA RetryAdds ==
  ASSUME NEW ev \in Seq(Event), NEW ev2 \in Seq(Event), Grows(ev, ev2),
         NEW k, k \notin DOMAIN ev,
         EventsOf(ev2, "RUN_RECOVERY_RECORDED")
           = EventsOf(ev, "RUN_RECOVERY_RECORDED") \cup {k},
         NEW ms \in Seq(Run), NEW ms2, GoesOn(ms, ms2),
         NEW r, r # 0, r \notin DOMAIN ms, DOMAIN ms2 = DOMAIN ms \cup {r},
         ms2[r].retryOf # 0, ms2[r].retryOf \in DOMAIN ms,
         ms[ms2[r].retryOf].status \in Retryable,
         ev2[k].run = r, ev2[k].of = ms2[r].retryOf, ev2[k].token = ms2[r].token,
         \A n \in EventsOf(ev, "RUN_RECOVERY_RECORDED") : ev[n].token # ms2[r].token,
         RecoveriesLoad(ev, ms, ms)
  PROVE  RecoveriesLoad(ev2, ms2, ms2)
  <1> DEFINE R == EventsOf(ev, "RUN_RECOVERY_RECORDED")
             A == {n \in R : ev[n].run = 0}
  <1>1. \A n \in R : n \in DOMAIN ev /\ ev2[n] = ev[n]
    BY DEF EventsOf, Grows
  <1>2. /\ \A n \in R :
             /\ ev[n].of \in DOMAIN ms
             /\ One({m \in R : ev[m].token = ev[n].token})
        /\ \A n \in A :
             /\ ms[ev[n].of].status = "ABANDONED"
             /\ One({m \in A : ev[m].of = ev[n].of})
        /\ \A n \in R \ A :
             /\ ev[n].run \in DOMAIN ms
             /\ ms[ev[n].run].retryOf = ev[n].of
             /\ ms[ev[n].run].token = ev[n].token
             /\ ms[ev[n].of].status \in Retryable
             /\ One({m \in R \ A : ev[m].run = ev[n].run})
        /\ {ev[n].run : n \in R \ A} = {q \in DOMAIN ms : ms[q].retryOf # 0}
    BY DEF RecoveriesLoad
  <1>3. \A n \in R : ev[n].token # ms2[r].token
    OBVIOUS
  <1>4. /\ {n \in R \cup {k} : ev2[n].run = 0} = A
        /\ (R \cup {k}) \ A = (R \ A) \cup {k} /\ k \notin R
    BY <1>1
  <1>5. A \subseteq R
    OBVIOUS
  <1> HIDE DEF R, A
  <1>6. ASSUME NEW n \in R \cup {k}
        PROVE  /\ ev2[n].of \in DOMAIN ms2
               /\ One({m \in R \cup {k} : ev2[m].token = ev2[n].token})
    <2>1. CASE n \in R
      <3>1. {m \in R \cup {k} : ev2[m].token = ev2[n].token} = {m \in R : ev[m].token = ev[n].token}
        BY <1>1, <1>3, <2>1
      <3>. QED
        BY <1>1, <1>2, <2>1, <3>1 DEF GoesOn
    <2>2. CASE n = k
      <3>1. {m \in R \cup {k} : ev2[m].token = ev2[n].token} = {k}
        BY <1>1, <1>3, <2>2
      <3>. QED
        BY <2>2, <3>1 DEF One
    <2>. QED
      BY <2>1, <2>2
  <1>7. ASSUME NEW n \in A
        PROVE  /\ ms2[ev2[n].of].status = "ABANDONED"
               /\ One({m \in A : ev2[m].of = ev2[n].of})
    <2>1. ev2[n] = ev[n] /\ ev[n].of \in DOMAIN ms /\ ms[ev[n].of].status = "ABANDONED"
      BY <1>1, <1>2, <1>5
    <2>2. \A m \in A : ev2[m] = ev[m]
      BY <1>1, <1>5
    <2>3. {m \in A : ev2[m].of = ev2[n].of} = {m \in A : ev[m].of = ev[n].of}
      BY <2>1, <2>2
    <2>4. ms2[ev[n].of].status = "ABANDONED"
      BY <2>1 DEF GoesOn
    <2>. QED
      BY <1>2, <2>1, <2>3, <2>4
  <1>8. \A m \in R \ A : ev2[m] = ev[m] /\ ev[m].run \in DOMAIN ms
    BY <1>1, <1>2
  <1>9. ASSUME NEW n \in (R \ A) \cup {k}
        PROVE  /\ ev2[n].run \in DOMAIN ms2
               /\ ms2[ev2[n].run].retryOf = ev2[n].of
               /\ ms2[ev2[n].run].token = ev2[n].token
               /\ ms2[ev2[n].of].status \in Retryable
               /\ One({m \in (R \ A) \cup {k} : ev2[m].run = ev2[n].run})
    <2>1. CASE n \in R \ A
      <3>1. /\ ev2[n] = ev[n] /\ ev[n].of \in DOMAIN ms /\ ms[ev[n].of].status \in Retryable
            /\ ev[n].run \in DOMAIN ms /\ ms[ev[n].run].retryOf = ev[n].of
            /\ ms[ev[n].run].token = ev[n].token
        BY <1>1, <1>2, <2>1
      <3>2. {m \in (R \ A) \cup {k} : ev2[m].run = ev2[n].run}
              = {m \in R \ A : ev[m].run = ev[n].run}
        BY <1>8, <2>1, <3>1
      <3>3. /\ ms2[ev[n].of].status \in Retryable
            /\ ev[n].run \in DOMAIN ms2 /\ ms2[ev[n].run].retryOf = ev[n].of
            /\ ms2[ev[n].run].token = ev[n].token
        BY <3>1 DEF GoesOn, Retryable
      <3>. QED
        BY <1>2, <2>1, <3>1, <3>2, <3>3
    <2>2. CASE n = k
      <3>1. {m \in (R \ A) \cup {k} : ev2[m].run = ev2[n].run} = {k}
        BY <1>8, <2>2
      <3>2. ms2[ms2[r].retryOf].status \in Retryable
        BY DEF GoesOn, Retryable
      <3>. QED
        BY <2>2, <3>1, <3>2 DEF One
    <2>. QED
      BY <2>1, <2>2
  <1>10. {ev2[n].run : n \in (R \ A) \cup {k}} = {q \in DOMAIN ms2 : ms2[q].retryOf # 0}
    <2>1. {ev2[n].run : n \in (R \ A) \cup {k}} = {ev[n].run : n \in R \ A} \cup {r}
      BY <1>8
    <2>2. {q \in DOMAIN ms2 : ms2[q].retryOf # 0} = {q \in DOMAIN ms : ms[q].retryOf # 0} \cup {r}
      BY DEF GoesOn
    <2>. QED
      BY <1>2, <2>1, <2>2
  <1>11. EventsOf(ev2, "RUN_RECOVERY_RECORDED") = R \cup {k}
    BY DEF R
  <1>12. PICK R2, B : R2 = R \cup {k} /\ B = (R \ A) \cup {k}
    OBVIOUS
  <1>13. /\ EventsOf(ev2, "RUN_RECOVERY_RECORDED") = R2
         /\ {n \in R2 : ev2[n].run = 0} = A /\ R2 \ A = B
    BY <1>4, <1>11, <1>12
  <1>14. /\ \A n \in R2 :
              /\ ev2[n].of \in DOMAIN ms2
              /\ One({m \in R2 : ev2[m].token = ev2[n].token})
         /\ \A n \in A :
              /\ ms2[ev2[n].of].status = "ABANDONED"
              /\ One({m \in A : ev2[m].of = ev2[n].of})
    BY <1>6, <1>7, <1>12
  <1>15. /\ \A n \in B :
              /\ ev2[n].run \in DOMAIN ms2
              /\ ms2[ev2[n].run].retryOf = ev2[n].of
              /\ ms2[ev2[n].run].token = ev2[n].token
              /\ ms2[ev2[n].of].status \in Retryable
              /\ One({m \in B : ev2[m].run = ev2[n].run})
         /\ {ev2[n].run : n \in B} = {q \in DOMAIN ms2 : ms2[q].retryOf # 0}
    BY <1>9, <1>10, <1>12
  <1>. QED
    BY <1>13, <1>14, <1>15 DEF RecoveriesLoad

LEMMA AbandonAdds ==
  ASSUME NEW ev \in Seq(Event), NEW ev2 \in Seq(Event), Grows(ev, ev2),
         NEW k, k \notin DOMAIN ev,
         EventsOf(ev2, "RUN_RECOVERY_RECORDED")
           = EventsOf(ev, "RUN_RECOVERY_RECORDED") \cup {k},
         NEW ms \in Seq(Run), NEW ms2, GoesOn(ms, ms2), DOMAIN ms2 = DOMAIN ms,
         NEW r \in DOMAIN ms, ms[r].status = "STARTED", ms2[r].status = "ABANDONED",
         ev2[k].run = 0, ev2[k].of = r,
         \A n \in EventsOf(ev, "RUN_RECOVERY_RECORDED") : ev[n].token # ev2[k].token,
         RecoveriesLoad(ev, ms, ms)
  PROVE  RecoveriesLoad(ev2, ms2, ms2)
  <1> DEFINE R == EventsOf(ev, "RUN_RECOVERY_RECORDED")
             A == {n \in R : ev[n].run = 0}
  <1>1. \A n \in R : n \in DOMAIN ev /\ ev2[n] = ev[n]
    BY DEF EventsOf, Grows
  <1>2. /\ \A n \in R :
             /\ ev[n].of \in DOMAIN ms
             /\ One({m \in R : ev[m].token = ev[n].token})
        /\ \A n \in A :
             /\ ms[ev[n].of].status = "ABANDONED"
             /\ One({m \in A : ev[m].of = ev[n].of})
        /\ \A n \in R \ A :
             /\ ev[n].run \in DOMAIN ms
             /\ ms[ev[n].run].retryOf = ev[n].of
             /\ ms[ev[n].run].token = ev[n].token
             /\ ms[ev[n].of].status \in Retryable
             /\ One({m \in R \ A : ev[m].run = ev[n].run})
        /\ {ev[n].run : n \in R \ A} = {q \in DOMAIN ms : ms[q].retryOf # 0}
    BY DEF RecoveriesLoad
  <1>3. \A n \in R : ev[n].token # ev2[k].token
    OBVIOUS
  <1>4. /\ {n \in R \cup {k} : ev2[n].run = 0} = A \cup {k}
        /\ (R \cup {k}) \ (A \cup {k}) = R \ A /\ k \notin R
    BY <1>1
  <1>5. A \subseteq R
    OBVIOUS
  <1> HIDE DEF R, A
  <1>6. ASSUME NEW n \in R \cup {k}
        PROVE  /\ ev2[n].of \in DOMAIN ms2
               /\ One({m \in R \cup {k} : ev2[m].token = ev2[n].token})
    <2>1. CASE n \in R
      <3>1. {m \in R \cup {k} : ev2[m].token = ev2[n].token} = {m \in R : ev[m].token = ev[n].token}
        BY <1>1, <1>3, <2>1
      <3>. QED
        BY <1>1, <1>2, <2>1, <3>1
    <2>2. CASE n = k
      <3>1. {m \in R \cup {k} : ev2[m].token = ev2[n].token} = {k}
        BY <1>1, <1>3, <2>2
      <3>. QED
        BY <2>2, <3>1 DEF One
    <2>. QED
      BY <2>1, <2>2
  <1>7. \A m \in A : ev2[m] = ev[m] /\ ev[m].of # r
    BY <1>1, <1>2, <1>5
  <1>8. ASSUME NEW n \in A \cup {k}
        PROVE  /\ ms2[ev2[n].of].status = "ABANDONED"
               /\ One({m \in A \cup {k} : ev2[m].of = ev2[n].of})
    <2>1. CASE n \in A
      <3>1. ev2[n] = ev[n] /\ ev[n].of \in DOMAIN ms /\ ms[ev[n].of].status = "ABANDONED"
        BY <1>1, <1>2, <1>5, <2>1
      <3>2. {m \in A \cup {k} : ev2[m].of = ev2[n].of} = {m \in A : ev[m].of = ev[n].of}
        BY <1>7, <2>1, <3>1
      <3>3. ms2[ev[n].of].status = "ABANDONED"
        BY <3>1 DEF GoesOn
      <3>. QED
        BY <1>2, <2>1, <3>1, <3>2, <3>3
    <2>2. CASE n = k
      <3>1. {m \in A \cup {k} : ev2[m].of = ev2[n].of} = {k}
        BY <1>7, <2>2
      <3>. QED
        BY <2>2, <3>1 DEF One
    <2>. QED
      BY <2>1, <2>2
  <1>9. ASSUME NEW n \in R \ A
        PROVE  /\ ev2[n].run \in DOMAIN ms2
               /\ ms2[ev2[n].run].retryOf = ev2[n].of
               /\ ms2[ev2[n].run].token = ev2[n].token
               /\ ms2[ev2[n].of].status \in Retryable
               /\ One({m \in R \ A : ev2[m].run = ev2[n].run})
    <2>0. \A m \in R \ A : ev2[m] = ev[m]
      BY <1>1
    <2>1. /\ ev2[n] = ev[n] /\ ev[n].of \in DOMAIN ms /\ ms[ev[n].of].status \in Retryable
          /\ ev[n].run \in DOMAIN ms /\ ms[ev[n].run].retryOf = ev[n].of
          /\ ms[ev[n].run].token = ev[n].token
      BY <1>1, <1>2
    <2>2. {m \in R \ A : ev2[m].run = ev2[n].run} = {m \in R \ A : ev[m].run = ev[n].run}
      BY <2>0, <2>1
    <2>3. /\ ms2[ev[n].of].status \in Retryable
          /\ ev[n].run \in DOMAIN ms2 /\ ms2[ev[n].run].retryOf = ev[n].of
          /\ ms2[ev[n].run].token = ev[n].token
      BY <2>1 DEF GoesOn, Retryable
    <2>. QED
      BY <1>2, <2>1, <2>2, <2>3
  <1>10. {ev2[n].run : n \in R \ A} = {q \in DOMAIN ms2 : ms2[q].retryOf # 0}
    <2>1. {ev2[n].run : n \in R \ A} = {ev[n].run : n \in R \ A}
      BY <1>1
    <2>2. {q \in DOMAIN ms2 : ms2[q].retryOf # 0} = {q \in DOMAIN ms : ms[q].retryOf # 0}
      BY DEF GoesOn
    <2>. QED
      BY <1>2, <2>1, <2>2
  <1>11. EventsOf(ev2, "RUN_RECOVERY_RECORDED") = R \cup {k}
    BY DEF R
  <1>12. PICK R2, A2 : R2 = R \cup {k} /\ A2 = A \cup {k}
    OBVIOUS
  <1>13. /\ EventsOf(ev2, "RUN_RECOVERY_RECORDED") = R2
         /\ {n \in R2 : ev2[n].run = 0} = A2 /\ R2 \ A2 = R \ A
    BY <1>4, <1>11, <1>12
  <1>14. /\ \A n \in R2 :
              /\ ev2[n].of \in DOMAIN ms2
              /\ One({m \in R2 : ev2[m].token = ev2[n].token})
         /\ \A n \in A2 :
              /\ ms2[ev2[n].of].status = "ABANDONED"
              /\ One({m \in A2 : ev2[m].of = ev2[n].of})
    BY <1>6, <1>8, <1>12
  <1>15. PICK B : B = R \ A
    OBVIOUS
  <1>16. /\ \A n \in B :
              /\ ev2[n].run \in DOMAIN ms2
              /\ ms2[ev2[n].run].retryOf = ev2[n].of
              /\ ms2[ev2[n].run].token = ev2[n].token
              /\ ms2[ev2[n].of].status \in Retryable
              /\ One({m \in B : ev2[m].run = ev2[n].run})
         /\ {ev2[n].run : n \in B} = {q \in DOMAIN ms2 : ms2[q].retryOf # 0}
         /\ R2 \ A2 = B
    BY <1>9, <1>10, <1>13, <1>15
  <1>. QED
    BY <1>13, <1>14, <1>16 DEF RecoveriesLoad

\* A result is recorded: what it means for the results and for the links there
\* were.
Recorded(ev, ev2, cs2, ss, r) ==
  /\ \A q \in Completed(cs2) :
       One({n \in EventsOf(ev2, "RESULT_RECORDED") : ev2[n].run = q})
  /\ {ev2[n].run : n \in EventsOf(ev2, "RESULT_RECORDED")} \subseteq Completed(cs2)
  /\ \A s \in ss : /\ s[1] \in Completed(cs2) /\ s[2] \in Completed(cs2) /\ s[2] # r
                    /\ cs2[s[1]].identity = cs2[s[2]].identity
                    /\ s[1] < s[2]
                    /\ One({o \in ss : o[2] = s[2]})
                    /\ One({n \in EventsOf(ev, "RESULT_SUPERSEDED") : <<ev[n].of, ev[n].run>> = s})
  /\ {<<ev[n].of, ev[n].run>> : n \in EventsOf(ev, "RESULT_SUPERSEDED")} \subseteq ss
  /\ \A n \in EventsOf(ev, "RESULT_SUPERSEDED") : n \in DOMAIN ev /\ ev2[n] = ev[n]

LEMMA ResultRecorded ==
  ASSUME NEW ev \in Seq(Event), NEW ev2 \in Seq(Event), Grows(ev, ev2),
         NEW cs, NEW cs2, NEW r, r \notin Completed(cs),
         Completed(cs2) = Completed(cs) \cup {r},
         \A q \in Completed(cs) : cs2[q].identity = cs[q].identity,
         NEW k, k \notin DOMAIN ev, ev2[k].run = r,
         EventsOf(ev2, "RESULT_RECORDED") = EventsOf(ev, "RESULT_RECORDED") \cup {k},
         NEW ss, SupersessionsLoad(ev, cs, ss)
  PROVE  Recorded(ev, ev2, cs2, ss, r)
  <1> DEFINE R == EventsOf(ev, "RESULT_RECORDED")
             S == EventsOf(ev, "RESULT_SUPERSEDED")
  <1>1. \A n \in R \cup S : n \in DOMAIN ev /\ ev2[n] = ev[n]
    BY DEF EventsOf, Grows
  <1>2. /\ \A q \in Completed(cs) : One({n \in R : ev[n].run = q})
        /\ {ev[n].run : n \in R} \subseteq Completed(cs)
        /\ \A s \in ss :
             /\ s[1] \in Completed(cs) /\ s[2] \in Completed(cs)
             /\ cs[s[1]].identity = cs[s[2]].identity
             /\ s[1] < s[2]
             /\ One({o \in ss : o[2] = s[2]})
             /\ One({n \in S : <<ev[n].of, ev[n].run>> = s})
        /\ {<<ev[n].of, ev[n].run>> : n \in S} \subseteq ss
    BY DEF SupersessionsLoad
  <1>3. EventsOf(ev2, "RESULT_RECORDED") = R \cup {k}
    OBVIOUS
  <1> HIDE DEF R
  <1>4. ASSUME NEW q \in Completed(cs2) PROVE One({n \in R \cup {k} : ev2[n].run = q})
    <2>1. CASE q \in Completed(cs)
      <3>1. {n \in R \cup {k} : ev2[n].run = q} = {n \in R : ev[n].run = q}
        BY <1>1, <2>1
      <3>. QED
        BY <1>2, <2>1, <3>1
    <2>2. CASE q = r
      <3>1. {n \in R \cup {k} : ev2[n].run = q} = {k}
        BY <1>1, <1>2, <2>2
      <3>. QED
        BY <3>1 DEF One
    <2>. QED
      BY <2>1, <2>2
  <1>5. {ev2[n].run : n \in R \cup {k}} \subseteq Completed(cs2)
    BY <1>1, <1>2
  <1>6. \A s \in ss : /\ s[1] \in Completed(cs2) /\ s[2] \in Completed(cs2) /\ s[2] # r
                      /\ cs2[s[1]].identity = cs2[s[2]].identity
                      /\ s[1] < s[2]
    BY <1>2
  <1>. QED
    BY <1>1, <1>2, <1>3, <1>4, <1>5, <1>6 DEF Recorded

\* It supersedes nothing ...
LEMMA ResultAdds ==
  ASSUME NEW ev \in Seq(Event), NEW ev2 \in Seq(Event), Grows(ev, ev2),
         NEW cs, NEW cs2, NEW r, r \notin Completed(cs),
         Completed(cs2) = Completed(cs) \cup {r},
         \A q \in Completed(cs) : cs2[q].identity = cs[q].identity,
         NEW k, k \notin DOMAIN ev, ev2[k].run = r,
         EventsOf(ev2, "RESULT_RECORDED") = EventsOf(ev, "RESULT_RECORDED") \cup {k},
         NEW ss, SupersessionsLoad(ev, cs, ss),
         EventsOf(ev2, "RESULT_SUPERSEDED") = EventsOf(ev, "RESULT_SUPERSEDED")
  PROVE  SupersessionsLoad(ev2, cs2, ss)
  <1>0. Recorded(ev, ev2, cs2, ss, r)
    BY ResultRecorded
  <1> DEFINE S == EventsOf(ev, "RESULT_SUPERSEDED")
  <1>1. /\ \A s \in ss : One({n \in S : <<ev[n].of, ev[n].run>> = s})
        /\ {<<ev[n].of, ev[n].run>> : n \in S} \subseteq ss
        /\ \A n \in S : ev2[n] = ev[n]
    BY <1>0 DEF Recorded
  <1> HIDE DEF S
  <1>2. ASSUME NEW s \in ss PROVE One({n \in S : <<ev2[n].of, ev2[n].run>> = s})
    <2>1. {n \in S : <<ev2[n].of, ev2[n].run>> = s} = {n \in S : <<ev[n].of, ev[n].run>> = s}
      BY <1>1
    <2>. QED
      BY <1>1, <2>1
  <1>3. {<<ev2[n].of, ev2[n].run>> : n \in S} \subseteq ss
    BY <1>1
  <1>. QED
    BY <1>0, <1>2, <1>3 DEF SupersessionsLoad, S, Recorded

\* ... or it is linked to the result it supersedes.
LEMMA ResultSupersedes ==
  ASSUME NEW ev \in Seq(Event), NEW ev2 \in Seq(Event), Grows(ev, ev2),
         NEW cs, NEW cs2, NEW r, r \notin Completed(cs),
         Completed(cs2) = Completed(cs) \cup {r},
         \A q \in Completed(cs) : cs2[q].identity = cs[q].identity,
         NEW k, k \notin DOMAIN ev, ev2[k].run = r,
         EventsOf(ev2, "RESULT_RECORDED") = EventsOf(ev, "RESULT_RECORDED") \cup {k},
         NEW ss, SupersessionsLoad(ev, cs, ss),
         NEW p \in Completed(cs), p < r, cs[p].identity = cs2[r].identity,
         NEW j, j \notin DOMAIN ev, ev2[j].of = p, ev2[j].run = r,
         EventsOf(ev2, "RESULT_SUPERSEDED") = EventsOf(ev, "RESULT_SUPERSEDED") \cup {j},
         NEW ss2, ss2 = ss \cup {<<p, r>>}
  PROVE  SupersessionsLoad(ev2, cs2, ss2)
  <1> DEFINE S == EventsOf(ev, "RESULT_SUPERSEDED")
  <1>0. Recorded(ev, ev2, cs2, ss, r)
    BY ResultRecorded
  <1>1. /\ \A s \in ss : /\ s[1] \in Completed(cs2) /\ s[2] \in Completed(cs2) /\ s[2] # r
                          /\ cs2[s[1]].identity = cs2[s[2]].identity
                          /\ s[1] < s[2]
                          /\ One({o \in ss : o[2] = s[2]})
                          /\ One({n \in S : <<ev[n].of, ev[n].run>> = s})
        /\ {<<ev[n].of, ev[n].run>> : n \in S} \subseteq ss
        /\ \A n \in S : n \in DOMAIN ev /\ ev2[n] = ev[n]
    BY <1>0 DEF Recorded
  <1>2. <<p, r>>[1] = p /\ <<p, r>>[2] = r /\ <<ev2[j].of, ev2[j].run>> = <<p, r>>
    OBVIOUS
  <1> HIDE DEF S
  <1>3. ASSUME NEW s \in ss
        PROVE  /\ One({n \in S \cup {j} : <<ev2[n].of, ev2[n].run>> = s})
               /\ One({o \in ss2 : o[2] = s[2]})
    <2>1. {n \in S \cup {j} : <<ev2[n].of, ev2[n].run>> = s}
            = {n \in S : <<ev[n].of, ev[n].run>> = s}
      <3>1. s # <<ev2[j].of, ev2[j].run>>
        BY <1>1, <1>2
      <3>. QED
        BY <1>1, <3>1
    <2>2. {o \in ss2 : o[2] = s[2]} = {o \in ss : o[2] = s[2]}
      <3>1. s[2] # <<p, r>>[2]
        BY <1>1, <1>2
      <3>2. \A o \in ss2 : o[2] = s[2] => o \in ss
        BY <3>1
      <3>. QED
        BY <3>2
    <2>. QED
      BY <1>1, <2>1, <2>2
  <1>4. /\ One({n \in S \cup {j} : <<ev2[n].of, ev2[n].run>> = <<p, r>>})
        /\ One({o \in ss2 : o[2] = r})
    <2>1. <<p, r>> \notin ss
      BY <1>1, <1>2
    <2>2. {n \in S \cup {j} : <<ev2[n].of, ev2[n].run>> = <<p, r>>} = {j}
      <3>1. \A n \in S : <<ev2[n].of, ev2[n].run>> # <<p, r>>
        BY <1>1, <2>1
      <3>. QED
        BY <1>2, <3>1
    <2>3. {o \in ss2 : o[2] = r} = {<<p, r>>}
      BY <1>1, <1>2
    <2>. QED
      BY <2>2, <2>3 DEF One
  <1>5. {<<ev2[n].of, ev2[n].run>> : n \in S \cup {j}} \subseteq ss2
    BY <1>1, <1>2
  <1>6. p \in Completed(cs2) /\ r \in Completed(cs2) /\ cs2[p].identity = cs2[r].identity
    OBVIOUS
  <1>7. ASSUME NEW s \in ss2
        PROVE  /\ s[1] \in Completed(cs2) /\ s[2] \in Completed(cs2)
               /\ cs2[s[1]].identity = cs2[s[2]].identity
               /\ s[1] < s[2]
               /\ One({o \in ss2 : o[2] = s[2]})
               /\ One({n \in S \cup {j} : <<ev2[n].of, ev2[n].run>> = s})
    <2>1. CASE s \in ss
      BY <1>1, <1>3, <2>1
    <2>2. CASE s = <<p, r>>
      BY <1>2, <1>4, <1>6, <2>2
    <2>. QED
      BY <2>1, <2>2
  <1>. QED
    <2>1. EventsOf(ev2, "RESULT_SUPERSEDED") = S \cup {j}
      BY DEF S
    <2>2. PICK T : T = S \cup {j}
      OBVIOUS
    <2>. QED
      BY <1>0, <1>5, <1>7, <2>1, <2>2 DEF SupersessionsLoad, Recorded

LEMMA FormalAdds ==
  ASSUME NEW ev \in Seq(Event), NEW ev2 \in Seq(Event), Grows(ev, ev2),
         NEW k, k = Len(ev) + 1,
         EventsOf(ev2, "FORMAL_LIFECYCLE_STARTED")
           = EventsOf(ev, "FORMAL_LIFECYCLE_STARTED") \cup {k},
         NEW f \in FormalLifecycle, LatestRoute(ev, f.pin), ev[f.pin].route = Organisational,
         FormalLoads(ev, {})
  PROVE  FormalLoads(ev2, {f})
  <1>1. EventsOf(ev2, "FORMAL_LIFECYCLE_STARTED") = {k}
    BY DEF FormalLoads
  <1>2. f.pin \in RouteEvents(ev) /\ f.pin \in DOMAIN ev /\ f.pin \in Nat /\ f.pin < k
        /\ k \in Nat /\ Len(ev) \in Nat
    BY DEF LatestRoute, RouteEvents, FormalLifecycle
  <1>3. SameRoute(ev, f.pin, k)
    BY DEF SameRoute, LatestRoute
  <1>4. SameRoute(ev2, f.pin, k)
    BY <1>2, <1>3, SameRouteKeeps
  <1>5. f.pin \in RouteEvents(ev2) /\ ev2[f.pin] = ev[f.pin]
    BY <1>2, GrownEvents DEF Grows
  <1>. QED
    BY <1>1, <1>2, <1>4, <1>5 DEF FormalLoads, One

\* Everything a load checks of the tables, and OneRunPerToken, of tables read.
Loads(ev, rq, ms, ss, fm) ==
  /\ EventsLoad(ev) /\ RequestsLoad(ev, rq) /\ RunsLoad(ms, ms)
  /\ RunOrderLoads(ev, ms) /\ RecoveriesLoad(ev, ms, ms)
  /\ SupersessionsLoad(ev, ms, ss) /\ FormalLoads(ev, fm)

Tokens(ev, ms) ==
  /\ \A q, r \in DOMAIN ms : ms[q].token = ms[r].token => q = r
  /\ \A n \in EventsOf(ev, "RUN_RECOVERY_RECORDED") :
       ev[n].run = 0 =>
         \A r \in DOMAIN ms : ms[r].retryOf # 0 => ms[r].token # ev[n].token

\* The inductive invariant: before a journey is created its tables are empty.
JourneyInv ==
  /\ OpenIsNewest
  /\ IF events = << >>
     THEN runs = << >> /\ DOMAIN requests = {} /\ supersessions = {} /\ formal = {}
     ELSE /\ Loads(events, requests, runs, supersessions, formal)
          /\ Tokens(events, runs)

\* What is known of the tables of a journey that exists.
LEMMA Loaded ==
  ASSUME JourneyTypeOK, JourneyInv, events # << >>
  PROVE  /\ events \in Seq(Event) /\ runs \in Seq(Run) /\ formal \in SUBSET FormalLifecycle
         /\ \A t \in DOMAIN requests : requests[t] \in RouteRequest
         /\ EventsLoad(events) /\ RequestsLoad(events, requests) /\ RunsLoad(runs, runs)
         /\ RunOrderLoads(events, runs) /\ RecoveriesLoad(events, runs, runs)
         /\ SupersessionsLoad(events, runs, supersessions) /\ FormalLoads(events, formal)
         /\ Tokens(events, runs)
  BY DEF JourneyInv, Loads, JourneyTypeOK

\* Settling an open run leaves the manifests and completes at most that run.
LEMMA SettleGoesOn ==
  ASSUME JourneyTypeOK, NEW r \in Open, NEW status \in RunStatus, runs' = Settle(r, status)
  PROVE  /\ r \in DOMAIN runs /\ r \in Nat /\ r # 0 /\ runs[r].status = "STARTED"
         /\ GoesOn(runs, runs') /\ DOMAIN runs' = DOMAIN runs /\ runs'[r].status = status
         /\ r \notin Completed(runs)
         /\ Completed(runs') = Completed(runs) \cup (IF status = "COMPLETED" THEN {r} ELSE {})
         /\ \A q \in DOMAIN runs : runs'[q].identity = runs[q].identity
  <1>1. r \in DOMAIN runs /\ runs[r].status = "STARTED" /\ runs \in Seq(Run)
    BY DEF Open, JourneyTypeOK
  <1>2. runs[r] \in Run /\ r \in 1..Len(runs) /\ Len(runs) \in Nat
    BY <1>1
  <1>3. /\ DOMAIN runs' = DOMAIN runs
        /\ runs'[r] = [runs[r] EXCEPT !.status = status]
        /\ \A q \in DOMAIN runs \ {r} : runs'[q] = runs[q]
    BY <1>1, SettleKeeps
  <1>4. /\ runs'[r].token = runs[r].token /\ runs'[r].retryOf = runs[r].retryOf
        /\ runs'[r].pin = runs[r].pin /\ runs'[r].identity = runs[r].identity
        /\ runs'[r].status = status
    BY <1>2, <1>3 DEF Run
  <1>5. GoesOn(runs, runs')
    BY <1>1, <1>3, <1>4 DEF GoesOn
  <1>6. Completed(runs') = Completed(runs) \cup (IF status = "COMPLETED" THEN {r} ELSE {})
    BY <1>1, <1>3, <1>4, ZenonT(40) DEF Completed
  <1>7. r \notin Completed(runs)
    BY <1>1 DEF Completed
  <1>8. r \in Nat /\ r # 0
    BY <1>2
  <1>9. \A q \in DOMAIN runs : runs'[q].identity = runs[q].identity
    BY <1>3, <1>4
  <1>. QED
    BY <1>1, <1>3, <1>4, <1>5, <1>6, <1>7, <1>8, <1>9

LEMMA TokensKeep ==
  ASSUME NEW ev \in Seq(Event), NEW ev2 \in Seq(Event), Grows(ev, ev2),
         "RUN_RECOVERY_RECORDED" \notin Added(ev, ev2),
         NEW ms, NEW ms2, GoesOn(ms, ms2), DOMAIN ms2 = DOMAIN ms, Tokens(ev, ms)
  PROVE  Tokens(ev2, ms2)
  <1>1. EventsOf(ev2, "RUN_RECOVERY_RECORDED") = EventsOf(ev, "RUN_RECOVERY_RECORDED")
    BY GrownEvents
  <1>2. \A n \in EventsOf(ev, "RUN_RECOVERY_RECORDED") : ev2[n] = ev[n]
    BY DEF EventsOf, Grows
  <1>. QED
    BY <1>1, <1>2 DEF Tokens, GoesOn

(***************************************************************************)
(* One lemma for each action                                               *)
(***************************************************************************)
LEMMA CreateLoads ==
  ASSUME JourneyTypeOK, JourneyInv, CreateJourney
  PROVE  /\ events' # << >> /\ Loads(events', requests', runs', supersessions', formal')
         /\ Tokens(events', runs')
  <1> DEFINE e == NewEvent("JOURNEY_CREATED")
  <1>1. /\ events' = <<e>> /\ runs' = << >> /\ DOMAIN requests' = {}
        /\ supersessions' = {} /\ formal' = {} /\ e.type = "JOURNEY_CREATED"
    BY DEF CreateJourney, JourneyInv, NewEvent
  <1> HIDE DEF e
  <1>2. /\ DOMAIN events' = {1} /\ events'[1].type = "JOURNEY_CREATED" /\ events' # << >>
        /\ DOMAIN runs' = {}
    BY <1>1
  <1>3. RouteEvents(events') = {}
    BY <1>2 DEF RouteEvents, RouteTypes
  <1>4. /\ EventsOf(events', "RUN_LINKED") = {}
        /\ EventsOf(events', "RUN_RECOVERY_RECORDED") = {}
        /\ EventsOf(events', "RESULT_RECORDED") = {}
        /\ EventsOf(events', "RESULT_SUPERSEDED") = {}
        /\ EventsOf(events', "FORMAL_LIFECYCLE_STARTED") = {}
    BY <1>2 DEF EventsOf
  <1>5. EventsLoad(events') /\ RequestsLoad(events', requests')
    BY <1>1, <1>2, <1>3 DEF EventsLoad, RequestsLoad
  <1>6. RunsLoad(runs', runs') /\ RunOrderLoads(events', runs')
    BY <1>2, <1>4 DEF RunsLoad, RunOrderLoads
  <1>7. RecoveriesLoad(events', runs', runs')
    BY <1>2, <1>4 DEF RecoveriesLoad
  <1>8. SupersessionsLoad(events', runs', supersessions') /\ FormalLoads(events', formal')
    <2>1. Completed(runs') = {}
      BY <1>2 DEF Completed
    <2>. QED
      BY <1>1, <1>4, <2>1 DEF SupersessionsLoad, FormalLoads
  <1>9. Tokens(events', runs')
    BY <1>2, <1>4 DEF Tokens
  <1>. QED
    BY <1>2, <1>5, <1>6, <1>7, <1>8, <1>9 DEF Loads

LEMMA SelectLoads ==
  ASSUME JourneyTypeOK, JourneyInv, NEW route \in Routes, NEW token \in RouteTokens,
         NEW expected \in DOMAIN events, SelectRoute(route, token, expected)
  PROVE  /\ events' # << >> /\ Loads(events', requests', runs', supersessions', formal')
         /\ Tokens(events', runs')
  <1>1. events # << >>
    BY DEF SelectRoute, Ready
  <1>2. /\ events \in Seq(Event) /\ Len(events) \in Nat /\ DOMAIN events = 1..Len(events)
        /\ \A t \in DOMAIN requests : requests[t] \in RouteRequest
    BY <1>1, Loaded
  <1>3. UNCHANGED <<runs, supersessions, formal>>
    BY DEF SelectRoute
  <1>4. GoesOn(runs, runs) /\ DOMAIN runs \subseteq DOMAIN runs
    BY DEF GoesOn
  <1>5. CASE /\ ~OnRoute(route)
             /\ events' = Append(events, RouteChosen(route))
             /\ Record(token, route, expected, TRUE, Len(events'), Len(events'))
    <2> DEFINE e == RouteChosen(route)
    <2>1. e \in Event /\ e.type \in RouteTypes /\ e.route = route
      BY RouteChosenType DEF RouteChosen, NewEvent, RouteTypes
    <2> HIDE DEF e
    <2>2. events' = Append(events, e)
      BY <1>5 DEF e
    <2>3. /\ events' \in Seq(Event) /\ Len(events') = Len(events) + 1
          /\ Grows(events, events') /\ Added(events, events') = {e.type}
          /\ events'[Len(events) + 1] = e
      BY <1>2, <2>1, <2>2, OneAdded
    <2>4. EventsLoad(events')
      BY <1>1, <1>5, Loaded, RouteAdds
    <2>5. RequestsLoad(events', requests')
      <3>1. RequestsLoad(events', requests)
        BY <1>1, <1>2, <2>3, Loaded, RequestsLoadKeeps
      <3>2. /\ DOMAIN requests' = DOMAIN requests \cup {token}
            /\ requests'[token] = [route |-> route, expected |-> expected, appended |-> TRUE,
                                   effective |-> Len(events'), after |-> Len(events')]
            /\ \A u \in DOMAIN requests' \ {token} : requests'[u] = requests[u]
        BY <1>5 DEF Record
      <3>3. /\ DOMAIN events' = 1..Len(events') /\ Len(events') \in Nat
            /\ Len(events') \in RouteEvents(events')
        BY <1>2, <2>1, <2>3 DEF RouteEvents
      <3>4. SameRoute(events', Len(events'), Len(events') + 1)
        BY <3>3 DEF SameRoute, RouteEvents
      <3>. QED
        BY <2>1, <2>3, <3>1, <3>2, <3>3, <3>4 DEF RequestsLoad
    <2>6. /\ {"RUN_LINKED", "RUN_RECOVERY_RECORDED", "RESULT_RECORDED", "RESULT_SUPERSEDED",
              "FORMAL_LIFECYCLE_STARTED"} \cap Added(events, events') = {}
      BY <2>1, <2>3 DEF RouteTypes
    <2>7. RunOrderLoads(events', runs)
      BY <1>1, <1>4, <2>3, <2>6, Loaded, RunOrderKeeps
    <2>8. RecoveriesLoad(events', runs, runs)
      BY <1>1, <1>4, <2>3, <2>6, Loaded, RecoveriesKeep
    <2>9. SupersessionsLoad(events', runs, supersessions)
      BY <1>1, <2>3, <2>6, Loaded, SupersessionsKeep
    <2>10. FormalLoads(events', formal)
      BY <1>1, <2>3, <2>6, Loaded, FormalKeeps
    <2>11. Tokens(events', runs)
      BY <1>1, <1>4, <2>3, <2>6, Loaded, TokensKeep
    <2>12. events' # << >> /\ RunsLoad(runs, runs)
      BY <1>1, <1>2, <2>3, Loaded
    <2>. QED
      BY <1>3, <2>4, <2>5, <2>7, <2>8, <2>9, <2>10, <2>11, <2>12 DEF Loads
  <1>6. ASSUME NEW n \in DOMAIN events, Pins(n, route),
               Record(token, route, expected, FALSE, n, Len(events)), UNCHANGED events
        PROVE  /\ events' # << >> /\ Loads(events', requests', runs', supersessions', formal')
               /\ Tokens(events', runs')
    <2>1. /\ DOMAIN requests' = DOMAIN requests \cup {token}
          /\ requests'[token] = [route |-> route, expected |-> expected, appended |-> FALSE,
                                 effective |-> n, after |-> Len(events)]
          /\ \A u \in DOMAIN requests' \ {token} : requests'[u] = requests[u]
      BY <1>6 DEF Record
    <2>2. n \in RouteEvents(events) /\ events[n].route = route /\ n <= Len(events)
      BY <1>2, <1>6 DEF Pins, LatestRoute
    <2>3. SameRoute(events, n, Len(events) + 1)
      BY <1>2, <1>6 DEF SameRoute, Pins, LatestRoute
    <2>4. RequestsLoad(events, requests')
      BY <1>1, <1>2, <2>1, <2>2, <2>3, Loaded DEF RequestsLoad
    <2>. QED
      BY <1>1, <1>3, <1>6, <2>4, Loaded DEF Loads
  <1>. QED
    BY <1>5, <1>6 DEF SelectRoute

LEMMA EvaluateLoads ==
  ASSUME JourneyTypeOK, JourneyInv, NEW id \in Identities, NEW token \in RunTokens,
         NEW pin \in DOMAIN events, Evaluate(id, token, pin)
  PROVE  /\ events' # << >> /\ Loads(events', requests', runs', supersessions', formal')
         /\ Tokens(events', runs')
  <1>1. events # << >>
    BY DEF Evaluate, CanEvaluate, Ready
  <1>2. /\ events \in Seq(Event) /\ Len(events) \in Nat /\ DOMAIN events = 1..Len(events)
        /\ runs \in Seq(Run) /\ Len(runs) \in Nat /\ DOMAIN runs = 1..Len(runs)
        /\ pin \in Nat
    BY <1>1, Loaded
  <1> DEFINE run == [token |-> token, retryOf |-> 0, pin |-> pin,
                     identity |-> id, status |-> "STARTED"]
             e == About("RUN_LINKED", Len(runs) + 1, 0)
  <1>3. /\ run \in Run /\ run.token = token /\ run.retryOf = 0 /\ run.pin = pin
        /\ run.identity = id /\ run.status = "STARTED"
    BY <1>2 DEF Run, RunStatus
  <1>4. e \in Event /\ e.type = "RUN_LINKED" /\ e.run = Len(runs) + 1
    <2>1. Len(runs) + 1 \in Nat /\ 0 \in Nat /\ "RUN_LINKED" \in EventTypes
      BY <1>2 DEF EventTypes
    <2>2. e \in Event
      BY <2>1, AboutType
    <2>. QED
      BY <2>2 DEF About, NewEvent
  <1>5. /\ runs' = Append(runs, run) /\ UNCHANGED <<requests, supersessions, formal>>
        /\ LatestRoute(events, pin) /\ events[pin].route = Explore
        /\ token \notin UsedRunTokens
    BY DEF Evaluate, StartRun, PinsLatestExplore, Pins
  <1>6. Len(runs') = Len(runs) + 1
    <2> HIDE DEF run
    <2>. QED
      BY <1>2, <1>3, <1>5
  <1>7. events' = Append(events, e)
    <2>1. events' = events \o <<About("RUN_LINKED", Len(runs'), 0)>> \o << >>
      BY DEF Evaluate, StartRun
    <2>2. events' = events \o <<e>> \o << >>
      BY <1>6, <2>1
    <2> HIDE DEF e
    <2>. QED
      BY <1>2, <1>4, <2>2
  <1> HIDE DEF run, e
  <1>8. /\ events' \in Seq(Event) /\ Len(events') = Len(events) + 1
        /\ Grows(events, events') /\ Added(events, events') = {"RUN_LINKED"}
        /\ events'[Len(events) + 1] = e /\ Len(events) + 1 \notin DOMAIN events
        /\ EventsOf(events', "RUN_LINKED")
             = EventsOf(events, "RUN_LINKED") \cup {Len(events) + 1}
    <2>1. events \in Seq(Event) /\ e \in Event /\ events' = Append(events, e)
      BY <1>2, <1>4, <1>7
    <2>2. /\ events' \in Seq(Event) /\ Len(events') = Len(events) + 1
          /\ Grows(events, events') /\ Added(events, events') = {e.type}
          /\ events'[Len(events) + 1] = e /\ Len(events) + 1 \notin DOMAIN events
      BY <2>1, OneAdded
    <2>3. EventsOf(events', e.type) = EventsOf(events, e.type) \cup {Len(events) + 1}
      BY <2>1, OneAdded
    <2>. QED
      BY <1>4, <2>2, <2>3
  <1>9. /\ DOMAIN runs' = DOMAIN runs \cup {Len(runs) + 1} /\ Len(runs) + 1 \notin DOMAIN runs
        /\ runs'[Len(runs) + 1] = run
        /\ \A r \in DOMAIN runs : runs'[r] = runs[r]
    BY <1>2, <1>3, <1>5
  <1>10. GoesOn(runs, runs')
    BY <1>9 DEF GoesOn
  <1>11. EventsLoad(events') /\ RequestsLoad(events', requests)
    <2>1. RouteTypes \cap Added(events, events') = {}
      BY <1>8 DEF RouteTypes
    <2>. QED
      BY <1>1, <1>8, <2>1, Loaded, EventsLoadKeeps, RequestsLoadKeeps
  <1>12. RunsLoad(runs', runs')
    BY <1>1, <1>3, <1>9, <1>10, Loaded, RunsLoadKeeps
  <1>13. RunOrderLoads(events', runs')
    BY <1>1, <1>2, <1>3, <1>4, <1>5, <1>8, Loaded, LinkAdds
  <1>14. RecoveriesLoad(events', runs', runs')
    BY <1>1, <1>3, <1>8, <1>9, <1>10, Loaded, RecoveriesKeep
  <1>15. SupersessionsLoad(events', runs', supersessions)
    <2>1. Completed(runs') = Completed(runs)
      BY <1>3, <1>9 DEF Completed
    <2>2. \A r \in Completed(runs) : runs'[r].identity = runs[r].identity
      BY <1>9 DEF Completed
    <2>. QED
      BY <1>1, <1>8, <2>1, <2>2, Loaded, SupersessionsKeep
  <1>16. FormalLoads(events', formal)
    BY <1>1, <1>8, Loaded, FormalKeeps
  <1>17. Tokens(events', runs')
    <2>1. /\ EventsOf(events', "RUN_RECOVERY_RECORDED") = EventsOf(events, "RUN_RECOVERY_RECORDED")
          /\ \A n \in EventsOf(events, "RUN_RECOVERY_RECORDED") : events'[n] = events[n]
      BY <1>8, GrownEvents DEF EventsOf, Grows
    <2>2. \A r \in DOMAIN runs : runs[r].token # token
      BY <1>5 DEF UsedRunTokens
    <2>. QED
      BY <1>1, <1>3, <1>9, <2>1, <2>2, Loaded DEF Tokens
  <1>18. events' # << >>
    BY <1>2, <1>8
  <1>. QED
    BY <1>5, <1>11, <1>12, <1>13, <1>14, <1>15, <1>16, <1>17, <1>18 DEF Loads

LEMMA RetryLoads ==
  ASSUME JourneyTypeOK, JourneyInv, NEW id \in Identities, NEW token \in RunTokens,
         NEW pin \in DOMAIN events, NEW r \in DOMAIN runs, Retry(id, r, token, pin)
  PROVE  /\ events' # << >> /\ Loads(events', requests', runs', supersessions', formal')
         /\ Tokens(events', runs')
  <1>1. events # << >>
    BY DEF Retry, Ready
  <1>2. /\ events \in Seq(Event) /\ Len(events) \in Nat /\ DOMAIN events = 1..Len(events)
        /\ runs \in Seq(Run) /\ Len(runs) \in Nat /\ DOMAIN runs = 1..Len(runs)
        /\ pin \in Nat /\ r \in Nat /\ r # 0
    BY <1>1, Loaded
  <1> DEFINE k == Len(runs) + 1
             run == [token |-> token, retryOf |-> r, pin |-> pin,
                     identity |-> id, status |-> "STARTED"]
             e == About("RUN_LINKED", k, 0)
             f == Recovery(k, r, token)
  <1>3. /\ run \in Run /\ run.token = token /\ run.retryOf = r /\ run.pin = pin
        /\ run.identity = id /\ run.status = "STARTED"
    BY <1>2 DEF Run, RunStatus
  <1>4. /\ e \in Event /\ e.type = "RUN_LINKED" /\ e.run = k
        /\ f \in Event /\ f.type = "RUN_RECOVERY_RECORDED"
        /\ f.run = k /\ f.of = r /\ f.token = token
    <2>1. k \in Nat /\ 0 \in Nat /\ "RUN_LINKED" \in EventTypes
      BY <1>2 DEF EventTypes
    <2>2. e \in Event /\ f \in Event
      BY <1>2, <2>1, AboutType, RecoveryType
    <2>3. e.type = "RUN_LINKED" /\ e.run = k
      BY DEF About, NewEvent
    <2>4. /\ f.type = "RUN_RECOVERY_RECORDED"
          /\ f.run = k /\ f.of = r /\ f.token = token
      BY DEF About, NewEvent, Recovery
    <2>. QED
      BY <2>2, <2>3, <2>4
  <1>5. /\ runs' = Append(runs, run) /\ UNCHANGED <<requests, supersessions, formal>>
        /\ LatestRoute(events, pin) /\ events[pin].route = Explore
        /\ token \notin UsedRunTokens \cup RecoveryTokens
        /\ runs[r].identity = id /\ runs[r].status \in Retryable
    BY DEF Retry, StartRun, PinsLatestExplore, Pins, CanBeRetried, Compatible
  <1>6. Len(runs') = k
    <2> HIDE DEF run
    <2>. QED
      BY <1>2, <1>3, <1>5
  <1>7. events' = events \o <<e>> \o <<f>>
    BY <1>6 DEF Retry, StartRun, Recovered
  <1>8. k \in Nat /\ k # 0 /\ k \notin DOMAIN runs /\ k = Len(runs) + 1
    BY <1>2
  <1> HIDE DEF run, e, f, k
  <1>9. /\ events' \in Seq(Event) /\ Len(events') = Len(events) + 2
        /\ Grows(events, events') /\ Added(events, events') = {"RUN_LINKED", "RUN_RECOVERY_RECORDED"}
        /\ events'[Len(events) + 1] = e /\ Len(events) + 1 \notin DOMAIN events
        /\ events'[Len(events) + 2] = f /\ Len(events) + 2 \notin DOMAIN events
        /\ EventsOf(events', "RUN_LINKED")
             = EventsOf(events, "RUN_LINKED") \cup {Len(events) + 1}
        /\ EventsOf(events', "RUN_RECOVERY_RECORDED")
             = EventsOf(events, "RUN_RECOVERY_RECORDED") \cup {Len(events) + 2}
    <2>1. /\ events' \in Seq(Event) /\ Len(events') = Len(events) + 2
          /\ events'[Len(events) + 1] = e /\ events'[Len(events) + 2] = f
          /\ \A n \in DOMAIN events : events'[n] = events[n]
      BY <1>2, <1>4, <1>7
    <2>2. /\ events \in Seq(Event)
          /\ events'[Len(events) + 1].type = "RUN_LINKED"
          /\ events'[Len(events) + 2].type = "RUN_RECOVERY_RECORDED"
      BY <1>2, <1>4, <2>1
    <2>3. /\ Grows(events, events')
          /\ Added(events, events') = {"RUN_LINKED", "RUN_RECOVERY_RECORDED"}
          /\ Len(events) + 1 \notin DOMAIN events /\ Len(events) + 2 \notin DOMAIN events
      BY <2>1, <2>2, TwoAdded
    <2>4. DOMAIN events' = DOMAIN events \cup {Len(events) + 1, Len(events) + 2}
      <3>1. events \in Seq(Event) /\ events' \in Seq(Event) /\ Len(events') = Len(events) + 2
        BY <1>2, <2>1
      <3>2. /\ DOMAIN events = 1 .. Len(events) /\ DOMAIN events' = 1 .. (Len(events) + 2)
            /\ Len(events) \in Nat
        BY <3>1
      <3>. QED
        BY <3>2
    <2>5. EventsOf(events', "RUN_LINKED") = EventsOf(events, "RUN_LINKED") \cup {Len(events) + 1}
      BY <2>1, <2>2, <2>4 DEF EventsOf
    <2>6. EventsOf(events', "RUN_RECOVERY_RECORDED")
            = EventsOf(events, "RUN_RECOVERY_RECORDED") \cup {Len(events) + 2}
      BY <2>1, <2>2, <2>4 DEF EventsOf
    <2>. QED
      BY <2>1, <2>3, <2>5, <2>6
  <1>10. /\ DOMAIN runs' = DOMAIN runs \cup {k} /\ runs'[k] = run
         /\ \A q \in DOMAIN runs : runs'[q] = runs[q]
    BY <1>2, <1>3, <1>5, <1>8
  <1>11. GoesOn(runs, runs')
    BY <1>10 DEF GoesOn
  <1>12. EventsLoad(events') /\ RequestsLoad(events', requests)
    <2>1. RouteTypes \cap Added(events, events') = {}
      BY <1>9 DEF RouteTypes
    <2>. QED
      BY <1>1, <1>9, <2>1, Loaded, EventsLoadKeeps, RequestsLoadKeeps
  <1>13. \A q \in DOMAIN runs : runs[q].token # token
    BY <1>5 DEF UsedRunTokens
  <1>14. RunsLoad(runs', runs')
    <2>1. \A q \in DOMAIN runs' \ DOMAIN runs :
            /\ runs'[q].retryOf = r /\ runs'[q].token = token /\ runs'[q].identity = id
      BY <1>3, <1>10
    <2>2. runs'[r].token # token
      BY <1>10, <1>13
    <2>. QED
      BY <1>1, <1>5, <1>11, <2>1, <2>2, Loaded, RunsLoadKeeps
  <1>15. RunOrderLoads(events', runs')
    <2>1. /\ run \in Run /\ runs' = Append(runs, run) /\ runs \in Seq(Run)
          /\ Len(events) + 1 \notin DOMAIN events
          /\ events'[Len(events) + 1].run = Len(runs) + 1
          /\ LatestRoute(events, run.pin) /\ events[run.pin].route = Explore
          /\ RunOrderLoads(events, runs)
      BY <1>1, <1>2, <1>3, <1>4, <1>5, <1>8, <1>9, Loaded
    <2>. QED
      BY <1>2, <1>9, <2>1, LinkAdds
  <1>16. \A n \in EventsOf(events, "RUN_RECOVERY_RECORDED") : events[n].token # token
    BY <1>5 DEF RecoveryTokens, EventsOf
  <1>17. RecoveriesLoad(events', runs', runs')
    <2>1. /\ k # 0 /\ k \notin DOMAIN runs /\ DOMAIN runs' = DOMAIN runs \cup {k}
          /\ runs'[k].retryOf = r /\ runs'[k].token = token
          /\ r # 0 /\ r \in DOMAIN runs /\ runs[r].status \in Retryable
      BY <1>2, <1>3, <1>5, <1>8, <1>10
    <2>2. /\ events'[Len(events) + 2].run = k /\ events'[Len(events) + 2].of = r
          /\ events'[Len(events) + 2].token = token
      BY <1>4, <1>9
    <2>3. /\ events \in Seq(Event) /\ runs \in Seq(Run) /\ RecoveriesLoad(events, runs, runs)
      BY <1>1, Loaded
    <2>. QED
      BY <1>9, <1>11, <1>16, <2>1, <2>2, <2>3, RetryAdds
  <1>18. SupersessionsLoad(events', runs', supersessions)
    <2>1. Completed(runs') = Completed(runs)
      BY <1>3, <1>10 DEF Completed
    <2>2. \A q \in Completed(runs) : runs'[q].identity = runs[q].identity
      BY <1>10 DEF Completed
    <2>. QED
      BY <1>1, <1>9, <2>1, <2>2, Loaded, SupersessionsKeep
  <1>19. FormalLoads(events', formal)
    BY <1>1, <1>9, Loaded, FormalKeeps
  <1>20. Tokens(events', runs')
    <2>1. \A n \in EventsOf(events, "RUN_RECOVERY_RECORDED") :
            events'[n] = events[n] /\ events[n].token # token
      BY <1>9, <1>16 DEF EventsOf, Grows
    <2>2. /\ runs'[k].token = token
          /\ \A q \in DOMAIN runs : runs'[q] = runs[q] /\ runs[q].token # token
      BY <1>3, <1>10, <1>13
    <2>3. \A q, o \in DOMAIN runs' : runs'[q].token = runs'[o].token => q = o
      BY <1>1, <1>10, <2>2, Loaded DEF Tokens
    <2>4. ASSUME NEW n \in EventsOf(events', "RUN_RECOVERY_RECORDED"), events'[n].run = 0,
                 NEW q \in DOMAIN runs', runs'[q].retryOf # 0
          PROVE  runs'[q].token # events'[n].token
      <3>1. n \in EventsOf(events, "RUN_RECOVERY_RECORDED")
        BY <1>4, <1>8, <1>9, <2>4
      <3>. QED
        BY <1>1, <1>10, <2>1, <2>2, <2>4, <3>1, Loaded DEF Tokens
    <2>. QED
      BY <2>3, <2>4 DEF Tokens
  <1>21. events' # << >>
    BY <1>2, <1>9
  <1>. QED
    BY <1>5, <1>12, <1>14, <1>15, <1>17, <1>18, <1>19, <1>20, <1>21 DEF Loads

LEMMA AbandonLoads ==
  ASSUME JourneyTypeOK, JourneyInv, NEW id \in Identities, NEW token \in RunTokens,
         NEW r \in DOMAIN runs, Abandon(id, r, token)
  PROVE  /\ events' # << >> /\ Loads(events', requests', runs', supersessions', formal')
         /\ Tokens(events', runs')
  <1>1. events # << >> /\ r \in Open /\ runs' = Settle(r, "ABANDONED") /\ "ABANDONED" \in RunStatus
    BY DEF Abandon, CanAbandon, Ready, RunStatus
  <1>2. /\ events \in Seq(Event) /\ Len(events) \in Nat /\ DOMAIN events = 1..Len(events)
        /\ runs \in Seq(Run) /\ r \in Nat
    BY <1>1, Loaded
  <1> DEFINE e == Recovery(0, r, token)
  <1>3. /\ e \in Event /\ e.type = "RUN_RECOVERY_RECORDED"
        /\ e.run = 0 /\ e.of = r /\ e.token = token
    <2>1. e \in Event
      BY <1>2, RecoveryType
    <2>. QED
      BY <2>1 DEF Recovery, About, NewEvent
  <1>4. /\ UNCHANGED <<requests, supersessions, formal>> /\ token \notin RecoveryTokens
    BY DEF Abandon
  <1>5. events' = events \o <<e>>
    BY DEF Abandon, Recovered
  <1> HIDE DEF e
  <1>6. /\ events' \in Seq(Event) /\ Len(events') = Len(events) + 1
        /\ Grows(events, events') /\ Added(events, events') = {e.type}
        /\ events'[Len(events) + 1] = e /\ Len(events) + 1 \notin DOMAIN events
        /\ EventsOf(events', e.type) = EventsOf(events, e.type) \cup {Len(events) + 1}
    <2>1. events \in Seq(Event) /\ e \in Event /\ events' = Append(events, e)
      BY <1>2, <1>3, <1>5
    <2>. QED
      BY <2>1, OneAdded
  <1>7. /\ runs[r].status = "STARTED" /\ runs'[r].status = "ABANDONED"
        /\ GoesOn(runs, runs') /\ DOMAIN runs' = DOMAIN runs
        /\ Completed(runs') = Completed(runs)
        /\ \A q \in DOMAIN runs : runs'[q].identity = runs[q].identity
    BY <1>1, SettleGoesOn
  <1>8. EventsLoad(events') /\ RequestsLoad(events', requests)
    <2>1. RouteTypes \cap Added(events, events') = {}
      BY <1>3, <1>6 DEF RouteTypes
    <2>. QED
      BY <1>1, <1>6, <2>1, Loaded, EventsLoadKeeps, RequestsLoadKeeps
  <1>9. RunsLoad(runs', runs')
    BY <1>1, <1>7, Loaded, RunsLoadKeeps
  <1>10. RunOrderLoads(events', runs')
    BY <1>1, <1>3, <1>6, <1>7, Loaded, RunOrderKeeps
  <1>11. \A n \in EventsOf(events, "RUN_RECOVERY_RECORDED") : events[n].token # token
    BY <1>4 DEF RecoveryTokens, EventsOf
  <1>12. RecoveriesLoad(events', runs', runs')
    <2>1. /\ events \in Seq(Event) /\ runs \in Seq(Run) /\ RecoveriesLoad(events, runs, runs)
      BY <1>1, Loaded
    <2>2. /\ events'[Len(events) + 1].run = 0 /\ events'[Len(events) + 1].of = r
          /\ events'[Len(events) + 1].token = token
          /\ EventsOf(events', "RUN_RECOVERY_RECORDED")
               = EventsOf(events, "RUN_RECOVERY_RECORDED") \cup {Len(events) + 1}
      BY <1>3, <1>6
    <2>. QED
      BY <1>6, <1>7, <1>11, <2>1, <2>2, AbandonAdds, SMTT(30)
  <1>13. SupersessionsLoad(events', runs', supersessions)
    <2>1. \A q \in Completed(runs) : runs'[q].identity = runs[q].identity
      BY <1>7 DEF Completed
    <2>2. {"RESULT_RECORDED", "RESULT_SUPERSEDED"} \cap Added(events, events') = {}
      BY <1>3, <1>6
    <2>. QED
      BY <1>1, <1>6, <1>7, <2>1, <2>2, Loaded, SupersessionsKeep
  <1>14. FormalLoads(events', formal)
    BY <1>1, <1>3, <1>6, Loaded, FormalKeeps
  <1>15. Tokens(events', runs')
    <2>1. Tokens(events, runs) /\ RecoveriesLoad(events, runs, runs)
      BY <1>1, Loaded
    <2>2. \A q \in DOMAIN runs : runs[q].retryOf # 0 => runs[q].token # token
      <3>1. ASSUME NEW q \in DOMAIN runs, runs[q].retryOf # 0
            PROVE  \E n \in EventsOf(events, "RUN_RECOVERY_RECORDED") :
                     events[n].token = runs[q].token
        <4>1. q \in {events[n].run : n \in EventsOf(events, "RUN_RECOVERY_RECORDED")
                        \ {m \in EventsOf(events, "RUN_RECOVERY_RECORDED") : events[m].run = 0}}
          BY <2>1, <3>1 DEF RecoveriesLoad
        <4>2. PICK n \in EventsOf(events, "RUN_RECOVERY_RECORDED")
                     \ {m \in EventsOf(events, "RUN_RECOVERY_RECORDED") : events[m].run = 0} :
                events[n].run = q
          BY <4>1
        <4>3. runs[events[n].run].token = events[n].token
          BY <2>1, <4>2 DEF RecoveriesLoad
        <4>. QED
          BY <4>2, <4>3
      <3>. QED
        BY <1>11, <3>1
    <2>3. ASSUME NEW n \in EventsOf(events', "RUN_RECOVERY_RECORDED"), events'[n].run = 0,
                 NEW q \in DOMAIN runs', runs'[q].retryOf # 0
          PROVE  runs'[q].token # events'[n].token
      <3>1. q \in DOMAIN runs /\ runs[q].retryOf # 0 /\ runs'[q].token = runs[q].token
        BY <1>7, <2>3 DEF GoesOn
      <3>2. CASE n \in EventsOf(events, "RUN_RECOVERY_RECORDED")
        <4>1. events'[n] = events[n]
          BY <1>6, <3>2 DEF EventsOf, Grows
        <4>. QED
          BY <2>1, <2>3, <3>1, <3>2, <4>1 DEF Tokens
      <3>3. CASE n = Len(events) + 1
        BY <1>3, <1>6, <2>2, <3>1, <3>3
      <3>. QED
        BY <1>3, <1>6, <2>3, <3>2, <3>3
    <2>4. \A q, o \in DOMAIN runs' : runs'[q].token = runs'[o].token => q = o
      BY <1>7, <2>1 DEF Tokens, GoesOn
    <2>. QED
      BY <2>3, <2>4 DEF Tokens
  <1>16. events' # << >>
    BY <1>2, <1>6
  <1>. QED
    BY <1>4, <1>8, <1>9, <1>10, <1>12, <1>13, <1>14, <1>15, <1>16 DEF Loads

LEMMA FailLoads ==
  ASSUME JourneyTypeOK, JourneyInv, NEW r \in evaluating, Fail(r), events # << >>
  PROVE  /\ events' # << >> /\ Loads(events', requests', runs', supersessions', formal')
         /\ Tokens(events', runs')
  <1>1. /\ r \in Open /\ runs' = Settle(r, "FAILED") /\ "FAILED" \in RunStatus
        /\ UNCHANGED <<events, requests, supersessions, formal>>
    BY DEF Fail, StillOpen, Open, RunStatus, JourneyTypeOK
  <1>2. /\ GoesOn(runs, runs') /\ DOMAIN runs' = DOMAIN runs
        /\ Completed(runs') = Completed(runs)
        /\ \A q \in DOMAIN runs : runs'[q].identity = runs[q].identity
    BY <1>1, SettleGoesOn
  <1>3. /\ Grows(events, events) /\ Added(events, events) = {} /\ events \in Seq(Event)
        /\ runs \in Seq(Run)
    BY DEF Grows, Added, JourneyTypeOK
  <1>4. RunsLoad(runs', runs')
    BY <1>2, Loaded, RunsLoadKeeps
  <1>5. RunOrderLoads(events, runs')
    BY <1>2, <1>3, Loaded, RunOrderKeeps
  <1>6. RecoveriesLoad(events, runs', runs')
    BY <1>2, <1>3, Loaded, RecoveriesKeep
  <1>7. SupersessionsLoad(events, runs', supersessions)
    <2>1. \A q \in Completed(runs) : runs'[q].identity = runs[q].identity
      BY <1>2 DEF Completed
    <2>. QED
      BY <1>2, <1>3, <2>1, Loaded, SupersessionsKeep
  <1>8. Tokens(events, runs')
    BY <1>2, <1>3, Loaded, TokensKeep
  <1>. QED
    BY <1>1, <1>4, <1>5, <1>6, <1>7, <1>8, Loaded DEF Loads

LEMMA StartFormalLoads ==
  ASSUME JourneyTypeOK, JourneyInv, NEW token \in FormalTokens, NEW pin \in DOMAIN events,
         NEW context \in 0..Len(runs), StartFormal(token, pin, context)
  PROVE  /\ events' # << >> /\ Loads(events', requests', runs', supersessions', formal')
         /\ Tokens(events', runs')
  <1> DEFINE e == NewEvent("FORMAL_LIFECYCLE_STARTED")
             f == [token |-> token, pin |-> pin, context |-> context]
  <1>1. /\ events # << >> /\ events' = Append(events, e) /\ formal = {} /\ formal' = {f}
        /\ UNCHANGED <<requests, runs, supersessions>>
        /\ LatestRoute(events, pin) /\ events[pin].route = Organisational
    BY DEF StartFormal, Ready, NoFormal, PinsLatestOrganisational, Pins
  <1>2. /\ events \in Seq(Event) /\ Len(events) \in Nat /\ DOMAIN events = 1..Len(events)
        /\ runs \in Seq(Run) /\ pin \in Nat /\ context \in Nat
    BY <1>1, Loaded
  <1>3. e \in Event /\ e.type = "FORMAL_LIFECYCLE_STARTED" /\ f \in FormalLifecycle /\ f.pin = pin
    <2>1. e \in Event
      BY NewEventType DEF EventTypes
    <2>. QED
      BY <1>2, <2>1 DEF NewEvent, FormalLifecycle
  <1> HIDE DEF e, f
  <1>4. /\ events' \in Seq(Event) /\ Len(events') = Len(events) + 1
        /\ Grows(events, events') /\ Added(events, events') = {e.type}
        /\ events'[Len(events) + 1] = e /\ Len(events) + 1 \notin DOMAIN events
        /\ EventsOf(events', e.type) = EventsOf(events, e.type) \cup {Len(events) + 1}
    <2>1. events \in Seq(Event) /\ e \in Event /\ events' = Append(events, e)
      BY <1>1, <1>2, <1>3
    <2>. QED
      BY <2>1, OneAdded
  <1>5. GoesOn(runs, runs) /\ DOMAIN runs \subseteq DOMAIN runs
    BY DEF GoesOn
  <1>6. /\ (RouteTypes \cup {"RUN_LINKED", "RUN_RECOVERY_RECORDED", "RESULT_RECORDED",
              "RESULT_SUPERSEDED"}) \cap Added(events, events') = {}
    BY <1>3, <1>4 DEF RouteTypes
  <1>7. EventsLoad(events') /\ RequestsLoad(events', requests)
    BY <1>1, <1>4, <1>6, Loaded, EventsLoadKeeps, RequestsLoadKeeps
  <1>8. RunOrderLoads(events', runs)
    BY <1>1, <1>4, <1>5, <1>6, Loaded, RunOrderKeeps
  <1>9. RecoveriesLoad(events', runs, runs)
    BY <1>1, <1>4, <1>5, <1>6, Loaded, RecoveriesKeep
  <1>10. SupersessionsLoad(events', runs, supersessions)
    BY <1>1, <1>4, <1>6, Loaded, SupersessionsKeep
  <1>11. FormalLoads(events', {f})
    <2>1. FormalLoads(events, {})
      BY <1>1, Loaded
    <2>2. /\ Len(events) + 1 \notin DOMAIN events
          /\ EventsOf(events', "FORMAL_LIFECYCLE_STARTED")
               = EventsOf(events, "FORMAL_LIFECYCLE_STARTED") \cup {Len(events) + 1}
          /\ LatestRoute(events, f.pin) /\ events[f.pin].route = Organisational
      BY <1>1, <1>3, <1>4
    <2>. QED
      BY <1>2, <1>3, <1>4, <2>1, <2>2, FormalAdds
  <1>12. Tokens(events', runs)
    BY <1>1, <1>4, <1>5, <1>6, Loaded, TokensKeep
  <1>13. events' # << >>
    BY <1>2, <1>4
  <1>. QED
    BY <1>1, <1>7, <1>8, <1>9, <1>10, <1>11, <1>12, <1>13, Loaded DEF Loads

LEMMA CompleteLoads ==
  ASSUME JourneyTypeOK, JourneyInv, NEW r \in evaluating, Complete(r), events # << >>
  PROVE  /\ events' # << >> /\ Loads(events', requests', runs', supersessions', formal')
         /\ Tokens(events', runs')
  <1>1. /\ r \in Open /\ runs' = Settle(r, "COMPLETED") /\ "COMPLETED" \in RunStatus
        /\ UNCHANGED <<requests, formal>>
    BY DEF Complete, StillOpen, Open, RunStatus, JourneyTypeOK
  <1>2. /\ events \in Seq(Event) /\ Len(events) \in Nat /\ DOMAIN events = 1..Len(events)
        /\ runs \in Seq(Run)
    BY Loaded
  <1>3. /\ r \in DOMAIN runs /\ r \in Nat
        /\ GoesOn(runs, runs') /\ DOMAIN runs' = DOMAIN runs
        /\ r \notin Completed(runs) /\ Completed(runs') = Completed(runs) \cup {r}
        /\ \A q \in DOMAIN runs : runs'[q].identity = runs[q].identity
    BY <1>1, SettleGoesOn
  <1>4. \A q \in Completed(runs) : q \in DOMAIN runs /\ runs'[q].identity = runs[q].identity
    BY <1>3 DEF Completed
  <1> DEFINE e == About("RESULT_RECORDED", r, 0)
  <1>5. e \in Event /\ e.type = "RESULT_RECORDED" /\ e.run = r
    <2>1. "RESULT_RECORDED" \in EventTypes /\ 0 \in Nat
      BY DEF EventTypes
    <2>2. e \in Event
      BY <1>3, <2>1, AboutType
    <2>. QED
      BY <2>2 DEF About, NewEvent
  <1> HIDE DEF e
  <1>6. /\ events' \in Seq(Event) /\ events' # << >> /\ Grows(events, events')
        /\ Added(events, events') \subseteq {"RESULT_RECORDED", "RESULT_SUPERSEDED"}
        /\ SupersessionsLoad(events', runs', supersessions')
    <2>1. CASE events' = Append(events, e) /\ UNCHANGED supersessions
      <3>1. events \in Seq(Event) /\ e \in Event /\ events' = Append(events, e)
        BY <1>2, <1>5, <2>1
      <3>2. /\ events' \in Seq(Event) /\ Len(events') = Len(events) + 1
            /\ Grows(events, events') /\ Added(events, events') = {e.type}
            /\ events'[Len(events) + 1] = e /\ Len(events) + 1 \notin DOMAIN events
        BY <3>1, OneAdded
      <3>3. EventsOf(events', e.type) = EventsOf(events, e.type) \cup {Len(events) + 1}
        BY <3>1, OneAdded
      <3>4. EventsOf(events', "RESULT_SUPERSEDED") = EventsOf(events, "RESULT_SUPERSEDED")
        <4>1. "RESULT_SUPERSEDED" \notin Added(events, events')
          BY <1>5, <3>2
        <4>. QED
          BY <1>2, <3>2, <4>1, GrownEvents
      <3>5. /\ SupersessionsLoad(events, runs, supersessions) /\ supersessions' = supersessions
            /\ events'[Len(events) + 1].run = r
            /\ EventsOf(events', "RESULT_RECORDED")
                 = EventsOf(events, "RESULT_RECORDED") \cup {Len(events) + 1}
        BY <1>5, <2>1, <3>2, <3>3, Loaded
      <3>6. SupersessionsLoad(events', runs', supersessions')
        BY <1>2, <1>3, <1>4, <3>2, <3>4, <3>5, ResultAdds, SMTT(30)
      <3>7. events' # << >>
        BY <1>2, <3>2
      <3>. QED
        BY <1>5, <3>2, <3>6, <3>7
    <2>2. ASSUME NEW p \in DOMAIN runs, Superseded(p, r),
                 events' = events \o <<e, About("RESULT_SUPERSEDED", r, p)>>,
                 supersessions' = supersessions \cup {<<p, r>>}
          PROVE  /\ events' \in Seq(Event) /\ events' # << >> /\ Grows(events, events')
                 /\ Added(events, events') \subseteq {"RESULT_RECORDED", "RESULT_SUPERSEDED"}
                 /\ SupersessionsLoad(events', runs', supersessions')
      <3> DEFINE f == About("RESULT_SUPERSEDED", r, p)
      <3>1. f \in Event /\ f.type = "RESULT_SUPERSEDED" /\ f.run = r /\ f.of = p
        <4>1. "RESULT_SUPERSEDED" \in EventTypes /\ p \in Nat
          BY <1>2 DEF EventTypes
        <4>2. f \in Event
          BY <1>3, <4>1, AboutType
        <4>. QED
          BY <4>2 DEF About, NewEvent
      <3> HIDE DEF f
      <3>2. events' = events \o <<e, f>>
        BY <2>2 DEF f
      <3>3. /\ events' \in Seq(Event) /\ Len(events') = Len(events) + 2
            /\ events'[Len(events) + 1] = e /\ events'[Len(events) + 2] = f
            /\ \A n \in DOMAIN events : events'[n] = events[n]
        BY <1>2, <1>5, <3>1, <3>2
      <3>4. /\ events \in Seq(Event)
            /\ events'[Len(events) + 1].type = "RESULT_RECORDED"
            /\ events'[Len(events) + 2].type = "RESULT_SUPERSEDED"
        BY <1>2, <1>5, <3>1, <3>3
      <3>5. /\ Grows(events, events')
            /\ Added(events, events') = {"RESULT_RECORDED", "RESULT_SUPERSEDED"}
            /\ Len(events) + 1 \notin DOMAIN events /\ Len(events) + 2 \notin DOMAIN events
        BY <3>3, <3>4, TwoAdded
      <3>6. DOMAIN events' = DOMAIN events \cup {Len(events) + 1, Len(events) + 2}
        BY <1>2, <3>3
      <3>7. /\ EventsOf(events', "RESULT_RECORDED")
                 = EventsOf(events, "RESULT_RECORDED") \cup {Len(events) + 1}
        BY <3>3, <3>4, <3>6 DEF EventsOf
      <3>8. /\ EventsOf(events', "RESULT_SUPERSEDED")
                 = EventsOf(events, "RESULT_SUPERSEDED") \cup {Len(events) + 2}
        BY <3>3, <3>4, <3>6 DEF EventsOf
      <3>9. /\ p \in Completed(runs) /\ p < r /\ runs[p].identity = runs'[r].identity
        <4>1. p \in Completed(runs) /\ runs[p].identity = runs[r].identity
          BY <2>2 DEF Superseded, Newest, Results, Compatible, Completed
        <4>2. p # r /\ p \in 1..Len(runs) /\ Len(runs) \in Nat
          BY <1>2, <1>3, <4>1
        <4>3. r = Len(runs)
          BY <1>1 DEF JourneyInv, OpenIsNewest
        <4>. QED
          BY <1>3, <4>1, <4>2, <4>3
      <3>10. /\ SupersessionsLoad(events, runs, supersessions)
             /\ events'[Len(events) + 1].run = r
             /\ events'[Len(events) + 2].of = p /\ events'[Len(events) + 2].run = r
        BY <1>5, <3>1, <3>3, Loaded
      <3>11. SupersessionsLoad(events', runs', supersessions')
        <4>1. supersessions' = supersessions \cup {<<p, r>>}
          BY <2>2
        <4>2. /\ events \in Seq(Event) /\ events' \in Seq(Event) /\ Grows(events, events')
              /\ r \notin Completed(runs) /\ Completed(runs') = Completed(runs) \cup {r}
              /\ \A q \in Completed(runs) : runs'[q].identity = runs[q].identity
              /\ Len(events) + 1 \notin DOMAIN events
              /\ events'[Len(events) + 1].run = r
              /\ SupersessionsLoad(events, runs, supersessions)
          BY <1>2, <1>3, <1>4, <3>3, <3>5, <3>10
        <4>. QED
          BY <3>5, <3>7, <3>8, <3>9, <3>10, <4>1, <4>2, ResultSupersedes
      <3>12. events' # << >>
        BY <1>2, <3>3
      <3>. QED
        BY <3>3, <3>5, <3>11, <3>12
    <2>. QED
      BY <2>1, <2>2 DEF Complete, e
  <1>7. EventsLoad(events') /\ RequestsLoad(events', requests)
    <2>1. RouteTypes \cap Added(events, events') = {}
      BY <1>6 DEF RouteTypes
    <2>. QED
      BY <1>6, <2>1, Loaded, EventsLoadKeeps, RequestsLoadKeeps
  <1>8. RunsLoad(runs', runs')
    BY <1>3, Loaded, RunsLoadKeeps
  <1>9. RunOrderLoads(events', runs')
    BY <1>3, <1>6, Loaded, RunOrderKeeps
  <1>10. RecoveriesLoad(events', runs', runs')
    BY <1>3, <1>6, Loaded, RecoveriesKeep
  <1>11. FormalLoads(events', formal)
    BY <1>6, Loaded, FormalKeeps
  <1>12. Tokens(events', runs')
    BY <1>3, <1>6, Loaded, TokensKeep
  <1>. QED
    BY <1>1, <1>6, <1>7, <1>8, <1>9, <1>10, <1>11, <1>12 DEF Loads

(***************************************************************************)
(* Together                                                                *)
(***************************************************************************)
LEMMA JourneyInvStep ==
  ASSUME JourneyTypeOK, JourneyInv, [Next]_vars
  PROVE  JourneyInv'
  <1>1. OpenIsNewest'
    BY OpenIsNewestStep DEF JourneyInv
  <1>2. ASSUME /\ events' # << >> /\ Loads(events', requests', runs', supersessions', formal')
               /\ Tokens(events', runs')
        PROVE  JourneyInv'
    BY <1>1, <1>2 DEF JourneyInv
  <1>3. ASSUME UNCHANGED <<events, requests, runs, supersessions, formal>>
        PROVE  JourneyInv'
    BY <1>1, <1>3 DEF JourneyInv
  <1>4. ASSUME NEW r \in evaluating PROVE events # << >>
    BY DEF JourneyInv, JourneyTypeOK
  <1>5. CASE CreateJourney
    BY <1>2, <1>5, CreateLoads
  <1>6. ASSUME NEW route \in Routes, NEW t \in RouteTokens, NEW n \in DOMAIN events,
               SelectRoute(route, t, n)
        PROVE  JourneyInv'
    BY <1>2, <1>6, SelectLoads
  <1>7. ASSUME NEW id \in Identities, NEW t \in RunTokens, NEW n \in DOMAIN events,
               Evaluate(id, t, n)
        PROVE  JourneyInv'
    BY <1>2, <1>7, EvaluateLoads
  <1>8. ASSUME NEW id \in Identities, NEW t \in RunTokens, NEW n \in DOMAIN events,
               NEW r \in DOMAIN runs, Retry(id, r, t, n)
        PROVE  JourneyInv'
    BY <1>2, <1>8, RetryLoads
  <1>9. ASSUME NEW id \in Identities, NEW t \in RunTokens, NEW r \in DOMAIN runs,
               Abandon(id, r, t)
        PROVE  JourneyInv'
    BY <1>2, <1>9, AbandonLoads
  <1>10. ASSUME NEW r \in evaluating, Complete(r) PROVE JourneyInv'
    BY <1>2, <1>4, <1>10, CompleteLoads
  <1>11. ASSUME NEW r \in evaluating, Fail(r) PROVE JourneyInv'
    BY <1>2, <1>4, <1>11, FailLoads
  <1>12. ASSUME NEW r \in evaluating, Refused(r) \/ Interrupted(r) PROVE JourneyInv'
    BY <1>3, <1>12 DEF Refused, Interrupted
  <1>13. ASSUME NEW t \in FormalTokens, NEW n \in DOMAIN events, NEW r \in 0..Len(runs),
                StartFormal(t, n, r)
         PROVE  JourneyInv'
    BY <1>2, <1>13, StartFormalLoads
  <1>14. CASE Deactivate
    BY <1>3, <1>14 DEF Deactivate
  <1>15. CASE UNCHANGED vars
    BY <1>3, <1>15 DEF vars
  <1>. QED
    BY <1>5, <1>6, <1>7, <1>8, <1>9, <1>10, <1>11, <1>12, <1>13, <1>14, <1>15 DEF Next

LEMMA JourneyInvHolds == Spec => []JourneyInv
  <1>1. Init => JourneyInv
    BY DEF Init, JourneyInv, OpenIsNewest, Open
  <1>2. JourneyTypeOK /\ JourneyInv /\ [Next]_vars => JourneyInv'
    BY JourneyInvStep
  <1>. QED
    BY <1>1, <1>2, TypeCorrect, PTL DEF Spec

\* No sequence of accepted calls, from any number of windows, writes a history
\* that loading refuses as corrupt, and a token names one piece of work.
THEOREM HistorySoundHolds == Spec => []HistorySound
  <1>1. JourneyTypeOK /\ JourneyInv => HistorySound
    <2> SUFFICES ASSUME JourneyTypeOK, JourneyInv PROVE HistorySound
      OBVIOUS
    <2>1. CASE events = << >>
      <3>1. runs = << >> /\ EventsOf(events, "RUN_RECOVERY_RECORDED") = {}
        BY <2>1 DEF JourneyInv, EventsOf
      <3>. QED
        BY <2>1, <3>1 DEF HistorySound, JourneyStaysReadable, HistoryLoads, OneRunPerToken
    <2>2. CASE events # << >>
      <3>1. ProjectionsLoad(runs, runs) /\ ResultsLoad(runs, runs)
        BY DEF ProjectionsLoad, ResultsLoad
      <3>2. HistoryLoads
        BY <2>2, <3>1, Loaded DEF HistoryLoads
      <3>3. OneRunPerToken
        BY <2>2, Loaded DEF Tokens, OneRunPerToken
      <3>. QED
        BY <3>2, <3>3 DEF HistorySound, JourneyStaysReadable
    <2>. QED
      BY <2>1, <2>2
  <1>. QED
    BY <1>1, TypeCorrect, JourneyInvHolds, PTL

-----------------------------------------------------------------------------
(***************************************************************************)
(* A load that overlaps other windows' writes                              *)
(***************************************************************************)
\* The runs as read later: nothing of their manifests changed, nothing settled
\* changed.
Later(ms, ms2) ==
  \A r \in DOMAIN ms :
    /\ r \in DOMAIN ms2
    /\ ms2[r] = [ms[r] EXCEPT !.status = ms2[r].status]
    /\ ms[r].status # "STARTED" => ms2[r] = ms[r]

LEMMA LaterStill ==
  ASSUME NEW a \in Seq(Run), NEW b \in Seq(Run), NEW c \in Seq(Run),
         Later(a, b), Later(b, c)
  PROVE  Later(a, c)
  <1> SUFFICES ASSUME NEW r \in DOMAIN a
               PROVE  /\ r \in DOMAIN c
                      /\ c[r] = [a[r] EXCEPT !.status = c[r].status]
                      /\ a[r].status # "STARTED" => c[r] = a[r]
    BY DEF Later
  <1>1. /\ r \in DOMAIN b /\ r \in DOMAIN c
        /\ b[r] = [a[r] EXCEPT !.status = b[r].status]
        /\ c[r] = [b[r] EXCEPT !.status = c[r].status]
        /\ a[r].status # "STARTED" => b[r] = a[r]
        /\ b[r].status # "STARTED" => c[r] = b[r]
    BY DEF Later
  <1>2. a[r] \in Run /\ b[r] \in Run /\ c[r] \in Run
    BY <1>1
  <1>3. c[r] = [a[r] EXCEPT !.status = c[r].status]
    BY <1>1, <1>2 DEF Run
  <1>. QED
    BY <1>1, <1>3

\* What the load has read so far agrees with the moment it read the events at.
SeenSoFar ==
  step # "events" =>
    /\ asOf.runs \in Seq(Run)
    /\ RunOrderLoads(seen.ev, asOf.runs)
    /\ SupersessionsLoad(seen.ev, asOf.runs, asOf.supersessions)
    /\ Later(asOf.runs, runs) /\ asOf.supersessions \subseteq supersessions
    /\ step \in {"run_events", "projections", "results", "supersessions", "formal", "returned"}
         => Later(asOf.runs, seen.ms)
    /\ step \in {"projections", "results", "supersessions", "formal", "returned"}
         => Later(asOf.runs, seen.rs)
    /\ step \in {"results", "supersessions", "formal", "returned"}
         => RunOrderLoads(seen.ev, seen.ms)
    /\ step \in {"supersessions", "formal", "returned"}
         => Later(asOf.runs, seen.cs) /\ ResultsLoad(seen.rs, seen.cs)
    /\ step \in {"formal", "returned"}
         => /\ SupersessionsLoad(seen.ev, seen.cs, seen.ss)
            /\ asOf.supersessions \subseteq seen.ss

SeenTypeOK ==
  /\ seen \in [ev : Seq(Event), ms : Seq(Run), rs : Seq(Run), cs : Seq(Run),
               ss : SUBSET (Nat \X Nat)]
  /\ asOf = [runs |-> asOf.runs, supersessions |-> asOf.supersessions, formal |-> asOf.formal]

\* The writes of the other windows leave what was read behind, and nothing else.
LEMMA WritesKeepSeen ==
  ASSUME JourneyTypeOK, JourneyTypeOK', SeenSoFar, [Next]_vars, UNCHANGED readVars
  PROVE  SeenSoFar'
  <1>1. UNCHANGED <<step, seen, asOf>>
    BY DEF readVars
  <1>2. CASE step = "events"
    BY <1>1, <1>2 DEF SeenSoFar
  <1>3. CASE step # "events"
    <2>1. asOf.runs \in Seq(Run) /\ runs \in Seq(Run) /\ runs' \in Seq(Run)
      BY <1>3 DEF SeenSoFar, JourneyTypeOK
    <2>2. Later(runs, runs') /\ supersessions \subseteq supersessions'
      BY RunsKept DEF Later
    <2>3. Later(asOf.runs, runs') /\ asOf.supersessions \subseteq supersessions'
      BY <1>3, <2>1, <2>2, LaterStill DEF SeenSoFar
    <2>. QED
      BY <1>1, <1>3, <2>3 DEF SeenSoFar
  <1>. QED
    BY <1>2, <1>3

\* The next table is read.
LEMMA ReadKeepsSeen ==
  ASSUME JourneyTypeOK, JourneyInv, SeenTypeOK, SeenSoFar, Read, UNCHANGED vars
  PROVE  SeenTypeOK' /\ SeenSoFar'
  <1>1. /\ UNCHANGED <<events, requests, runs, supersessions, formal>>
        /\ events \in Seq(Event) /\ runs \in Seq(Run)
        /\ supersessions \subseteq Nat \X Nat
    <2>1. DOMAIN runs \subseteq Nat
      BY DEF JourneyTypeOK
    <2>. QED
      BY <2>1 DEF vars, JourneyTypeOK
  <1>2. /\ seen.ev \in Seq(Event) /\ seen.ms \in Seq(Run) /\ seen.rs \in Seq(Run)
        /\ seen.cs \in Seq(Run) /\ seen.ss \in SUBSET (Nat \X Nat)
    BY DEF SeenTypeOK
  <1>3. CASE ReadEvents
    <2>1. /\ RunOrderLoads(events, runs) /\ SupersessionsLoad(events, runs, supersessions)
          /\ step' \in {"requests", "refused"}
      BY <1>3, Loaded DEF ReadEvents, Continue
    <2>2. Later(runs, runs)
      <3>1. \A r \in DOMAIN runs : runs[r] \in Run
        BY <1>1
      <3>. QED
        BY <3>1 DEF Later, Run
    <2>3. /\ seen' = [seen EXCEPT !.ev = events] /\ asOf' = Now
      BY <1>3 DEF ReadEvents
    <2>4. /\ seen'.ev = events /\ asOf'.runs = runs /\ asOf'.supersessions = supersessions
          /\ seen' \in [ev : Seq(Event), ms : Seq(Run), rs : Seq(Run), cs : Seq(Run),
                        ss : SUBSET (Nat \X Nat)]
      BY <1>1, <2>3 DEF SeenTypeOK, Now
    <2>5. SeenTypeOK'
      BY <2>3, <2>4 DEF SeenTypeOK, Now
    <2>. QED
      BY <1>1, <2>1, <2>2, <2>4, <2>5 DEF SeenSoFar
  <1>4. CASE ReadRequests
    <2>1. step # "events" /\ step' \in {"manifests", "refused"} /\ UNCHANGED <<seen, asOf>>
      BY <1>4 DEF ReadRequests, Continue
    <2>. QED
      BY <1>1, <2>1 DEF SeenSoFar, SeenTypeOK
  <1>5. CASE ReadManifests
    <2>1. /\ step # "events" /\ step' = "run_events" /\ UNCHANGED asOf
          /\ seen' = [seen EXCEPT !.ms = runs]
      BY <1>5 DEF ReadManifests
    <2>2. SeenTypeOK' /\ seen'.ms = runs /\ seen'.ev = seen.ev
      BY <1>1, <2>1 DEF SeenTypeOK
    <2>. QED
      BY <1>1, <2>1, <2>2 DEF SeenSoFar
  <1>6. CASE ReadRunEvents
    <2>1. /\ step = "run_events" /\ step' \in {"projections", "refused"} /\ UNCHANGED asOf
          /\ seen' = [seen EXCEPT !.rs = runs]
      BY <1>6 DEF ReadRunEvents, Continue
    <2>2. SeenTypeOK' /\ seen'.rs = runs /\ seen'.ev = seen.ev /\ seen'.ms = seen.ms
      BY <1>1, <2>1 DEF SeenTypeOK
    <2>. QED
      BY <1>1, <2>1, <2>2 DEF SeenSoFar
  <1>7. CASE ReadProjections
    <2>1. /\ step = "projections" /\ UNCHANGED <<seen, asOf>>
          /\ \/ step' = "results" /\ RunOrderLoads(seen.ev, seen.ms)
             \/ step' = "refused"
      BY <1>7 DEF ReadProjections, Continue
    <2>. QED
      BY <1>1, <2>1 DEF SeenSoFar, SeenTypeOK
  <1>8. CASE ReadResults
    <2>1. /\ step = "results" /\ UNCHANGED asOf /\ seen' = [seen EXCEPT !.cs = runs]
          /\ \/ step' = "supersessions" /\ ResultsLoad(seen.rs, runs)
             \/ step' = "refused"
      BY <1>8 DEF ReadResults, Continue
    <2>2. /\ SeenTypeOK' /\ seen'.cs = runs /\ seen'.ev = seen.ev /\ seen'.ms = seen.ms
          /\ seen'.rs = seen.rs
      BY <1>1, <2>1 DEF SeenTypeOK
    <2>. QED
      BY <1>1, <2>1, <2>2 DEF SeenSoFar
  <1>9. CASE ReadSupersessions
    <2>1. /\ step = "supersessions" /\ UNCHANGED asOf
          /\ seen' = [seen EXCEPT !.ss = supersessions]
          /\ \/ step' = "formal" /\ SupersessionsLoad(seen.ev, seen.cs, supersessions)
             \/ step' = "refused"
      BY <1>9 DEF ReadSupersessions, Continue
    <2>2. /\ SeenTypeOK' /\ seen'.ss = supersessions /\ seen'.ev = seen.ev
          /\ seen'.ms = seen.ms /\ seen'.rs = seen.rs /\ seen'.cs = seen.cs
      BY <1>1, <2>1 DEF SeenTypeOK
    <2>. QED
      BY <1>1, <2>1, <2>2 DEF SeenSoFar
  <1>10. CASE ReadFormal
    <2>1. step = "formal" /\ step' \in {"returned", "refused"} /\ UNCHANGED <<seen, asOf>>
      BY <1>10 DEF ReadFormal, Continue
    <2>. QED
      BY <1>1, <2>1 DEF SeenSoFar, SeenTypeOK
  <1>. QED
    BY <1>3, <1>4, <1>5, <1>6, <1>7, <1>8, <1>9, <1>10 DEF Read

\* A load that returns has seen one moment: every run, result and link it read
\* has its event among those read first.
LEMMA SeenIsOneMoment ==
  ASSUME SeenTypeOK, SeenSoFar
  PROVE  ReturnsOneMoment
  <1> SUFFICES ASSUME step = "returned"
               PROVE  /\ DOMAIN seen.ms = DOMAIN asOf.runs
                      /\ Completed(seen.cs) = Completed(asOf.runs)
                      /\ seen.ss = asOf.supersessions
                      /\ \A r \in DOMAIN asOf.runs :
                           seen.rs[r] # asOf.runs[r] =>
                             asOf.runs[r].status = "STARTED" /\ seen.rs[r].status \in Retryable
    BY DEF ReturnsOneMoment
  <1> DEFINE was == asOf.runs
             links == asOf.supersessions
             ev == seen.ev
  <1>1. /\ was \in Seq(Run) /\ RunOrderLoads(ev, was) /\ SupersessionsLoad(ev, was, links)
        /\ Later(was, seen.ms) /\ Later(was, seen.rs) /\ Later(was, seen.cs)
        /\ RunOrderLoads(ev, seen.ms) /\ SupersessionsLoad(ev, seen.cs, seen.ss)
        /\ links \subseteq seen.ss /\ Completed(seen.rs) = Completed(seen.cs)
        /\ seen.rs \in Seq(Run)
    BY DEF SeenSoFar, SeenTypeOK, ResultsLoad
  <1> HIDE DEF was, links, ev
  <1>2. DOMAIN seen.ms = DOMAIN was
    <2>1. ASSUME NEW r \in DOMAIN seen.ms PROVE r \in DOMAIN was
      <3>1. PICK n \in EventsOf(ev, "RUN_LINKED") : ev[n].run = r
        <4>1. One({n \in EventsOf(ev, "RUN_LINKED") : ev[n].run = r})
          BY <1>1 DEF RunOrderLoads
        <4>. QED
          BY <4>1 DEF One
      <3>. QED
        BY <1>1, <3>1 DEF RunOrderLoads
    <2>2. DOMAIN was \subseteq DOMAIN seen.ms
      BY <1>1 DEF Later
    <2>. QED
      BY <2>1, <2>2
  <1>3. Completed(seen.cs) = Completed(was)
    <2>1. ASSUME NEW r \in Completed(seen.cs) PROVE r \in Completed(was)
      <3>1. PICK n \in EventsOf(ev, "RESULT_RECORDED") : ev[n].run = r
        <4>1. One({n \in EventsOf(ev, "RESULT_RECORDED") : ev[n].run = r})
          BY <1>1 DEF SupersessionsLoad
        <4>. QED
          BY <4>1 DEF One
      <3>. QED
        BY <1>1, <3>1 DEF SupersessionsLoad
    <2>2. Completed(was) \subseteq Completed(seen.cs)
      BY <1>1 DEF Later, Completed
    <2>. QED
      BY <2>1, <2>2
  <1>4. seen.ss = links
    <2>1. ASSUME NEW s \in seen.ss PROVE s \in links
      <3>1. PICK n \in EventsOf(ev, "RESULT_SUPERSEDED") : <<ev[n].of, ev[n].run>> = s
        <4>1. One({n \in EventsOf(ev, "RESULT_SUPERSEDED") : <<ev[n].of, ev[n].run>> = s})
          BY <1>1 DEF SupersessionsLoad
        <4>. QED
          BY <4>1 DEF One
      <3>. QED
        BY <1>1, <3>1 DEF SupersessionsLoad
    <2>. QED
      BY <1>1, <2>1
  <1>5. ASSUME NEW r \in DOMAIN was, seen.rs[r] # was[r]
        PROVE  was[r].status = "STARTED" /\ seen.rs[r].status \in Retryable
    <2>1. /\ was[r] \in Run /\ seen.rs[r] \in Run /\ r \in DOMAIN seen.rs
          /\ seen.rs[r] = [was[r] EXCEPT !.status = seen.rs[r].status]
          /\ was[r].status = "STARTED"
      BY <1>1, <1>5 DEF Later
    <2>2. seen.rs[r].status # "STARTED"
      BY <1>5, <2>1 DEF Run
    <2>3. seen.rs[r].status # "COMPLETED"
      BY <1>1, <1>3, <2>1 DEF Completed
    <2>4. seen.rs[r].status \in RunStatus
      BY <2>1 DEF Run
    <2>. QED
      BY <2>1, <2>2, <2>3, <2>4 DEF RunStatus, Retryable
  <1>. QED
    BY <1>2, <1>3, <1>4, <1>5 DEF was, links, ev

\* A load of a journey that others write, table by table and in no transaction,
\* returns the runs, the results and the supersessions of one moment, or refuses.
THEOREM ReturnsOneMomentHolds == ReadsSpec => []ReturnsOneMoment
  <1>1. ReadsInit => Init /\ SeenTypeOK /\ SeenSoFar
    <2>1. ASSUME ReadsInit PROVE SeenTypeOK
      <3>1. << >> \in Seq(Event) /\ << >> \in Seq(Run) /\ {} \in SUBSET (Nat \X Nat)
        OBVIOUS
      <3>. QED
        BY <2>1, <3>1 DEF ReadsInit, SeenTypeOK, NothingSeen, Now
    <2>. QED
      BY <2>1 DEF ReadsInit, SeenSoFar
  <1>2. [ReadsNext]_<<vars, readVars>> => [Next]_vars
    BY DEF ReadsNext
  <1>3. /\ JourneyTypeOK /\ JourneyInv /\ JourneyTypeOK' /\ SeenTypeOK /\ SeenSoFar
        /\ [ReadsNext]_<<vars, readVars>>
        => SeenTypeOK' /\ SeenSoFar'
    <2> SUFFICES ASSUME JourneyTypeOK, JourneyInv, JourneyTypeOK', SeenTypeOK, SeenSoFar,
                        [ReadsNext]_<<vars, readVars>>
                 PROVE  SeenTypeOK' /\ SeenSoFar'
      OBVIOUS
    <2>1. CASE [Next]_vars /\ UNCHANGED readVars
      <3>1. SeenTypeOK'
        BY <2>1 DEF SeenTypeOK, readVars
      <3>. QED
        BY <2>1, <3>1, WritesKeepSeen
    <2>2. CASE Read /\ UNCHANGED vars
      BY <2>2, ReadKeepsSeen
    <2>. QED
      BY <2>1, <2>2 DEF ReadsNext
  <1>4. SeenTypeOK /\ SeenSoFar => ReturnsOneMoment
    BY SeenIsOneMoment
  <1>5. ReadsSpec => Spec
    BY <1>1, <1>2, PTL DEF ReadsSpec, Spec
  <1>. QED
    BY <1>1, <1>3, <1>4, <1>5, TypeCorrect, JourneyInvHolds, PTL DEF ReadsSpec

-----------------------------------------------------------------------------
(***************************************************************************)
(* Lists and finite sets                                                   *)
(***************************************************************************)
\* Least numbers stand in for induction: what fails, fails for a least one.
LEMMA LeastNumber ==
  ASSUME NEW T \in SUBSET Nat, T # {}
  PROVE  \E n \in T : \A m \in T : n <= m
  <1>1. PICK R : R = OpToRel(<, Nat)
    OBVIOUS
  <1>2. \A m, n \in Nat : <<m, n>> \in R <=> m < n
    BY <1>1 DEF OpToRel
  <1>3. IsWellFoundedOn(R, Nat)
    BY <1>1, NatLessThanWellFounded
  <1>4. PICK n \in T : \A m \in T : ~(<<m, n>> \in R)
    BY <1>3, WFMin
  <1>5. \A m \in T : ~(m < n)
    BY <1>2, <1>4
  <1>6. \A m \in T : n <= m
    BY <1>5
  <1>. QED
    BY <1>4, <1>6

LEMMA MinIsMember ==
  ASSUME NEW T \in SUBSET Nat, T # {}
  PROVE  Min(T) \in T
  <1>1. \E n \in T : \A m \in T : n <= m
    BY LeastNumber
  <1>. QED
    BY <1>1 DEF Min

LEMMA SequenceIs ==
  ASSUME NEW S, NEW s \in Seq(S)
  PROVE  IsSequence(s)
  <1>1. \A n \in 1 .. Len(s) : s[n] \in Range(s)
    BY DEF Range
  <1>. QED
    BY <1>1 DEF IsSequence

LEMMA SequenceHas ==
  ASSUME NEW s, IsSequence(s)
  PROVE  /\ s \in Seq(Range(s)) /\ Len(s) \in Nat /\ DOMAIN s = 1 .. Len(s)
         /\ \A n \in 1 .. Len(s) : s[n] \in Range(s)
         /\ \A x \in Range(s) : \E n \in 1 .. Len(s) : s[n] = x
  <1>1. s \in Seq(Range(s))
    BY DEF IsSequence
  <1>2. Len(s) \in Nat /\ DOMAIN s = 1 .. Len(s)
    BY <1>1
  <1>. QED
    BY <1>1, <1>2 DEF Range

LEMMA EmptyIs == IsSequence(<< >>) /\ Len(<< >>) = 0 /\ Range(<< >>) = {}
  <1>1. << >> \in Seq({}) /\ Len(<< >>) = 0 /\ DOMAIN << >> = {}
    OBVIOUS
  <1>2. IsSequence(<< >>)
    BY <1>1, SequenceIs
  <1>. QED
    BY <1>1, <1>2 DEF Range

LEMMA AppendIs ==
  ASSUME NEW s, IsSequence(s), NEW x
  PROVE  /\ IsSequence(Append(s, x)) /\ Len(Append(s, x)) = Len(s) + 1
         /\ Append(s, x)[Len(s) + 1] = x
         /\ \A n \in 1 .. Len(s) : Append(s, x)[n] = s[n]
         /\ Range(Append(s, x)) = Range(s) \cup {x}
  <1>. PICK S : S = Range(s) \cup {x}
    OBVIOUS
  <1>1. s \in Seq(Range(s))
    BY SequenceHas
  <1>2. s \in Seq(S)
    BY <1>1
  <1>3. x \in S
    OBVIOUS
  <1>4. PICK t : t = Append(s, x)
    OBVIOUS
  <1>5. /\ t \in Seq(S) /\ Len(t) = Len(s) + 1 /\ t[Len(s) + 1] = x
        /\ \A n \in 1 .. Len(s) : t[n] = s[n]
    BY <1>2, <1>3, <1>4
  <1>6. Len(s) \in Nat /\ DOMAIN s = 1 .. Len(s) /\ DOMAIN t = 1 .. (Len(s) + 1)
    BY <1>2, <1>5
  <1>7. ASSUME NEW y \in Range(t)
        PROVE  y \in Range(s) \cup {x}
    <2>1. PICK n \in DOMAIN t : t[n] = y
      BY DEF Range
    <2>2. n \in DOMAIN s \/ n = Len(s) + 1
      BY <1>6
    <2>. QED
      BY <1>5, <1>6, <2>1, <2>2 DEF Range
  <1>8. ASSUME NEW y \in Range(s) \cup {x}
        PROVE  y \in Range(t)
    <2>1. CASE y = x
      BY <1>5, <1>6, <2>1 DEF Range
    <2>2. CASE y \in Range(s)
      <3>1. PICK n \in DOMAIN s : s[n] = y
        BY <2>2 DEF Range
      <3>2. n \in DOMAIN t /\ t[n] = y
        BY <1>5, <1>6, <3>1
      <3>. QED
        BY <3>2 DEF Range
    <2>. QED
      BY <2>1, <2>2
  <1>9. Range(t) = Range(s) \cup {x}
    BY <1>7, <1>8
  <1>10. IsSequence(t)
    BY <1>5, SequenceIs
  <1>. QED
    BY <1>4, <1>5, <1>9, <1>10

LEMMA DomainFinite ==
  ASSUME NEW s, IsSequence(s)
  PROVE  IsFiniteSet(DOMAIN s)
  <1>1. Len(s) \in Nat /\ DOMAIN s = 1 .. Len(s)
    BY SequenceHas
  <1>2. IsFiniteSet(1 .. Len(s))
    BY <1>1, FS_Interval
  <1>. QED
    BY <1>1, <1>2

LEMMA RangeFinite ==
  ASSUME NEW f, IsFiniteSet(DOMAIN f)
  PROVE  IsFiniteSet(Range(f))
  <1>1. PICK g : g = [x \in DOMAIN f |-> f[x]]
    OBVIOUS
  <1>2. g \in Surjection(DOMAIN f, Range(f))
    BY <1>1 DEF Surjection, Range
  <1>. QED
    BY <1>2, FS_Surjection

LEMMA SubsetFinite ==
  ASSUME NEW S, IsFiniteSet(S), NEW T, T \subseteq S
  PROVE  IsFiniteSet(T)
  <1>1. T \in SUBSET S
    OBVIOUS
  <1>. QED
    BY <1>1, FS_Subset

\* The union of the values of a function with a finite domain.
LEMMA UnionFinite ==
  ASSUME NEW f, IsFiniteSet(DOMAIN f), \A x \in DOMAIN f : IsFiniteSet(f[x])
  PROVE  IsFiniteSet(UNION Range(f))
  <1>1. IsFiniteSet(Range(f))
    BY RangeFinite
  <1>2. \A T \in Range(f) : IsFiniteSet(T)
    BY DEF Range
  <1>. QED
    BY <1>1, <1>2, FS_UNION

(***************************************************************************)
(* What is found in an activity is a finite number of actions              *)
(***************************************************************************)
LEMMA SourcesFinite ==
  ASSUME NEW activity, ReadableActivity(activity)
  PROVE  IsFiniteSet(AdmittedSources(activity))
  <1>1. PICK A : A = {k \in DOMAIN activity.assertions : Admits(activity.assertions[k])}
    OBVIOUS
  <1>2. IsSequence(activity.assertions)
    BY DEF ReadableActivity
  <1>3. IsFiniteSet(A)
    BY <1>1, <1>2, DomainFinite, SubsetFinite
  <1>4. PICK of : of = [n \in A |-> {Source(activity, n, m) : m \in DOMAIN activity.assertions[n].evidence}]
    OBVIOUS
  <1>5. ASSUME NEW n \in A
        PROVE  IsFiniteSet(of[n])
    <2>1. activity.assertions[n] \in Range(activity.assertions)
      BY <1>1 DEF Range
    <2>2. IsSequence(activity.assertions[n].evidence)
      BY <2>1 DEF ReadableActivity
    <2>3. IsFiniteSet(DOMAIN activity.assertions[n].evidence)
      BY <2>2, DomainFinite
    <2>4. PICK g : g = [m \in DOMAIN activity.assertions[n].evidence |-> Source(activity, n, m)]
      OBVIOUS
    <2>5. IsFiniteSet(Range(g))
      BY <2>3, <2>4, RangeFinite
    <2>6. Range(g) = of[n]
      BY <1>4, <2>4 DEF Range
    <2>. QED
      BY <2>5, <2>6
  <1>6. IsFiniteSet(UNION Range(of))
    BY <1>3, <1>4, <1>5, UnionFinite
  <1>7. Range(of) =
          {{Source(activity, n, m) : m \in DOMAIN activity.assertions[n].evidence} : n \in A}
    BY <1>4 DEF Range
  <1>8. UNION Range(of) = Sources(activity)
    BY <1>1, <1>7 DEF Sources
  <1>9. AdmittedSources(activity) \subseteq Sources(activity)
    BY DEF AdmittedSources
  <1>. QED
    BY <1>6, <1>8, <1>9, SubsetFinite

\* A source is a piece of evidence, so its text is a list.
LEMMA SourceReadable ==
  ASSUME NEW activity, ReadableActivity(activity), NEW s \in AdmittedSources(activity)
  PROVE  IsSequence(s.text)
  <1>1. s \in Sources(activity)
    BY DEF AdmittedSources
  <1>2. PICK n \in DOMAIN activity.assertions :
          s \in {Source(activity, n, m) : m \in DOMAIN activity.assertions[n].evidence}
    BY <1>1 DEF Sources
  <1>3. PICK m \in DOMAIN activity.assertions[n].evidence : s = Source(activity, n, m)
    BY <1>2
  <1>4. activity.assertions[n] \in Range(activity.assertions)
    BY DEF Range
  <1>5. activity.assertions[n].evidence[m] \in Range(activity.assertions[n].evidence)
    BY DEF Range
  <1>6. IsSequence(activity.assertions[n].evidence[m].text)
    BY <1>4, <1>5 DEF ReadableActivity
  <1>7. s.text = activity.assertions[n].evidence[m].text
    BY <1>3 DEF Source
  <1>. QED
    BY <1>6, <1>7

LEMMA ClausesAre ==
  ASSUME NEW text, IsSequence(text)
  PROVE  /\ DOMAIN Clauses(text) = ClauseStarts(text) /\ DOMAIN Clauses(text) \subseteq 1 .. Len(text)
         /\ \A p \in DOMAIN Clauses(text) : \E k \in Int : DOMAIN Clauses(text)[p].phrases = 1 .. k
  <1>1. PICK starts : starts = ClauseStarts(text)
    OBVIOUS
  <1>2. PICK clauses : clauses = Clauses(text)
    OBVIOUS
  <1>3. Len(text) \in Nat /\ DOMAIN text = 1 .. Len(text)
    BY SequenceHas
  <1>4. starts \subseteq DOMAIN text
    BY <1>1 DEF ClauseStarts
  <1>5. DOMAIN clauses = starts
    BY <1>1, <1>2 DEF Clauses, ClausesFrom
  <1>6. ASSUME NEW p \in starts
        PROVE  \E k \in Int : DOMAIN clauses[p].phrases = 1 .. k
    <2>1. PICK T : T = {q \in starts : q > p} \cup {Len(text) + 1}
      OBVIOUS
    <2>2. T \in SUBSET Nat /\ T # {}
      BY <1>3, <1>4, <2>1
    <2>3. PICK m \in Nat : m = Min(T)
      BY <2>2, MinIsMember
    <2>4. clauses[p].phrases = SubSeq(text, p, Min(T) - 1)
      BY <1>1, <1>2, <2>1 DEF Clauses, ClausesFrom
    <2>5. p \in Nat
      BY <1>3, <1>4
    <2>6. DOMAIN clauses[p].phrases = 1 .. (m - 1) - p + 1
      BY <2>3, <2>4, <2>5
    <2>7. (m - 1) - p + 1 \in Int
      BY <2>5
    <2>. QED
      BY <2>6, <2>7
  <1>. QED
    BY <1>1, <1>2, <1>3, <1>4, <1>5, <1>6

LEMMA ClausesFinite ==
  ASSUME NEW text, IsSequence(text)
  PROVE  /\ IsFiniteSet(DOMAIN Clauses(text))
         /\ \A p \in DOMAIN Clauses(text) : IsFiniteSet(DOMAIN Clauses(text)[p].phrases)
  <1>1. PICK clauses : clauses = Clauses(text)
    OBVIOUS
  <1>2. Len(text) \in Nat
    BY SequenceHas
  <1>3. IsFiniteSet(1 .. Len(text))
    BY <1>2, FS_Interval
  <1>4. DOMAIN clauses \subseteq 1 .. Len(text)
    BY <1>1, ClausesAre
  <1>5. IsFiniteSet(DOMAIN clauses)
    BY <1>3, <1>4, SubsetFinite
  <1>6. ASSUME NEW p \in DOMAIN clauses
        PROVE  IsFiniteSet(DOMAIN clauses[p].phrases)
    <2>1. PICK k \in Int : DOMAIN clauses[p].phrases = 1 .. k
      BY <1>1, ClausesAre
    <2>2. IsFiniteSet(1 .. k)
      BY FS_Interval
    <2>. QED
      BY <2>1, <2>2
  <1>. QED
    BY <1>1, <1>5, <1>6

LEMMA DraftsOfFinite ==
  ASSUME NEW activity, NEW s, IsSequence(s.text)
  PROVE  IsFiniteSet(DraftsOf(activity, s))
  <1>1. PICK clauses : clauses = Clauses(s.text)
    OBVIOUS
  <1>2. IsFiniteSet(DOMAIN clauses) /\ \A k \in DOMAIN clauses : IsFiniteSet(DOMAIN clauses[k].phrases)
    BY <1>1, ClausesFinite
  <1>3. PICK of : of = [k \in DOMAIN clauses |->
          {Draft(activity, s, clauses[k], k, i, FieldsAt(clauses[k], i), SomeMarked(clauses, "trigger")) :
             i \in MatchesOf(clauses[k])}]
    OBVIOUS
  <1>4. ASSUME NEW k \in DOMAIN clauses
        PROVE  IsFiniteSet(of[k])
    <2>1. MatchesOf(clauses[k]) \subseteq DOMAIN clauses[k].phrases
      BY DEF MatchesOf
    <2>2. IsFiniteSet(MatchesOf(clauses[k]))
      BY <1>2, <2>1, SubsetFinite
    <2>3. PICK g : g = [i \in MatchesOf(clauses[k]) |->
            Draft(activity, s, clauses[k], k, i, FieldsAt(clauses[k], i), SomeMarked(clauses, "trigger"))]
      OBVIOUS
    <2>4. IsFiniteSet(Range(g))
      BY <2>2, <2>3, RangeFinite
    <2>5. Range(g) = of[k]
      BY <1>3, <2>3 DEF Range
    <2>. QED
      BY <2>4, <2>5
  <1>5. IsFiniteSet(UNION Range(of))
    BY <1>2, <1>3, <1>4, UnionFinite
  <1>6. Range(of) =
          {{Draft(activity, s, clauses[k], k, i, FieldsAt(clauses[k], i), SomeMarked(clauses, "trigger")) :
              i \in MatchesOf(clauses[k])} : k \in DOMAIN clauses}
    BY <1>3 DEF Range
  <1>7. UNION Range(of) = DraftsOf(activity, s)
    BY <1>1, <1>6 DEF DraftsOf, DraftsIn
  <1>. QED
    BY <1>5, <1>7

(***************************************************************************)
(* Ranks in an order, and the order of positions                           *)
(***************************************************************************)
Ordered(R, S) ==
  /\ \A x \in S : <<x, x>> \notin R
  /\ \A x, y \in S : x # y => <<x, y>> \in R \/ <<y, x>> \in R
  /\ \A x, y, z \in S : <<x, y>> \in R /\ <<y, z>> \in R => <<x, z>> \in R

Smaller(R, S, x) == {y \in S : <<y, x>> \in R}

\* Ranks: every number below that of the elements is that of one element.
LEMMA RanksAreDistinct ==
  ASSUME NEW S, IsFiniteSet(S), NEW R, Ordered(R, S), NEW x \in S, NEW y \in S
  PROVE  /\ Cardinality(Smaller(R, S, x)) \in Nat
         /\ Cardinality(Smaller(R, S, x)) < Cardinality(S)
         /\ <<x, y>> \in R => Cardinality(Smaller(R, S, x)) < Cardinality(Smaller(R, S, y))
  <1>1. PICK U : U = Smaller(R, S, x)
    OBVIOUS
  <1>2. PICK V : V = Smaller(R, S, y)
    OBVIOUS
  <1>3. U \in SUBSET S /\ V \in SUBSET S /\ x \notin U
    BY <1>1, <1>2 DEF Smaller, Ordered
  <1>4. /\ IsFiniteSet(U) /\ Cardinality(U) <= Cardinality(S)
        /\ Cardinality(S) = Cardinality(U) => S = U
    BY <1>3, FS_Subset
  <1>5. IsFiniteSet(V)
    BY <1>3, FS_Subset
  <1>6. Cardinality(U) \in Nat /\ Cardinality(V) \in Nat /\ Cardinality(S) \in Nat
    BY <1>4, <1>5, FS_CardinalityType
  <1>7. Cardinality(U) < Cardinality(S)
    BY <1>3, <1>4, <1>6
  <1>8. ASSUME <<x, y>> \in R PROVE Cardinality(U) < Cardinality(V)
    <2>1. U \in SUBSET V /\ x \in V /\ x \notin U
      BY <1>1, <1>2, <1>3, <1>8 DEF Smaller, Ordered
    <2>2. Cardinality(U) <= Cardinality(V) /\ (Cardinality(V) = Cardinality(U) => V = U)
      BY <1>5, <2>1, FS_Subset
    <2>. QED
      BY <1>6, <2>1, <2>2
  <1>. QED
    BY <1>1, <1>2, <1>6, <1>7, <1>8

LEMMA EveryRank ==
  ASSUME NEW S, IsFiniteSet(S), NEW R, Ordered(R, S), NEW n \in 1 .. Cardinality(S)
  PROVE  \E x \in S : Cardinality(Smaller(R, S, x)) = n - 1
  <1>1. Cardinality(S) \in Nat
    BY FS_CardinalityType
  <1>2. PICK I : I = 1 .. Cardinality(S)
    OBVIOUS
  <1>3. IsFiniteSet(I) /\ Cardinality(I) = Cardinality(S)
    <2>1. IsFiniteSet(I) /\ Cardinality(I) = IF 1 > Cardinality(S) THEN 0 ELSE Cardinality(S) - 1 + 1
      BY <1>1, <1>2, FS_Interval
    <2>. QED
      BY <1>1, <2>1
  <1>4. PICK f : f = [x \in S |-> Cardinality(Smaller(R, S, x)) + 1]
    OBVIOUS
  <1>5. ASSUME NEW x \in S PROVE f[x] \in I
    <2>1. Cardinality(Smaller(R, S, x)) \in Nat /\ Cardinality(Smaller(R, S, x)) < Cardinality(S)
      BY RanksAreDistinct
    <2>. QED
      BY <1>1, <1>2, <1>4, <2>1
  <1>6. f \in [S -> I]
    BY <1>4, <1>5
  <1>7. ASSUME NEW x \in S, NEW y \in S, f[x] = f[y] PROVE x = y
    <2>1. /\ Cardinality(Smaller(R, S, x)) \in Nat /\ Cardinality(Smaller(R, S, y)) \in Nat
          /\ <<x, y>> \in R => Cardinality(Smaller(R, S, x)) < Cardinality(Smaller(R, S, y))
          /\ <<y, x>> \in R => Cardinality(Smaller(R, S, y)) < Cardinality(Smaller(R, S, x))
      BY RanksAreDistinct
    <2>2. Cardinality(Smaller(R, S, x)) = Cardinality(Smaller(R, S, y))
      BY <1>4, <1>7, <2>1
    <2>3. <<x, y>> \notin R /\ <<y, x>> \notin R
      BY <2>1, <2>2
    <2>. QED
      BY <2>3 DEF Ordered
  <1>8. f \in Injection(S, I)
    BY <1>6, <1>7 DEF Injection, IsInjective
  <1>9. f \in Surjection(S, I)
    BY <1>3, <1>8, FS_Injection
  <1>10. PICK x \in S : f[x] = n
    BY <1>2, <1>9 DEF Surjection
  <1>11. Cardinality(Smaller(R, S, x)) \in Nat
    BY RanksAreDistinct
  <1>12. Cardinality(Smaller(R, S, x)) + 1 = n
    BY <1>4, <1>10
  <1>. QED
    BY <1>11, <1>12

\* The places of a word: seven numbers, compared from the first.
Places == [1 .. 7 -> Nat]

LEMMA EarlierTotal ==
  ASSUME NEW p \in Places, NEW q \in Places, p # q
  PROVE  Earlier(p, q) \/ Earlier(q, p)
  <1>1. PICK T : T = {n \in Nat : n \in 1 .. 7 /\ p[n] # q[n]}
    OBVIOUS
  <1>2. T # {}
    <2>1. SUFFICES ASSUME \A n \in 1 .. 7 : p[n] = q[n] PROVE FALSE
      BY <1>1
    <2>. QED
      BY <2>1 DEF Places
  <1>3. T \in SUBSET Nat
    BY <1>1
  <1>4. PICK n \in T : \A m \in T : n <= m
    BY <1>2, <1>3, LeastNumber
  <1>5. n \in 1 .. 7 /\ p[n] # q[n] /\ p[n] \in Nat /\ q[n] \in Nat
    BY <1>1 DEF Places
  <1>6. ASSUME NEW k \in 1 .. n - 1 PROVE p[k] = q[k]
    <2>1. k \in Nat /\ k \in 1 .. 7 /\ ~(n <= k)
      BY <1>5
    <2>. QED
      BY <1>1, <1>4, <2>1
  <1>7. n \in DOMAIN p /\ n \in DOMAIN q
    BY <1>5 DEF Places
  <1>8. p[n] < q[n] \/ q[n] < p[n]
    BY <1>5
  <1>. QED
    BY <1>6, <1>7, <1>8 DEF Earlier

LEMMA EarlierIrreflexive ==
  ASSUME NEW p \in Places
  PROVE  ~Earlier(p, p)
  BY DEF Earlier, Places

LEMMA EarlierTransitive ==
  ASSUME NEW p \in Places, NEW q \in Places, NEW r \in Places, Earlier(p, q), Earlier(q, r)
  PROVE  Earlier(p, r)
  <1>1. DOMAIN p = 1 .. 7 /\ DOMAIN q = 1 .. 7
    BY DEF Places
  <1>2. \A n \in 1 .. 7 : p[n] \in Nat /\ q[n] \in Nat /\ r[n] \in Nat
    BY DEF Places
  <1>3. PICK m \in 1 .. 7 : p[m] < q[m] /\ \A k \in 1 .. m - 1 : p[k] = q[k]
    BY <1>1 DEF Earlier
  <1>4. PICK n \in 1 .. 7 : q[n] < r[n] /\ \A k \in 1 .. n - 1 : q[k] = r[k]
    BY <1>1 DEF Earlier
  <1>5. CASE m < n
    <2>1. m \in 1 .. n - 1 /\ \A k \in 1 .. m - 1 : k \in 1 .. n - 1
      BY <1>5
    <2>2. q[m] = r[m] /\ \A k \in 1 .. m - 1 : p[k] = r[k]
      BY <1>3, <1>4, <2>1
    <2>3. p[m] < r[m]
      BY <1>3, <2>2
    <2>. QED
      BY <1>1, <2>2, <2>3 DEF Earlier
  <1>6. CASE m = n
    <2>1. \A k \in 1 .. m - 1 : p[k] = r[k]
      BY <1>3, <1>4, <1>6
    <2>2. p[m] < r[m]
      BY <1>2, <1>3, <1>4, <1>6
    <2>. QED
      BY <1>1, <2>1, <2>2 DEF Earlier
  <1>7. CASE n < m
    <2>1. n \in 1 .. m - 1 /\ \A k \in 1 .. n - 1 : k \in 1 .. m - 1
      BY <1>7
    <2>2. p[n] = q[n] /\ \A k \in 1 .. n - 1 : p[k] = r[k]
      BY <1>3, <1>4, <2>1
    <2>3. p[n] < r[n]
      BY <1>4, <2>2
    <2>. QED
      BY <1>1, <2>2, <2>3 DEF Earlier
  <1>8. m < n \/ m = n \/ n < m
    OBVIOUS
  <1>. QED
    BY <1>5, <1>6, <1>7, <1>8

\* What a draft was found in: a reference of an assertion, a clause and a word.
FoundAt(activity, d, n, m) ==
  /\ n \in DOMAIN activity.assertions /\ m \in DOMAIN activity.assertions[n].evidence
  /\ d.source = Source(activity, n, m)
  /\ d.clause \in DOMAIN Clauses(d.source.text)
  /\ d.at \in MatchesOf(Clauses(d.source.text)[d.clause])
  /\ d = LET clauses == Clauses(d.source.text) IN
         Draft(activity, d.source, clauses[d.clause], d.clause, d.at,
               FieldsAt(clauses[d.clause], d.at), SomeMarked(clauses, "trigger"))

LEMMA EachIsFoundAt ==
  ASSUME NEW activity, NEW d \in Found(activity)
  PROVE  \E n, m : FoundAt(activity, d, n, m)
  <1>1. PICK s \in AdmittedSources(activity) : d \in DraftsOf(activity, s)
    BY DEF Found
  <1>2. PICK clauses : clauses = Clauses(s.text)
    OBVIOUS
  <1>3. PICK k \in DOMAIN clauses :
          d \in {Draft(activity, s, clauses[k], k, i, FieldsAt(clauses[k], i), SomeMarked(clauses, "trigger")) :
                   i \in MatchesOf(clauses[k])}
    BY <1>1, <1>2 DEF DraftsOf, DraftsIn
  <1>4. PICK i \in MatchesOf(clauses[k]) :
          d = Draft(activity, s, clauses[k], k, i, FieldsAt(clauses[k], i), SomeMarked(clauses, "trigger"))
    BY <1>3
  <1>5. d.source = s /\ d.clause = k /\ d.at = i
    BY <1>4 DEF Draft
  <1>6. s \in Sources(activity)
    BY <1>1 DEF AdmittedSources
  <1>7. PICK n \in DOMAIN activity.assertions :
          s \in {Source(activity, n, m) : m \in DOMAIN activity.assertions[n].evidence}
    BY <1>6 DEF Sources
  <1>8. PICK m \in DOMAIN activity.assertions[n].evidence : s = Source(activity, n, m)
    BY <1>7
  <1>. QED
    BY <1>2, <1>3, <1>4, <1>5, <1>8 DEF FoundAt

LEMMA PositionIs ==
  ASSUME NEW activity, ReadableActivity(activity), NEW d, NEW n, NEW m, FoundAt(activity, d, n, m)
  PROVE  /\ Position(d) \in Places
         /\ Position(d)[3] = d.clause /\ Position(d)[4] = d.at
         /\ Position(d)[6] = n /\ Position(d)[7] = m
  <1>1. PICK a : a = activity.assertions[n]
    OBVIOUS
  <1>2. PICK reference : reference = a.evidence[m]
    OBVIOUS
  <1>3. n \in DOMAIN activity.assertions /\ m \in DOMAIN a.evidence /\ d.source = Source(activity, n, m)
    BY <1>1 DEF FoundAt
  <1>4. a \in Range(activity.assertions) /\ reference \in Range(a.evidence)
    BY <1>1, <1>2, <1>3 DEF Range
  <1>5. /\ IsSequence(activity.assertions) /\ IsSequence(a.evidence) /\ IsSequence(reference.text)
        /\ a.field \in Range(FieldOrder) /\ a.item \in Nat /\ reference.start \in Nat
    BY <1>4 DEF ReadableActivity
  <1>6. n \in Nat /\ m \in Nat
    <2>1. DOMAIN activity.assertions = 1 .. Len(activity.assertions) /\ DOMAIN a.evidence = 1 .. Len(a.evidence)
      BY <1>5, SequenceHas
    <2>. QED
      BY <1>3, <2>1
  <1>7. /\ d.source.field = a.field /\ d.source.item = a.item /\ d.source.start = reference.start
        /\ d.source.text = reference.text /\ d.source.listed = <<n, m>>
    BY <1>1, <1>2, <1>3 DEF Source
  <1>8. Rank(a.field) \in Nat
    <2>1. DOMAIN FieldOrder \subseteq Nat
      BY DEF FieldOrder
    <2>2. \E k \in DOMAIN FieldOrder : FieldOrder[k] = a.field
      BY <1>5 DEF Range
    <2>. QED
      BY <2>1, <2>2 DEF Rank
  <1>9. PICK text : text = d.source.text
    OBVIOUS
  <1>10. IsSequence(text)
    BY <1>5, <1>7, <1>9
  <1>11. PICK clauses : clauses = Clauses(text)
    OBVIOUS
  <1>12. d.clause \in DOMAIN clauses /\ d.at \in MatchesOf(clauses[d.clause])
    BY <1>9, <1>11 DEF FoundAt
  <1>13. DOMAIN clauses \subseteq 1 .. Len(text)
    BY <1>10, <1>11, ClausesAre
  <1>14. d.clause \in Nat
    BY <1>12, <1>13
  <1>15. d.at \in DOMAIN clauses[d.clause].phrases
    BY <1>12 DEF MatchesOf
  <1>16. d.at \in Nat
    <2>1. PICK k \in Int : DOMAIN clauses[d.clause].phrases = 1 .. k
      BY <1>10, <1>11, <1>12, ClausesAre
    <2>. QED
      BY <1>15, <2>1
  <1>17. PICK five : five = <<Rank(d.source.field), d.source.item, d.clause, d.at, d.source.start>>
    OBVIOUS
  <1>18. five \in Seq(Nat) /\ Len(five) = 5
    BY <1>5, <1>7, <1>8, <1>14, <1>16, <1>17
  <1>19. PICK two : two = <<n, m>>
    OBVIOUS
  <1>20. two \in Seq(Nat) /\ Len(two) = 2
    BY <1>6, <1>19
  <1>21. PICK all : all = five \o two
    OBVIOUS
  <1>22. /\ all \in Seq(Nat) /\ Len(all) = Len(five) + Len(two)
         /\ \A i \in 1 .. Len(five) + Len(two) :
              all[i] = IF i <= Len(five) THEN five[i] ELSE two[i - Len(five)]
    BY <1>18, <1>20, <1>21, ConcatProperties
  <1>23. Len(all) = 7
    BY <1>18, <1>20, <1>22
  <1>24. ASSUME NEW i \in 1 .. 7 PROVE all[i] = IF i <= 5 THEN five[i] ELSE two[i - 5]
    BY <1>18, <1>20, <1>22
  <1>25. all[3] = five[3] /\ all[4] = five[4]
    BY <1>24
  <1>26. all[6] = two[1] /\ all[7] = two[2]
    BY <1>24
  <1>27. all \in Places
    BY <1>22, <1>23, LenProperties DEF Places
  <1>28. Position(d) = all
    BY <1>7, <1>17, <1>19, <1>21 DEF Position
  <1>29. five[3] = d.clause /\ five[4] = d.at
    BY <1>17
  <1>30. two[1] = n /\ two[2] = m
    BY <1>19
  <1>. QED
    BY <1>25, <1>26, <1>27, <1>28, <1>29, <1>30

LEMMA PositionTells ==
  ASSUME NEW activity, ReadableActivity(activity), NEW d \in Found(activity), NEW e \in Found(activity),
         Position(d) = Position(e)
  PROVE  d = e
  <1>1. PICK n, m : FoundAt(activity, d, n, m)
    BY EachIsFoundAt
  <1>2. PICK k, l : FoundAt(activity, e, k, l)
    BY EachIsFoundAt
  <1>3. /\ Position(d)[3] = d.clause /\ Position(d)[4] = d.at
        /\ Position(d)[6] = n /\ Position(d)[7] = m
    BY <1>1, PositionIs
  <1>4. /\ Position(e)[3] = e.clause /\ Position(e)[4] = e.at
        /\ Position(e)[6] = k /\ Position(e)[7] = l
    BY <1>2, PositionIs
  <1>5. d.clause = e.clause /\ d.at = e.at /\ n = k /\ m = l
    BY <1>3, <1>4
  <1>6. d.source = Source(activity, n, m) /\ e.source = Source(activity, k, l)
    BY <1>1, <1>2 DEF FoundAt
  <1>7. d.source = e.source
    BY <1>5, <1>6
  <1>8. PICK clauses : clauses = Clauses(d.source.text)
    OBVIOUS
  <1>9. d = Draft(activity, d.source, clauses[d.clause], d.clause, d.at,
                  FieldsAt(clauses[d.clause], d.at), SomeMarked(clauses, "trigger"))
    BY <1>1, <1>8 DEF FoundAt
  <1>10. e = Draft(activity, e.source, clauses[e.clause], e.clause, e.at,
                   FieldsAt(clauses[e.clause], e.at), SomeMarked(clauses, "trigger"))
    BY <1>2, <1>7, <1>8 DEF FoundAt
  <1>. QED
    BY <1>5, <1>7, <1>9, <1>10

LEMMA FoundFinite ==
  ASSUME NEW activity, ReadableActivity(activity)
  PROVE  IsFiniteSet(Found(activity))
  <1>1. PICK of : of = [s \in AdmittedSources(activity) |-> DraftsOf(activity, s)]
    OBVIOUS
  <1>2. IsFiniteSet(DOMAIN of)
    BY <1>1, SourcesFinite
  <1>3. \A s \in DOMAIN of : IsFiniteSet(of[s])
    BY <1>1, SourceReadable, DraftsOfFinite
  <1>4. IsFiniteSet(UNION Range(of))
    BY <1>2, <1>3, UnionFinite
  <1>5. UNION Range(of) = Found(activity)
    BY <1>1 DEF Found, Range
  <1>. QED
    BY <1>4, <1>5

\* The actions of an activity are read in the order of their places, each once
\* (drafts.sort of _evaluate_activity).
THEOREM ActionsAreListedOnce ==
  ASSUME NEW activity, ReadableActivity(activity)
  PROVE  /\ IsSequence(Drafts(activity)) /\ Len(Drafts(activity)) = Cardinality(Found(activity))
         /\ Range(Drafts(activity)) = Found(activity)
         /\ \A i, j \in 1 .. Len(Drafts(activity)) :
              i < j => Earlier(Position(Drafts(activity)[i]), Position(Drafts(activity)[j]))
  <1>1. PICK found : found = Found(activity)
    OBVIOUS
  <1>2. IsFiniteSet(found)
    BY <1>1, FoundFinite
  <1>3. PICK N \in Nat : N = Cardinality(found)
    BY <1>2, FS_CardinalityType
  <1>4. PICK R : R = {z \in found \X found : Earlier(Position(z[1]), Position(z[2]))}
    OBVIOUS
  <1>5. \A d, e \in found : <<d, e>> \in R <=> Earlier(Position(d), Position(e))
    BY <1>4
  <1>6. ASSUME NEW d \in found PROVE Position(d) \in Places
    <2>1. PICK n, m : FoundAt(activity, d, n, m)
      BY <1>1, EachIsFoundAt
    <2>. QED
      BY <2>1, PositionIs
  <1>7. Ordered(R, found)
    <2>1. ASSUME NEW d \in found PROVE <<d, d>> \notin R
      BY <1>5, <1>6, EarlierIrreflexive
    <2>2. ASSUME NEW d \in found, NEW e \in found, d # e PROVE <<d, e>> \in R \/ <<e, d>> \in R
      <3>1. Position(d) # Position(e)
        BY <1>1, <2>2, PositionTells
      <3>2. Position(d) \in Places /\ Position(e) \in Places
        BY <1>6
      <3>3. Earlier(Position(d), Position(e)) \/ Earlier(Position(e), Position(d))
        BY <3>1, <3>2, EarlierTotal
      <3>. QED
        BY <1>5, <3>3
    <2>3. ASSUME NEW d \in found, NEW e \in found, NEW f \in found, <<d, e>> \in R, <<e, f>> \in R
          PROVE  <<d, f>> \in R
      <3>1. Earlier(Position(d), Position(e)) /\ Earlier(Position(e), Position(f))
        BY <1>5, <2>3
      <3>2. Position(d) \in Places /\ Position(e) \in Places /\ Position(f) \in Places
        BY <1>6
      <3>3. Earlier(Position(d), Position(f))
        BY <3>1, <3>2, EarlierTransitive
      <3>. QED
        BY <1>5, <3>3
    <2>. QED
      BY <2>1, <2>2, <2>3 DEF Ordered
  <1>8. ASSUME NEW d \in found
        PROVE  {e \in found : Earlier(Position(e), Position(d))} = Smaller(R, found, d)
    BY <1>5 DEF Smaller
  <1>9. PICK drafts : drafts = Drafts(activity)
    OBVIOUS
  <1>10. drafts = [n \in 1 .. N |-> CHOOSE d \in found :
                     Cardinality({e \in found : Earlier(Position(e), Position(d))}) = n - 1]
    BY <1>1, <1>3, <1>9 DEF Drafts, InOrderOf
  <1>11. ASSUME NEW n \in 1 .. N
         PROVE  drafts[n] \in found /\ Cardinality(Smaller(R, found, drafts[n])) = n - 1
    <2>1. PICK x \in found : Cardinality(Smaller(R, found, x)) = n - 1
      BY <1>2, <1>3, <1>7, EveryRank
    <2>2. Cardinality({e \in found : Earlier(Position(e), Position(x))}) = n - 1
      BY <1>8, <2>1
    <2>3. drafts[n] = CHOOSE d \in found :
             Cardinality({e \in found : Earlier(Position(e), Position(d))}) = n - 1
      BY <1>10
    <2>4. /\ drafts[n] \in found
          /\ Cardinality({e \in found : Earlier(Position(e), Position(drafts[n]))}) = n - 1
      BY <2>2, <2>3
    <2>. QED
      BY <1>8, <2>4
  <1>12. DOMAIN drafts = 1 .. N
    BY <1>10
  <1>13. drafts \in Seq(found)
    <2>1. PICK at : at = [n \in 1 .. N |-> CHOOSE d \in found :
                     Cardinality({e \in found : Earlier(Position(e), Position(d))}) = n - 1]
      OBVIOUS
    <2>2. at = drafts
      BY <1>10, <2>1
    <2>3. \A n \in 1 .. N : at[n] \in found
      BY <1>11, <2>2
    <2>4. at \in [1 .. N -> found]
      BY <2>1, <2>3
    <2>5. at \in Seq(found)
      BY <2>4
    <2>. QED
      BY <2>2, <2>5
  <1>14. Len(drafts) = N
    BY <1>12, <1>13
  <1>15. IsSequence(drafts)
    BY <1>13, SequenceIs
  <1>16. ASSUME NEW i \in 1 .. N, NEW j \in 1 .. N, i < j
         PROVE  Earlier(Position(drafts[i]), Position(drafts[j]))
    <2>1. PICK d \in found : d = drafts[i] /\ Cardinality(Smaller(R, found, d)) = i - 1
      BY <1>11
    <2>2. PICK e \in found : e = drafts[j] /\ Cardinality(Smaller(R, found, e)) = j - 1
      BY <1>11
    <2>3. d # e
      BY <1>16, <2>1, <2>2
    <2>4. <<e, d>> \in R => Cardinality(Smaller(R, found, e)) < Cardinality(Smaller(R, found, d))
      BY <1>2, <1>7, RanksAreDistinct
    <2>5. <<e, d>> \notin R
      BY <1>16, <2>1, <2>2, <2>4
    <2>6. <<d, e>> \in R
      BY <1>7, <2>3, <2>5 DEF Ordered
    <2>. QED
      BY <1>5, <2>1, <2>2, <2>6
  <1>17. ASSUME NEW d \in found PROVE d \in Range(drafts)
    <2>1. PICK rank : rank = Cardinality(Smaller(R, found, d))
      OBVIOUS
    <2>2. rank \in Nat /\ rank < N
      BY <1>2, <1>3, <1>7, <2>1, RanksAreDistinct
    <2>3. PICK n \in 1 .. N : n = rank + 1
      BY <2>2
    <2>4. PICK e \in found : e = drafts[n] /\ Cardinality(Smaller(R, found, e)) = n - 1
      BY <1>11
    <2>5. Cardinality(Smaller(R, found, e)) = rank
      BY <2>2, <2>3, <2>4
    <2>6. <<d, e>> \in R => Cardinality(Smaller(R, found, d)) < Cardinality(Smaller(R, found, e))
      BY <1>2, <1>7, RanksAreDistinct
    <2>7. <<e, d>> \in R => Cardinality(Smaller(R, found, e)) < Cardinality(Smaller(R, found, d))
      BY <1>2, <1>7, RanksAreDistinct
    <2>8. <<d, e>> \notin R /\ <<e, d>> \notin R
      BY <2>1, <2>2, <2>5, <2>6, <2>7
    <2>9. d = e
      BY <1>7, <2>8 DEF Ordered
    <2>. QED
      BY <1>12, <2>4, <2>9 DEF Range
  <1>18. Range(drafts) = found
    <2>1. ASSUME NEW x \in Range(drafts) PROVE x \in found
      BY <1>11, <1>12 DEF Range
    <2>. QED
      BY <1>17, <2>1
  <1>. QED
    BY <1>1, <1>3, <1>9, <1>14, <1>15, <1>16, <1>18

(***************************************************************************)
(* Components: numbered in the order of the drafts                         *)
(***************************************************************************)
BuiltFrom(drafts, last, f) ==
  f = [n \in 0 .. last |-> IF n = 0 THEN << >> ELSE WithNext(f[n - 1], drafts[n])]

\* A recursive function is what its equation says once one that satisfies it
\* is known to exist.
LEMMA BuiltExists ==
  ASSUME NEW drafts, NEW last \in Nat
  PROVE  \E f : BuiltFrom(drafts, last, f)
  <1>. PICK T : T = {n \in Nat : ~ \E f : BuiltFrom(drafts, n, f)}
    OBVIOUS
  <1>. SUFFICES ASSUME T # {} PROVE FALSE
    OBVIOUS
  <1>1. PICK n \in T : \A m \in T : n <= m
    BY LeastNumber
  <1>2. n \in Nat /\ ~ \E f : BuiltFrom(drafts, n, f)
    OBVIOUS
  <1>3. CASE n = 0
    <2>1. PICK f : f = [i \in 0 .. 0 |-> << >>]
      OBVIOUS
    <2>2. f = [i \in 0 .. n |-> IF i = 0 THEN << >> ELSE WithNext(f[i - 1], drafts[i])]
      BY <1>3, <2>1
    <2>. QED
      BY <1>2, <2>2 DEF BuiltFrom
  <1>4. CASE n # 0
    <2>1. n - 1 \in Nat /\ ~(n <= n - 1)
      BY <1>2, <1>4
    <2>2. PICK f : BuiltFrom(drafts, n - 1, f)
      BY <1>1, <2>1
    <2>3. PICK g : g = [i \in 0 .. n |-> IF i = n THEN WithNext(f[n - 1], drafts[n]) ELSE f[i]]
      OBVIOUS
    <2>4. ASSUME NEW i \in 0 .. n
          PROVE  g[i] = IF i = 0 THEN << >> ELSE WithNext(g[i - 1], drafts[i])
      <3>1. CASE i = n
        <4>1. i # 0 /\ i - 1 \in 0 .. n /\ i - 1 # n
          BY <1>2, <1>4, <3>1
        <4>2. g[i - 1] = f[n - 1] /\ g[i] = WithNext(f[n - 1], drafts[n])
          BY <2>3, <3>1, <4>1
        <4>. QED
          BY <3>1, <4>1, <4>2
      <3>2. CASE i # n
        <4>1. i \in 0 .. n - 1 /\ g[i] = f[i]
          BY <1>2, <2>3, <3>2
        <4>2. f[i] = IF i = 0 THEN << >> ELSE WithNext(f[i - 1], drafts[i])
          BY <2>2, <4>1 DEF BuiltFrom
        <4>3. CASE i = 0
          BY <4>1, <4>2, <4>3
        <4>4. CASE i # 0
          <5>1. i - 1 \in 0 .. n /\ i - 1 # n
            BY <1>2, <4>1, <4>4
          <5>2. g[i - 1] = f[i - 1]
            BY <2>3, <5>1
          <5>. QED
            BY <4>1, <4>2, <4>4, <5>2
        <4>. QED
          BY <4>3, <4>4
      <3>. QED
        BY <3>1, <3>2
    <2>5. g = [i \in 0 .. n |-> IF i = 0 THEN << >> ELSE WithNext(g[i - 1], drafts[i])]
      BY <2>3, <2>4
    <2>. QED
      BY <1>2, <2>5 DEF BuiltFrom
  <1>. QED
    BY <1>3, <1>4

\* Components are a list, each with its place in it for a number, and with
\* finitely many reviewed inferences.
Numbered(components) ==
  /\ IsSequence(components)
  /\ \A n \in 1 .. Len(components) : components[n].id = n
  /\ \A n \in 1 .. Len(components) : IsFiniteSet(components[n].reviewed)

LEMMA ComponentNumbered ==
  ASSUME NEW built, Numbered(built), NEW d
  PROVE  Numbered(WithNext(built, d)) /\ Len(WithNext(built, d)) = Len(built) + 1
  <1>1. PICK c : c = Component(built, d)
    OBVIOUS
  <1>2. c.id = Len(built) + 1 /\ c.reviewed = Class(d, "REVIEWED_INFERENCE")
    BY <1>1 DEF Component
  <1>3. IsFiniteSet(c.reviewed)
    <2>1. PICK x : x = <<d.source.evidence, d.source.class>>
      OBVIOUS
    <2>2. c.reviewed = {x} \/ c.reviewed = {}
      BY <1>2, <2>1 DEF Class
    <2>3. IsFiniteSet({x})
      BY FS_Singleton
    <2>4. IsFiniteSet({})
      BY FS_EmptySet
    <2>. QED
      BY <2>2, <2>3, <2>4
  <1>4. PICK next : next = WithNext(built, d)
    OBVIOUS
  <1>5. next = Append(built, c)
    BY <1>1, <1>4 DEF WithNext
  <1>6. IsSequence(built)
    BY DEF Numbered
  <1>7. /\ IsSequence(next) /\ Len(next) = Len(built) + 1
        /\ next[Len(built) + 1] = c /\ \A n \in 1 .. Len(built) : next[n] = built[n]
    BY <1>5, <1>6, AppendIs
  <1>8. Len(built) \in Nat
    BY <1>6, SequenceHas
  <1>9. ASSUME NEW n \in 1 .. Len(next)
        PROVE  next[n].id = n /\ IsFiniteSet(next[n].reviewed)
    <2>1. CASE n = Len(built) + 1
      BY <1>2, <1>3, <1>7, <2>1
    <2>2. CASE n # Len(built) + 1
      <3>1. n \in 1 .. Len(built)
        BY <1>7, <1>8, <2>2
      <3>2. next[n] = built[n]
        BY <1>7, <3>1
      <3>. QED
        BY <3>1, <3>2 DEF Numbered
    <2>. QED
      BY <2>1, <2>2
  <1>. QED
    BY <1>4, <1>7, <1>9 DEF Numbered

LEMMA NoneNumbered == Numbered(<< >>)
  <1>1. IsSequence(<< >>) /\ Len(<< >>) = 0
    BY EmptyIs
  <1>. QED
    BY <1>1 DEF Numbered

LEMMA ComponentsAreNumbered ==
  ASSUME NEW drafts, IsSequence(drafts)
  PROVE  Numbered(ComponentsOf(drafts))
  <1>1. PICK last \in Nat : last = Len(drafts)
    BY SequenceHas
  <1>2. PICK built : built = CHOOSE h : BuiltFrom(drafts, last, h)
    OBVIOUS
  <1>3. BuiltFrom(drafts, last, built)
    BY <1>2, BuiltExists
  <1>4. built = CHOOSE h : h = [n \in 0 .. Len(drafts) |->
                  IF n = 0 THEN << >> ELSE WithNext(h[n - 1], drafts[n])]
    BY <1>1, <1>2 DEF BuiltFrom
  <1>5. ComponentsOf(drafts) = built[last]
    BY <1>1, <1>4 DEF ComponentsOf
  <1>. PICK T : T = {n \in Nat : n <= last /\ ~Numbered(built[n])}
    OBVIOUS
  <1>6. ASSUME T # {} PROVE FALSE
    <2>1. PICK n \in T : \A m \in T : n <= m
      BY <1>6, LeastNumber
    <2>2. n \in Nat /\ n <= last /\ ~Numbered(built[n]) /\ n \in 0 .. last
      OBVIOUS
    <2>3. built[n] = IF n = 0 THEN << >> ELSE WithNext(built[n - 1], drafts[n])
      BY <1>3, <2>2 DEF BuiltFrom
    <2>4. CASE n = 0
      BY <2>2, <2>3, <2>4, NoneNumbered
    <2>5. CASE n # 0
      <3>1. n - 1 \in Nat /\ n - 1 <= last /\ ~(n <= n - 1)
        BY <2>2, <2>5
      <3>2. Numbered(built[n - 1])
        BY <2>1, <3>1
      <3>. QED
        BY <2>2, <2>3, <2>5, <3>2, ComponentNumbered
    <2>. QED
      BY <2>4, <2>5
  <1>7. last <= last /\ last \notin T
    BY <1>6
  <1>. QED
    BY <1>5, <1>7

(***************************************************************************)
(* Groups: each thing that can be resolved is in exactly one opportunity   *)
(***************************************************************************)
LEMMA OneIs ==
  ASSUME NEW x
  PROVE  /\ IsSequence(<<x>>) /\ Len(<<x>>) = 1 /\ <<x>>[1] = x
         /\ Range(<<x>>) = {x}
  <1>1. <<x>> \in Seq({x}) /\ Len(<<x>>) = 1 /\ <<x>>[1] = x /\ DOMAIN <<x>> = {1}
    OBVIOUS
  <1>2. IsSequence(<<x>>)
    BY <1>1, SequenceIs
  <1>3. Range(<<x>>) = {x}
    BY <1>1 DEF Range
  <1>. QED
    BY <1>1, <1>2, <1>3

\* A list of things of one code that were all selected.
GroupOf(group, items) ==
  /\ IsSequence(group) /\ Len(group) >= 1
  /\ \A g \in Range(group) : g \in items /\ g.code = group[1].code /\ g.code \notin Unresolvable

\* The groups are a list, hold everything that can be resolved, and share nothing.
GroupsHold(groups, items) ==
  /\ IsSequence(groups)
  /\ \A k \in 1 .. Len(groups) : GroupOf(groups[k], items)
  /\ \A g \in items : g.code \notin Unresolvable => \E k \in 1 .. Len(groups) : g \in Range(groups[k])
  /\ \A k, l \in 1 .. Len(groups) : k # l => Range(groups[k]) \cap Range(groups[l]) = {}

LEMMA GroupOfMore ==
  ASSUME NEW group, NEW items, GroupOf(group, items), NEW more, items \subseteq more
  PROVE  GroupOf(group, more)
  BY DEF GroupOf

LEMMA GroupOfOne ==
  ASSUME NEW items, NEW item \in items, item.code \notin Unresolvable
  PROVE  GroupOf(<<item>>, items)
  BY OneIs DEF GroupOf

LEMMA GroupJoined ==
  ASSUME NEW group, NEW items, GroupOf(group, items), NEW item \in items,
         item.code \notin Unresolvable, group[1].code = item.code
  PROVE  GroupOf(Append(group, item), items) /\ Range(Append(group, item)) = Range(group) \cup {item}
  <1>1. IsSequence(group) /\ Len(group) >= 1 /\ Len(group) \in Nat
    BY SequenceHas DEF GroupOf
  <1>2. PICK joined : joined = Append(group, item)
    OBVIOUS
  <1>3. /\ IsSequence(joined) /\ Len(joined) = Len(group) + 1
        /\ Range(joined) = Range(group) \cup {item}
        /\ \A n \in 1 .. Len(group) : joined[n] = group[n]
    BY <1>1, <1>2, AppendIs
  <1>4. joined[1] = group[1] /\ Len(joined) >= 1
    BY <1>1, <1>3
  <1>5. ASSUME NEW g \in Range(joined)
        PROVE  g \in items /\ g.code = joined[1].code /\ g.code \notin Unresolvable
    <2>1. CASE g = item
      BY <1>4, <2>1
    <2>2. CASE g \in Range(group)
      BY <1>4, <2>2 DEF GroupOf
    <2>. QED
      BY <1>3, <2>1, <2>2
  <1>. QED
    BY <1>2, <1>3, <1>4, <1>5 DEF GroupOf

LEMMA JoiningHolds ==
  ASSUME NEW groups, NEW items, NEW item, GroupsHold(groups, items), item \notin items,
         item.code \notin Unresolvable, groups # << >>, groups[Len(groups)][1].code = item.code,
         NEW grown, grown = [groups EXCEPT ![Len(groups)] = Append(@, item)]
  PROVE  GroupsHold(grown, items \cup {item})
  <1>1. IsSequence(groups)
    BY DEF GroupsHold
  <1>2. PICK last \in Nat : last = Len(groups)
    BY <1>1, SequenceHas
  <1>3. groups \in Seq(Range(groups)) /\ DOMAIN groups = 1 .. last /\ last # 0
    BY <1>1, <1>2, SequenceHas
  <1>4. last \in 1 .. last
    BY <1>3
  <1>5. PICK more : more = items \cup {item}
    OBVIOUS
  <1>6. PICK joined : joined = Append(groups[last], item)
    OBVIOUS
  <1>7. GroupOf(groups[last], items)
    BY <1>2, <1>4 DEF GroupsHold
  <1>8. GroupOf(groups[last], more)
    BY <1>5, <1>7, GroupOfMore
  <1>9. item \in more
    BY <1>5
  <1>10. GroupOf(joined, more) /\ Range(joined) = Range(groups[last]) \cup {item}
    BY <1>2, <1>6, <1>8, <1>9, GroupJoined
  <1>11. PICK next : next = [groups EXCEPT ![last] = joined]
    OBVIOUS
  <1>12. next = grown
    BY <1>2, <1>6, <1>11
  <1>13. /\ DOMAIN next = 1 .. last /\ next[last] = joined
         /\ \A k \in 1 .. last : k # last => next[k] = groups[k]
    BY <1>3, <1>4, <1>11
  <1>14. IsSequence(next) /\ Len(next) = last
    <2>1. next = [k \in 1 .. last |-> next[k]]
      BY <1>3, <1>11
    <2>2. \A k \in 1 .. last : next[k] \in Range(next)
      BY <1>13 DEF Range
    <2>3. next \in Seq(Range(next))
      BY <2>1, <2>2
    <2>4. Len(next) = last
      BY <1>13, <2>3
    <2>. QED
      BY <2>3, <2>4 DEF IsSequence
  <1>15. ASSUME NEW k \in 1 .. last
         PROVE  GroupOf(next[k], more)
    <2>1. CASE k = last
      BY <1>10, <1>13, <2>1
    <2>2. CASE k # last
      <3>1. GroupOf(groups[k], items) /\ next[k] = groups[k]
        BY <1>2, <1>13, <2>2 DEF GroupsHold
      <3>2. GroupOf(groups[k], more)
        BY <1>5, <3>1, GroupOfMore
      <3>. QED
        BY <3>1, <3>2
    <2>. QED
      BY <2>1, <2>2
  <1>16. ASSUME NEW k \in 1 .. last
         PROVE  Range(next[k]) = Range(groups[k]) \cup (IF k = last THEN {item} ELSE {})
    BY <1>10, <1>13
  <1>17. ASSUME NEW k \in 1 .. last
         PROVE  item \notin Range(groups[k])
    <2>1. GroupOf(groups[k], items)
      BY <1>2 DEF GroupsHold
    <2>. QED
      BY <2>1 DEF GroupOf
  <1>18. ASSUME NEW g \in more, g.code \notin Unresolvable
         PROVE  \E k \in 1 .. last : g \in Range(next[k])
    <2>1. CASE g = item
      BY <1>4, <1>10, <1>13, <2>1
    <2>2. CASE g \in items
      <3>1. PICK k \in 1 .. last : g \in Range(groups[k])
        BY <1>2, <1>18, <2>2 DEF GroupsHold
      <3>2. g \in Range(next[k])
        BY <1>16, <3>1
      <3>. QED
        BY <3>2
    <2>. QED
      BY <1>5, <2>1, <2>2
  <1>19. ASSUME NEW k \in 1 .. last, NEW l \in 1 .. last, k # l
         PROVE  Range(next[k]) \cap Range(next[l]) = {}
    <2>1. Range(groups[k]) \cap Range(groups[l]) = {}
      BY <1>2, <1>19 DEF GroupsHold
    <2>2. item \notin Range(groups[k]) /\ item \notin Range(groups[l])
      BY <1>17
    <2>3. ~(k = last /\ l = last)
      BY <1>19
    <2>4. /\ Range(next[k]) = Range(groups[k]) \cup (IF k = last THEN {item} ELSE {})
          /\ Range(next[l]) = Range(groups[l]) \cup (IF l = last THEN {item} ELSE {})
      BY <1>16
    <2>. QED
      BY <2>1, <2>2, <2>3, <2>4
  <1>20. GroupsHold(next, more)
    BY <1>14, <1>15, <1>18, <1>19 DEF GroupsHold
  <1>. QED
    BY <1>5, <1>12, <1>20

LEMMA OpeningHolds ==
  ASSUME NEW groups, NEW items, NEW item, GroupsHold(groups, items), item \notin items,
         item.code \notin Unresolvable
  PROVE  GroupsHold(Append(groups, <<item>>), items \cup {item})
  <1>1. IsSequence(groups)
    BY DEF GroupsHold
  <1>2. PICK last \in Nat : last = Len(groups)
    BY <1>1, SequenceHas
  <1>3. PICK more : more = items \cup {item}
    OBVIOUS
  <1>4. PICK next : next = Append(groups, <<item>>)
    OBVIOUS
  <1>5. next = Append(groups, <<item>>)
    BY <1>4
  <1>6. /\ IsSequence(next) /\ Len(next) = last + 1 /\ next[last + 1] = <<item>>
        /\ \A k \in 1 .. last : next[k] = groups[k]
    BY <1>1, <1>2, <1>4, AppendIs
  <1>7. Range(next[last + 1]) = {item}
    BY <1>6, OneIs
  <1>8. ASSUME NEW k \in 1 .. last + 1
        PROVE  GroupOf(next[k], more)
    <2>1. CASE k = last + 1
      <3>1. item \in more
        BY <1>3
      <3>2. GroupOf(<<item>>, more)
        BY <3>1, GroupOfOne
      <3>. QED
        BY <1>6, <2>1, <3>2
    <2>2. CASE k # last + 1
      <3>1. k \in 1 .. last
        BY <1>2, <2>2
      <3>2. GroupOf(groups[k], items) /\ next[k] = groups[k]
        BY <1>2, <1>6, <3>1 DEF GroupsHold
      <3>3. GroupOf(groups[k], more)
        BY <1>3, <3>2, GroupOfMore
      <3>. QED
        BY <3>2, <3>3
    <2>. QED
      BY <2>1, <2>2
  <1>9. ASSUME NEW k \in 1 .. last
        PROVE  item \notin Range(groups[k])
    <2>1. GroupOf(groups[k], items)
      BY <1>2 DEF GroupsHold
    <2>. QED
      BY <2>1 DEF GroupOf
  <1>10. last + 1 \in 1 .. last + 1 /\ 1 .. last \subseteq 1 .. last + 1
    BY <1>2
  <1>11. ASSUME NEW g \in more, g.code \notin Unresolvable
         PROVE  \E k \in 1 .. last + 1 : g \in Range(next[k])
    <2>1. CASE g = item
      BY <1>7, <1>10, <2>1
    <2>2. CASE g \in items
      <3>1. PICK k \in 1 .. last : g \in Range(groups[k])
        BY <1>2, <1>11, <2>2 DEF GroupsHold
      <3>2. g \in Range(next[k])
        BY <1>6, <3>1
      <3>. QED
        BY <1>10, <3>2
    <2>. QED
      BY <1>3, <2>1, <2>2
  <1>12. ASSUME NEW k \in 1 .. last + 1, NEW l \in 1 .. last + 1, k # l
         PROVE  Range(next[k]) \cap Range(next[l]) = {}
    <2>1. CASE k \in 1 .. last /\ l \in 1 .. last
      <3>1. Range(groups[k]) \cap Range(groups[l]) = {}
        BY <1>2, <1>12, <2>1 DEF GroupsHold
      <3>. QED
        BY <1>6, <2>1, <3>1
    <2>2. CASE k = last + 1 /\ l \in 1 .. last
      BY <1>6, <1>7, <1>9, <2>2
    <2>3. CASE l = last + 1 /\ k \in 1 .. last
      BY <1>6, <1>7, <1>9, <2>3
    <2>4. (k \in 1 .. last \/ k = last + 1) /\ (l \in 1 .. last \/ l = last + 1)
      BY <1>2
    <2>. QED
      BY <1>12, <2>1, <2>2, <2>3, <2>4
  <1>13. GroupsHold(next, more)
    BY <1>6, <1>8, <1>11, <1>12 DEF GroupsHold
  <1>. QED
    BY <1>3, <1>5, <1>13

LEMMA WithOpportunityHolds ==
  ASSUME NEW groups, NEW items, NEW item, GroupsHold(groups, items), item \notin items
  PROVE  GroupsHold(WithOpportunity(groups, item), items \cup {item})
  <1>1. CASE item.code \in Unresolvable
    <2>1. WithOpportunity(groups, item) = groups
      BY <1>1 DEF WithOpportunity
    <2>2. PICK more : more = items \cup {item}
      OBVIOUS
    <2>3. \A k \in 1 .. Len(groups) : GroupOf(groups[k], more)
      BY <2>2, GroupOfMore DEF GroupsHold
    <2>4. \A g \in more : g.code \notin Unresolvable => g \in items
      BY <1>1, <2>2
    <2>5. GroupsHold(groups, more)
      BY <2>3, <2>4 DEF GroupsHold
    <2>. QED
      BY <2>1, <2>2, <2>5
  <1>2. CASE item.code \notin Unresolvable /\ groups # << >> /\ OpportunityMergeable(groups[Len(groups)], item)
    <2>1. PICK grown : grown = [groups EXCEPT ![Len(groups)] = Append(@, item)]
      OBVIOUS
    <2>2. WithOpportunity(groups, item) = grown
      BY <1>2, <2>1 DEF WithOpportunity, Joined
    <2>3. groups[Len(groups)][1].code = item.code
      BY <1>2 DEF OpportunityMergeable
    <2>4. /\ GroupsHold(groups, items) /\ item \notin items /\ item.code \notin Unresolvable
          /\ groups # << >> /\ groups[Len(groups)][1].code = item.code
      BY <1>2, <2>3
    <2>. QED
      BY <2>1, <2>2, <2>4, JoiningHolds
  <1>3. CASE item.code \notin Unresolvable /\ ~(groups # << >> /\ OpportunityMergeable(groups[Len(groups)], item))
    <2>1. WithOpportunity(groups, item) = Append(groups, <<item>>)
      BY <1>3 DEF WithOpportunity, Joined
    <2>2. GroupsHold(groups, items) /\ item \notin items /\ item.code \notin Unresolvable
      BY <1>3
    <2>. QED
      BY <2>1, <2>2, OpeningHolds
  <1>. QED
    BY <1>1, <1>2, <1>3

GroupedFrom(selections, last, f) ==
  f = [n \in 0 .. last |-> IF n = 0 THEN << >> ELSE WithOpportunity(f[n - 1], selections[n])]

LEMMA GroupedExists ==
  ASSUME NEW selections, NEW last \in Nat
  PROVE  \E f : GroupedFrom(selections, last, f)
  <1>. PICK T : T = {n \in Nat : ~ \E f : GroupedFrom(selections, n, f)}
    OBVIOUS
  <1>. SUFFICES ASSUME T # {} PROVE FALSE
    OBVIOUS
  <1>1. PICK n \in T : \A m \in T : n <= m
    BY LeastNumber
  <1>2. n \in Nat /\ ~ \E f : GroupedFrom(selections, n, f)
    OBVIOUS
  <1>3. CASE n = 0
    <2>1. PICK f : f = [i \in 0 .. 0 |-> << >>]
      OBVIOUS
    <2>2. f = [i \in 0 .. n |-> IF i = 0 THEN << >> ELSE WithOpportunity(f[i - 1], selections[i])]
      BY <1>3, <2>1
    <2>. QED
      BY <1>2, <2>2 DEF GroupedFrom
  <1>4. CASE n # 0
    <2>1. n - 1 \in Nat /\ ~(n <= n - 1)
      BY <1>2, <1>4
    <2>2. PICK f : GroupedFrom(selections, n - 1, f)
      BY <1>1, <2>1
    <2>3. PICK g : g = [i \in 0 .. n |-> IF i = n THEN WithOpportunity(f[n - 1], selections[n]) ELSE f[i]]
      OBVIOUS
    <2>4. ASSUME NEW i \in 0 .. n
          PROVE  g[i] = IF i = 0 THEN << >> ELSE WithOpportunity(g[i - 1], selections[i])
      <3>1. CASE i = n
        <4>1. i # 0 /\ i - 1 \in 0 .. n /\ i - 1 # n
          BY <1>2, <1>4, <3>1
        <4>2. g[i - 1] = f[n - 1] /\ g[i] = WithOpportunity(f[n - 1], selections[n])
          BY <2>3, <3>1, <4>1
        <4>. QED
          BY <3>1, <4>1, <4>2
      <3>2. CASE i # n
        <4>1. i \in 0 .. n - 1 /\ g[i] = f[i]
          BY <1>2, <2>3, <3>2
        <4>2. f[i] = IF i = 0 THEN << >> ELSE WithOpportunity(f[i - 1], selections[i])
          BY <2>2, <4>1 DEF GroupedFrom
        <4>3. CASE i = 0
          BY <4>1, <4>2, <4>3
        <4>4. CASE i # 0
          <5>1. i - 1 \in 0 .. n /\ i - 1 # n
            BY <1>2, <4>1, <4>4
          <5>2. g[i - 1] = f[i - 1]
            BY <2>3, <5>1
          <5>. QED
            BY <4>1, <4>2, <4>4, <5>2
        <4>. QED
          BY <4>3, <4>4
      <3>. QED
        BY <3>1, <3>2
    <2>5. g = [i \in 0 .. n |-> IF i = 0 THEN << >> ELSE WithOpportunity(g[i - 1], selections[i])]
      BY <2>3, <2>4
    <2>. QED
      BY <1>2, <2>5 DEF GroupedFrom
  <1>. QED
    BY <1>3, <1>4

\* Selections are a list of the numbered components.
Selected(selections) ==
  IsSequence(selections) /\ \A n \in 1 .. Len(selections) : selections[n].component.id = n

LEMMA OpportunityGroupsHold ==
  ASSUME NEW selections, Selected(selections)
  PROVE  GroupsHold(OpportunityGroups(selections), Range(selections))
  <1>. DEFINE FirstOf(n) == {selections[i] : i \in 1 .. n}
  <1>1. IsSequence(selections)
    BY DEF Selected
  <1>2. PICK last \in Nat : last = Len(selections)
    BY <1>1, SequenceHas
  <1>3. DOMAIN selections = 1 .. last
    BY <1>1, <1>2, SequenceHas
  <1>4. PICK groups : groups = CHOOSE h : GroupedFrom(selections, last, h)
    OBVIOUS
  <1>5. GroupedFrom(selections, last, groups)
    BY <1>4, GroupedExists
  <1>6. groups = CHOOSE h : h = [n \in 0 .. Len(selections) |->
                   IF n = 0 THEN << >> ELSE WithOpportunity(h[n - 1], selections[n])]
    BY <1>2, <1>4 DEF GroupedFrom
  <1>7. OpportunityGroups(selections) = groups[last]
    BY <1>2, <1>6 DEF OpportunityGroups
  <1>. PICK T : T = {n \in Nat : n <= last /\ ~GroupsHold(groups[n], FirstOf(n))}
    OBVIOUS
  <1>8. ASSUME T # {} PROVE FALSE
    <2>1. PICK n \in T : \A m \in T : n <= m
      BY <1>8, LeastNumber
    <2>2. n \in Nat /\ n <= last /\ ~GroupsHold(groups[n], FirstOf(n)) /\ n \in 0 .. last
      OBVIOUS
    <2>3. groups[n] = IF n = 0 THEN << >> ELSE WithOpportunity(groups[n - 1], selections[n])
      BY <1>5, <2>2 DEF GroupedFrom
    <2>4. CASE n = 0
      <3>1. FirstOf(n) = {}
        BY <2>4
      <3>2. IsSequence(<< >>) /\ Len(<< >>) = 0
        BY EmptyIs
      <3>3. GroupsHold(<< >>, {})
        BY <3>2 DEF GroupsHold
      <3>4. groups[n] = << >>
        BY <2>3, <2>4
      <3>. QED
        BY <2>2, <3>1, <3>3, <3>4
    <2>5. CASE n # 0
      <3>1. n - 1 \in Nat /\ n - 1 <= last /\ ~(n <= n - 1) /\ n \in 1 .. last
        BY <2>2, <2>5
      <3>2. GroupsHold(groups[n - 1], FirstOf(n - 1))
        BY <2>1, <3>1
      <3>3. FirstOf(n) = FirstOf(n - 1) \cup {selections[n]}
        <4>1. 1 .. n = (1 .. n - 1) \cup {n}
          BY <3>1
        <4>. QED
          BY <4>1
      <3>4. selections[n] \notin FirstOf(n - 1)
        <4>1. ASSUME NEW i \in 1 .. n - 1 PROVE selections[i] # selections[n]
          <5>1. i \in 1 .. last /\ i # n
            BY <1>2, <3>1
          <5>2. selections[i].component.id = i /\ selections[n].component.id = n
            BY <1>2, <3>1, <5>1 DEF Selected
          <5>. QED
            BY <5>1, <5>2
        <4>. QED
          BY <4>1
      <3>5. GroupsHold(WithOpportunity(groups[n - 1], selections[n]), FirstOf(n - 1) \cup {selections[n]})
        BY <3>2, <3>4, WithOpportunityHolds
      <3>6. groups[n] = WithOpportunity(groups[n - 1], selections[n])
        BY <2>3, <2>5
      <3>. QED
        BY <2>2, <3>3, <3>5, <3>6
    <2>. QED
      BY <2>4, <2>5
  <1>9. GroupsHold(groups[last], FirstOf(last))
    <2>1. last <= last /\ last \notin T
      BY <1>8
    <2>. QED
      BY <2>1
  <1>10. FirstOf(last) = Range(selections)
    BY <1>3 DEF Range
  <1>. QED
    BY <1>7, <1>9, <1>10

(***************************************************************************)
(* What an opportunity is given is earned                                  *)
(***************************************************************************)
LEMMA CodeEarned ==
  ASSUME NEW c, NEW stated
  PROVE  /\ c.fields.rule = "PD2-016" => Code(c, stated) = "PA2-020"
         /\ Code(c, stated) \in {"PA2-050", "PA2-051", "PA2-052"} =>
              /\ c.fields.rule \in Semantic
              /\ "ASSISTANCE_PROHIBITED" \notin stated /\ "RISK_HIGH" \notin stated
         /\ Code(c, stated) = "PA2-052" => "AUTONOMY_PERMITTED" \in stated
  <1>1. AllowsAutonomy(stated) => "AUTONOMY_PERMITTED" \in stated
    BY DEF AllowsAutonomy, AutonomyBundle
  <1>2. "PD2-016" \notin Semantic
    BY DEF Semantic
  <1>. QED
    BY <1>1, <1>2 DEF Code, Veto, HighRisk

LEMMA DirectionEarned ==
  ASSUME NEW code
  PROVE  /\ code = "PA2-020" => DirectionOf(code) = "LIKELY_HUMAN_LED"
         /\ DirectionOf(code) \in Machines => code \in {"PA2-050", "PA2-051", "PA2-052"}
         /\ DirectionOf(code) = "POTENTIAL_AI_AUTOMATION" => code = "PA2-052"
  BY DEF DirectionOf, Machines

\* Every component rests on an inference, so no opportunity is highly covered.
LEMMA CoverageIs ==
  ASSUME NEW items, \A g \in items : IsFiniteSet(g.component.reviewed),
         NEW group, GroupOf(group, items)
  PROVE  Coverage(group) \in {"LOW", "MEDIUM"}
  <1>1. IsSequence(group) /\ Len(group) >= 1
    BY DEF GroupOf
  <1>2. Len(group) \in Nat /\ 1 \in 1 .. Len(group)
    BY <1>1, SequenceHas
  <1>3. group[1] \in Range(group)
    BY <1>1, <1>2, SequenceHas
  <1>4. IsFiniteSet(Range(group))
    BY <1>1, DomainFinite, RangeFinite
  <1>5. PICK cs : cs = {g.component : g \in Range(group)}
    OBVIOUS
  <1>6. IsFiniteSet(cs)
    <2>1. PICK f : f = [g \in Range(group) |-> g.component]
      OBVIOUS
    <2>2. IsFiniteSet(Range(f))
      BY <1>4, <2>1, RangeFinite
    <2>3. Range(f) = cs
      BY <1>5, <2>1 DEF Range
    <2>. QED
      BY <2>2, <2>3
  <1>7. IsFiniteSet({c.inference : c \in cs})
    <2>1. PICK f : f = [c \in cs |-> c.inference]
      OBVIOUS
    <2>2. IsFiniteSet(Range(f))
      BY <1>6, <2>1, RangeFinite
    <2>3. Range(f) = {c.inference : c \in cs}
      BY <2>1 DEF Range
    <2>. QED
      BY <2>2, <2>3
  <1>8. IsFiniteSet(UNION {c.reviewed : c \in cs})
    <2>1. PICK f : f = [c \in cs |-> c.reviewed]
      OBVIOUS
    <2>2. ASSUME NEW c \in cs
          PROVE  IsFiniteSet(f[c])
      <3>1. PICK g \in Range(group) : c = g.component
        BY <1>5
      <3>2. g \in items
        BY DEF GroupOf
      <3>. QED
        BY <2>1, <3>1, <3>2
    <2>3. IsFiniteSet(UNION Range(f))
      BY <1>6, <2>1, <2>2, UnionFinite
    <2>4. Range(f) = {c.reviewed : c \in cs}
      BY <2>1 DEF Range
    <2>. QED
      BY <2>3, <2>4
  <1>9. PICK on : on = Inferences(cs)
    OBVIOUS
  <1>10. IsFiniteSet(on)
    BY <1>7, <1>8, <1>9, FS_Union DEF Inferences
  <1>11. on # {}
    <2>1. PICK c \in cs : c = group[1].component
      BY <1>3, <1>5
    <2>2. c.inference \in on
      BY <1>9 DEF Inferences
    <2>. QED
      BY <2>2
  <1>12. PICK count \in Nat : count = Cardinality(on)
    BY <1>10, FS_CardinalityType
  <1>13. count # 0
    BY <1>10, <1>11, <1>12, FS_EmptySet
  <1>14. count >= 2 \/ count = 1
    BY <1>13
  <1>15. Coverage(group) =
           IF count >= 2 \/ group[1].code = "PA2-051" THEN "LOW"
           ELSE IF count = 1 THEN "MEDIUM" ELSE "HIGH"
    BY <1>5, <1>9, <1>12 DEF Coverage
  <1>. QED
    BY <1>14, <1>15

Coverages == {"HIGH", "MEDIUM", "LOW"}
LEMMA StrengthIs ==
  /\ Strength["HIGH"] = 0 /\ Strength["MEDIUM"] = 1 /\ Strength["LOW"] = 2
  /\ \A c \in Coverages : Strength[c] <= 2
  /\ \A c \in Coverages : Strength[c] >= 2 => c = "LOW"
  <1>1. Strength["HIGH"] = 0 /\ Strength["MEDIUM"] = 1 /\ Strength["LOW"] = 2
    BY DEF Strength
  <1>. QED
    BY <1>1 DEF Coverages

LEMMA WeakestIs ==
  ASSUME NEW cs \in SUBSET Coverages, cs # {}
  PROVE  /\ Weakest(cs) \in cs
         /\ \A c \in cs : Strength[c] <= Strength[Weakest(cs)]
         /\ "LOW" \in cs => Weakest(cs) = "LOW"
  <1>1. Strength["HIGH"] = 0 /\ Strength["MEDIUM"] = 1 /\ Strength["LOW"] = 2
    BY StrengthIs
  <1>2. \E c \in cs : \A d \in cs : Strength[d] <= Strength[c]
    <2>1. CASE "LOW" \in cs
      BY <1>1, <2>1 DEF Coverages
    <2>2. CASE "LOW" \notin cs /\ "MEDIUM" \in cs
      BY <1>1, <2>2 DEF Coverages
    <2>3. CASE "LOW" \notin cs /\ "MEDIUM" \notin cs
      <3>1. cs = {"HIGH"}
        BY <2>3 DEF Coverages
      <3>. QED
        BY <1>1, <3>1
    <2>. QED
      BY <2>1, <2>2, <2>3
  <1>3. PICK w : w = Weakest(cs)
    OBVIOUS
  <1>4. w \in cs /\ \A c \in cs : Strength[c] <= Strength[w]
    BY <1>2, <1>3 DEF Weakest
  <1>5. "LOW" \in cs => w = "LOW"
    BY <1>1, <1>4, StrengthIs
  <1>. QED
    BY <1>3, <1>4, <1>5

(***************************************************************************)
(* The opportunities of an activity                                        *)
(***************************************************************************)
LEMMA SelectionsAre ==
  ASSUME NEW activity, NEW components, Numbered(components),
         NEW selections, selections = Selections(activity, components)
  PROVE  /\ Selected(selections) /\ Len(selections) = Len(components)
         /\ \A n \in 1 .. Len(components) :
              /\ selections[n].component = components[n]
              /\ selections[n].code = Code(components[n], DocumentedStatements(activity))
         /\ \A g \in Range(selections) : IsFiniteSet(g.component.reviewed)
  <1>1. IsSequence(components)
    BY DEF Numbered
  <1>2. PICK last \in Nat : last = Len(components)
    BY <1>1, SequenceHas
  <1>3. DOMAIN components = 1 .. last
    BY <1>1, <1>2, SequenceHas
  <1>4. PICK at : at = [n \in 1 .. last |->
           [component |-> components[n], need |-> WorkNeedOf(WorkNeeds(components), components[n]),
            code |-> Code(components[n], DocumentedStatements(activity))]]
    OBVIOUS
  <1>5. selections = at
    BY <1>3, <1>4 DEF Selections
  <1>6. DOMAIN selections = 1 .. last /\ selections = [n \in 1 .. last |-> selections[n]]
    BY <1>4, <1>5
  <1>7. \A n \in 1 .. last : selections[n] \in Range(selections)
    BY <1>6 DEF Range
  <1>8. selections \in Seq(Range(selections))
    BY <1>6, <1>7
  <1>9. Len(selections) = last
    BY <1>6, <1>8
  <1>10. ASSUME NEW n \in 1 .. last
         PROVE  /\ selections[n].component = components[n]
                /\ selections[n].code = Code(components[n], DocumentedStatements(activity))
    BY <1>4, <1>5
  <1>11. IsSequence(selections)
    BY <1>8 DEF IsSequence
  <1>12. Selected(selections)
    BY <1>2, <1>9, <1>10, <1>11 DEF Selected, Numbered
  <1>13. ASSUME NEW g \in Range(selections)
         PROVE  IsFiniteSet(g.component.reviewed)
    <2>1. PICK n \in 1 .. last : selections[n] = g
      BY <1>6 DEF Range
    <2>2. g.component = components[n]
      BY <1>10, <2>1
    <2>. QED
      BY <1>2, <2>2 DEF Numbered
  <1>. QED
    BY <1>2, <1>9, <1>10, <1>12, <1>13

LEMMA OpportunitiesAre ==
  ASSUME NEW selections, NEW groups, groups = OpportunityGroups(selections), IsSequence(groups)
  PROVE  /\ IsSequence(Opportunities(selections)) /\ Len(Opportunities(selections)) = Len(groups)
         /\ \A k \in 1 .. Len(groups) : Opportunities(selections)[k] = Opportunity(groups[k])
  <1>1. PICK last \in Nat : last = Len(groups)
    BY SequenceHas
  <1>2. DOMAIN groups = 1 .. last
    BY <1>1, SequenceHas
  <1>3. PICK found : found = Opportunities(selections)
    OBVIOUS
  <1>4. found = [k \in 1 .. last |-> Opportunity(groups[k])]
    BY <1>2, <1>3 DEF Opportunities
  <1>5. DOMAIN found = 1 .. last /\ found = [k \in 1 .. last |-> found[k]]
    BY <1>4
  <1>6. \A k \in 1 .. last : found[k] \in Range(found)
    BY <1>5 DEF Range
  <1>7. found \in Seq(Range(found))
    BY <1>5, <1>6
  <1>8. Len(found) = last
    BY <1>5, <1>7
  <1>9. IsSequence(found)
    BY <1>7 DEF IsSequence
  <1>. QED
    BY <1>1, <1>3, <1>4, <1>8, <1>9

Resolved(selections) == {g \in Range(selections) : g.code \notin Unresolvable}
IdsOf(selections) == {g.component.id : g \in selections}

\* Opportunities share no component, have every one that can be resolved, and
\* are of one code each.
OpportunitiesHold(opportunities, selections) ==
  /\ IsSequence(opportunities)
  /\ \A k, l \in 1 .. Len(opportunities) :
       k # l => opportunities[k].components \cap opportunities[l].components = {}
  /\ UNION {o.components : o \in Range(opportunities)} = IdsOf(Resolved(selections))
  /\ Len(opportunities) = 0 => Resolved(selections) = {}
  /\ \A o \in Range(opportunities) :
       /\ o.coverage \in {"LOW", "MEDIUM"} /\ o.direction = DirectionOf(o.code)
       /\ \E g \in Range(selections) : g.component.id \in o.components
       /\ \A g \in Range(selections) : g.component.id \in o.components => g.code = o.code

LEMMA SelectedById ==
  ASSUME NEW selections, Selected(selections), NEW g \in Range(selections), NEW h \in Range(selections),
         g.component.id = h.component.id
  PROVE  g = h
  <1>1. IsSequence(selections)
    BY DEF Selected
  <1>2. PICK i \in 1 .. Len(selections) : selections[i] = g
    BY <1>1, SequenceHas
  <1>3. PICK j \in 1 .. Len(selections) : selections[j] = h
    BY <1>1, SequenceHas
  <1>4. i = g.component.id /\ j = h.component.id
    BY <1>2, <1>3 DEF Selected
  <1>. QED
    BY <1>2, <1>3, <1>4

LEMMA OpportunitiesAreSound ==
  ASSUME NEW selections, Selected(selections),
         \A g \in Range(selections) : IsFiniteSet(g.component.reviewed),
         NEW opportunities, opportunities = Opportunities(selections)
  PROVE  OpportunitiesHold(opportunities, selections)
  <1>1. PICK groups : groups = OpportunityGroups(selections)
    OBVIOUS
  <1>2. PICK items : items = Range(selections)
    OBVIOUS
  <1>3. GroupsHold(groups, items)
    BY <1>1, <1>2, OpportunityGroupsHold
  <1>4. IsSequence(groups)
    BY <1>3 DEF GroupsHold
  <1>5. PICK last \in Nat : last = Len(groups)
    BY <1>4, SequenceHas
  <1>6. /\ IsSequence(opportunities) /\ Len(opportunities) = last
        /\ \A k \in 1 .. last : opportunities[k] = Opportunity(groups[k])
    BY <1>1, <1>4, <1>5, OpportunitiesAre
  <1>7. ASSUME NEW k \in 1 .. last
        PROVE  /\ GroupOf(groups[k], items) /\ Range(groups[k]) \subseteq items
               /\ groups[k][1] \in Range(groups[k])
               /\ \A g \in Range(groups[k]) : g.code = groups[k][1].code /\ g.code \notin Unresolvable
    <2>1. GroupOf(groups[k], items)
      BY <1>3, <1>5 DEF GroupsHold
    <2>2. IsSequence(groups[k]) /\ Len(groups[k]) >= 1
      BY <2>1 DEF GroupOf
    <2>3. Len(groups[k]) \in Nat /\ 1 \in 1 .. Len(groups[k])
      BY <2>2, SequenceHas
    <2>4. groups[k][1] \in Range(groups[k])
      BY <2>2, <2>3, SequenceHas
    <2>. QED
      BY <2>1, <2>4 DEF GroupOf
  <1>8. ASSUME NEW k \in 1 .. last
        PROVE  /\ opportunities[k].components = IdsOf(Range(groups[k]))
               /\ opportunities[k].code = groups[k][1].code
               /\ opportunities[k].direction = DirectionOf(groups[k][1].code)
               /\ opportunities[k].coverage = Coverage(groups[k])
    BY <1>6 DEF Opportunity, IdsOf
  <1>9. ASSUME NEW k \in 1 .. last, NEW g \in items, g.component.id \in opportunities[k].components
        PROVE  g \in Range(groups[k])
    <2>1. g.component.id \in IdsOf(Range(groups[k]))
      BY <1>8, <1>9
    <2>2. PICK h \in Range(groups[k]) : h.component.id = g.component.id
      BY <2>1 DEF IdsOf
    <2>3. h \in items
      BY <1>7
    <2>4. g = h
      BY <1>2, <2>2, <2>3, SelectedById
    <2>. QED
      BY <2>4
  <1>10. ASSUME NEW k \in 1 .. last, NEW l \in 1 .. last, k # l
         PROVE  opportunities[k].components \cap opportunities[l].components = {}
    <2>1. SUFFICES ASSUME NEW id \in opportunities[k].components, id \in opportunities[l].components
                   PROVE  FALSE
      OBVIOUS
    <2>2. PICK g \in Range(groups[k]) : g.component.id = id
      BY <1>8 DEF IdsOf
    <2>3. g \in items
      BY <1>7
    <2>4. g \in Range(groups[l])
      BY <1>9, <2>1, <2>2, <2>3
    <2>5. Range(groups[k]) \cap Range(groups[l]) = {}
      BY <1>3, <1>5, <1>10 DEF GroupsHold
    <2>. QED
      BY <2>4, <2>5
  <1>11. \A o \in Range(opportunities) : \E k \in 1 .. last : opportunities[k] = o
    BY <1>6, SequenceHas
  <1>12. \A k \in 1 .. last : opportunities[k] \in Range(opportunities)
    BY <1>6, SequenceHas
  <1>13. ASSUME NEW id \in UNION {o.components : o \in Range(opportunities)}
         PROVE  id \in IdsOf(Resolved(selections))
    <2>1. PICK k \in 1 .. last : id \in opportunities[k].components
      BY <1>11
    <2>2. PICK g \in Range(groups[k]) : g.component.id = id
      BY <1>8, <2>1 DEF IdsOf
    <2>3. g \in Resolved(selections)
      BY <1>2, <1>7 DEF Resolved
    <2>. QED
      BY <2>2, <2>3 DEF IdsOf
  <1>14. ASSUME NEW g \in Resolved(selections)
         PROVE  \E k \in 1 .. last : g \in Range(groups[k])
    BY <1>2, <1>3, <1>5 DEF GroupsHold, Resolved
  <1>15. ASSUME NEW id \in IdsOf(Resolved(selections))
         PROVE  id \in UNION {o.components : o \in Range(opportunities)}
    <2>1. PICK g \in Resolved(selections) : g.component.id = id
      BY DEF IdsOf
    <2>2. PICK k \in 1 .. last : g \in Range(groups[k])
      BY <1>14
    <2>3. id \in opportunities[k].components
      BY <1>8, <2>1, <2>2 DEF IdsOf
    <2>. QED
      BY <1>12, <2>3
  <1>16. last = 0 => Resolved(selections) = {}
    BY <1>14
  <1>17. ASSUME NEW o \in Range(opportunities)
         PROVE  /\ o.coverage \in {"LOW", "MEDIUM"} /\ o.direction = DirectionOf(o.code)
                /\ \E g \in items : g.component.id \in o.components
                /\ \A g \in items : g.component.id \in o.components => g.code = o.code
    <2>1. PICK k \in 1 .. last : opportunities[k] = o
      BY <1>11
    <2>2. /\ GroupOf(groups[k], items) /\ Range(groups[k]) \subseteq items
          /\ groups[k][1] \in Range(groups[k])
          /\ \A g \in Range(groups[k]) : g.code = groups[k][1].code
      BY <1>7
    <2>3. \A g \in items : IsFiniteSet(g.component.reviewed)
      BY <1>2
    <2>4. Coverage(groups[k]) \in {"LOW", "MEDIUM"}
      BY <2>2, <2>3, CoverageIs
    <2>5. o.coverage \in {"LOW", "MEDIUM"} /\ o.direction = DirectionOf(o.code)
      BY <1>8, <2>1, <2>4
    <2>6. groups[k][1].component.id \in o.components
      BY <1>8, <2>1, <2>2 DEF IdsOf
    <2>7. \A g \in items : g.component.id \in o.components => g.code = o.code
      BY <1>8, <1>9, <2>1, <2>2
    <2>. QED
      BY <2>2, <2>5, <2>6, <2>7
  <1>18. UNION {o.components : o \in Range(opportunities)} = IdsOf(Resolved(selections))
    BY <1>13, <1>15
  <1>. QED
    BY <1>2, <1>6, <1>10, <1>16, <1>17, <1>18 DEF OpportunitiesHold

LEMMA OpportunityEarned ==
  ASSUME NEW activity, NEW components, Numbered(components),
         NEW selections, selections = Selections(activity, components),
         NEW opportunities, OpportunitiesHold(opportunities, selections),
         NEW r, r.components = components, NEW o \in Range(opportunities)
  PROVE  Earned(r, o, DocumentedStatements(activity))
  <1>1. PICK stated : stated = DocumentedStatements(activity)
    OBVIOUS
  <1>2. IsSequence(components)
    BY DEF Numbered
  <1>3. /\ Selected(selections) /\ Len(selections) = Len(components)
        /\ \A n \in 1 .. Len(components) :
             /\ selections[n].component = components[n]
             /\ selections[n].code = Code(components[n], stated)
    BY <1>1, SelectionsAre
  <1>4. IsSequence(selections)
    BY <1>3 DEF Selected
  <1>5. /\ o.coverage \in {"LOW", "MEDIUM"} /\ o.direction = DirectionOf(o.code)
        /\ \E g \in Range(selections) : g.component.id \in o.components
        /\ \A g \in Range(selections) : g.component.id \in o.components => g.code = o.code
    BY DEF OpportunitiesHold
  <1>6. ASSUME NEW c \in Range(components), c.id \in o.components
        PROVE  Code(c, stated) = o.code
    <2>1. PICK n \in 1 .. Len(components) : components[n] = c
      BY <1>2, SequenceHas
    <2>2. selections[n] \in Range(selections)
      BY <1>3, <1>4, SequenceHas
    <2>3. selections[n].component = c /\ selections[n].code = Code(c, stated)
      BY <1>3, <2>1
    <2>. QED
      BY <1>5, <1>6, <2>2, <2>3
  <1>7. PICK d \in Range(components) : d.id \in o.components
    <2>1. PICK g \in Range(selections) : g.component.id \in o.components
      BY <1>5
    <2>2. PICK n \in 1 .. Len(selections) : selections[n] = g
      BY <1>4, SequenceHas
    <2>3. components[n] \in Range(components)
      BY <1>2, <1>3, SequenceHas
    <2>. QED
      BY <1>3, <2>1, <2>2, <2>3
  <1>8. Code(d, stated) = o.code
    BY <1>6, <1>7
  <1>9. \A rule \in RulesIn(r, o) :
          \E c \in Range(components) : c.id \in o.components /\ c.fields.rule = rule
    BY DEF RulesIn
  <1>10. "PD2-016" \in RulesIn(r, o) => o.direction = "LIKELY_HUMAN_LED"
    <2>1. SUFFICES ASSUME "PD2-016" \in RulesIn(r, o)
                   PROVE  o.direction = "LIKELY_HUMAN_LED"
      OBVIOUS
    <2>2. PICK c \in Range(components) : c.id \in o.components /\ c.fields.rule = "PD2-016"
      BY <1>9, <2>1
    <2>3. Code(c, stated) = "PA2-020" /\ Code(c, stated) = o.code
      BY <1>6, <2>2, CodeEarned
    <2>. QED
      BY <1>5, <2>3, DirectionEarned
  <1>11. ASSUME o.direction \in Machines
         PROVE  {"ASSISTANCE_PROHIBITED", "RISK_HIGH"} \cap stated = {} /\ RulesIn(r, o) \subseteq Semantic
    <2>1. o.code \in {"PA2-050", "PA2-051", "PA2-052"}
      BY <1>5, <1>11, DirectionEarned
    <2>2. "ASSISTANCE_PROHIBITED" \notin stated /\ "RISK_HIGH" \notin stated
      BY <1>8, <2>1, CodeEarned
    <2>3. ASSUME NEW rule \in RulesIn(r, o)
          PROVE  rule \in Semantic
      <3>1. PICK c \in Range(components) : c.id \in o.components /\ c.fields.rule = rule
        BY <1>9
      <3>2. Code(c, stated) = o.code
        BY <1>6, <3>1
      <3>. QED
        BY <2>1, <3>1, <3>2, CodeEarned
    <2>. QED
      BY <2>2, <2>3
  <1>12. o.direction = "POTENTIAL_AI_AUTOMATION" => "AUTONOMY_PERMITTED" \in stated
    <2>1. o.direction = "POTENTIAL_AI_AUTOMATION" => o.code = "PA2-052"
      BY <1>5, DirectionEarned
    <2>2. Code(d, stated) = "PA2-052" => "AUTONOMY_PERMITTED" \in stated
      BY CodeEarned
    <2>. QED
      BY <1>8, <2>1, <2>2
  <1>13. o.coverage # "HIGH"
    BY <1>5
  <1>. QED
    BY <1>1, <1>10, <1>11, <1>12, <1>13 DEF Earned

(***************************************************************************)
(* The result of an activity                                               *)
(***************************************************************************)
\* What is asked of scopes is asked of what cannot be resolved.
LEMMA DiscoveriesAsk ==
  ASSUME NEW activity, NEW selections,
         NEW discoveries, discoveries = DiscoveriesOf(activity, selections)
  PROVE  /\ UNION {d.components : d \in {e \in discoveries : e.reason = "INSEPARABLE_SCOPE"}}
              = IdsOf(Range(selections) \ Resolved(selections))
         /\ Range(selections) # Resolved(selections) => discoveries # {}
  <1>1. PICK open : open = {g.component.id : g \in {h \in Range(selections) : h.code \in Unresolvable}}
    OBVIOUS
  <1>2. PICK missing : missing = {g.component.id : g \in {h \in Range(selections) : h.code \in {"PA2-051"}}}
    OBVIOUS
  <1>3. open = IdsOf(Range(selections) \ Resolved(selections))
    BY <1>1 DEF IdsOf, Resolved
  <1>4. PICK scope : scope = Discovery("INSEPARABLE_SCOPE", open)
    OBVIOUS
  <1>5. PICK fields : fields = Discovery("MISSING_REQUIRED_COMPONENT_FIELD", missing)
    OBVIOUS
  <1>6. PICK other : other = {Discovery("UNSUPPORTED_CHARACTERISTIC", {}) : s \in UnsupportedSources(activity)}
    OBVIOUS
  <1>7. discoveries = {d \in {scope, fields} : d.components # {}} \cup other
    BY <1>1, <1>2, <1>4, <1>5, <1>6 DEF DiscoveriesOf
  <1>8. /\ scope.reason = "INSEPARABLE_SCOPE" /\ scope.components = open
        /\ fields.reason # "INSEPARABLE_SCOPE" /\ \A d \in other : d.reason # "INSEPARABLE_SCOPE"
    BY <1>4, <1>5, <1>6 DEF Discovery
  <1>9. {e \in discoveries : e.reason = "INSEPARABLE_SCOPE"} = {d \in {scope} : d.components # {}}
    BY <1>7, <1>8
  <1>10. UNION {d.components : d \in {e \in {scope} : e.components # {}}} = open
    BY <1>8
  <1>11. Range(selections) # Resolved(selections) => open # {}
    BY <1>1 DEF Resolved
  <1>12. open # {} => discoveries # {}
    BY <1>7, <1>8
  <1>. QED
    BY <1>3, <1>9, <1>10, <1>11, <1>12

\* What DirectionsSound says of one activity, and that its result may be returned.
ActivitySound(r, activity) ==
  /\ VariantAccepted(r)
  /\ r.coverage \in Coverages
  /\ r.type = "ACTIONABLE" => Partitions(r)
  /\ activity.conflicted => r.type = "DISCOVERY_REQUIRED"
  /\ \A o \in Range(r.opportunities) :
       /\ Earned(r, o, DocumentedStatements(activity))
       /\ Strength[o.coverage] <= Strength[r.coverage]
  /\ r.discoveries # {} => r.coverage = "LOW"

LEMMA DiscoveringIsSound ==
  ASSUME NEW activity, NEW components, NEW discoveries, discoveries # {}, NEW rule
  PROVE  ActivitySound(Discovering(components, discoveries, rule), activity)
  <1>1. PICK r : r = Discovering(components, discoveries, rule)
    OBVIOUS
  <1>2. /\ r.type = "DISCOVERY_REQUIRED" /\ r.construction = "PAR2-003" /\ r.opportunities = << >>
        /\ r.discoveries = discoveries /\ r.coverage = "LOW"
    BY <1>1 DEF Discovering
  <1>3. DOMAIN r.opportunities = {} /\ Range(r.opportunities) = {}
    BY <1>2 DEF Range
  <1>4. VariantAccepted(r)
    BY <1>2, <1>3 DEF VariantAccepted
  <1>5. ActivitySound(r, activity)
    BY <1>2, <1>3, <1>4 DEF ActivitySound, Coverages
  <1>. QED
    BY <1>1, <1>5

LEMMA NoChangeIsSound ==
  ASSUME NEW activity, ~activity.conflicted
  PROVE  ActivitySound(NoChange, activity)
  <1>1. PICK r : r = NoChange
    OBVIOUS
  <1>2. /\ r.type = "NO_CHANGE" /\ r.construction = "PAR2-004" /\ r.opportunities = << >>
        /\ r.discoveries = {} /\ r.coverage = "HIGH" /\ r.rule = "PA2-010"
    BY <1>1 DEF NoChange
  <1>3. DOMAIN r.opportunities = {} /\ Range(r.opportunities) = {}
    BY <1>2 DEF Range
  <1>4. VariantAccepted(r)
    BY <1>2, <1>3 DEF VariantAccepted
  <1>5. ActivitySound(r, activity)
    BY <1>2, <1>3, <1>4 DEF ActivitySound, Coverages
  <1>. QED
    BY <1>1, <1>5

LEMMA ActionableIsSound ==
  ASSUME NEW activity, ~activity.conflicted, NEW components, Numbered(components),
         NEW selections, selections = Selections(activity, components),
         NEW opportunities, OpportunitiesHold(opportunities, selections),
         Len(opportunities) <= OpportunityLimit, Len(opportunities) # 0,
         NEW discoveries, discoveries = DiscoveriesOf(activity, selections)
  PROVE  ActivitySound(Actionable(components, opportunities, discoveries), activity)
  <1>1. PICK r : r = Actionable(components, opportunities, discoveries)
    OBVIOUS
  <1>2. PICK covers : covers = {o.coverage : o \in Range(opportunities)} \cup {"LOW" : d \in discoveries}
    OBVIOUS
  <1>3. /\ r.type = "ACTIONABLE" /\ r.construction \in {"PAR2-001", "PAR2-002"}
        /\ r.components = components /\ r.opportunities = opportunities
        /\ r.discoveries = discoveries /\ r.coverage = Weakest(covers)
    BY <1>1, <1>2 DEF Actionable
  <1>4. IsSequence(opportunities) /\ IsSequence(components)
    BY DEF OpportunitiesHold, Numbered
  <1>5. Len(opportunities) \in Nat /\ DOMAIN opportunities = 1 .. Len(opportunities)
    BY <1>4, SequenceHas
  <1>6. Len(opportunities) \in 1 .. 5
    BY <1>5 DEF OpportunityLimit
  <1>7. VariantAccepted(r)
    <2>1. \A i, j \in DOMAIN r.opportunities :
            i # j => r.opportunities[i].components \cap r.opportunities[j].components = {}
      BY <1>3, <1>5 DEF OpportunitiesHold
    <2>. QED
      BY <1>3, <1>6, <2>1 DEF VariantAccepted
  <1>8. covers \in SUBSET Coverages
    BY <1>2 DEF OpportunitiesHold, Coverages
  <1>9. covers # {}
    <2>1. 1 \in 1 .. Len(opportunities)
      BY <1>6
    <2>2. opportunities[1] \in Range(opportunities)
      BY <1>4, <2>1, SequenceHas
    <2>3. opportunities[1].coverage \in covers
      BY <1>2, <2>2
    <2>. QED
      BY <2>3
  <1>10. /\ Weakest(covers) \in covers
         /\ \A c \in covers : Strength[c] <= Strength[Weakest(covers)]
         /\ "LOW" \in covers => Weakest(covers) = "LOW"
    BY <1>8, <1>9, WeakestIs
  <1>11. r.coverage \in Coverages
    BY <1>3, <1>8, <1>10
  <1>12. r.discoveries # {} => r.coverage = "LOW"
    BY <1>2, <1>3, <1>10
  <1>13. ASSUME NEW o \in Range(r.opportunities)
         PROVE  /\ Earned(r, o, DocumentedStatements(activity))
                /\ Strength[o.coverage] <= Strength[r.coverage]
    <2>1. o \in Range(opportunities)
      BY <1>3
    <2>2. Earned(r, o, DocumentedStatements(activity))
      BY <1>3, <2>1, OpportunityEarned
    <2>3. o.coverage \in covers
      BY <1>2, <2>1
    <2>4. Strength[o.coverage] <= Strength[r.coverage]
      BY <1>3, <1>10, <2>3
    <2>. QED
      BY <2>2, <2>4
  <1>14. Partitions(r)
    <2>1. PICK asked : asked = IdsOf(Range(selections) \ Resolved(selections))
      OBVIOUS
    <2>2. PICK done : done = IdsOf(Resolved(selections))
      OBVIOUS
    <2>3. UNION {d.components : d \in {e \in r.discoveries : e.reason = "INSEPARABLE_SCOPE"}} = asked
      BY <1>3, <2>1, DiscoveriesAsk
    <2>4. UNION {o.components : o \in Range(r.opportunities)} = done
      BY <1>3, <2>2 DEF OpportunitiesHold
    <2>5. /\ Selected(selections) /\ Len(selections) = Len(components)
          /\ \A n \in 1 .. Len(components) : selections[n].component = components[n]
      BY SelectionsAre
    <2>6. IsSequence(selections)
      BY <2>5 DEF Selected
    <2>7. asked \cap done = {}
      <3>1. SUFFICES ASSUME NEW id \in asked, id \in done PROVE FALSE
        OBVIOUS
      <3>2. PICK g \in Range(selections) \ Resolved(selections) : g.component.id = id
        BY <2>1 DEF IdsOf
      <3>3. PICK h \in Resolved(selections) : h.component.id = id
        BY <2>2, <3>1 DEF IdsOf
      <3>4. h \in Range(selections)
        BY DEF Resolved
      <3>5. g = h
        BY <2>5, <3>2, <3>3, <3>4, SelectedById
      <3>. QED
        BY <3>2, <3>3, <3>5
    <2>8. asked \cup done = IdsOf(Range(selections))
      BY <2>1, <2>2 DEF IdsOf, Resolved
    <2>9. ASSUME NEW id \in IdsOf(Range(selections))
          PROVE  id \in Ids(components)
      <3>1. PICK g \in Range(selections) : g.component.id = id
        BY DEF IdsOf
      <3>2. PICK n \in 1 .. Len(components) : selections[n] = g
        BY <2>5, <2>6, SequenceHas
      <3>3. components[n] \in Range(components) /\ components[n].id = id
        BY <1>4, <2>5, <3>1, <3>2, SequenceHas
      <3>. QED
        BY <3>3 DEF Ids
    <2>10. ASSUME NEW id \in Ids(components)
           PROVE  id \in IdsOf(Range(selections))
      <3>1. PICK c \in Range(components) : c.id = id
        BY DEF Ids
      <3>2. PICK n \in 1 .. Len(components) : components[n] = c
        BY <1>4, SequenceHas
      <3>3. selections[n] \in Range(selections) /\ selections[n].component.id = id
        BY <2>5, <2>6, <3>1, <3>2, SequenceHas
      <3>. QED
        BY <3>3 DEF IdsOf
    <2>11. asked \cup done = Ids(r.components)
      BY <1>3, <2>8, <2>9, <2>10
    <2>. QED
      BY <2>3, <2>4, <2>7, <2>11 DEF Partitions
  <1>15. ActivitySound(r, activity)
    BY <1>3, <1>7, <1>11, <1>12, <1>13, <1>14 DEF ActivitySound
  <1>. QED
    BY <1>1, <1>15

LEMMA ResultIsSound ==
  ASSUME NEW activity, ReadableActivity(activity)
  PROVE  ActivitySound(EvaluateActivity(activity), activity)
  <1>1. PICK components : components = Components(activity)
    OBVIOUS
  <1>2. Numbered(components)
    BY <1>1, ActionsAreListedOnce, ComponentsAreNumbered DEF Components
  <1>3. PICK selections : selections = Selections(activity, components)
    OBVIOUS
  <1>4. Selected(selections) /\ Len(selections) = Len(components)
    BY <1>2, <1>3, SelectionsAre
  <1>5. \A g \in Range(selections) : IsFiniteSet(g.component.reviewed)
    BY <1>2, <1>3, SelectionsAre
  <1>6. PICK opportunities : opportunities = Opportunities(selections)
    OBVIOUS
  <1>7. OpportunitiesHold(opportunities, selections)
    BY <1>4, <1>5, <1>6, OpportunitiesAreSound
  <1>8. PICK discoveries : discoveries = DiscoveriesOf(activity, selections)
    OBVIOUS
  <1>9. PICK r : r = EvaluateActivity(activity)
    OBVIOUS
  <1>10. r = ActivityResult(activity, components, opportunities, discoveries)
    BY <1>1, <1>3, <1>6, <1>8, <1>9 DEF EvaluateActivity, ResultOfComponents, ResultOf
  <1>11. \A reason : {Discovery(reason, Ids(components))} # {}
    OBVIOUS
  <1>12. CASE activity.conflicted
    <2>1. r = Discovering(components, {Discovery("MATERIAL_EVIDENCE_CONFLICT", Ids(components))}, "PA2-003")
      BY <1>10, <1>12 DEF ActivityResult
    <2>. QED
      BY <1>9, <1>11, <2>1, DiscoveringIsSound
  <1>13. CASE ~activity.conflicted /\ components = << >>
    <2>1. \/ r = NoChange
          \/ r = Discovering(components, {Discovery("NO_DIRECTION_BEARING_EVIDENCE", Ids(components))}, "PA2-002")
      BY <1>10, <1>13 DEF ActivityResult
    <2>. QED
      BY <1>9, <1>11, <1>13, <2>1, DiscoveringIsSound, NoChangeIsSound
  <1>14. CASE ~activity.conflicted /\ components # << >> /\ Len(opportunities) > OpportunityLimit
    <2>1. r = Discovering(components,
                {Discovery("OPPORTUNITY_PARTITION_EXCEEDS_LIMIT", Ids(components))}, "PA2-004")
      BY <1>10, <1>14 DEF ActivityResult
    <2>. QED
      BY <1>9, <1>11, <2>1, DiscoveringIsSound
  <1>15. CASE /\ ~activity.conflicted /\ components # << >>
              /\ ~(Len(opportunities) > OpportunityLimit) /\ opportunities = << >>
    <2>1. r = Discovering(components, discoveries, "PA2-004")
      BY <1>10, <1>15 DEF ActivityResult
    <2>2. IsSequence(components) /\ IsSequence(selections)
      BY <1>2, <1>4 DEF Numbered, Selected
    <2>3. Len(components) \in Nat /\ components \in Seq(Range(components))
      BY <2>2, SequenceHas
    <2>4. 1 \in 1 .. Len(selections)
      BY <1>4, <1>15, <2>3
    <2>5. selections[1] \in Range(selections)
      BY <2>2, <2>4, SequenceHas
    <2>6. Len(opportunities) = 0
      BY <1>15
    <2>7. Resolved(selections) = {}
      BY <1>7, <2>6 DEF OpportunitiesHold
    <2>8. discoveries # {}
      BY <1>8, <2>5, <2>7, DiscoveriesAsk
    <2>. QED
      BY <1>9, <2>1, <2>8, DiscoveringIsSound
  <1>16. CASE /\ ~activity.conflicted /\ components # << >>
              /\ ~(Len(opportunities) > OpportunityLimit) /\ opportunities # << >>
    <2>1. r = Actionable(components, opportunities, discoveries)
      BY <1>10, <1>16 DEF ActivityResult
    <2>2. IsSequence(opportunities)
      BY <1>7 DEF OpportunitiesHold
    <2>3. Len(opportunities) \in Nat /\ opportunities \in Seq(Range(opportunities))
      BY <2>2, SequenceHas
    <2>4. Len(opportunities) # 0 /\ Len(opportunities) <= OpportunityLimit
      BY <1>16, <2>3 DEF OpportunityLimit
    <2>5. ~activity.conflicted
      BY <1>16
    <2>. QED
      BY <1>2, <1>3, <1>7, <1>8, <1>9, <2>1, <2>4, <2>5, ActionableIsSound
  <1>. QED
    BY <1>12, <1>13, <1>14, <1>15, <1>16

(***************************************************************************)
(* The evaluation of a review                                              *)
(***************************************************************************)
LEMMA EvaluationIsSound ==
  ASSUME review \in Reviews, evaluation = Evaluation(review)
  PROVE  DirectionsSound
  <1>1. PICK r : r = review
    OBVIOUS
  <1>2. IsSequence(r.activities) /\ \A activity \in Range(r.activities) : ReadableActivity(activity)
    BY <1>1, ReviewsAssumption
  <1>3. ApprovalProblem(r) = None => \E activity \in Range(r.activities) : activity.retained
    <2>1. ApprovalProblem(r) = None => r.projected
      BY DEF ApprovalProblem, None
    <2>. QED
      BY <1>1, <2>1, ReviewsAssumption
  <1>4. PICK results : results = ActivityResults(r)
    OBVIOUS
  <1>5. PICK kept : kept = RetainedActivities(r)
    OBVIOUS
  <1>6. kept \subseteq DOMAIN r.activities
    BY <1>5 DEF RetainedActivities
  <1>7. /\ DOMAIN results = kept
        /\ \A n \in kept : results[n] = EvaluateActivity(r.activities[n])
    BY <1>4, <1>5 DEF ActivityResults
  <1>8. ASSUME NEW n \in kept
        PROVE  ActivitySound(results[n], r.activities[n])
    <2>1. r.activities[n] \in Range(r.activities)
      BY <1>6 DEF Range
    <2>2. ReadableActivity(r.activities[n])
      BY <1>2, <2>1
    <2>. QED
      BY <1>7, <2>2, ResultIsSound
  <1>9. evaluation = EvaluationOf(ApprovalProblem(r), results)
    BY <1>1, <1>4 DEF Evaluation
  <1>10. CASE ApprovalProblem(r) # None
    <2>1. evaluation.status = "FAILURE"
      BY <1>9, <1>10 DEF EvaluationOf, Failure
    <2>. QED
      BY <1>1, <1>10, <2>1 DEF DirectionsSound
  <1>11. CASE ApprovalProblem(r) = None
    <2>1. kept # {}
      <3>1. PICK activity \in Range(r.activities) : activity.retained
        BY <1>3, <1>11
      <3>2. PICK n \in DOMAIN r.activities : r.activities[n] = activity
        BY DEF Range
      <3>3. n \in kept
        BY <1>5, <3>1, <3>2 DEF RetainedActivities
      <3>. QED
        BY <3>3
    <2>2. \A n \in DOMAIN results : VariantAccepted(results[n])
      BY <1>7, <1>8 DEF ActivitySound
    <2>3. evaluation = Success(results)
      BY <1>7, <1>9, <1>11, <2>1, <2>2 DEF EvaluationOf
    <2>4. PICK covers : covers = {results[n].coverage : n \in DOMAIN results}
      OBVIOUS
    <2>5. /\ evaluation.status = "SUCCESS" /\ evaluation.results = results
          /\ evaluation.coverage = Weakest(covers)
      BY <2>3, <2>4 DEF Success
    <2>6. covers \in SUBSET Coverages /\ covers # {}
      BY <1>7, <1>8, <2>1, <2>4 DEF ActivitySound
    <2>7. \A c \in covers : Strength[c] <= Strength[Weakest(covers)]
      BY <2>6, WeakestIs
    <2>8. ASSUME NEW n \in kept
          PROVE  Strength[results[n].coverage] <= Strength[evaluation.coverage]
      BY <1>7, <2>4, <2>5, <2>7
    <2>9. ASSUME NEW n \in RetainedActivities(review)
          PROVE  LET result == evaluation.results[n]
                     activity == review.activities[n] IN
                 /\ result.type = "ACTIONABLE" => Partitions(result)
                 /\ activity.conflicted => result.type = "DISCOVERY_REQUIRED"
                 /\ \A o \in Range(result.opportunities) :
                      /\ Earned(result, o, DocumentedStatements(activity))
                      /\ Strength[o.coverage] <= Strength[result.coverage]
                 /\ result.discoveries # {} => result.coverage = "LOW"
                 /\ Strength[result.coverage] <= Strength[evaluation.coverage]
      <3>1. n \in kept
        BY <1>1, <1>5
      <3>2. ActivitySound(results[n], review.activities[n])
        BY <1>1, <1>8, <3>1
      <3>3. evaluation.results[n] = results[n]
        BY <2>5
      <3>. QED
        BY <2>8, <3>1, <3>2, <3>3 DEF ActivitySound
    <2>. QED
      BY <1>1, <1>11, <2>5, <2>9 DEF DirectionsSound
  <1>. QED
    BY <1>10, <1>11

EvaluationInv ==
  review \in Reviews /\ (evaluation # NotEvaluatedYet => evaluation = Evaluation(review))

\* Every valid approval gets its directions, each of them earned, for any
\* reviews whose lists are lists (evaluate of evaluator_v0_2.py).
THEOREM DirectionsAreSound == EvaluationSpec => []DirectionsSound
  <1>1. EvaluationInit => EvaluationInv
    BY DEF EvaluationInit, EvaluationInv
  <1>2. EvaluationInv /\ [EvaluationNext]_<<review, evaluation>> => EvaluationInv'
    BY DEF EvaluationInv, EvaluationNext, EvaluateTexts
  <1>3. EvaluationInv => DirectionsSound
    <2>1. EvaluationInv /\ evaluation # NotEvaluatedYet => DirectionsSound
      BY EvaluationIsSound DEF EvaluationInv
    <2>2. evaluation = NotEvaluatedYet => DirectionsSound
      BY DEF DirectionsSound
    <2>. QED
      BY <2>1, <2>2
  <1>. QED
    BY <1>1, <1>2, <1>3, PTL DEF EvaluationSpec

=============================================================================
