------------------------- MODULE PreliminaryHistory -------------------------
(***************************************************************************)
(* Loading a journey (preliminary/journey.py): every operation reads the    *)
(* whole history and refuses it as corrupt unless its tables agree.  The    *)
(* operators take what was read of each table, so that they also apply to   *)
(* tables read at different moments.                                        *)
(*                                                                         *)
(* ev are the journey events, rq the route requests, ss the supersession    *)
(* links, fm the formal lifecycles.  Manifests, run events, state           *)
(* projections and results of the runs are ms, rs, ps and cs: sequences of  *)
(* runs of which each validator uses what its table holds.                  *)
(***************************************************************************)
EXTENDS PreliminaryJourney

EventsOf(ev, type) == {n \in DOMAIN ev : ev[n].type = type}
Completed(cs) == {r \in DOMAIN cs : cs[r].status = "COMPLETED"}

\* Exactly one event of a type satisfies a test of its payload.
One(S) == \E n \in S : S = {n}

\* No route choice after the event at a and before the one at b.
SameRoute(ev, a, b) == \A m \in RouteEvents(ev) : m <= a \/ b <= m

\* _load_journey_events
EventsLoad(ev) ==
  /\ ev # << >> /\ ev[1].type = "JOURNEY_CREATED"
  /\ \A n \in RouteEvents(ev) :
       /\ ev[n].type = "ROUTE_SELECTED" <=> SameRoute(ev, 0, n)
       /\ \A m \in RouteEvents(ev) :
            m < n /\ SameRoute(ev, m, n) => ev[m].route # ev[n].route

\* _load_route_requests
RequestsLoad(ev, rq) ==
  \A t \in DOMAIN rq :
    LET q == rq[t]
    IN /\ q.after <= Len(ev)
       /\ q.effective \in RouteEvents(ev) /\ ev[q.effective].route = q.route
       /\ q.effective <= q.after
       /\ SameRoute(ev, q.effective, q.after + 1)

\* _load_run_events
RunsLoad(ms, rs) ==
  /\ DOMAIN rs = DOMAIN ms
  /\ \A r \in DOMAIN ms :
       LET p == ms[r].retryOf
       IN p # 0 => /\ p \in DOMAIN ms
                   /\ ms[p].token # ms[r].token
                   /\ ms[p].identity = ms[r].identity
                   /\ rs[p].status \in Retryable

\* _validate_run_state_projections
ProjectionsLoad(rs, ps) ==
  /\ DOMAIN ps = DOMAIN rs
  /\ \A r \in DOMAIN rs : ps[r].status = rs[r].status

\* Mutant: a run without its RUN_LINKED event passes.
LinkedRunsLoad(ev, ms) ==
  \A n \in EventsOf(ev, "RUN_LINKED") : ev[n].run \in DOMAIN ms

\* _run_order
RunOrderLoads(ev, ms) ==
  /\ \A n \in EventsOf(ev, "RUN_LINKED") :
       LET r == ev[n].run
       IN /\ r \in DOMAIN ms
          /\ ms[r].pin \in RouteEvents(ev) /\ ev[ms[r].pin].route = Explore
          /\ ms[r].pin < n
          /\ SameRoute(ev, ms[r].pin, n)
  /\ \A r \in DOMAIN ms :
       One({n \in EventsOf(ev, "RUN_LINKED") : ev[n].run = r})

\* _validate_recovery_events
RecoveriesLoad(ev, ms, rs) ==
  LET recoveries == EventsOf(ev, "RUN_RECOVERY_RECORDED")
      abandonments == {n \in recoveries : ev[n].run = 0}
      retries == recoveries \ abandonments
  IN /\ \A n \in recoveries :
          /\ ev[n].of \in DOMAIN ms
          /\ One({m \in recoveries : ev[m].token = ev[n].token})
     /\ \A n \in abandonments :
          /\ rs[ev[n].of].status = "ABANDONED"
          /\ One({m \in abandonments : ev[m].of = ev[n].of})
     /\ \A n \in retries :
          /\ ev[n].run \in DOMAIN ms
          /\ ms[ev[n].run].retryOf = ev[n].of
          /\ ms[ev[n].run].token = ev[n].token
          /\ rs[ev[n].of].status \in Retryable
          /\ One({m \in retries : ev[m].run = ev[n].run})
     /\ {ev[n].run : n \in retries} = {r \in DOMAIN ms : ms[r].retryOf # 0}

\* _load_results
ResultsLoad(rs, cs) == Completed(rs) = Completed(cs)

\* _load_supersessions
SupersessionsLoad(ev, cs, ss) ==
  LET recorded == EventsOf(ev, "RESULT_RECORDED")
      superseded == EventsOf(ev, "RESULT_SUPERSEDED")
  IN /\ \A r \in Completed(cs) : One({n \in recorded : ev[n].run = r})
     /\ {ev[n].run : n \in recorded} \subseteq Completed(cs)
     /\ \A s \in ss :
          /\ s[1] \in Completed(cs) /\ s[2] \in Completed(cs)
          /\ cs[s[1]].identity = cs[s[2]].identity
          /\ s[1] < s[2]
          /\ One({o \in ss : o[2] = s[2]})
          /\ One({n \in superseded : <<ev[n].of, ev[n].run>> = s})
     /\ {<<ev[n].of, ev[n].run>> : n \in superseded} \subseteq ss

\* _load_formal_lifecycle
FormalLoads(ev, fm) ==
  LET started == EventsOf(ev, "FORMAL_LIFECYCLE_STARTED")
  IN IF fm = {} THEN started = {}
     ELSE /\ One(fm) /\ One(started)
          /\ \A f \in fm, n \in started :
               /\ f.pin \in RouteEvents(ev)
               /\ ev[f.pin].route = Organisational
               /\ f.pin < n
               /\ SameRoute(ev, f.pin, n)

HistoryLoads ==
  events # << >> =>
    /\ EventsLoad(events)
    /\ RequestsLoad(events, requests)
    /\ RunsLoad(runs, runs)
    /\ ProjectionsLoad(runs, runs)
    /\ RunOrderLoads(events, runs)
    /\ RecoveriesLoad(events, runs, runs)
    /\ ResultsLoad(runs, runs)
    /\ SupersessionsLoad(events, runs, supersessions)
    /\ FormalLoads(events, formal)
=============================================================================
