------------------------ MODULE PreliminaryProperties ------------------------
(***************************************************************************)
(* What a Preliminary journey promises.                                    *)
(***************************************************************************)
EXTENDS PreliminaryHistory

\* Whatever its windows do, in whatever order their transactions commit, a
\* journey stays readable: no sequence of accepted calls writes a history
\* that loading refuses as corrupt (get_state, get_history).
JourneyStaysReadable == HistoryLoads

\* At most one run of a journey is in progress, whatever evaluators the
\* services that started the runs are configured with
\* (PreliminaryRunConcurrencyError).
OneOpenRun == \A q, r \in Open : q = r

\* The results p and r of one identity follow each other.
Successive(p, r) ==
  /\ p < r
  /\ {p, r} \subseteq Results(runs[r].identity)
  /\ \A q \in Results(runs[r].identity) : q <= p \/ r <= q

\* Supersession is journey-local, acyclic and linear within one evaluator
\* identity: every result but the latest is superseded by the next one, and
\* results of different identities never supersede each other.
SupersessionChain ==
  \A p, r \in DOMAIN runs : <<p, r>> \in supersessions <=> Successive(p, r)

\* The runs of a journey are one line: one is open, and their results succeed
\* each other.
RunsInOneLine == OneOpenRun /\ SupersessionChain

\* A route choice is appended only by a caller that had seen the whole journey
\* (expected_latest_sequence), and a request that appends nothing left the
\* route it asked for standing.
NoBlindRouteChange ==
  \A t \in DOMAIN requests :
    LET q == requests[t]
    IN IF q.appended THEN q.effective = q.expected + 1 /\ q.after = q.effective
       ELSE q.effective <= q.expected /\ q.after = q.expected

\* Retrying a click never repeats work: one token names one run, and no token
\* both retried one run and abandoned another.
OneRunPerToken ==
  /\ \A q, r \in DOMAIN runs : runs[q].token = runs[r].token => q = r
  /\ \A n \in EventsOf(events, "RUN_RECOVERY_RECORDED") :
       events[n].run = 0 =>
         \A r \in DOMAIN runs :
           runs[r].retryOf # 0 => runs[r].token # events[n].token

\* Clicks delivered twice and calls that cross leave one readable history.
HistorySound == JourneyStaysReadable /\ OneRunPerToken

\* Nothing a journey recorded is ever taken back: events, requests, links and
\* formal lifecycles stay, and a run that was settled stays as it is, also
\* when the evaluation of an abandoned run comes back with a result.
HistoryKept ==
  [][/\ \A n \in DOMAIN events : n \in DOMAIN events' /\ events'[n] = events[n]
     /\ \A t \in DOMAIN requests :
          t \in DOMAIN requests' /\ requests'[t] = requests[t]
     /\ supersessions \subseteq supersessions' /\ formal \subseteq formal'
     /\ \A r \in DOMAIN runs :
          /\ r \in DOMAIN runs'
          /\ runs'[r] = [runs[r] EXCEPT !.status = runs'[r].status]
          /\ runs[r].status # "STARTED" => runs'[r] = runs[r]]_vars

(***************************************************************************)
(* What the Process journey page offers, and what the services accept      *)
(***************************************************************************)
\* _preliminary_status, as a service of identity id derives it.
StatusAvailable(id) == Open = {} /\ Results(id) # {}

\* A journey whose status is "available" offers "Run a new Preliminary
\* Assessment"; the run is accepted.
RerunAccepted ==
  \A id \in Identities, n \in DOMAIN events :
    Ready /\ Pins(n, Explore) /\ StatusAvailable(id) => CanEvaluate(id, n)
=============================================================================
