-------------------------- MODULE PreliminaryReads --------------------------
(***************************************************************************)
(* A window that loads a journey with get_state while others write it.     *)
(*                                                                         *)
(* SQLitePreliminaryJourneyStore._read opens a connection and no            *)
(* transaction, so every SELECT of the load sees the last commit before     *)
(* it: the tables are read one after the other, in the order of the code,   *)
(* and the first validator that fails ends the load.                        *)
(***************************************************************************)
EXTENDS PreliminaryHistory

VARIABLES
  step,  \* the table that is read next, or how the load ended
  seen,  \* what was read so far
  asOf   \* history variable: the journey when its events were read

readVars == <<step, seen, asOf>>

Steps == {"events", "requests", "manifests", "run_events", "projections",
          "results", "supersessions", "formal", "returned", "refused"}

NothingSeen == [ev |-> << >>, ms |-> << >>, rs |-> << >>, cs |-> << >>,
                ss |-> {}]
Now == [runs |-> runs, supersessions |-> supersessions, formal |-> formal]

ReadsInit ==
  /\ Init
  /\ step = "events" /\ seen = NothingSeen /\ asOf = Now

\* The load goes on with the next table if what it has passes.
Continue(loads, next) == step' = IF loads THEN next ELSE "refused"

ReadEvents ==
  /\ step = "events" /\ events # << >>
  /\ seen' = [seen EXCEPT !.ev = events]
  /\ asOf' = Now
  /\ Continue(EventsLoad(events), "requests")

ReadRequests ==
  /\ step = "requests"
  /\ Continue(RequestsLoad(seen.ev, requests), "manifests")
  /\ UNCHANGED <<seen, asOf>>

ReadManifests ==
  /\ step = "manifests" /\ step' = "run_events"
  /\ seen' = [seen EXCEPT !.ms = runs]
  /\ UNCHANGED asOf

ReadRunEvents ==
  /\ step = "run_events"
  /\ seen' = [seen EXCEPT !.rs = runs]
  /\ Continue(RunsLoad(seen.ms, runs), "projections")
  /\ UNCHANGED asOf

\* After the projections the links and recoveries are checked.
ReadProjections ==
  /\ step = "projections"
  /\ Continue(/\ ProjectionsLoad(seen.rs, runs)
              /\ RunOrderLoads(seen.ev, seen.ms)
              /\ RecoveriesLoad(seen.ev, seen.ms, seen.rs), "results")
  /\ UNCHANGED <<seen, asOf>>

ReadResults ==
  /\ step = "results"
  /\ seen' = [seen EXCEPT !.cs = runs]
  /\ Continue(ResultsLoad(seen.rs, runs), "supersessions")
  /\ UNCHANGED asOf

ReadSupersessions ==
  /\ step = "supersessions"
  /\ seen' = [seen EXCEPT !.ss = supersessions]
  /\ Continue(SupersessionsLoad(seen.ev, seen.cs, supersessions), "formal")
  /\ UNCHANGED asOf

ReadFormal ==
  /\ step = "formal"
  /\ Continue(FormalLoads(seen.ev, formal), "returned")
  /\ UNCHANGED <<seen, asOf>>

Read == ReadEvents \/ ReadRequests \/ ReadManifests \/ ReadRunEvents
          \/ ReadProjections \/ ReadResults \/ ReadSupersessions \/ ReadFormal

ReadsNext ==
  \/ Next /\ UNCHANGED readVars
  \/ Read /\ UNCHANGED vars

ReadsSpec == ReadsInit /\ [][ReadsNext]_<<vars, readVars>>

(***************************************************************************)
(* What a load promises                                                    *)
(***************************************************************************)
\* A load that returns is of one moment although its tables were read at
\* different ones: it shows the runs, the results and the supersessions of
\* when its events were read, with one exception, a run that failed or was
\* abandoned in between.
ReturnsOneMoment ==
  step = "returned" =>
    /\ DOMAIN seen.ms = DOMAIN asOf.runs
    /\ Completed(seen.cs) = Completed(asOf.runs)
    /\ seen.ss = asOf.supersessions
    /\ \A r \in DOMAIN asOf.runs :
         seen.rs[r] # asOf.runs[r] =>
           asOf.runs[r].status = "STARTED" /\ seen.rs[r].status \in Retryable
=============================================================================
