------------------------------ MODULE GapAnswer ------------------------------
(***************************************************************************)
(* GrwM1Service over the workspace repository: the one optional question   *)
(* of a decision package is answered and the answer reviewed, as context   *)
(* beside the decision.  A call reads the workspace, begins an operation   *)
(* under a key of its input, and saves in a transaction of its own; the    *)
(* workspace may be changed by another call in between.                    *)
(***************************************************************************)
EXTENDS Naturals, Sequences

CONSTANTS
  Sessions,
  Answers, Decisions,
  MaxReplacements,  \* bound: packages that replace the first one
  MaxInterrupts     \* bound: calls whose process or transaction fails

VARIABLES
  package,      \* number of the last decision package
  active,       \* the active package, submission and review, 0 for none
  ready,        \* the workspace is in the stage PACKAGE_READY
  submissions,  \* revisions of GRW_EVIDENCE_SUBMISSION: their package and answer
  reviews,      \* revisions of GRW_EVIDENCE_REVIEW
  started,      \* assessment_operations of this service: their status by key
  doing,        \* the call of each session
  interrupts,
  overlapped    \* history: a call was made while another one had not returned

answerVars == <<package, active, ready, submissions, reviews, started, doing, interrupts, overlapped>>

NoCall == [at |-> "idle", on |-> 0, what |-> "none", proof |-> 0]
AnswerInit ==
  /\ package = 1 /\ active = [package |-> 1, submission |-> 0, review |-> 0] /\ ready = TRUE
  /\ submissions = << >> /\ reviews = << >>
  /\ started = [k \in {} |-> "none"]
  /\ doing = [s \in Sessions |-> NoCall]
  /\ interrupts = 0 /\ overlapped = FALSE

\* _validate_active_chain: load_workspace raises if it is broken.
Readable ==
  /\ active.submission # 0 => submissions[active.submission].package = active.package
  /\ active.review # 0 => reviews[active.review].submission = active.submission
  /\ ready => active.package # 0

\* open_m1_context
Context == Readable /\ ready /\ active.package # 0

StatusAt(k) == IF k \in DOMAIN started THEN started[k] ELSE "absent"
Marks(k, status) ==
  started' = [x \in DOMAIN started \cup {k} |-> IF x = k THEN status ELSE started[x]]
Leaves(s) == doing' = [doing EXCEPT ![s] = NoCall]
Alone(s) == \A t \in Sessions \ {s} : doing[t].at = "idle"
NotesOverlap(s) == overlapped' = (overlapped \/ ~Alone(s))

\* Mutant: an answer that is there does not keep another one out.
Unasked == TRUE

\* An answer that is there is returned or another one refused.
Unanswered == active.submission = 0

Unreviewed == active.submission # 0 /\ active.review = 0

Answer(s, a) ==
  /\ doing[s].at = "idle" /\ Context /\ Unanswered
  /\ doing' = [doing EXCEPT ![s] =
       [NoCall EXCEPT !.at = "submit", !.on = active.package, !.what = a]]
  /\ NotesOverlap(s)
  /\ UNCHANGED <<package, active, ready, submissions, reviews, started, interrupts>>

Judge(s, d) ==
  /\ doing[s].at = "idle" /\ Context /\ Unreviewed
  /\ doing' = [doing EXCEPT ![s] =
       [NoCall EXCEPT !.at = "review", !.on = active.submission, !.what = d]]
  /\ NotesOverlap(s)
  /\ UNCHANGED <<package, active, ready, submissions, reviews, started, interrupts>>

Key(c) == <<c.at, c.on, c.what>>

\* An operation that is started must be recovered first, a completed one is
\* answered with what it saved, a failed one starts again.
Begins(status) == status \in {"absent", "FAILED"}

BeginAnswer(s) ==
  /\ doing[s].at \in {"submit", "review"}
  /\ IF Begins(StatusAt(Key(doing[s])))
     THEN /\ Marks(Key(doing[s]), "STARTED")
          /\ doing' = [doing EXCEPT ![s].at = IF doing[s].at = "submit" THEN "answering" ELSE "proving"]
     ELSE Leaves(s) /\ UNCHANGED started
  /\ UNCHANGED <<package, active, ready, submissions, reviews, interrupts, overlapped>>

\* The transaction of a submission: its parent must be a package of the
\* assessment, not the active one.
SaveAnswer(s) ==
  LET c == doing[s]
  IN /\ c.at = "answering"
     /\ submissions' = Append(submissions, [package |-> c.on, answer |-> c.what])
     /\ active' = [active EXCEPT !.submission = Len(submissions) + 1]
     /\ ready' = TRUE
     /\ Marks(<<"submit", c.on, c.what>>, "COMPLETED")
     /\ Leaves(s)
     /\ UNCHANGED <<package, reviews, interrupts, overlapped>>

\* _non_change_proof compares what is active with the context of the call.
Proves(on) == Readable /\ active.package = submissions[on].package

Prove(s) ==
  LET c == doing[s]
  IN /\ c.at = "proving"
     /\ IF Proves(c.on)
        THEN /\ doing' = [doing EXCEPT ![s] = [@ EXCEPT !.at = "judging", !.proof = active.package]]
             /\ UNCHANGED started
        ELSE Leaves(s) /\ Marks(<<"review", c.on, c.what>>, "FAILED")
     /\ UNCHANGED <<package, active, ready, submissions, reviews, interrupts, overlapped>>

\* A review keeps the proof that was taken.
SaveReview(s) ==
  LET c == doing[s]
  IN /\ c.at = "judging"
     /\ reviews' = Append(reviews, [submission |-> c.on, decision |-> c.what, proof |-> c.proof])
     /\ active' = [active EXCEPT !.review = Len(reviews) + 1]
     /\ ready' = TRUE
     /\ Marks(<<"review", c.on, c.what>>, "COMPLETED")
     /\ Leaves(s)
     /\ UNCHANGED <<package, submissions, interrupts, overlapped>>

\* The transaction fails, and the operation with it; or the process ends and
\* leaves it started.
Interrupted(s) ==
  LET c == doing[s]
      kind == IF c.at = "answering" THEN "submit" ELSE "review"
  IN /\ c.at \in {"answering", "proving", "judging"} /\ interrupts < MaxInterrupts
     /\ interrupts' = interrupts + 1
     /\ Leaves(s)
     /\ Marks(<<kind, c.on, c.what>>, "FAILED") \/ UNCHANGED started
     /\ UNCHANGED <<package, active, ready, submissions, reviews, overlapped>>

(***************************************************************************)
(* The workspace beside this service                                       *)
(***************************************************************************)
BusyNow == \E s \in Sessions : doing[s].at # "idle"

\* A new source or review makes what was decided inactive.
ReplaceBasis ==
  /\ active.package # 0 /\ package <= MaxReplacements
  /\ active' = [package |-> 0, submission |-> 0, review |-> 0]
  /\ ready' = FALSE
  /\ overlapped' = (overlapped \/ BusyNow)
  /\ UNCHANGED <<package, submissions, reviews, started, doing, interrupts>>

PackageAgain ==
  /\ active.package = 0 /\ Readable
  /\ package' = package + 1
  /\ active' = [package |-> package + 1, submission |-> 0, review |-> 0]
  /\ ready' = TRUE
  /\ overlapped' = (overlapped \/ BusyNow)
  /\ UNCHANGED <<submissions, reviews, started, doing, interrupts>>

AnswerNext ==
  \/ \E s \in Sessions :
       \/ \E a \in Answers : Answer(s, a)
       \/ \E d \in Decisions : Judge(s, d)
       \/ BeginAnswer(s) \/ SaveAnswer(s) \/ Prove(s) \/ SaveReview(s) \/ Interrupted(s)
  \/ ReplaceBasis \/ PackageAgain

AnswerSpec == AnswerInit /\ [][AnswerNext]_answerVars
=============================================================================
