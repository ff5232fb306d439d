-------------------------- MODULE EvidenceAttempts --------------------------
(***************************************************************************)
(* The attempts to read a supporting document: local ingestion, then        *)
(* extraction by a provider (supporting_evidence/ingestion.py and           *)
(* extraction.py), as the page starts and abandons them                     *)
(* (presentation/supporting_evidence_workflow.py).  A call reads, works and *)
(* writes in transactions of its own; only ended attempts have a row.       *)
(***************************************************************************)
EXTENDS Naturals, Sequences

CONSTANTS Sessions, Docs,
          MaxAttempts,      \* bound on the attempts of one line
          MaxStarts         \* a call starts while fewer attempts were started

ASSUME AttemptsAssumption == MaxAttempts \in Nat /\ MaxStarts \in Nat

Lines == {"ingestion", "extraction"}
Usable == {"SUCCEEDED", "PARTIAL"}

\* Mutant: a partial attempt may be retried.
UnlessSucceeded == {"FAILED", "ABANDONED", "PARTIAL"}

Retryable == {"FAILED", "ABANDONED"}

VARIABLES rows,         \* line -> document -> its attempts, in order
          starts,       \* the started attempts, in the order of their events
          superseded,   \* documents another document replaces
          consents,     \* document -> whether its latest declaration permits sending it
          kept,         \* session -> the attempts whose token it still has
          pending,      \* session -> the attempts it may mark abandoned
          pressed,      \* session -> documents whose upload token is spent
          work          \* session -> the call it has under way

attemptVars == <<rows, starts, superseded, consents, kept, pending, pressed, work>>
sessionVars == <<kept, pending, pressed>>

\* A row of the tables of attempts, and a start event of the workflow.
Row == [status : Usable \cup Retryable, start : Nat]
Start == [line : Lines, doc : Docs, number : Nat]

Idle == [step |-> "idle"]

AttemptsInit ==
    /\ rows = [l \in Lines |-> [d \in Docs |-> << >>]]
    /\ starts = << >>
    /\ superseded = {}
    /\ consents = [d \in Docs |-> FALSE]
    /\ kept = [s \in Sessions |-> {}]
    /\ pending = [s \in Sessions |-> {}]
    /\ pressed = [s \in Sessions |-> {}]
    /\ work = [s \in Sessions |-> Idle]

Line(l, d) == rows[l][d]

\* The last attempt of a line has one of the statuses.
Latest(l, d, statuses) ==
    Line(l, d) # << >> /\ Line(l, d)[Len(Line(l, d))].status \in statuses

Call(l, d, number) ==
    [step |-> "begin", line |-> l, doc |-> d, number |-> number,
     attempt |-> 0, status |-> "STARTED", latest |-> FALSE]

Steps(s, step) == work' = [work EXCEPT ![s].step = step]
Stops(s) == work' = [work EXCEPT ![s] = Idle]

\* An event of the lifecycle: a call that read the latest event before it no
\* longer holds the latest.
Overtakes(s, call) ==
    work' = [z \in Sessions |->
               IF z = s THEN call
               ELSE IF work[z] = Idle THEN Idle ELSE [work[z] EXCEPT !.latest = FALSE]]

\* "Add supporting document": the upload is accepted or reused, then ingested.
\* Its token is bound by the first press; the next ones differ in their
\* declaration and are refused.  The page passes no predecessor.
Upload(s, d) ==
    /\ work[s] = Idle
    /\ d \notin pressed[s]
    /\ Len(starts) < MaxStarts
    /\ pressed' = [pressed EXCEPT ![s] = @ \cup {d}]
    /\ work' = [work EXCEPT ![s] = Call("ingestion", d, 1)]
    /\ UNCHANGED <<rows, starts, superseded, consents, kept, pending>>

\* "Extract candidate evidence" and "Retry candidate extraction", with the
\* latest attempt as predecessor.
Extract(s, d) ==
    /\ work[s] = Idle
    /\ d \notin superseded
    /\ Latest("ingestion", d, {"SUCCEEDED"})
    /\ Line("extraction", d) = << >> \/ Latest("extraction", d, Retryable)
    /\ Len(Line("extraction", d)) < MaxAttempts /\ Len(starts) < MaxStarts
    /\ work' = [work EXCEPT ![s] = Call("extraction", d, Len(Line("extraction", d)) + 1)]
    /\ UNCHANGED <<rows, starts, superseded, consents, sessionVars>>

\* "Save consent" and "Keep document local" (record_provider_consent).
Declare(s, d) ==
    /\ work[s] = Idle
    /\ d \notin superseded
    /\ Latest("ingestion", d, {"SUCCEEDED"})
    /\ \E choice \in BOOLEAN : consents' = [consents EXCEPT ![d] = choice]
    /\ UNCHANGED <<rows, starts, superseded, sessionVars, work>>

\* _require_consent, of the provider the deployment configures.
Consented(d) == consents[d] /\ d \notin superseded

\* begin: a replaced document starts nothing; an extraction rests on a usable
\* ingestion and on consent.
Startable(call) ==
    /\ call.doc \notin superseded
    /\ call.line = "extraction" => Latest("ingestion", call.doc, Usable) /\ Consented(call.doc)

\* begin, against the latest attempt of the line as it is now.
Numbered(call) ==
    /\ call.number = Len(Line(call.line, call.doc)) + 1
    /\ call.number > 1 => Latest(call.line, call.doc, Retryable)

\* The attempts started with the token the session would use for this call.
Unfinished(s, call) ==
    {i \in kept[s] : starts[i] = [line |-> call.line, doc |-> call.doc, number |-> call.number]}

\* begin: a start this token made before is not repeated.  The page keeps it, to
\* be marked abandoned; the upload form keeps nothing.
Begin(s) ==
    LET call == work[s]
        mine == Unfinished(s, call)
        begins == Startable(call) /\ Numbered(call)
    IN  /\ call.step = "begin"
        /\ IF begins /\ mine = {} THEN Steps(s, "read start") ELSE Stops(s)
        /\ pending' = IF begins /\ call.line = "extraction" /\ mine # {}
                      THEN [pending EXCEPT ![s] = {i \in @ : starts[i].doc # call.doc} \cup mine]
                      ELSE pending
        /\ UNCHANGED <<rows, starts, superseded, consents, kept, pressed>>

\* next_workflow_event reads the latest event; the append that follows is
\* refused when there has been one since.
ReadEvent(s) ==
    /\ work[s].step \in {"read start", "read end"}
    /\ work' = [work EXCEPT ![s].latest = TRUE,
                            ![s].step = IF @ = "read start" THEN "start" ELSE "end"]
    /\ UNCHANGED <<rows, starts, superseded, consents, sessionVars>>

FreshAttempt == Len(starts) + 1

AppendStart(s) ==
    LET call == work[s]
        id == FreshAttempt
        next == IF call.line = "extraction" THEN "consent" ELSE "work"
    IN  /\ call.step = "start"
        /\ IF call.latest
           THEN /\ starts' = Append(starts, [line |-> call.line, doc |-> call.doc, number |-> call.number])
                /\ kept' = [kept EXCEPT ![s] = @ \cup {id}]
                /\ Overtakes(s, [call EXCEPT !.step = next, !.attempt = id, !.latest = FALSE])
           ELSE /\ Stops(s)
                /\ UNCHANGED <<starts, kept>>
        /\ UNCHANGED <<rows, superseded, consents, pending, pressed>>

\* complete of an extraction asks for consent again, before it reparses.
CheckConsent(s) ==
    /\ work[s].step = "consent"
    /\ IF Consented(work[s].doc) THEN Steps(s, "work") ELSE Stops(s)
    /\ UNCHANGED <<rows, starts, superseded, consents, sessionVars>>

\* The parser, or the provider for every chunk, answers; some answers are lost.
Perform(s) ==
    /\ work[s].step = "work"
    /\ \E status \in Usable \cup {"FAILED"} :
         work' = [work EXCEPT ![s].step = "read end", ![s].status = status]
    /\ UNCHANGED <<rows, starts, superseded, consents, sessionVars>>

\* SupportingEvidenceProviderInterrupted: the page keeps the attempt.
Interrupt(s) ==
    LET call == work[s] IN
    /\ call.step = "work" /\ call.line = "extraction"
    /\ pending' = [pending EXCEPT ![s] = {i \in @ : starts[i].doc # call.doc} \cup {call.attempt}]
    /\ Stops(s)
    /\ UNCHANGED <<rows, starts, superseded, consents, kept, pressed>>

\* "Mark extraction abandoned".
Abandon(s, i) ==
    /\ work[s] = Idle
    /\ i \in pending[s]
    /\ starts[i].doc \notin superseded
    /\ work' = [work EXCEPT ![s] = [Call("extraction", starts[i].doc, starts[i].number) EXCEPT
                                      !.step = "read end", !.attempt = i, !.status = "ABANDONED"]]
    /\ UNCHANGED <<rows, starts, superseded, consents, sessionVars>>

\* Mutant: an attempt is appended whatever attempts there already are.
ExtendsAnyLine(call) == TRUE

\* append_ingestion_attempt and store_extraction_bundle: the attempt extends its
\* line, and an extraction rests on a usable ingestion.
Extends(call) ==
    /\ call.number = Len(Line(call.line, call.doc)) + 1
    /\ call.line = "extraction" => Latest("ingestion", call.doc, Usable)

Settled(s, i) == [pending EXCEPT ![s] = @ \ {i}]

\* The row, its proposals and its terminal event are one transaction; a refused
\* one loses the work, and leaves the start.
AppendEnd(s) ==
    LET call == work[s]
        row == [status |-> call.status, start |-> call.attempt]
    IN  /\ call.step = "end"
        /\ IF call.latest /\ Extends(call)
           THEN /\ rows' = [rows EXCEPT ![call.line][call.doc] = Append(@, row)]
                /\ pending' = Settled(s, call.attempt)
                /\ Overtakes(s, Idle)
           ELSE /\ Stops(s)
                /\ UNCHANGED <<rows, pending>>
        /\ UNCHANGED <<starts, superseded, consents, kept, pressed>>

\* Another upload replaces a document; a review, a mapping or a readiness adds
\* an event; a session and what it kept are lost.
Supersede(d) ==
    /\ d \notin superseded
    /\ superseded' = superseded \cup {d}
    /\ UNCHANGED <<rows, starts, consents, sessionVars, work>>

OtherEvent ==
    /\ work' = [z \in Sessions |-> IF work[z] = Idle THEN Idle ELSE [work[z] EXCEPT !.latest = FALSE]]
    /\ UNCHANGED <<rows, starts, superseded, consents, sessionVars>>

Lose(s) ==
    /\ kept' = [kept EXCEPT ![s] = {}]
    /\ pending' = [pending EXCEPT ![s] = {}]
    /\ pressed' = [pressed EXCEPT ![s] = {}]
    /\ Stops(s)
    /\ UNCHANGED <<rows, starts, superseded, consents>>

Proceed(s) ==
    \/ Begin(s) \/ ReadEvent(s) \/ AppendStart(s)
    \/ CheckConsent(s) \/ Perform(s) \/ Interrupt(s) \/ AppendEnd(s)

Click(s) ==
    \/ \E d \in Docs : Upload(s, d) \/ Extract(s, d) \/ Declare(s, d)
    \/ \E i \in pending[s] : Abandon(s, i)

AttemptsNext ==
    \/ \E s \in Sessions : Click(s) \/ Proceed(s) \/ Lose(s)
    \/ \E d \in Docs : Supersede(d)
    \/ OtherEvent

AttemptsSpec == AttemptsInit /\ [][AttemptsNext]_attemptVars
=============================================================================
