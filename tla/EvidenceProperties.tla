------------------------- MODULE EvidenceProperties -------------------------
(***************************************************************************)
(* What the intake of supporting documents and the attempts to read them   *)
(* keep true under concurrent sessions.                                    *)
(***************************************************************************)
EXTENDS EvidenceIntake, EvidenceAttempts

Uploads ==
    [step : {"seek rejection", "reject", "seek duplicate", "reuse", "count", "store"},
     token : Tokens, request : Requests, found : Nat, known : BOOLEAN]

\* The state of the intake: every blob, document, bound token and call has its
\* declared form (models/formal_evidence.py and the tables of migration 7).
IntakeTypeOK ==
    /\ blobs \in [Contents -> Blob] /\ requests \in [Tokens -> Binding]
    /\ \A i \in DOMAIN documents : documents[i] \in Document /\ documents[i].over < i
    /\ \A s \in Uploaders : uploads[s] \in Uploads \cup {NoUpload}

\* The limits on current documents and bytes hold at every moment, although
\* accept checks them on documents it read before: the triggers check again
\* inside the insert (intake.py, MAX_CURRENT_DOCUMENTS and the byte limit).
LimitsHold == Cardinality(Current) <= MaxCurrent /\ Bytes(Current) <= MaxBytes

\* Supersession is linear: two sessions that replace the same document at once
\* do not both succeed, so a document has at most one successor.
OneSuccessor ==
    \A i, j \in DOMAIN documents : documents[i].over = documents[j].over => i = j \/ documents[i].over = 0

\* A request token stands for at most one document, however often and by
\* however many sessions the same upload is submitted.
OneDocumentPerToken ==
    \A i, j \in DOMAIN documents : documents[i].token = documents[j].token => i = j

\* The same content is stored again only by uploads that overlapped its first
\* storage: after it, every upload finds it.  Nothing in the tables forbids the
\* duplicates, so there may be as many as there are sessions, and no more.
DuplicatesOverlap ==
    \A c \in Contents :
      Cardinality({i \in DOMAIN documents : documents[i].content = c}) <= Cardinality(Uploaders)

\* Every stored document has retained bytes that passed the inspection under
\* its name, and is not the approved process source.
DocumentsAreReadable ==
    \A i \in DOMAIN documents :
      LET fact == Facts[documents[i].content] IN
      /\ blobs[documents[i].content] = Accepted
      /\ documents[i].content # Source
      /\ ~fact.oversized
      /\ fact.magic = (IF documents[i].extension = "pdf" THEN "pdf" ELSE "text")
      /\ documents[i].extension = "pdf" => fact.problems \cap Range(PdfProblems) = {}
      /\ documents[i].extension = "txt" => fact.problems \cap Range(TextProblems) = {}

\* What concurrent uploads leave behind stays within the limits and is one line
\* of readable documents: none is replaced twice, no request stored twice, no
\* content stored again but by uploads that overlapped.
IntakeSound ==
    LimitsHold /\ OneSuccessor /\ OneDocumentPerToken /\ DuplicatesOverlap /\ DocumentsAreReadable

\* The comment in intake.py: the same bytes may be resubmitted under their
\* correct extension after a rejection for their name.
MisnamedMayBeResubmitted ==
    \A s \in Uploaders : uploads[s].step = "store" => Retainable(uploads[s].request.content)

Calls ==
    [step : {"begin", "read start", "start", "consent", "work",
             "read end", "end"},
     line : Lines, doc : Docs, number : Nat, attempt : Nat,
     status : Usable \cup Retryable \cup {"STARTED"}, latest : BOOLEAN]

\* The state of the attempts: rows, starts and calls have their declared form.
AttemptsTypeOK ==
    /\ rows \in [Lines -> [Docs -> Seq(Row)]]
    /\ starts \in Seq(Start)
    /\ superseded \subseteq Docs
    /\ consents \in [Docs -> BOOLEAN]
    /\ kept \in [Sessions -> SUBSET (1..Len(starts))]
    /\ pending \in [Sessions -> SUBSET (1..Len(starts))]
    /\ pressed \in [Sessions -> SUBSET Docs]
    /\ work \in [Sessions -> Calls \cup {Idle}]

\* A usable attempt is the last of its line: no late answer, retry or
\* abandonment of another session follows it, so a document never has two
\* extractions whose proposals compete for review.
UsableIsLast ==
    \A l \in Lines, d \in Docs : \A n \in 1..Len(Line(l, d)) :
      Line(l, d)[n].status \in Usable => n = Len(Line(l, d))

\* The n-th attempt of a line records the start of an n-th attempt of that line.
\* So no attempt is recorded twice, as abandoned and by an answer that comes
\* after, and none under a number another attempt took.
RecordsItsStart ==
    \A l \in Lines, d \in Docs : \A n \in 1..Len(Line(l, d)) :
      /\ Line(l, d)[n].start \in 1..Len(starts)
      /\ starts[Line(l, d)[n].start] = [line |-> l, doc |-> d, number |-> n]

\* Whatever extraction attempt is recorded, its document's ingestion is usable
\* and stays so: proposals always have the canonical text they cite.
ExtractionHasText ==
    \A d \in Docs : Line("extraction", d) # << >> => Latest("ingestion", d, Usable)

\* An attempt that was interrupted and may be marked abandoned has no row: what
\* the page offers to abandon never answered after all.
PendingHasNoRow ==
    \A s \in Sessions : \A i \in pending[s] :
      \A n \in 1..Len(Line("extraction", starts[i].doc)) :
        Line("extraction", starts[i].doc)[n].start # i

\* An attempt is recorded once, for its own start, and what is offered to be
\* abandoned never was.
StartsSettleOnce == RecordsItsStart /\ PendingHasNoRow

\* What can be reviewed is there once and has its text, whoever answers late.
UsableSound == UsableIsLast /\ ExtractionHasText

\* D-036 (02_DECISIONS.md:390): absence of consent prevents external
\* transmission.  A document goes to the provider while its latest declaration
\* keeps it local only if the provider was already working.
SentOnlyWithConsent ==
    [][\A s \in Sessions :
         (work[s].step = "work" /\ work[s].line = "extraction" /\ work'[s].step = "read end")
           => consents[work[s].doc]]_attemptVars
=============================================================================
