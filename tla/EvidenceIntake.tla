--------------------------- MODULE EvidenceIntake ---------------------------
(***************************************************************************)
(* Taking supporting documents into a formal lifecycle                     *)
(* (supporting_evidence/intake.py), through the transactions of            *)
(* SQLiteFormalEvidenceRepository and the triggers of its tables.  Callers  *)
(* are sessions of one database: between two steps of a call, any other    *)
(* may write.                                                              *)
(***************************************************************************)
EXTENDS Naturals, FiniteSets, Sequences, SequencesExt, FiniteSetsExt

CONSTANTS Uploaders, Tokens,
          Facts,          \* [content -> what an inspection finds in its bytes]
          Source,         \* the content of the approved process source
          Extensions,     \* file name extensions in use
          MaxCurrent,     \* MAX_CURRENT_DOCUMENTS
          MaxBytes,       \* MAX_FORMAL_LIFECYCLE_BYTES
          MaxDocuments    \* an upload begins while fewer documents are stored

Contents == DOMAIN Facts

\* The problems an inspection looks for, in its order; content is text-native
\* PDF or plain text when it has none of them.
PdfProblems == <<"ENCRYPTED", "PDF_PAGE_LIMIT_EXCEEDED", "ACTIVE_CONTENT", "MALFORMED",
                 "SCANNED_OR_NO_TEXT", "EXTRACTED_CHARACTER_LIMIT_EXCEEDED">>
TextProblems == <<"MALFORMED", "EXTRACTED_CHARACTER_LIMIT_EXCEEDED">>

Magics == {"pdf", "text", "EXECUTABLE", "ARCHIVE"}
Fact == [size : Nat, oversized : BOOLEAN, magic : Magics,
         problems : SUBSET (Range(PdfProblems) \cup Range(TextProblems))]

ASSUME IntakeAssumption ==
    /\ \A c \in Contents : Facts[c] \in Fact
    /\ IsFiniteSet(Uploaders)
    /\ {MaxCurrent, MaxBytes, MaxDocuments} \subseteq Nat

\* The requests of accept: a file, and the document it replaces, 0 for none.
Requests == [content : Contents, extension : Extensions, over : 0..MaxDocuments]

VARIABLES blobs,        \* content -> the state of its blob
          documents,    \* the documents of the lifecycle, in the order stored
          requests,     \* token -> the result it is bound to: a document, or a rejection
          uploads         \* caller -> the call it has under way

intakeVars == <<blobs, documents, requests, uploads>>

NoUpload == [step |-> "idle"]
NoBlob == "NONE"
Accepted == "ACCEPTED"
Unbound == << >>
RejectedFile == <<0>>

\* The rows of the three tables.
Blob == {NoBlob, Accepted} \cup Magics \cup {"FILE_TOO_LARGE"} \cup Range(PdfProblems)
Document == [content : Contents, extension : Extensions, over : Nat, token : Tokens]
Binding == {Unbound, RejectedFile} \cup {<<i>> : i \in Nat \ {0}}

StoredAs(i) == <<i>>

IntakeInit ==
    /\ blobs = [c \in Contents |-> NoBlob]
    /\ documents = << >>
    /\ requests = [t \in Tokens |-> Unbound]
    /\ uploads = [s \in Uploaders |-> NoUpload]

Findings(found, order) == {k \in DOMAIN order : order[k] \in found}

FirstOf(found, order) ==
    LET hits == Findings(found, order) IN IF hits = {} THEN Accepted ELSE order[Min(hits)]

\* inspect_supporting_file: the first check that fails names the rejection.
Inspect(r) ==
    LET fact == Facts[r.content] IN
    IF fact.oversized THEN "FILE_TOO_LARGE"
    ELSE IF r.extension \notin {"pdf", "txt"} THEN "UNSUPPORTED_FILE_TYPE"
    ELSE IF fact.magic \in {"EXECUTABLE", "ARCHIVE"} THEN fact.magic
    ELSE IF r.extension = "pdf"
         THEN IF fact.magic = "pdf" THEN FirstOf(fact.problems, PdfProblems) ELSE "MALFORMED"
         ELSE IF fact.magic = "pdf" THEN "UNSUPPORTED_FILE_TYPE"
              ELSE FirstOf(fact.problems, TextProblems)

\* Rejections that are raised without a blob to remember them by.
Unremembered == {"UNSUPPORTED_FILE_TYPE"}

\* current_documents: the documents no other document replaces.
Replaced(i) == \E j \in DOMAIN documents : documents[j].over = i
Current == {i \in DOMAIN documents : ~Replaced(i)}

\* The sum of the first n weights.
Total(w, n) ==
    LET upTo[k \in Nat] == IF k = 0 THEN 0 ELSE upTo[k - 1] + w[k] IN upTo[n]

Weight(docs) == [i \in Nat |-> IF i \in docs THEN Facts[documents[i].content].size ELSE 0]
Bytes(docs) == Total(Weight(docs), Len(documents))

\* Both limits, for the current documents with one of the content more and the
\* replaced one less.
Fits(over, content) ==
    /\ Cardinality(Current) + (IF over = 0 THEN 1 ELSE 0) <= MaxCurrent
    /\ Bytes(Current \ {over}) + Facts[content].size <= MaxBytes

MovesTo(s, step) == uploads' = [uploads EXCEPT ![s].step = step]
EndsUpload(s) == uploads' = [uploads EXCEPT ![s] = NoUpload]
LooksUp == UNCHANGED <<blobs, documents, requests>>

\* accept: a bound token is answered from history, with a replay, its rejection
\* or a conflict.
Answer(s) ==
    /\ uploads[s] = NoUpload
    /\ \E t \in Tokens : requests[t] # Unbound
    /\ UNCHANGED intakeVars

\* A new token has its file inspected; some rejections are only raised.
Accept(s) ==
    /\ uploads[s] = NoUpload
    /\ Len(documents) < MaxDocuments
    /\ \E t \in Tokens, r \in Requests :
         LET code == Inspect(r)
             next == IF code # Accepted THEN "seek rejection" ELSE "seek duplicate"
         IN  /\ r.over \in 0..Len(documents)
             /\ requests[t] = Unbound
             /\ code \notin Unremembered
             /\ code = Accepted => r.content # Source
             /\ uploads' = [uploads EXCEPT ![s] = [step |-> next, token |-> t, request |-> r,
                                                    found |-> 0, known |-> FALSE]]
    /\ LooksUp

Rejection(s) == Inspect(uploads[s].request)

SeekRejection(s) ==
    /\ uploads[s].step = "seek rejection"
    /\ uploads' = [uploads EXCEPT ![s].step = "reject",
                              ![s].known = (blobs[uploads[s].request.content] = Rejection(s))]
    /\ LooksUp

\* store_source_blob of a rejected blob.  A blob this call did not read has
\* another creation time than the call's, and is refused as different.
Reject(s) ==
    LET call == uploads[s]
        blob == blobs[call.request.content]
    IN  /\ call.step = "reject"
        /\ \/ /\ requests[call.token] = Unbound
              /\ blob = NoBlob \/ (call.known /\ blob = Rejection(s))
              /\ blobs' = [blobs EXCEPT ![call.request.content] = Rejection(s)]
              /\ requests' = [requests EXCEPT ![call.token] = RejectedFile]
           \/ /\ requests[call.token] # Unbound \/ (blob # NoBlob /\ ~(call.known /\ blob = Rejection(s)))
              /\ UNCHANGED <<blobs, requests>>
        /\ EndsUpload(s)
        /\ UNCHANGED documents

\* Mutant: no duplicate is looked for.
NoDuplicate(content) == {i \in {} : documents[i].content = content}

SameContent(content) == {i \in DOMAIN documents : documents[i].content = content}

\* find_document_by_content: the first document stored with the content, a
\* replaced one included.  A replacement with known content is refused.
SeekDuplicate(s) ==
    LET call == uploads[s]
        same == SameContent(call.request.content)
    IN  /\ call.step = "seek duplicate"
        /\ CASE same = {} -> MovesTo(s, "count")
             [] same # {} /\ call.request.over = 0 ->
                  uploads' = [uploads EXCEPT ![s].step = "reuse", ![s].found = Min(same)]
             [] same # {} /\ call.request.over # 0 -> EndsUpload(s)
        /\ LooksUp

\* record_document_reuse: the token is bound to the document found.
Reuse(s) ==
    LET call == uploads[s] IN
    /\ call.step = "reuse"
    /\ requests' = IF requests[call.token] # Unbound THEN requests
                   ELSE [requests EXCEPT ![call.token] = StoredAs(call.found)]
    /\ EndsUpload(s)
    /\ UNCHANGED <<blobs, documents>>

\* The current documents are read once, for the replaced document and both limits.
Count(s) ==
    LET r == uploads[s].request
        ready == r.over \in Current \cup {0} /\ Fits(r.over, r.content)
    IN  /\ uploads[s].step = "count"
        /\ IF ready THEN MovesTo(s, "store") ELSE EndsUpload(s)
        /\ LooksUp

\* UNIQUE(formal_lifecycle_id, superseded_document_id), and the triggers.
Insertable(r) == (~Replaced(r.over) \/ r.over = 0) /\ Fits(r.over, r.content)

\* _write_idempotently: a token somebody bound since accept read it is refused.
Bindable(t) == requests[t] = Unbound

\* The blob of a content is accepted once and for all, or rejected.
Retainable(c) == blobs[c] \in {NoBlob, Accepted}

\* store_document_intake: blob, document, metadata and request row are one
\* transaction, or nothing is.
Store(s) ==
    LET call == uploads[s]
        r == call.request
        stores == Bindable(call.token) /\ Retainable(r.content) /\ Insertable(r)
    IN  /\ call.step = "store"
        /\ IF stores
           THEN /\ blobs' = [blobs EXCEPT ![r.content] = IF @ = NoBlob THEN Accepted ELSE @]
                /\ documents' = Append(documents, [content |-> r.content, extension |-> r.extension,
                                                   over |-> r.over, token |-> call.token])
                /\ requests' = [requests EXCEPT ![call.token] = StoredAs(Len(documents) + 1)]
           ELSE UNCHANGED <<blobs, documents, requests>>
        /\ EndsUpload(s)

\* The script run of a session ends between two steps, or the process does.
LoseUpload(s) ==
    /\ uploads[s] # NoUpload
    /\ EndsUpload(s)
    /\ LooksUp

UploadStep(s) ==
    \/ SeekRejection(s) \/ Reject(s) \/ SeekDuplicate(s) \/ Reuse(s) \/ Count(s) \/ Store(s)

IntakeNext == \E s \in Uploaders : Answer(s) \/ Accept(s) \/ UploadStep(s) \/ LoseUpload(s)

IntakeSpec == IntakeInit /\ [][IntakeNext]_intakeVars
=============================================================================
