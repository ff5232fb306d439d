----------------------------- MODULE FormalDraft -----------------------------
(***************************************************************************)
(* The attempt one session prepares on the Organisational page and then    *)
(* runs (presentation/formal_assessment_workflow.py), while other sessions *)
(* add to the supporting history.  The adapter is FormalProjection; the     *)
(* run itself is FormalRun.                                                 *)
(***************************************************************************)
EXTENDS FormalProjection

CONSTANTS Candidates,   \* sets of mappings a revision of the history may prepare
          MaxHead       \* bound on the revisions of the supporting history

ASSUME HeadAssumption == MaxHead \in Nat

\* A candidate has finitely many mappings, and a positive one has a value.
ASSUME CandidatesAssumption ==
    \A mappings \in Candidates :
        IsFiniteSet(mappings) /\ \A m \in mappings : m.positive => m.value \in Values

VARIABLES approved,     \* [Fields -> Approved], the fields of the approved review
          history,      \* the supporting history, as its snapshot reads
          draft,        \* the prepared attempt, or NoDraft
          run           \* what the last attempt was started with, or NoRun

draftVars == <<approved, history, draft, run>>

ProcessOnly == "APPROVED_PROCESS_ONLY"
Supporting == "APPROVED_PROCESS_WITH_SUPPORTING_EVIDENCE"

NoDraft == [mode |-> "none"]
NoRun == [mode |-> "none"]

\* _supporting_snapshot: a candidate is ready while the history has not changed
\* since it was prepared.
NoHistory == [head |-> 0, ready |-> FALSE, mappings |-> {}]
Documents == history.head > 0

DraftInit ==
    /\ approved \in [Fields -> Approved]
    /\ history = NoHistory
    /\ draft = NoDraft
    /\ run = NoRun

\* _choice: what the attempt pins of the supporting history as it is now.
Disposition(mode) ==
    IF mode = Supporting THEN "INCLUDED"
    ELSE IF Documents THEN "EXPLICITLY_EXCLUDED" ELSE "NO_SUPPORTING_HISTORY"

Used(mode) == IF mode = Supporting THEN history.mappings ELSE {}

\* _discard_draft: the selections of the draft before are dropped.
FreshSelections == << >>

\* _prepare_draft: the draft before is discarded; a supporting attempt needs a
\* ready candidate and a preflight that succeeds.
Prepare(mode) ==
    /\ mode = Supporting => history.ready
    /\ draft' = IF mode = Supporting /\ ~Preflights(approved, history.mappings)
                THEN NoDraft
                ELSE [mode |-> mode, disposition |-> Disposition(mode),
                      head |-> history.head, mappings |-> Used(mode),
                      conflicts |-> IF mode = Supporting
                                    THEN Conflicts(approved, history.mappings) ELSE {},
                      resolutions |-> FreshSelections, final |-> {}]
    /\ UNCHANGED <<approved, history, run>>

\* The page shows a supporting draft only while the history is ready to use.
Shown == draft # NoDraft /\ (draft.mode = Supporting => history.ready)

Without(resolutions, f) == [g \in DOMAIN resolutions \ {f} |-> resolutions[g]]

\* "Record conflict resolution" and "Change this selection" (_render_conflicts).
Resolve(f) ==
    /\ Shown
    /\ f \in draft.conflicts \ DOMAIN draft.resolutions
    /\ LET alternatives == Alternatives(approved, draft.mappings, f)
       IN  \E a \in alternatives :
             draft' = [draft EXCEPT !.resolutions =
                         [g \in DOMAIN @ \cup {f} |->
                            IF g = f THEN [alternatives |-> alternatives, selected |-> a.value]
                            ELSE @[g]]]
    /\ UNCHANGED <<approved, history, run>>

ChangeSelection(f) ==
    /\ Shown
    /\ f \in DOMAIN draft.resolutions
    /\ draft' = [draft EXCEPT !.resolutions = Without(@, f)]
    /\ UNCHANGED <<approved, history, run>>

\* The authorization is made once for a draft, from the selections of then.
Authorized == IF draft.final = {} THEN draft.resolutions
              ELSE CHOOSE resolutions \in draft.final : TRUE

AllResolved == DOMAIN draft.resolutions = draft.conflicts

\* "Attempt Organisational Assessment": the run is rejected by the adapter or
\* started with the projection; the draft is gone after either.
RunDraft ==
    /\ Shown
    /\ AllResolved
    /\ run' = IF Projects(approved, draft.mappings, Authorized)
              THEN [mode |-> draft.mode, disposition |-> draft.disposition,
                    head |-> draft.head, shown |-> draft.resolutions,
                    resolutions |-> Authorized, mappings |-> draft.mappings,
                    traces |-> Projection(approved, draft.mappings, Authorized)]
              ELSE NoRun
    /\ draft' = NoDraft
    /\ UNCHANGED <<approved, history>>

\* The attempt raises before anything is stored: the draft is kept to press the
\* button again, with the authorization that was made.
RunRaises ==
    /\ Shown
    /\ AllResolved
    /\ draft' = [draft EXCEPT !.final = {Authorized}]
    /\ UNCHANGED <<approved, history, run>>

\* Discarded by its button, on opening the supporting section, or with the session.
Discard ==
    /\ draft # NoDraft
    /\ draft' = NoDraft
    /\ UNCHANGED <<approved, history, run>>

\* Any session adds documents or reviews, or prepares the candidate anew.
Revise ==
    /\ history.head < MaxHead
    /\ \E candidate \in Candidates, ready \in BOOLEAN :
         history' = [head |-> history.head + 1, ready |-> ready, mappings |-> candidate]
    /\ UNCHANGED <<approved, draft, run>>

DraftNext ==
    \/ \E mode \in {ProcessOnly, Supporting} : Prepare(mode)
    \/ \E f \in Fields : Resolve(f) \/ ChangeSelection(f)
    \/ RunDraft \/ RunRaises \/ Discard \/ Revise

DraftSpec == DraftInit /\ [][DraftNext]_draftVars

-----------------------------------------------------------------------------
(***************************************************************************)
(* What the adapter and the prepared attempt promise.                      *)
(***************************************************************************)

Started == run # NoRun

\* The variables keep their types: a draft resolves conflicts of its own
\* candidate, a run is of one mode and has a trace of every field.
DraftTypeOK ==
    /\ approved \in [Fields -> Approved]
    /\ history.head \in 0 .. MaxHead /\ history.ready \in BOOLEAN
    /\ history.mappings \in Candidates \cup {{}}
    /\ draft # NoDraft =>
         /\ draft.mode \in {ProcessOnly, Supporting}
         /\ draft.conflicts \subseteq Fields
         /\ DOMAIN draft.resolutions \subseteq draft.conflicts
    /\ Started => DOMAIN run.traces = Fields

\* What is prepared can be run: a preflight that succeeds lists every conflict,
\* so any selection of the alternatives it shows projects, whatever other sessions
\* did to the history meanwhile (preflight_conflicts against project).
PreparedProjects ==
    draft # NoDraft /\ draft.mode = Supporting /\ AllResolved =>
        Projects(approved, draft.mappings, draft.resolutions)

\* No reviewed mapping replaces an approved value by itself: a run assesses the
\* approved value unless the user selected another in a resolution of this run,
\* and an unknown stays unknown without a positive mapping.
NeverOverridden ==
    Started =>
        \A f \in Fields :
            \/ run.traces[f].projected = approved[f].value
            \/ f \in DOMAIN run.resolutions
               /\ run.traces[f].projected = run.resolutions[f].selected
            \/ approved[f].value = None
               /\ {run.traces[f].projected} = Keys(run.mappings, f)

\* What the adapter builds is what the contract of projections accepts, two
\* pieces of code that each derive the alternatives and their provenance.
ContractHolds ==
    Started => ContractAccepts(approved, run.mappings, run.resolutions, run.traces)

\* A process-only run takes nothing from the supporting history.
ProcessOnlyIsApproved ==
    Started /\ run.mode = ProcessOnly =>
        \A f \in Fields : run.traces[f].origin = "SOURCE_ONLY"

\* A run assesses what its user approved or selected and nothing the contract of
\* projections refuses, whatever the history became since the draft was prepared.
DraftSound == ContractHolds /\ NeverOverridden /\ ProcessOnlyIsApproved

\* "The latter path may explicitly attempt the strict four-gate assessment from
\* the exact active approved-process review" (02_DECISIONS.md, D-037): an attempt
\* with the current document only is started.
ProcessOnlyStarts ==
    [][RunDraft /\ draft.mode = ProcessOnly => Started']_draftVars

\* "Supporting-evidence authorization additionally requires the exact current
\* formal-input-candidate-set" (02_DECISIONS.md, D-037): what a run uses is what is
\* current when it is started.
UsesCurrentCandidate ==
    [][RunDraft /\ Started' /\ run'.mode = Supporting => run'.head = history.head]_draftVars

\* "I confirm I want to attempt the Organisational Assessment with these exact
\* inputs" (_render_final_review): the selections the page shows are those assessed.
RunsWhatIsShown == Started => run.shown = run.resolutions
=============================================================================
