# A verification model of the AI adoption assessment tool

The tool takes a description of a business process, extracts a candidate
process from it, has a person review and approve the candidate, assesses the
approved process under a decision contract and produces a decision package. A
newer path starts a *Preliminary journey* from the same approval: quick runs
that explore the process, then a formal lifecycle with supporting documents,
reviewed evidence and formal runs of its own. What a package left open can be
answered, or reassessed in a controlled way. Everything is kept in one SQLite
database; the user interface is a Streamlit server in which each browser
session is a thread of one process.

The code is under `src/src/ai_adoption_engine/`; paths here are relative to it
unless they start with `src/` or name a document of the repository.
`PROJECT.json` maps every definition to the lines it stands for, and lists the
runs, mutants, hazards, findings and theorems.

## 1. The system

### Inventory

| Component | State it keeps | Operations | Correct if |
|---|---|---|---|
| Workspace repository (`persistence/sqlite.py`, `base.py`, `contract_pins.py`) | assessment (stage, contract pin), stored artifacts, the active artifact per type, idempotent operations | create, load, save and advance, activate, invalidate, begin / complete / fail an operation, pin, delete | an operation takes effect once; what is active is one loadable chain; revisions are kept |
| Workspace service (`workspace/service.py`) | nothing between calls | ingest, extract, retry, start / save review, approve, assess, generate package, reset | guards checked on a snapshot still hold when the save commits |
| Workspace pages (`presentation/context.py`, `pages/`) | the snapshot hydrated last, in the session | offer the buttons for that snapshot, call the service, refresh | what the user confirms is what is stored |
| Process review (`review/`, `models/review.py`) | the review: assertions, steps, dependencies, conflicts, audit events | accept, correct, resolve, retain, reject, reorder, remove, select actor, approve | an approval holds only what was confirmed; the trail is append-only |
| Preliminary journey (`preliminary/journey.py`, `run.py`, `formal.py`, `persistence/preliminary.py`) | events of the journey, route requests, runs and their status, results, supersession links, formal start | create, select route, evaluate, retry, abandon, start formal, load | whatever is accepted stays readable; one run at a time; one line of results per evaluator |
| Preliminary evaluators (`preliminary/evaluator*.py`, `rules*.py`) | none | evaluate | the rules as documented; a trace its own contract accepts |
| Formal runs (`formal/run_service.py`, `persistence/formal_assessment.py`, `presentation/formal_assessment_workflow.py`) | attempts, their events and state, terminal records, result supersessions | execute, interrupt, mark retry available, retry, abandon, supersede | one engine run per attempt; one terminal record; one current result |
| Formal input adapter and draft (`formal/input_adapter.py`, the page above) | the draft of a session | prepare, resolve conflicts, change a selection, run, discard | supporting evidence never overrides the process; what was prepared projects |
| Supporting documents (`supporting_evidence/intake.py`) | blobs, documents, bound request tokens | accept, replace, reject | limits hold; replacement is linear; only readable content is kept |
| Supporting evidence attempts (`ingestion.py`, `extraction.py`) | attempts, consents, one event sequence | begin, complete, interrupt, abandon, retry, consent | every start is recorded once; one usable attempt per line |
| Supporting evidence preparation (`review.py`, `conversion.py`, `persistence/formal_evidence.py`) | review revisions, mappings, candidate sets, readiness | review, map, prepare, evaluate readiness | nothing current rests on what is stale |
| Gap resolution M1 (`grw/service.py`) | a submission and its review beside the package | open, submit, review | answered and judged once, baseline unchanged |
| Controlled reassessment (`grw/m2/`, `grw/four_gate_m2/`, `persistence/*reassessment.py`) | runs, their artifacts by step, operations, documents | nine steps from the opened run to the comparison | a run follows its steps, under the policy of its baseline, and ends |
| Decision gates, scoring, engines (`decision/`) | none | assess a step | unknown or conflicting inputs never pass a gate |
| Assessment services (`application/*assessment.py`) | none | project, check, assess, trace | failures typed; the trace names what was decided on |
| Decision packages (`decision_support/`, `models/*decision_support.py`) | none | portfolio, gaps, roadmap, report | a package says what its assessment says |
| Process extraction (`extraction/`) | none | chunk, ask, repair, resolve, merge | every block is planned; every citation resolves |
| Source ingestion, migrations, models and serialisation, presentation, command line, evaluation corpus, provider clients, formal guidance, continuation views | none that outlives a call, or a schema | | not modelled; see section 6 |

### How they interact

A workspace page calls one service method per click. The service calls the
repository several times, each call in a connection or transaction of its own:
it loads the workspace (two connections: the assessment, then the active
artifacts), checks its guards on what it loaded, opens an idempotent operation,
runs an engine outside any transaction, and saves. The reassessments follow the
same pattern with tables of their own, the answers of M1 with the workspace's.
The journey services work differently: they read and validate the whole journey
inside the `BEGIN IMMEDIATE` transaction that writes, and only the evaluation of
a run falls between two transactions. Formal runs and supporting evidence read
in one connection and append in another; what they append is checked again by
the repository and by SQL triggers. A formal run pins a candidate set, its
projection merges the approved process with the mapped evidence, and its engine
is the four-gate engine of the workspace's assessment. The journey refers to
the workspace through the approved review; the workspace does not know the
journey, except that foreign keys keep an assessment with a journey from being
deleted.

### What is hard

* Two sessions between any two database accesses of a call.
* Snapshots that were read before and are used after (service and pages).
* A crash between the begin of an operation and its save, between the start of
  a run and its result, between the start event of an attempt and its record.
* Calls repeated by the user: while running, after failure, after completion.
* An evaluation or an engine that comes back after its run was declared
  interrupted, abandoned or retried.
* Two configured evaluator versions writing into one journey.
* Readers without a transaction while others write.
* Evidence that is superseded while something that cites it is being prepared.
* Rule sets, record contracts, packagers and traces that restate each other and
  have to agree on every combination of known, unknown, inferred, conflicting
  and excluded inputs.
* Long legal sequences: replace the source, bring it back, retry, reset.

`PROJECT.json` lists 40 hazards line by line, each with its properties.

## 2. Modules

| Modules | Model |
|---|---|
| `WorkspaceStore`, `WorkspaceService`, `WorkspaceProperties`, `MCWorkspace`, `WorkspaceProofs` | tables and transactions of the repository; sessions running the service on it, snapshots, faults and crashes |
| `ReviewSession`, `ReviewProofs` | the operations of one review and its approval |
| `ProcessExtraction`, `MCReview`, `ExtractionProofs` | the plan of chunks, the dialogue with the provider, citations and merge; the instances of review and extraction |
| `PreliminaryJourney`, `PreliminaryHistory`, `PreliminaryReads`, `PreliminaryProperties`, `MCPreliminary`, `PreliminaryProofs` | the writing operations of the journey; the validators of a load; a load interleaved with writers |
| `FormalAttemptContract`, `FormalRun`, `FormalProperties` | what the contracts promise of attempts; the run service over its store |
| `FormalProjection`, `FormalDraft`, `MCFormal`, `FormalProofs` | projection and preflight as operators; the draft of a session |
| `EvidenceIntake`, `EvidenceAttempts`, `EvidencePreparation`, `EvidenceProperties`, `MCEvidence`, `EvidenceProofs` | documents; attempts to read them; reviews, mappings, candidate sets, readiness |
| `SuccessorContract`, `SuccessorStore`, `LegacySuccessor`, `FourGateSuccessor`, `GapAnswer`, `GapProperties`, `MCGap`, `GapProofs` | the abstract line of steps; the two families of reassessment; the answers of M1 |
| `ActivityInputs`, `FourGateRules`, `LegacyRules`, `PreliminaryRules` | what is known of an activity, and the three rule sets on it |
| `DecisionRecords`, `DecisionProperties`, `MCDecisions`, `DecisionProofs` | projection, checks and traces of the services; records, packages, comparisons |
| `PreliminaryRulesV2` | the evaluator that reads texts (its instances are in `MCPreliminary`, its theorem in `PreliminaryProofs`) |

`MC` modules hold several parts that share no state; a variable (`part`, `few`)
says which of them a behaviour exercises, so that one run answers for several small
state spaces. Operators marked "Mutant:" are wrong on purpose: they stand for
the plausible bugs with which each property is tested.

### Workspace

`WorkspaceStore` has one variable per table or column that matters: `exists`,
`stage`, `pin`, `artifacts` (a sequence; an artifact's id is its position, as
ids are only compared), `active` (0 for none) and `operations`, a function from
idempotency keys. A key is a tuple `<<kind, subject, retried artifact>>` where
the code hashes the same values. Each operator is one transaction with its
guard (`CanBegin` and `BeginOperation`, `CanSave` and `SaveArtifact`, ...);
`ActiveChainValid` is `_validate_active_chain`, whose failure makes
`load_workspace` raise.

`WorkspaceService` gives each session a `pc`:
`stage -> active -> begin -> save -> stage`, with `activate` for a replay and
`fail` for a save that raised. `stage` and `active` are the two reads of
`load_workspace`. `Allowed` collects the methods' own checks, `KeyOf` the keys
they derive, `Product` what they save. After a call the page reloads
(`Return` goes to `stage` with the method `refresh`); only the review page does
so after an exception too (`Raise`). The buttons (`IngestButton`, ...) are
enabled by `view`, the snapshot last hydrated, however old.

A review is abstracted to the session it was started in and the set of edits
made; `approve_review` accepts it when `RequiredEdits` are among them. What an
edit does inside the review is the subject of `ReviewSession`.
Documents, edits and outcomes of engines are model values or Booleans.

### Process review

`ReviewSession` is one review. `field` maps the path of an assertion to the
reviewed assertion with all its validated parts (value, state of knowledge,
origin, whether it cites evidence, whether it has a confidence, disposition,
retained). `Accept`, `Correct`, `ResolveUnknown`, `RetainUnknown` and `Reject`
apply to any path, `AddItem` adds one; `ReorderSteps`, `RemoveStep` and
`AcceptStepOrder` work on `sequence`, `kept` and `orderAccepted`,
`CorrectDependency` and `RejectDependency` on `dependency`. `event` is the last
event of the audit trail: the events before it are never touched again.
`approve_review` does not change the session, so it is a predicate
(`Approvable`: no approval errors, and the projection passes the validation of
`BusinessProcess`), and `Projected` is the process it projects. The page calls
these operations on a copy and saves it; that part is in `WorkspaceService`.

### Process extraction

A source is a sequence of blocks with a size and the offsets at which they may
be broken; `PlanStep` adds one chunk, with the overlap and the slices that
`_split_block` cuts. `Call` hears one answer of the provider for the next chunk
(failed, refused, incomplete, not parsed, or steps with citations), repairs it
once, and `Finish` resolves the citations in the slices that were shown, merges
steps of one label and order, and derives the status. A citation is a block, a
set of offsets at which its snippet occurs and a count of occurrences.

### Preliminary journey

`events`, `requests`, `runs`, `supersessions` and `formal` are the tables of
the journey; a run carries the status of its run events, with the projection
table derived from it. `evaluating` holds the runs whose evaluation is in
progress in some process. Tokens, pins and predecessors are parameters of the
actions, so callers are any number of windows and processes with either
evaluator identity. `SelectRoute`, `Evaluate`, `Retry`, `Abandon`,
`StartFormal` and `CreateJourney` are whole transactions. `Complete`, `Fail`,
`Refused` and `Interrupted` are the ends of an evaluation: the second
transaction commits, is refused since the run was abandoned meanwhile, or never
happens. The guards stand in the services and again in the SQL triggers; the
map names whichever of the two says it more completely.

`PreliminaryHistory` restates the nine validators as predicates of the rows
they read, so that `HistoryLoads` says "a load of this history succeeds" and
`PreliminaryReads` can apply each of them to rows read at different moments,
one SELECT per step.

### Formal runs and drafts

`FormalRun` has the append-only tables `attempts` (manifest, events and terminal
record of each attempt of a run), `rows` (successful results in the order of
their storage), `links` (supersessions) and `guided`, and one `call` per caller.
A call goes `create -> engine -> append -> guide -> heads -> supersede -> link`,
or `recover` for `mark_interrupted`, `mark_retry_available` and `abandon`: each
arrow lies between two connections. `Extends` is `_validate_state_extension`,
the check inside every appending transaction. A transaction may fail
(`StoreFails`) and the process may end anywhere (`Crash`). The page's loop that
supersedes earlier heads one by one is part of the call.

`FormalProjection` is the merge of the approved fields with the mappings of a
candidate set: groups, conflicts, alternatives, the resolution trace, and the
three places that decide it independently (`Projection` of the adapter,
`Preflights`, `ContractAccepts` of the input contract). `FormalDraft` is what a
browser session keeps between its clicks: the mode, the head it was prepared
on, the mappings it pinned and the selections made; `Revise` is somebody else
changing the supporting history.

### Supporting evidence

`EvidenceIntake` takes `accept` apart into its reads and its transactions
(`Accept`, `SeekRejection`, `Reject`, `SeekDuplicate`, `Reuse`, `Count`,
`Store`); the triggers that check limits, lineage and replacement again are the
guards of `Store` (`Insertable`, `Bindable`). What an inspection finds is a set
of problems per content; which one is reported is `FirstOf` in the order of the
code. `EvidenceAttempts` has the two lines of attempts per document, the starts
appended as events, and per session what it holds in memory: attempts begun,
those it may abandon, its pressed buttons. Each append of an event is refused
if another came between (`Overtakes`). `EvidencePreparation` has review
revisions, mappings, the current candidate set and its readiness over the event
sequence; the service's reads are the parameters of a call, its transaction the
step that appends (`Rests`, `MapRests`, `SnapshotCurrent`, `CandidateCurrent`
are checked again there).

### Gap resolution

`SuccessorContract` is the abstract promise: a run saves its steps in order,
each once, and ends compared, stale or failed. `SuccessorStore` has the tables
of both families, `LegacySuccessor` the family with idempotent operations
committed apart from their results, `FourGateSuccessor` the one that saves both
in one transaction. A window's call checks freshness, begins, runs the engine,
saves or fails, in steps of its own. The baseline package may be replaced and
the policy files may change at any moment. `GapAnswer` is the optional question
of a package: an answer, its review and the proof that the baseline did not
change, each as reads and transactions of concurrent sessions.

### Rule sets, records and packages

An input is a kind of evidence (documented, inferred, stated by a person,
conflicted, doubtful, unknown, excluded, ...) and a value; `ActivityInputs`
derives from it what every consumer asks: sufficient, gap, known, true. The
three rule sets are operators on these inputs and return, beside the decision,
everything that was material at each gate. `DecisionRecords` is the projection
of an approved review with every check of the two services, in their order, the
trace beside the result, the typed record and the validators of its contract,
the package and the checks that may refuse it, the successor of a reassessment
and the comparison. Scores are exact integers in points of the scale.
`Citations` say which fields cite the same sentence: none, the description and
a rating, or all.

`PreliminaryRulesV2` evaluates texts: phrases carry what the code extracts from
them (action, rule, object, artifacts, marks), since the literal forms are
patterns; admission of sources, clauses, components, dependencies, needs,
precedence and the contract of the result are modelled.

## 3. What the runs check

### Passing

| Run | Instance | Shows |
|---|---|---|
| `single_session` | 1 session, 2 documents (one unreadable), 2 edits, every method, 1 fault or crash, 7 artifacts | `SoundChain`: the workspace opens, its active artifacts are one derivation, reviews sit in their rows; `ReviewKept`: no edit is lost or slipped in; `CallsReturn` |
| `two_sessions` | 2 sessions, 1 document, from upload to assessment, 1 failing save, pin moves and deletion, 5 artifacts | `ExactlyOnce`, `OutcomesSound` (approved and under the pin), `StartedIsHeld`, `DeletedLeavesNothing` |
| `review_session` | 2 steps with a dependency; 1 step of unknown, inferred or blank assertions with an actor to add and an open conflict, any number of operations; the plan of every document of up to 3 blocks, the dialogue about two | `ReviewReloads`, `PreflightComplete`, `ReviewRecorded`; `PlanCovers` (every character is in a slice, limits hold), `CandidateSound` (citations resolve, steps are merged once), `StatusTells` |
| `journey_histories` | 3 route, 3 run and 1 formal token, both identities; texts of up to two phrases | `HistorySound` (readable for ever, tokens name one run), `RunsInOneLine`, `NoBlindRouteChange`, `HistoryKept`; `DirectionsSound` of what is read of a text |
| `journey_reads` | 2 route, 2 run, 1 formal token, one reader | `ReturnsOneMoment`: a load that returns is of one moment |
| `formal_assessment` | 2 callers on a run with a retry and one without; drafts over two fields, two values, every approved process | `AttemptsSound`, `KeepsContract` (refinement), `CallsReturn`; `PreparedProjects`, `DraftSound` |
| `evidence` | 2 uploaders, 3 tokens, 4 contents against both limits; 2 sessions, 3 starts on one document; one reviewer overtaken by others, 2 proposals, 6 events | `IntakeSound`, `StartsSettleOnce`, `UsableSound`, `PreparedIsCurrent`, `MappedFactsAreCurrent` |
| `gap_resolution` | 2 windows, 1 replaced package, 1 changed policy, 1 crash; 2 sessions, 2 answers | `FollowsContract` (refinement, both families), `RecordsAgree`, `AssessedUnderPin`, `AnswersSound` |
| `reassessment_settles` | 2 windows, 1 crash, a replaced package | `RunSettles`: an opened run is compared or ends saying why not |
| `activity_decisions` | 3 profiles that vary the inputs around every threshold, every kind of evidence, every citation | `RecordsAccepted`, `RestsOnEvidence`, `FamiliesAgree`, and of two evaluations one input apart: `DecidedIsFinal`, `MoreRiskLessAutonomy`, `AnswersAdvance` |

`single_session` uses one session because its properties are false for two
(section 4): with one, they hold through replacements, replays, faults and
crashes, and a mutant that forgets to refresh or to deactivate breaks them.

### Violations

* `exclusion_prepares`: `02_DECISIONS.md:396` says that preparation needs
  documents processed *or explicitly excluded*, and the page offers the
  exclusion. `prepare_candidate_set` leaves an excluded document's reviews out
  of the set (`supporting_evidence/conversion.py:713`), but
  `_validate_candidate_snapshot` compares with the reviews of every proposal,
  excluded ones too. Once one proposal of a document was reviewed, excluding it
  is refused for ever as changed history, though nothing changed.
* `assessment_packages`: the engine starts the evidence of a decision from all
  evidence of the activity (`decision/four_gate_engine.py:260`); the packager
  expects that of its name and of what was material
  (`decision_support/four_gate_service.py:376-402`) and refuses the difference,
  although `03_CURRENT_STATE.md:119` says that successful assessments are
  packaged. The tests cite one shared sentence everywhere. `RecordsAccepted`
  has the exact bound (`StraySentence`) under which packages are made.

### Bounds, and why they are enough

`MaxArtifacts` bounds the artifacts when a call *begins*; seven allow a whole
chain and a replacement, or a review, an approval and a reset. Every property
of the workspace relates at most two artifacts of one type and their parents.
One fault is enough to leave one operation started, and a second only repeats
it on another key. Two sessions: each property of a pair of calls needs two,
and no guard counts sessions. In the journey the tokens bound the history:
three runs give a predecessor, a retry and a run of the other identity, or a
chain of three results; three route choices go there, back and there again.
`journey_histories` gives a behaviour all of one kind and at most `Few` (two)
of the other. A review has no bound on its length: its states are finite once
the number of items is. Documents of blocks of 0 to 5 characters for chunks of
3 contain empty blocks, blocks that fit, fill and overflow a chunk, and every
overlap of one.

A formal run with two attempts next to one with a single attempt gives the late
engine, the retry that races an abandonment and two heads to supersede.
`MaxHead` bounds how often others revise the history of a draft: once before
and once after it is prepared. The limits of the intake are two documents and
three bytes, so that two uploads together pass a limit that each alone keeps.
The preparation part starts where two documents have been read and a fact and
an inference on it are reviewed (`Prepared`, itself reachable), as the
interesting events lie behind; four more events supersede the fact, map,
prepare and overtake. A third document may come or replace another.

The rule sets see values on both sides of every threshold of
`config/decision_policy.v0.3.json`; inputs that no threshold separates are not
varied together, and one profile has every kind of evidence.

Symmetry is declared on sessions and on tokens, which are only compared for
equality, and in no run with a liveness property. `CHECK_DEADLOCK FALSE` where
the system rests when its bounds, the tokens or the users' wishes are exhausted.

### Fairness

`FairSpec` of the workspace is weak fairness of the steps of a call in
progress: a call runs on a server thread that nothing holds back, and SQLite's
writers wait for each other with a timeout and no one keeps the lock. Which
calls are made is not fair. `MCFairSpec` of `MCFormal` says the same of a caller
of the run service (`Continue`). `RunSettles` needs more, since it is about a
run that only moves when somebody presses its buttons: `LegacyFairness` is weak
fairness of the calls and strong fairness of pressing the button of every run
(strong, as a button is offered again and again between the other window's
calls). Faults, crashes and replacements are never fair.

## 4. Disagreements between the code and what it says

Beside the two runs above, modelling and proving met these. They have no run of
their own; where a property is checked, its bound names the case.

*Packages and rules.* A reviewer who excludes a documented criterion,
accountability or signal (`review/service.py:216-226`) is projected as unknown
(`review/approval.py:278`), but the trace records it as known
(`application/assessment.py:930-958`), so the package is refused for ever
(`ExcludedValue`). The v0.1 preliminary evaluator records a trace its own
contract refuses when one readiness input is missing and the other blocks
(`preliminary/evaluator.py:534-546`, `models/preliminary_assessment.py:571-576`;
`HalfBlocked`). Peers that are unknown send an activity to discovery even where
every completion gives the same outcome, against `01_FRAMEWORK_SPEC.md:20,109`.
The families disagree on judgement, residual risk and complexity at the edge of
automation, and the legacy policy maps raw signal values, so only *automate* is
final there. A legacy package can be `COMPLETE` though it rests on an inferred
accountability or signal, and though all signals are unknown if it recommends
nothing. In v0.2, `NO_CHANGE` ignores the rule `NO_MATERIAL_UNKNOWN`;
`AUTONOMY_VETO` is never consulted; "no mandatory human review" counts as a
mandatory human review; `UNRESOLVED_HIGH_RISK` is never produced; and every
`ValueError` becomes `OUTPUT_VALIDATION_FAILED`.

*Workspace.* A replacement that commits between another session's read and save
makes a result active whose parent is not, and every later load refuses the
workspace (`workspace/service.py:435`). The same lets an extraction of a
replaced document become active for the new one and a late save land in the row
of the next review. Two pages editing one review each save their own copy: the
second drops the first one's audit event. A started operation whose process
ended needs "explicit recovery" (`persistence/sqlite.py:857`), which nothing
offers (`OperationsSettle`). An extraction that failed, was retried with
success, and whose document was replaced and brought back is activated as
failed; its retry replays without activating (`RetryTakesEffect`). An actor
selected as primary and rejected afterwards stays primary
(`PrimaryActorRetained`). A rejected dependency whose target is saved again
stays rejected (`SavedDependencyApplies`).

*Journey.* After a result, a failed or abandoned rerun leaves a page that offers
a new run the service refuses (`RerunAccepted`). The formal start with the v0.2
identity refuses the result the page offers as context. A load that overlaps a
commit can refuse a healthy history as corrupt, since it opens no transaction.

*Formal runs.* A draft is run on the pins it was prepared with although newer
reviews exist (`UsesCurrentCandidate`), against D-037 (`02_DECISIONS.md:407`);
what runs can differ from what was last shown (`RunsWhatIsShown`). A
process-only start is offered where the contract refuses it
(`models/formal_assessment.py:466`, `02_DECISIONS.md:405`; `ProcessOnlyStarts`).
A result whose predecessor another result superseded first cannot be recorded
as current (`persistence/formal_assessment_migration.py:265`). Two branches of
`run_service.py` (600, 609) raise `TypeError` in `_existing_attempt`.

*Supporting evidence.* A misnamed file may not be resubmitted under its right
name, against the comment at `intake.py:444-446` (`MisnamedMayBeResubmitted`).
Concurrent uploads of one content store it as often as there are uploads
(`DuplicatesOverlap` bounds it). Consent withdrawn between the check and the
call does not stop the transmission (`02_DECISIONS.md:390`;
`SentOnlyWithConsent`). Content of a superseded document is reported as reused.
Mappings of unknown and conflicting reviews can never be stored. A review queue
read while a fact is superseded shows a conflict or a context-only inference
with superseded references.

*Gap resolution.* A document's identity is global, so the same document cannot
serve two runs. A concurrent call of the legacy family that loses with another
input sets the whole run `FAILED`, and creation returns that run for ever. Two
different answers saved concurrently are both kept, and after a review of the
first the workspace raises (`LoadsUnlessOverlapped` bounds it). A process that
ends in M1 leaves its answer refused for ever. Four-gate runs are never marked
stale or failed. Reassessment is offered where data readiness is merely
insufficient, and refused.

*Extraction.* A slice may be one blank longer than the limit. A repaired answer
replaces a better first one. A collection declared complete whose items are all
unknown raises out of `extract` (status `RAISED`).

## 5. What is proved

All theorems are of the whole specification of a component, for any number of
sessions, documents, edits, tokens, runs, artifacts, proposals and callers, and
any bounds. The assumptions are the named ones of the modules: bounds are
naturals; a model value that stands for "none" is no value
(`NoneAssumption`, `TokensAssumption`, `ValuesAssumption`, `DocsAssumption`);
`RequiredEdits` are edits; candidates of a review satisfy the validators of
`CandidateBusinessProcess`; a candidate set has finitely many mappings and a
positive one has a value, as the table's rows and the validators say
(`CandidatesAssumption` of `FormalDraft`); there are finitely many uploaders
(`IntakeAssumption`); a finding is one of those a reviewer may record. TLC
evaluates each on every run that reaches it. The theorems about one session
(`SoundChainHolds`, `ReviewKeptHolds`) and about a system without crashes and
raising engines (`StartedIsHeldHolds`) say so in their hypotheses, and the runs
that check them are such instances.

*Workspace.* `TypeCorrect` needs more than the types: `TypeInv` adds
`CallsFit` (a call past its reads has a snapshot and key that fit its method,
so that the artifacts it indexes are there) and `ProducedFits` (what a
completed operation produced is an artifact of its kind). Both are needed
because the code indexes artifacts through snapshots and replayed operations.
Above it, `StoreSteps` reduces the actions to the six things that can happen to
the store, and the safety theorems are proved on those:

* `ExactlyOnceHolds`, from `Recorded`: each outcome is the product of the
  completed operation of its key, so two outcomes of one key are one;
* `OneCallPerOperationHolds`, from `HoldInv`: a call that saves or fails an
  operation is the one that started it, and the operation is still started;
  `StartedIsHeldHolds` adds the converse, `NoneAbandoned`;
* `OutcomesSoundHolds`, from `ApprovalInv`: an approval holds the required
  decisions and is never overwritten; `DeletedLeavesNothingHolds` and
  `RevisionsKeptHolds` from the type invariant and `StoreSteps`;
* `SoundChainHolds`, from `ChainInv`: every active artifact comes from the
  active one before it (`ActiveLineage`), was a success if it is to carry
  others (`OnSuccesses`), backs the stage (`StageBacked`) and belongs to the
  call in progress as it read it, which is where one session is used.
  `ReviewKeptHolds` follows from the same invariant.

*Review.* `IInv` is the types, `ReviewReloads` and `DistinctNumbers` (retained
steps have numbers of their own), which `PreflightCompleteHolds` needs: the
approval checks dependencies but not numbers. `ReviewRecordedHolds` is an action
property. One lemma covers all operations on an assertion, one the addition of
an item, one the operations that leave the assertions alone.

*Extraction.* Documents are any sequences of blocks (`SourcesAssumption`), and
responses anything of the shape of the raw schema (`ResponsesAssumption`);
whether its validators accept them is `Heard`'s business, not assumed.
`PlanInv` says that the chunks planned so far, the open one included, show
exactly the text before the place that is read next (`TextUpTo`), each
continuing the one before it; `ChunksCoverTheText` is that at the end of the
document. That a slice ends behind its beginning (`SliceEnds`) is what keeps an
oversized block from being cut forever or twice. `MergeIsSound` holds of any
finite set of drafts that cite something: retained drafts, the order of the
steps and the targets of dependencies are defined by what they are, so that
what remains is that they exist: that a strict order of a finite set has a
subset free of conflicts (`WithoutConflicts`) and gives each rank to one element
(`EveryRank`). `ExtractionInv` ties the dialogue to it: what was heard passed
the schema, no answer was refused (`NoneRefused`) unless that was raised, and
the result is the merge of what is drafted (`ResultFits`). `CandidatesAreSound`
is then the soundness of the merge and of the citations (`CitesAreShown`);
`StatusIsHonest` that an issue is reported for exactly what cannot be looked
up (`CleanIs`), and that what has none is drafted, hence represented.

*Journey.* `RunSteps` says what an action can do to the runs: append an open one
when none is open, settle the open one, or nothing. `OpenIsNewest` is the
strengthening that makes `RunsInOneLineHolds` inductive: without it a result
could complete before an older one and the link would go backwards.
`HistorySoundHolds` goes through `JourneyInv`: the nine validators of a load
themselves, and what they do not say of tokens. For each operation there is a
lemma per validator, since an operation that satisfied its own guard could
still write what another validator refuses. `ReturnsOneMomentHolds` needs
`SeenSoFar`: what was read is a later state (`Later`: longer, with more runs
settled) of the moment the events were read at, which the validators applied so
far force to be the same. `HistoryKeptHolds` is an action property;
`NoBlindRouteChangeHolds` is inductive as it stands.

*Texts.* `DirectionsAreSound` is about any reviews whose lists are lists
(`ReviewsAssumption`, with what `BusinessProcess.steps` demands: a process that
was projected retains an activity). Of an activity it asks that its fields are
those of the table and that items and places are counted. There are then
finitely many actions to find, no two of them at one place, and the order of
places is total, so that the rank of a draft (`InOrderOf`) lists every one of
them exactly once and in order (`ActionsAreListedOnce`, from `Ordered` and
`EveryRank`): this is what makes the components a list numbered in order
(`ComponentsAreNumbered`). The heart is `GroupsHold`: while the greedy grouping
reads the selections, its groups share nothing, hold everything read that can
be resolved, and are of one code each. What an opportunity is given then
follows from the code of any of its components (`CodeEarned`), and the
partition from every selection being in a group or unresolved. That a valid
approval never fails is the longest consequence: no result is refused by its
contract, because an activity with components and no opportunity has something
to ask (`DiscoveriesAsk`). The proof also shows that no opportunity is ever of
`HIGH` coverage (`CoverageIs`), since each component rests on an inference of
its own; of the activities only one without any change to suggest is.

*Formal runs.* `FormalInv` is the types, one live attempt, what each attempt
and each stored row says of the other (`AttemptsFit`, `RowsFit`), what a call
knows (`CallsFit`), and `OneRunner`: two calls never run the engine of one
attempt. That one result is current (`AttemptsAreSound`) needs `HeadsInv`: every
stored result has a head among its transitive successors. `StoreKeepsContract`
maps the tables to the abstract attempts and shows each action to be a permitted
transition or a stutter. `DraftInv` says of a draft, prepared on whichever
history, that its conflicts are those of its pinned mappings, that its
selections select among their alternatives and that its final traces are the
projection; `PreparedProjectsHolds` and `DraftSoundHolds` follow through the
lemmas that what passes the preflight projects (`PreflightedProjects`) and that
what projects, the contract accepts (`ProjectedIsAccepted`).

*Supporting evidence.* `IntakeInv` adds to the properties that every bound token
has its document (`TokensBound`), that an upload past the inspection passed it
(`UploadsFit`), and `DuplicatesFit`: for each content, the calls that looked for
it in vain and may still store it, counted with the documents that have it,
are no more than the sessions. The byte limit is about a sum over a set of
documents, written as a recursive function; that adding or replacing a document
changes the sum by its size is proved by least counterexample (below).
`AttemptsInv` says what a start, a row, a call and a session's memory rest on;
its heart is `ReadyFor`: a call's number follows an attempt that may be retried,
or the line has grown past it and refuses it. `PrepInv` says of a candidate set
what was true when it was made *and stays true* whatever is reviewed later
(`SetFits`): the reviews it names exist, are those of the documents it includes,
and each mapping is the one its review had. `Grows` and `Succeeds` state how
reviews and mappings only extend. `MappedFactsAreCurrentHolds` follows although
no code checks it: the set holds the reviews of the facts an inference cites,
and these are compared. `NothingRestsOnStaleHolds` is an action property.

*Gap resolution.* `StoreFits` ties stage, saved steps and documents of a run to
each other; `LegacyInv` adds that operations recorded as completed are the saved
steps (`OperationsFit`) and what a call between its transactions holds;
`FourGateInv` that a call past its check has the policy of its baseline
(`PinFits`). `LegacyKeepsContract` and `FourGateKeepsContract` are the two
refinements of `SuccessorContract`, `LegacyAssessedUnderPin` and
`FourGateAssessedUnderPin` the two ways the pin is kept: the legacy family
compares with the pin the policy its engine ran under (`Agrees`), the other
assesses under the policy it compared with the pin when it read it.
`AnswerInv` says that whatever is stored has a completed operation of its own
(`DataFits`), that two calls that have begun began different operations
(`CallsFit`), and what an undisturbed call finds (`OrderFits`).

*Rule sets, records and packages.* `InputsSpec` replaces one input at a time;
its theorems hold for every policy the loader accepts (`PolicyAssumption`: the
thresholds on the scale, and ordered), every set of signals and every activity.
The only invariant needed is the type of the inputs (`InputsTyped`); the work is
in the operators. Each rule set is first reduced to the case distinction by
which it decides (`OutcomeIs`, `RecommendationIs`, `DirectionIs`), and what a
revision does to the decision is then a comparison of two such distinctions,
lemma by lemma for two inputs `x` and `y`:

* `DecisionsStay`, an action property: a gate that decided decides the same
  when more is learned (`GatesStay`, `DecisionStays`), because no gate reads
  what it left unresolved; a preliminary direction rests on resolved inputs
  only (`DirectionStays`);
* `RiskEarnsNoAutonomy`: each criterion that gets worse moves each comparison
  with a threshold one way only, and the score falls;
* `RuleSetsAgree` assumes `SharedThresholds`: the rules of the evaluator are
  constants of the program and the policy is a file, so that they agree is a
  property of the file, which TLC checks of the shipped one
  (`PolicySharesThresholds`);
* `DecisionsRestOnEvidence` and `RecordsAreAccepted`: what the gates find
  material, gap by gap, against the contract of the record, the trace and the
  package, which recompute it; `ProjectionIsConsistent` is the agreement of the
  approval with the services;
* `ReassessmentAdvances`: what is asked for is missing (`AskedIsMissing`), so an
  answer is not asked for again; an activity opened for reassessment stops at
  the readiness of its data and at nothing else, and the found value decides
  that gate, so status, typed fields and recommendation change.

*Induction over data.* The library's induction theorems take an operator as a
parameter, which the provers cannot instantiate. For the facts about sums,
prefixes and finite sets that are needed, the modules use the well-foundedness
of the naturals instead: if a fact failed, it would fail at a least number
(`LeastOf`, `LeastNumber`), and there it follows from the number before; if it
failed for a subset of a finite set, it would fail for a smallest one
(`SmallestSubset`). The existence of a recursive function, which TLA+ only
chooses, is proved the same way.

*What proving found.* Three places of the model were wrong although TLC had
nothing against them: `FormalProjection.Alternatives` and
`ProcessExtraction.Heard` had `CASE` arms that overlap, of which the code takes
the first; `SuccessorStore.After` indexed a map with keys it does not have.
`IntakeTypeOK` claimed bounds that only its own definition enforced. And three
promises about decisions said more than the code keeps, on inputs no run had:
a decision is final only while no cited evidence is taken back, which may leave
the activity without a source (`Learned`); a preliminary direction that is still
open may go either way when a value gets worse (`Open`); and a reassessed
activity may be refused its package when its description cites the sentence of
a rating that the new decision no longer rests on (`ReassessmentSettles`), which
is the divergence of `assessment_packages` met a second time. The arrangement
`SharedSentence` and the evidence of texts were added so that TLC meets them.

*Only model-checked:*

* liveness: `CallsReturn` of the workspace and of the formal runs, `RunSettles`
  (ENABLED is out of the prover's reach).

## 6. What is not modelled

In the modelled parts: the guards on frozen evaluation paths; file names and
document ids beyond their identity; the canonical form and digests of payloads
and the comparisons of columns with them; artifact types of the gap resolution
and the continuation in the lists of types a replacement deactivates;
`load_artifact`, folded into the step that uses it, since artifacts other than
reviews do not change. In the review: rationales and times; the values of
criteria and signals, and the evidence lists, of the projection (they are in
`DecisionRecords`); the completeness mark that an added item changes without
an event of its own. In the journey: the v0.1 and v0.2 tables of one kind are
read as one; the validation of the approved review is that it is active;
creation of a second journey of another review; `get_history` reads as
`get_state`. `DeleteAssessment` is that of an assessment without a journey. An
approval once replaced never becomes active again: only ingestions and
extractions are ever reactivated. In the formal runs: identities and digests
pinned by a manifest, beyond the run and attempt they name; the checks of
provenance of a pinned candidate set are those of the preparation. In the
evidence: context notes and metadata revisions, which nothing waits for;
contents of proposals. In the packages: wording and layout of the report, and
the checks of its sections against each other.

The components without a module are listed in `PROJECT.json` with the reason:
parsing and providers are pure input and output, taken as any outcome by the
models that call them; migrations run once at start-up; serialisation and
presentation keep no state; the evaluation corpus is not run by the program.

## 7. Plan

The plan is done for the modelled components: every invariant and action
property that a run checks is proved, and the liveness properties are for TLC.
