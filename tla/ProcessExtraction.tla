-------------------------- MODULE ProcessExtraction --------------------------
(***************************************************************************)
(* The extraction of a candidate process (extraction/service.py): chunk by *)
(* chunk a provider is asked for the steps it reads, asked once more if    *)
(* its answer is invalid or cites what the chunk does not contain, and     *)
(* what it cites is looked up in the text (extraction/evidence.py).        *)
(*                                                                         *)
(* An answer is a sequence of raw steps [label, activity, order, at,       *)
(* needs, inputs]: the pointers its activity cites, its explicit order and *)
(* the pointers of that, pairs <<label, pointers>> it depends on, and one  *)
(* of its collections.  A pointer has the offsets in its block at which    *)
(* its snippet occurs; an item without pointers is unknown.                *)
(***************************************************************************)
EXTENDS Naturals, Sequences, FiniteSetsExt

-----------------------------------------------------------------------------
(***************************************************************************)
(* How a document is cut into the chunks a provider is asked about         *)
(* (extraction/chunking.py).  Text is positions: a block has a number of   *)
(* characters, some of which are blanks or line breaks; a slice is a range *)
(* of a block.  A block is placed, or a slice of an oversized block cut,   *)
(* at every step.                                                          *)
(***************************************************************************)
CONSTANTS
  Sources,        \* the documents
  MaxCharacters,  \* of a chunk
  MaxBlocks,      \* of a chunk
  OverlapBlocks   \* blocks a chunk repeats of the one before it

Block == [size : Nat, breaks : SUBSET Nat]
ASSUME SourcesAssumption == \A document \in Sources : document \in Seq(Block)

\* ChunkingConfig.__post_init__
ASSUME ConfigAssumption ==
  /\ MaxCharacters \in Nat \ {0} /\ MaxBlocks \in Nat \ {0}
  /\ OverlapBlocks \in 0 .. (MaxBlocks - 1)

VARIABLES
  source,   \* the document that is extracted
  chunks,   \* the chunks planned so far: sequences of slices
  open,     \* the slices of the chunk that is being filled
  block,    \* the block to place next
  start     \* where the next slice of an oversized block begins

planVars == <<source, chunks, open, block, start>>

PlanInit ==
  /\ source \in Sources
  /\ chunks = << >> /\ open = << >> /\ block = 1 /\ start = 0

Slice(b, from, to) == [block |-> b, from |-> from, to |-> to]
Whole(b) == Slice(b, 0, source[b].size)
Characters(slices) ==
  LET sum[n \in 0 .. Len(slices)] ==
        IF n = 0 THEN 0 ELSE sum[n - 1] + (slices[n].to - slices[n].from)
  IN sum[Len(slices)]

HasText(b) == source[b].size > 0
Oversized(b) == source[b].size > MaxCharacters
Planned == block > Len(source)

\* A slice ends behind the last blank of its range, which may be the character
\* after the limit; the last slice takes the rest.
SliceEnd(b, from) ==
  LET hard == Min({from + MaxCharacters, source[b].size})
      blanks == {p \in source[b].breaks : from < p /\ p <= hard}
  IN IF hard < source[b].size /\ blanks # {} THEN Max(blanks) + 1 ELSE hard

\* flush: the open chunk is planned, and the next repeats its last blocks.
Flushed == IF open = << >> THEN chunks ELSE Append(chunks, open)
Repeated == SubSeq(open, Max({1, Len(open) - OverlapBlocks + 1}), Len(open))

\* Mutant: the repeated blocks stay although the next one does not fit.
AlwaysRepeats(b) == Repeated

\* What is repeated is dropped if the next block does not fit beside it.
RepeatedBeside(b) ==
  IF Characters(Repeated) + source[b].size > MaxCharacters THEN << >> ELSE Repeated

Fits(b) == Len(open) < MaxBlocks /\ Characters(open) + source[b].size <= MaxCharacters

SkipBlock ==
  /\ ~Planned /\ ~HasText(block)
  /\ block' = block + 1
  /\ UNCHANGED <<source, chunks, open, start>>

PlaceBlock ==
  /\ ~Planned /\ HasText(block) /\ ~Oversized(block)
  /\ IF open = << >> \/ Fits(block)
     THEN open' = Append(open, Whole(block)) /\ UNCHANGED chunks
     ELSE open' = Append(RepeatedBeside(block), Whole(block)) /\ chunks' = Flushed
  /\ block' = block + 1
  /\ UNCHANGED <<source, start>>

\* Every slice of an oversized block is a chunk of its own.
CutBlock ==
  /\ ~Planned /\ Oversized(block)
  /\ LET end == SliceEnd(block, start)
     IN /\ chunks' = Append(Flushed, <<Slice(block, start, end)>>)
        /\ IF end = source[block].size
           THEN block' = block + 1 /\ start' = 0
           ELSE block' = block /\ start' = end
  /\ open' = << >>
  /\ UNCHANGED source

PlanStep == SkipBlock \/ PlaceBlock \/ CutBlock

\* The plan: has the block been read to its end, what is open is the last chunk.
Chunks == Flushed

CONSTANTS
  Labels,    \* normalised labels of activities
  Responses, \* of a provider: [failed, refused, status, parsed, steps]
  Repairs    \* repair_attempts

ASSUME RepairsAssumption == Repairs \in {0, 1}

\* RawEvidencePointer, RawCandidateCollection and RawCandidateProcessStep.  An
\* explicit order is only compared: it is its rank among the numbers a document
\* may state, 0 if it states none.
Pointer ==
  [block : Nat, starts : SUBSET Nat, length : Nat, occurrence : Nat, slice : SUBSET Nat]
Pointers == SUBSET Pointer
Collection ==
  [completeness : {"UNKNOWN", "PARTIAL", "COMPLETE"}, items : SUBSET Pointers, evidence : Pointers]
RawStep ==
  [label : Labels, activity : Pointers, order : Nat, at : Pointers,
   needs : SUBSET (Labels \X Pointers), inputs : Collection]
ASSUME ResponsesAssumption == \A response \in Responses : response.steps \in Seq(RawStep)

-----------------------------------------------------------------------------
(***************************************************************************)
(* The steps of a candidate process out of the steps that were read from   *)
(* the chunks (extraction/merge.py).  Drafts are known by the place they   *)
(* were read from: <<chunk, number of the step>>.  A draft has the         *)
(* normalised label of its activity, the spans of text it cites, an        *)
(* explicit order if one was verified, 0 otherwise, and the labels it      *)
(* depends on.                                                             *)
(***************************************************************************)

\* Positions <<block, offset>> in the order of the document, and places in the
\* order in which they were read.
Before(p, q) == p[1] < q[1] \/ (p[1] = q[1] /\ p[2] < q[2])
Earliest(draft) == CHOOSE p \in draft.cites : \A q \in draft.cites : ~Before(q, p)

SameActivity(d, e) == d.label = e.label /\ d.cites \cap e.cites # {}

\* A draft is dropped if one that was retained before it is the same supported
\* activity.
Retains(drafts, places) ==
  \A p \in DOMAIN drafts :
     p \in places <=> ~ \E q \in places : Before(q, p) /\ SameActivity(drafts[q], drafts[p])
Retained(drafts) ==
  Restrict(drafts, CHOOSE places \in SUBSET DOMAIN drafts : Retains(drafts, places))

\* Mutant: orders that are all known are used though two are the same.
ExplicitlyKnown(kept) == \A p \in DOMAIN kept : kept[p].order > 0

\* The explicit order is used if every step has one of its own.
ExplicitlyOrdered(kept) ==
  \A p, q \in DOMAIN kept : kept[p].order > 0 /\ (kept[p].order = kept[q].order => p = q)

\* The sort is stable: what is equal stays in the order it was read.
First(kept, p, q) ==
  IF ExplicitlyOrdered(kept) THEN kept[p].order < kept[q].order
  ELSE Before(Earliest(kept[p]), Earliest(kept[q]))
Precedes(kept, p, q) == First(kept, p, q) \/ (~First(kept, q, p) /\ Before(p, q))

Preceding(kept, p) == {q \in DOMAIN kept : Precedes(kept, q, p)}
Sorted(kept) ==
  [n \in 1 .. Cardinality(DOMAIN kept) |->
     kept[CHOOSE p \in DOMAIN kept : Cardinality(Preceding(kept, p)) = n - 1]]

StepId(draft) == <<draft.label, draft.cites>>

\* A dependency goes to the only step with its label, but not to itself.
Target(steps, self, label) ==
  LET named == {i \in DOMAIN steps : steps[i].label = label}
  IN IF Cardinality(named) = 1 THEN {StepId(steps[i]) : i \in named} \ {self} ELSE {}

CandidateStep(steps, n) ==
  [id |-> StepId(steps[n]), label |-> steps[n].label, cites |-> steps[n].cites,
   order |-> steps[n].order, inputs |-> steps[n].inputs,
   needs |-> [l \in steps[n].needs |-> Target(steps, StepId(steps[n]), l)]]

\* merge_chunks
Merged(drafts) ==
  LET steps == Sorted(Retained(drafts)) IN [n \in DOMAIN steps |-> CandidateStep(steps, n)]

\* CandidateBusinessProcess.validate_step_order
StepsAccepted(steps) == \A i, j \in DOMAIN steps : steps[i].id = steps[j].id => i = j

-----------------------------------------------------------------------------
(* The dialogue with the provider and what is made of its answers. *)

\* RawCandidateCollection and RawEvidencePointer: what is not in the schema.
CollectionAccepted(raw) ==
  IF raw.completeness = "UNKNOWN" THEN raw.items = {} /\ raw.evidence = {}
  ELSE raw.items # {} \/ raw.evidence # {}
PointerAccepted(p) == p.occurrence = 0 \/ p.slice = {}
PointersOf(raw) ==
  UNION ({raw.activity, raw.at, raw.inputs.evidence} \cup raw.inputs.items \cup {n[2] : n \in raw.needs})
SchemaAccepts(steps) ==
  \A n \in DOMAIN steps :
     /\ steps[n].activity # {} /\ CollectionAccepted(steps[n].inputs)
     /\ \A p \in PointersOf(steps[n]) : PointerAccepted(p)

Said(kind, steps) == [kind |-> kind, steps |-> steps]

\* What the service hears of a response: an answer, invalid output, which is
\* worth a repair, or an error of the provider, which is not.
Heard(response) ==
  IF response.failed = "request" \/ response.refused THEN Said("error", << >>)
  ELSE IF response.failed = "validation" \/ response.status = "incomplete" THEN Said("invalid", << >>)
  ELSE IF response.parsed = "filtered" THEN Said("error", << >>)
  ELSE IF response.parsed = "failed" \/ ~SchemaAccepts(response.steps) THEN Said("invalid", << >>)
  ELSE Said("answer", response.steps)

VARIABLES
  heard,    \* per chunk asked so far: the answers of the provider, in order
  result    \* what extract returned or raised

NoResult == [status |-> "RUNNING", steps |-> << >>]

extractionVars == <<planVars, heard, result>>

ExtractionInit == PlanInit /\ heard = << >> /\ result = NoResult

\* --------------------------------------------------------------- evidence

Span(p, at) == <<p.block, at, at + p.length>>
WithinSlice(slice, span) ==
  slice.block = span[1] /\ slice.from <= span[2] /\ span[3] <= slice.to
Shown(chunk, span) == \E i \in DOMAIN chunk : WithinSlice(chunk[i], span)

\* The occurrences a pointer may mean: the one it counts to, those in the slice
\* it names, or all of them.
Meant(chunk, p) ==
  IF p.occurrence > 0
  THEN {at \in p.starts : Cardinality({o \in p.starts : o <= at}) = p.occurrence}
  ELSE IF p.slice # {}
       THEN {at \in p.starts : \E i \in DOMAIN chunk : chunk[i].from \in p.slice
                                  /\ WithinSlice(chunk[i], Span(p, at))}
       ELSE p.starts

\* EvidenceResolver.resolve_pointer: nothing, if it raises.
PointerSpan(chunk, p) ==
  {span \in {Span(p, at) : at \in IF Cardinality(Meant(chunk, p)) = 1
                                  THEN Meant(chunk, p) ELSE {}} : Shown(chunk, span)}

Verified(chunk, pointers) == \A p \in pointers : PointerSpan(chunk, p) # {}
Cites(chunk, pointers) == UNION {PointerSpan(chunk, p) : p \in pointers}

\* resolve_step: without a verified activity a step is dropped.
Supported(chunk, raw) == raw.activity # {} /\ Verified(chunk, raw.activity)

\* resolve_collection: items that cannot be verified are dropped, and the
\* collection is no longer complete.
Lost(chunk, raw) ==
  {item \in raw.items : ~Verified(chunk, item)} # {} \/ ~Verified(chunk, raw.evidence)
ResolvedItems(chunk, raw) ==
  {Cites(chunk, item) : item \in {k \in raw.items : k # {} /\ Verified(chunk, k)}}
ResolvedCollection(chunk, raw) ==
  LET items == ResolvedItems(chunk, raw)
  IN [items |-> items,
      completeness |-> IF ~Lost(chunk, raw) THEN raw.completeness
                       ELSE IF items = {} THEN "UNKNOWN" ELSE "PARTIAL",
      evidence |-> IF Lost(chunk, raw) /\ items = {} THEN {} ELSE Cites(chunk, raw.evidence)]

ResolvedStep(chunk, raw) ==
  [label |-> raw.label, cites |-> Cites(chunk, raw.activity),
   order |-> IF Verified(chunk, raw.at) THEN raw.order ELSE 0,
   needs |-> {need[1] : need \in {n \in raw.needs : Verified(chunk, n[2])}},
   inputs |-> ResolvedCollection(chunk, raw.inputs)]

\* CandidateCollection refuses a collection of which only unknown items are left,
\* and the refusal is raised out of extract.
Refused(chunk, answer) ==
  \E n \in DOMAIN answer : /\ Supported(chunk, answer[n])
                           /\ ~CollectionAccepted(ResolvedCollection(chunk, answer[n].inputs))

\* resolve_chunk reports an issue for everything it cannot verify.
HasIssues(chunk, answer) ==
  \E n \in DOMAIN answer :
     LET raw == answer[n]
     IN ~Supported(chunk, raw) \/ ~Verified(chunk, raw.at) \/ Lost(chunk, raw.inputs)
        \/ \E need \in raw.needs : ~Verified(chunk, need[2])

\* ---------------------------------------------------------------- service

IsAnswer(said) == said.kind = "answer"
Invalid == Said("invalid", << >>)

\* One repair, of an invalid answer or of one with issues.
NeedsRepair(chunk, said) ==
  /\ Repairs = 1 /\ Len(said) = 1
  /\ said[1] = Invalid \/ (IsAnswer(said[1]) /\ HasIssues(chunk, said[1].steps))

\* The answer that is used: the repaired one, however it is; none, if the
\* provider could not process the chunk.
Answers(said) == {i \in DOMAIN said : IsAnswer(said[i])}
Used(said) == IF Answers(said) = {} THEN << >> ELSE said[Max(Answers(said))].steps

\* Mutant: only a chunk without an answer counts as an error.
ErrorWithoutAnswer(chunk, said) == Answers(said) = {}

\* An issue of severity ERROR stays: the last call failed, or what is used has
\* issues.
ErrorIssue(chunk, said) == ~IsAnswer(said[Len(said)]) \/ HasIssues(chunk, Used(said))

Asking == Len(heard)
Settled == heard # << >> => ~NeedsRepair(Chunks[Asking], heard[Asking])
Running == Planned /\ result = NoResult
AllAsked == Asking = Len(Chunks) /\ Settled

\* The provider answers for the next chunk, or repairs its answer.
Call ==
  /\ Running /\ ~AllAsked
  /\ LET n == IF Settled THEN Asking + 1 ELSE Asking
     IN \E response \in Responses :
          LET said == Heard(response)
          IN /\ heard' = IF Settled THEN Append(heard, <<said>>)
                         ELSE [heard EXCEPT ![n] = Append(@, said)]
             /\ result' = IF IsAnswer(said) /\ Refused(Chunks[n], said.steps)
                          THEN [status |-> "RAISED", steps |-> << >>] ELSE NoResult
  /\ UNCHANGED planVars

\* resolve_chunk: the supported steps of the answers that are used.
Places ==
  UNION {{n} \X {k \in DOMAIN Used(heard[n]) : Supported(Chunks[n], Used(heard[n])[k])} :
           n \in DOMAIN heard}
Drafts == [p \in Places |-> ResolvedStep(Chunks[p[1]], Used(heard[p[1]])[p[2]])]

Failed == [status |-> "FAILED", steps |-> << >>]

\* No text, no chunk that could be read or no step that is supported: FAILED.
Finish ==
  /\ Running /\ AllAsked
  /\ result' = IF Places = {} THEN Failed
               ELSE [status |-> IF \E n \in DOMAIN heard : ErrorIssue(Chunks[n], heard[n])
                                THEN "PARTIAL" ELSE "SUCCESS",
                     steps |-> Merged(Drafts)]
  /\ UNCHANGED <<planVars, heard>>

ExtractionNext == (PlanStep /\ UNCHANGED <<heard, result>>) \/ Call \/ Finish
ExtractionSpec == ExtractionInit /\ [][ExtractionNext]_extractionVars

-----------------------------------------------------------------------------
(***************************************************************************)
(* What an extraction promises about the document it read.                 *)
(***************************************************************************)

Seen(chunk) == UNION {{<<chunk[i].block, at>> : at \in chunk[i].from .. (chunk[i].to - 1)} :
                        i \in DOMAIN chunk}
Text == UNION {{<<b, at>> : at \in 0 .. (source[b].size - 1)} : b \in DOMAIN source}

\* A provider is shown every position of the text, in an order that never goes
\* back, and by every chunk something the one before it did not show; no chunk
\* exceeds the limits it was configured with, but for the blank a slice of an
\* oversized block may end with (extraction/chunking.py plan_chunks).
PlanCovers ==
  Planned =>
    /\ UNION {Seen(Chunks[n]) : n \in DOMAIN Chunks} = Text
    /\ \A n \in DOMAIN Chunks :
         /\ Len(Chunks[n]) <= MaxBlocks
         /\ Characters(Chunks[n]) <= MaxCharacters
            \/ (Len(Chunks[n]) = 1 /\ Characters(Chunks[n]) = MaxCharacters + 1
                /\ Chunks[n][1].to - 1 \in source[Chunks[n][1].block].breaks)
         /\ n > 1 => /\ Seen(Chunks[n]) \ Seen(Chunks[n - 1]) # {}
                     /\ \A p \in Seen(Chunks[n]) \ Seen(Chunks[n - 1]),
                           q \in Seen(Chunks[n - 1]) : Before(q, p)

Finished == result.status \in {"SUCCESS", "PARTIAL"}

\* Whatever the provider answers and however the chunks overlap: a step of the
\* candidate cites only text that was shown, nothing that was read is missing,
\* no activity appears twice, its identifiers are its own, its collections are
\* neither empty nor unknown with items, a dependency leads to the only other
\* step with that label, and steps are in an order the document
\* states for all of them or in the order they are cited in
\* (extraction/merge.py merge_chunks, evidence.py resolve_pointer).
CandidateSound ==
  Finished =>
    LET steps == result.steps IN
    /\ \A i \in DOMAIN steps : \A span \in steps[i].cites :
         \E n \in DOMAIN Chunks : Shown(Chunks[n], span)
    /\ \A d \in DOMAIN Drafts : \E i \in DOMAIN steps : SameActivity(steps[i], Drafts[d])
    /\ \A i, j \in DOMAIN steps : i # j => ~SameActivity(steps[i], steps[j])
    /\ StepsAccepted(steps) /\ \A i \in DOMAIN steps : CollectionAccepted(steps[i].inputs)
    /\ \A i \in DOMAIN steps : \A l \in DOMAIN steps[i].needs : \A t \in steps[i].needs[l] :
         \E j \in DOMAIN steps \ {i} : /\ steps[j].id = t /\ steps[j].label = l
                                       /\ \A k \in DOMAIN steps \ {j} : steps[k].label # l
    /\ \/ \A i, j \in DOMAIN steps : i < j => 0 < steps[i].order /\ steps[i].order < steps[j].order
       \/ \A i, j \in DOMAIN steps :
            i < j => ~Before(Earliest(steps[j]), Earliest(steps[i]))

\* What a provider's last answer claims of a chunk.
LastWord(n) == heard[n][Len(heard[n])]
Claims(n) == IF IsAnswer(LastWord(n)) THEN Range(LastWord(n).steps) ELSE {}

\* SUCCESS means that every chunk was answered and nothing its last answer claims
\* was dropped as unverifiable; and an extraction of which that can be said is
\* not reported as less.  No chunk is asked for more than twice
\* (extraction/service.py extract).
StatusTells ==
  /\ \A n \in DOMAIN heard : Len(heard[n]) <= Repairs + 1
  /\ result # NoResult =>
       (result.status = "SUCCESS"
          <=> /\ AllAsked /\ \E n \in DOMAIN heard : Claims(n) # {}
              /\ \A n \in DOMAIN heard : IsAnswer(LastWord(n))
              /\ \A n \in DOMAIN heard : \A raw \in Claims(n) :
                   /\ \E i \in DOMAIN result.steps :
                        result.steps[i].label = raw.label
                        /\ result.steps[i].cites \cap Cites(Chunks[n], raw.activity) # {}
                   /\ \A p \in PointersOf(raw) : PointerSpan(Chunks[n], p) # {})
=============================================================================
