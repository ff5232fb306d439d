------------------------------ MODULE MCReview ------------------------------
(***************************************************************************)
(* Small candidates for TLC: two steps, one of which depends on the other   *)
(* one; and a step whose assertions are unknown, inferred or blank, and     *)
(* whose actor can be added and chosen.  The other parts of the run plan    *)
(* the chunks of every small document, and extract the process of two.      *)
(***************************************************************************)
EXTENDS ReviewSession, ProcessExtraction

CONSTANTS s1, s2, s3, v, c1

Linked ==
  [sequence |-> [s \in {s1, s2} |-> IF s = s1 THEN 1 ELSE 2],
   field |-> [p \in {Name, Activity(s1), Activity(s2)} |-> Found(v, "KNOWN")],
   target |-> [l \in {<<s1, 1>>} |-> s2],
   conflicts |-> {}]

Uncertain(name, activity) ==
  [sequence |-> [s \in {s3} |-> 1],
   field |-> [p \in {Name, Activity(s3)} |-> IF p = Name THEN name ELSE activity],
   target |-> [l \in {} |-> None],
   conflicts |-> {c1}]

SomeCandidates ==
  {Linked, Uncertain(Unknown, Found(v, "INFERRED")),
   Uncertain(Found(Blank, "KNOWN"), Found(Blank, "INFERRED"))}

\* Every document of up to three blocks that are empty, fill a part of a chunk
\* or need more than one; and two that are planned in overlapping chunks, and
\* cut within a block.
Blocks == {[size |-> n, breaks |-> b] : n \in 0..5, b \in {{}, {2}, {1, 3}}}
Overlapping == <<[size |-> 2, breaks |-> {}], [size |-> 1, breaks |-> {}], [size |-> 2, breaks |-> {}]>>
Cut == <<[size |-> 5, breaks |-> {2}]>>
SomeSources == UNION {[1..n -> Blocks] : n \in 1..3}
AskedAbout == {Overlapping, Cut}

\* A snippet that occurs once, at the end of a block; the same snippet counted
\* to, and looked for in a slice; and one that is nowhere.
At(b, starts) == [block |-> b, starts |-> starts, length |-> 1, occurrence |-> 0, slice |-> {}]
Second(b, starts) == [At(b, starts) EXCEPT !.occurrence = 2]
InSlice(b, starts, from) == [At(b, starts) EXCEPT !.slice = {from}]

Holds(completeness, items) == [completeness |-> completeness, items |-> items, evidence |-> {}]
Nothing == Holds("UNKNOWN", {})

Raw(label, activity, order, at, needs, inputs) ==
  [label |-> label, activity |-> activity, order |-> order, at |-> at, needs |-> needs,
   inputs |-> inputs]

SomeAnswers ==
  {<< >>,
   <<Raw("check", {At(2, {0})}, 2, {At(2, {0})}, {<<"pay", {At(2, {0})}>>},
         Holds("COMPLETE", {{At(2, {0})}, {At(3, {1})}}))>>,
   <<Raw("pay", {At(3, {1})}, 1, {At(3, {1})}, {<<"check", {At(3, {1})}>>}, Nothing),
     Raw("check", {At(2, {0})}, 2, {At(2, {0})}, {}, Holds("PARTIAL", {{At(2, {0})}}))>>,
   <<Raw("pay", {At(1, {0})}, 2, {At(1, {0})}, {<<"pay", {At(1, {0})}>>}, Nothing),
     Raw("check", {At(1, {1})}, 2, {At(1, {1})}, {<<"pay", {At(3, {})}>>}, Nothing)>>,
   <<Raw("pay", {Second(1, {0, 4})}, 0, {}, {<<"check", {InSlice(1, {0, 4}, 3)}>>},
         Holds("COMPLETE", {{}, {InSlice(1, {0, 4}, 3)}}))>>,
   <<Raw("pay", {At(3, {1})}, 0, {}, {}, Holds("COMPLETE", {{}}))>>}

\* Answers, one of them the schema does not accept, and the ways to have none.
Answer(steps) ==
  [failed |-> "no", refused |-> FALSE, status |-> "completed", parsed |-> "yes", steps |-> steps]
SomeResponses ==
  {Answer(steps) : steps \in SomeAnswers}
  \cup {Answer(<<Raw("pay", {}, 0, {}, {}, Nothing)>>),
        [Answer(<< >>) EXCEPT !.failed = "request"], [Answer(<< >>) EXCEPT !.refused = TRUE],
        [Answer(<< >>) EXCEPT !.status = "incomplete"], [Answer(<< >>) EXCEPT !.parsed = "filtered"]}

VARIABLE part

mcVars == <<vars, extractionVars, part>>

MCInit ==
  /\ part \in {"review", "plan", "extraction"}
  /\ Init /\ ExtractionInit
  /\ part # "review" => field = Linked.field
  /\ part = "review" => source = Cut
  /\ part = "extraction" => source \in AskedAbout

MCReviewNext == part = "review" /\ Next /\ UNCHANGED extractionVars
MCPlan == part # "review" /\ PlanStep /\ UNCHANGED <<vars, heard, result>>
MCExtraction == part = "extraction" /\ (Call \/ Finish) /\ UNCHANGED vars

\* A planned or extracted document is left as it is.
MCEnded ==
  /\ (part = "plan" /\ Planned) \/ (part = "extraction" /\ result # NoResult)
  /\ UNCHANGED mcVars

MCNext == (MCReviewNext \/ MCPlan \/ MCExtraction \/ MCEnded) /\ UNCHANGED part
MCSpec == MCInit /\ [][MCNext]_mcVars
=============================================================================
