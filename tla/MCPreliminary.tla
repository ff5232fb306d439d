---------------------------- MODULE MCPreliminary ----------------------------
(***************************************************************************)
(* Instances of the Preliminary journey for TLC: the tokens its callers    *)
(* have bound every history.  The histories alone have more tokens, and a  *)
(* behaviour has either all run tokens and few route requests, or all      *)
(* route requests and few run tokens; beside them a window may load.       *)
(* The evaluator that reads texts is run on small texts, on a journey that *)
(* nobody has begun.                                                       *)
(***************************************************************************)
EXTENDS PreliminaryProperties, PreliminaryReads, PreliminaryRulesV2, FiniteSets, TLC

CONSTANTS t1, t2, t3, u1, u2, u3, f1

VARIABLE few   \* bound: what a behaviour has at most Few of

Few == 2

TokenSymmetry == Permutations(RouteTokens) \cup Permutations(RunTokens)

WithinFew ==
  Cardinality(IF few = "routes" THEN DOMAIN requests ELSE UsedRunTokens \cup RecoveryTokens) <= Few

-----------------------------------------------------------------------------
(* Texts of up to two phrases, and one that makes six opportunities.       *)

Plain(name) == [name |-> name, recorded |-> 0]
Claim == Plain("claim")
Does(action, rule, object) ==
  [joined |-> "stop", actor |-> "clerk", action |-> action, rule |-> rule, object |-> object,
   input |-> NoArtifact, output |-> NoArtifact, to |-> NoArtifact, marks |-> {}]
Records == Does("RECORD", "PD2-001", Claim)
Decides == Does("DECIDE", "PD2-016", Claim)
Phrases ==
  {Records, Decides, [Records EXCEPT !.marks = {"future"}], [Records EXCEPT !.marks = {"negated"}],
   [Does("NOTIFY", "PD2-003", RecordedForm(Claim)) EXCEPT !.to = Plain("customer")],
   [Does("MONITOR", "PD2-006", Claim) EXCEPT !.marks = {"trigger"}],
   [Does("INTERPRET", "PD2-008", Claim) EXCEPT !.input = RecordedForm(Claim), !.marks = {"linked"}],
   Does("CATEGORISE", "PD2-010", Claim),
   [Does("ASSESS", "PD2-017", NoArtifact) EXCEPT !.input = Plain("report"), !.output = Claim],
   [Does("CONTACT", "PD2-015", NoArtifact) EXCEPT !.to = Plain("customer"), !.output = Claim],
   [Does("OTHER_SUPPORTED_ACTION", "PD2-018", Claim) EXCEPT !.output = Claim],
   [Does(None, None, NoArtifact) EXCEPT !.marks = {"vague"}]}
Continued == {[p EXCEPT !.joined = j, !.actor = IF j = "stop" THEN @ ELSE None] :
                 p \in Phrases, j \in {"stop", "and", "to"}}
OnePhrase == {<<p>> : p \in Phrases}
Followed == {<<p, q>> : p \in Phrases, q \in Continued}
InOneClause == {t \in Followed : t[2].joined = "and"}
SixOpportunities == <<Records, Decides, Records, Decides, Records, Decides>>

Assertion(field, origin, evidence, says) ==
  [field |-> field, item |-> 0, origin |-> origin, disposition |-> "ACCEPTED", state |-> "KNOWN",
   retained |-> TRUE, evidence |-> evidence, says |-> says]
Cited(id, text) == <<[id |-> id, start |-> 1, text |-> text]>>
Silent == <<Does(None, None, NoArtifact)>>
Statements ==
  {{}, {"CLOSED_MAPPING"}, {"RISK_HIGH"} \cup AutonomyBundle, AssistanceBundle, AutonomyBundle,
   {"ASSISTANCE_PROHIBITED"} \cup AutonomyBundle, AutonomyBundle \cup AssistanceBundle}
Activity(text, origin, stated, owners) ==
  [retained |-> TRUE, conflicted |-> FALSE, owners |-> owners,
   assertions |-> <<Assertion("description", origin, Cited("e1", text), {}),
                    Assertion("systems", "DOCUMENT_SUPPORTED", Cited("e2", Silent), stated)>>]
Known2 == Activity(<<Records>>, "DOCUMENT_SUPPORTED", {}, {"clerk"})
Approval ==
  [status |-> "APPROVED", ordered |-> TRUE, approvals |-> 1, blocked |-> FALSE, projected |-> TRUE,
   lineage |-> "own", activities |-> <<Known2>>]
Activities2 ==
  {Activity(t, "DOCUMENT_SUPPORTED", {}, {}) : t \in Followed}
  \cup {Activity(t, "DOCUMENT_SUPPORTED", says, {}) : t \in OnePhrase \cup InOneClause, says \in Statements}
  \cup {Activity(t, "DOCUMENT_SUPPORTED", says, {"agent"}) :
          t \in OnePhrase, says \in {AutonomyBundle, AutonomyBundle \cup AssistanceBundle}}
  \cup {Activity(t, o, AutonomyBundle, {}) : t \in OnePhrase, o \in {"INFERRED", "HUMAN_SUPPLIED"}}
  \cup {Activity(SixOpportunities, "DOCUMENT_SUPPORTED", {}, {}),
        Activity(Silent, "DOCUMENT_SUPPORTED", NoChangeBundle, {}),
        [Known2 EXCEPT !.conflicted = TRUE]}
ApprovedReviews ==
  {[Approval EXCEPT !.activities = <<a>>] : a \in Activities2}
  \cup {[Approval EXCEPT !.activities = <<[Known2 EXCEPT !.retained = FALSE], Known2, a>>] :
          a \in {Activity(t, "DOCUMENT_SUPPORTED", {}, {}) : t \in OnePhrase}}
  \cup [status : {"APPROVED", "IN_REVIEW"}, ordered : BOOLEAN, approvals : 0 .. 2, blocked : BOOLEAN,
        projected : BOOLEAN, lineage : {"own", "foreign", "altered"}, activities : {<<Known2>>}]

-----------------------------------------------------------------------------
textVars == <<review, evaluation>>
NoText == review = Approval /\ evaluation = NotEvaluatedYet

\* The histories, with no window that loads.
MCInit == ReadsInit /\ few \in {"routes", "runs"} /\ NoText
MCNext == Next /\ UNCHANGED <<few, readVars, textVars>> /\ WithinFew'

\* The evaluation of a text.
MCTextsInit == ReadsInit /\ few = "texts" /\ EvaluationInit
MCTextsNext == few = "texts" /\ EvaluationNext /\ UNCHANGED <<vars, readVars, few>>

MCSpec ==
  /\ MCInit \/ MCTextsInit
  /\ [][(few # "texts" /\ MCNext) \/ MCTextsNext]_<<vars, readVars, textVars, few>>

\* A load while others write.
MCReadsInit == ReadsInit /\ few = "neither" /\ NoText
MCReadsNext == ReadsNext /\ UNCHANGED <<few, textVars>>
MCReadsSpec == MCReadsInit /\ [][MCReadsNext]_<<vars, readVars, textVars, few>>
=============================================================================
