------------------------------ MODULE MCFormal ------------------------------
(***************************************************************************)
(* Small instances of the formal assessment for TLC: the run service, and  *)
(* the draft a session prepares for it, each explored on its own.          *)
(***************************************************************************)
EXTENDS FormalProperties, FormalDraft, TLC

CONSTANTS r1, r2, f1, f2, v1, v2

VARIABLE part

\* One run with a retry next to a run with none.
RetriedAndPlain == r1 :> 2 @@ r2 :> 1

\* Two fields, two values; candidates without a mapping, that fill or
\* corroborate, and that contradict the approved value or each other.
Mapping(id, f, v, positive) == [id |-> id, field |-> f, value |-> v, positive |-> positive]

SomeCandidates ==
  {{Mapping(1, f1, v1, TRUE), Mapping(2, f1, v1, TRUE), Mapping(3, f2, v2, FALSE)},
   {Mapping(1, f1, v1, TRUE), Mapping(2, f1, v2, TRUE), Mapping(3, f2, v1, TRUE)}}

SomeApproved == CHOOSE a \in [Fields -> Approved] : TRUE

MCInit ==
  /\ Init /\ DraftInit /\ part \in {"runs", "draft"}
  /\ part = "runs" => approved = SomeApproved

MCNext ==
  /\ UNCHANGED part
  /\ \/ part = "runs" /\ Next /\ UNCHANGED draftVars
     \/ part = "draft" /\ DraftNext /\ UNCHANGED vars

MCSpec == MCInit /\ [][MCNext]_<<vars, draftVars, part>>

\* The callers of the run service go on with what they have begun.
MCFairSpec == MCSpec /\ \A c \in Callers : WF_vars(part = "runs" /\ Continue(c))
=============================================================================
