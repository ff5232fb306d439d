----------------------------- MODULE MCEvidence -----------------------------
(***************************************************************************)
(* Small instances of the evidence workflow for TLC.  Intake, attempts and *)
(* preparation share no variable: each behaviour exercises one of them.    *)
(***************************************************************************)
EXTENDS EvidenceProperties, EvidencePreparation, TLC

VARIABLE part

\* Two documents with a proposal each.
MCDocOf == "p1" :> "d1" @@ "p2" :> "d2"
MCOrder == <<"p1", "p2">>

Clean(magic, size) == [size |-> size, oversized |-> FALSE, magic |-> magic, problems |-> {}]

MCFacts ==
    [source |-> Clean("pdf", 1), notes |-> Clean("text", 1), report |-> Clean("pdf", 2),
     form |-> [Clean("pdf", 1) EXCEPT !.problems = {"ACTIVE_CONTENT"}]]

\* Other reviewers, whose calls are not overtaken: what they read is what they
\* write on.  They leave rejecting and the readiness to the one who may be.
Others ==
    \/ \E call \in {review \in ReviewCalls : review.kind \in Approved} \cup MapCalls : Appends(call)
    \/ \E call \in PrepareCalls :
         LET seen == [p \in Included(call) |-> Len(reviews[p])] IN
         /\ \A p \in Included(call) : Reviewable(p)
         /\ Mappable(seen)
         /\ AppendCandidate([step |-> "candidate", set |-> SetOf(call.documents, call.excluded, seen)])

\* Two documents have been read, a fact and an inference from it are reviewed,
\* and a third document without proposals may come or replace one of the others.
Prepared ==
    /\ docs = [d \in Documents |-> IF d = "d3" THEN "absent" ELSE "usable"]
    /\ reviews = [p \in Proposals |->
                    <<IF p = "p1" THEN [kind |-> "FACT", refs |-> {}]
                      ELSE [kind |-> "INFERENCE", refs |-> {<<"p1", 1>>}]>>]
    /\ events = 2
    /\ maps = [p \in Proposals |-> << >>] /\ candidate = NoCandidate
    /\ readiness = NotEvaluated /\ calls = [s \in Reviewers |-> NoCall]

MCInit ==
    /\ IntakeInit /\ AttemptsInit /\ Prepared
    /\ part \in {"intake", "attempts", "preparation"}

MCNext ==
    /\ UNCHANGED part
    /\ \/ part = "intake" /\ IntakeNext /\ UNCHANGED <<attemptVars, prepVars>>
       \/ part = "attempts" /\ AttemptsNext /\ UNCHANGED <<intakeVars, prepVars>>
       \/ /\ part = "preparation"
          /\ PrepNext \/ (Others /\ UNCHANGED calls)
          /\ UNCHANGED <<intakeVars, attemptVars>>

MCSpec == MCInit /\ [][MCNext]_<<intakeVars, attemptVars, prepVars, part>>
=============================================================================
