-------------------------- MODULE SuccessorContract --------------------------
(***************************************************************************)
(* What a controlled reassessment promises, whoever carries it out: its    *)
(* steps are taken in their order, each at most once and with one input,   *)
(* nothing follows an end, and what was saved is never changed.            *)
(***************************************************************************)
EXTENDS Naturals, Sequences

CONSTANTS
  Runs, Steps, Working, Ends,
  Inputs(_),    \* what may be decided in a step
  After(_, _)   \* the stage that a step leads to

VARIABLES stage, saved

vars == <<stage, saved>>

Init ==
  /\ stage = [r \in Runs |-> "none"]
  /\ saved = [r \in Runs |-> << >>]

Open(r) ==
  /\ stage[r] = "none"
  /\ stage' = [stage EXCEPT ![r] = "OPEN"]
  /\ UNCHANGED saved

\* A resolution that leaves the criterion unknown is the end of the run.
Advance(r, k, i) ==
  /\ stage[r] = Working[k] /\ Len(saved[r]) = k - 1
  /\ Steps[k] = "request" => saved[r][k - 1] = "known"
  /\ saved' = [saved EXCEPT ![r] = Append(@, i)]
  /\ stage' = [stage EXCEPT ![r] = After(k, i)]

\* A run may be given up, also after its end.
GiveUp(r) ==
  /\ stage[r] # "none"
  /\ \E end \in {"STALE", "FAILED"} : stage' = [stage EXCEPT ![r] = end]
  /\ UNCHANGED saved

Next ==
  \E r \in Runs :
    \/ Open(r) \/ GiveUp(r)
    \/ \E k \in DOMAIN Steps : \E i \in Inputs(k) : Advance(r, k, i)

Spec == Init /\ [][Next]_vars
=============================================================================
