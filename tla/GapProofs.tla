----------------------------- MODULE GapProofs -----------------------------
(***************************************************************************)
(* What holds of gap resolution for any windows, documents, packages and   *)
(* sessions.  Both families of controlled reassessment implement the       *)
(* abstract contract of SuccessorContract: every step maps to a step of it *)
(* or to none.  The runs and operations agree, the successor is assessed   *)
(* under the policy that was pinned, and the answers to the optional       *)
(* question stand.                                                         *)
(*                                                                         *)
(* The stages of the contract come first, then what a store and a call     *)
(* look like, the invariant of the legacy family, the one of the four-gate *)
(* family, and the one of the answers.                                     *)
(***************************************************************************)
EXTENDS GapProperties, Integers, SequenceTheorems, TLAPS

LEMMA StepsAre ==
  /\ DOMAIN Steps = 1..9 /\ Len(Steps) = 9 /\ DOMAIN Working = 1..9
  BY DEF Steps, Working

LEMMA WorkingDiffer ==
  ASSUME NEW j \in 1..9, NEW k \in 1..9, Working[j] = Working[k] PROVE j = k
  BY DEF Working

LEMMA WorkingGoesOn ==
  ASSUME NEW k \in 1..9
  PROVE  Working[k] \notin Ends /\ Working[k] # "none"
  BY DEF Working, Ends, Refusals

LEMMA FirstStage == \A k \in 1..9 : Working[k] = "OPEN" <=> k = 1
  BY DEF Working

LEMMA StepNames ==
  ASSUME NEW k \in 1..9
  PROVE  (Steps[k] = "review" <=> k = 2) /\ (Steps[k] = "request" <=> k = 4) /\ (Steps[k] = "assess" <=> k = 7)
  BY DEF Steps

\* Where a step leads.
LEMMA AfterIs ==
  ASSUME NEW k \in 1..9, NEW i
  PROVE  \/ k = 2 /\ After(k, i) \in Refusals
         \/ k = 9 /\ After(k, i) = "COMPARED"
         \/ k < 9 /\ After(k, i) = Working[k + 1]
  <1>1. CASE k = 2
    <2>1. Steps[k] = "review" /\ Len(Steps) # k
      BY <1>1, StepNames, StepsAre
    <2>2. CASE i = "rejected"
      BY <1>1, <2>1, <2>2 DEF After, Refusals
    <2>3. CASE i = "insufficient"
      BY <1>1, <2>1, <2>3 DEF After, Refusals
    <2>4. CASE i = "conflict"
      BY <1>1, <2>1, <2>4 DEF After, Refusals
    <2>5. CASE i \notin {"rejected", "insufficient", "conflict"}
      BY <1>1, <2>1, <2>5 DEF After
    <2>. QED
      BY <2>2, <2>3, <2>4, <2>5
  <1>2. CASE k # 2
    <2>1. Steps[k] # "review" /\ Len(Steps) = 9
      BY <1>2, StepNames, StepsAre
    <2>. QED
      BY <1>2, <2>1 DEF After
  <1>. QED
    BY <1>1, <1>2

LEMMA ContractSteps ==
  /\ Contract!Init <=> stage = [r \in Runs |-> "none"] /\ saved = [r \in Runs |-> << >>]
  /\ \A r \in Runs : Contract!Open(r) <=> /\ stage[r] = "none" /\ saved' = saved
                                 /\ stage' = [stage EXCEPT ![r] = "OPEN"]
  BY DEF Contract!Init, Contract!Open

LEMMA ContractAdvances ==
  ASSUME NEW r \in Runs, NEW k \in DOMAIN Steps, NEW i \in Inputs(k),
    stage[r] = Working[k], Len(saved[r]) = k - 1,
    Steps[k] = "request" => saved[r][k - 1] = "known",
    saved' = [saved EXCEPT ![r] = Append(saved[r], i)],
    stage' = [stage EXCEPT ![r] = After(k, i)]
  PROVE Contract!Next
  BY DEF Contract!Next, Contract!Advance

(***************************************************************************)
(* What both families keep of the runs                                     *)
(***************************************************************************)
Choices == UNION {Inputs(k) : k \in DOMAIN Steps}
Stages == {"none"} \cup {Working[k] : k \in 1..9} \cup Ends

\* A run has saved the steps before its stage, and none before it is created.
RunFits(st, sv) ==
  \/ st \in {"STALE", "FAILED"}
  \/ st = "none" /\ Len(sv) = 0
  \/ st = "COMPARED" /\ Len(sv) = 9
  \/ st \in Refusals /\ Len(sv) = 2
  \/ \E k \in 1..9 : st = Working[k] /\ Len(sv) = k - 1

StoreFits ==
  /\ stage \in [Runs -> Stages]
  /\ saved \in [Runs -> Seq(Choices)]
  /\ under \in [Runs -> Nat]
  /\ packages \in Seq(Nat) /\ policy \in Nat
  /\ \A r \in Runs : RunFits(stage[r], saved[r])
  /\ \A r \in Runs : under[r] # 0 => r \in DOMAIN packages /\ under[r] = packages[r]

LEMMA SeqGrows ==
  ASSUME NEW S, NEW s \in Seq(S), NEW x \in S, NEW t, t = Append(s, x)
  PROVE  /\ t \in Seq(S) /\ Len(t) = Len(s) + 1 /\ t[Len(s) + 1] = x
         /\ \A i \in 1..Len(s) : t[i] = s[i]
         /\ DOMAIN s = 1..Len(s) /\ DOMAIN t = 1..(Len(s) + 1) /\ Len(s) \in Nat
  BY AppendProperties, LenProperties

LEMMA StoreInitFits == StoreInit => StoreFits
  <1> SUFFICES ASSUME StoreInit PROVE StoreFits
    OBVIOUS
  <1>1. /\ packages = <<1>> /\ policy = 1 /\ stage = [r \in Runs |-> "none"]
        /\ saved = [r \in Runs |-> << >>] /\ under = [r \in Runs |-> 0]
    BY DEF StoreInit
  <1>2. << >> \in Seq(Choices) /\ Len(<< >>) = 0
    BY EmptySeq
  <1>3. <<1>> \in Seq(Nat)
    OBVIOUS
  <1>. QED
    BY <1>1, <1>2, <1>3 DEF StoreFits, RunFits, Stages

\* A replaced package and a changed policy leave the runs alone.
LEMMA BaselineFits ==
  ASSUME StoreFits, ReplacePackage \/ ChangePolicy
  PROVE  /\ StoreFits' /\ stage' = stage /\ saved' = saved /\ under' = under
         /\ \A r \in DOMAIN packages : r \in DOMAIN packages' /\ packages'[r] = packages[r]
  <1>1. stage' = stage /\ saved' = saved /\ under' = under
    BY DEF ReplacePackage, ChangePolicy
  <1>2. /\ packages' \in Seq(Nat) /\ policy' \in Nat
        /\ \A r \in DOMAIN packages : r \in DOMAIN packages' /\ packages'[r] = packages[r]
    <2>1. CASE ReplacePackage
      <3>1. packages' = Append(packages, policy) /\ policy' = policy
            /\ packages \in Seq(Nat) /\ policy \in Nat
        BY <2>1 DEF ReplacePackage, StoreFits
      <3>2. PICK p : p = packages'
        OBVIOUS
      <3>3. p = Append(packages, policy) /\ packages \in Seq(Nat) /\ policy \in Nat
        BY <3>1, <3>2
      <3>4. /\ p \in Seq(Nat) /\ Len(p) = Len(packages) + 1
            /\ \A i \in 1..Len(packages) : p[i] = packages[i]
            /\ DOMAIN packages = 1..Len(packages) /\ DOMAIN p = 1..(Len(packages) + 1)
            /\ Len(packages) \in Nat
        BY <3>3, SeqGrows
      <3>. QED
        BY <3>1, <3>2, <3>4
    <2>2. CASE ChangePolicy
      BY <2>2 DEF ChangePolicy, StoreFits
    <2>. QED
      BY <2>1, <2>2
  <1>. QED
    BY <1>1, <1>2 DEF StoreFits

\* A run is created.
LEMMA CreatedFits ==
  ASSUME StoreFits, NEW r \in Runs, CreateRun(r)
  PROVE  /\ StoreFits' /\ Contract!Next
         /\ packages' = packages /\ saved' = saved /\ under' = under
         /\ \A q \in Runs : stage[q] # "none" => stage'[q] # "none"
  <1>1. /\ stage[r] = "none" /\ stage' = [stage EXCEPT ![r] = "OPEN"]
        /\ packages' = packages /\ policy' = policy /\ saved' = saved /\ under' = under
    BY DEF CreateRun
  <1>2. Contract!Open(r)
    BY <1>1, ContractSteps
  <1>3. Working[1] = "OPEN" /\ 1 \in 1..9 /\ "OPEN" \in Stages
    BY FirstStage DEF Stages
  <1>4. stage \in [Runs -> Stages]
    BY DEF StoreFits
  <1>5. stage' \in [Runs -> Stages] /\ stage'[r] = "OPEN" /\ \A q \in Runs \ {r} : stage'[q] = stage[q]
    BY <1>1, <1>3, <1>4
  <1>6. Len(saved[r]) = 0
    <2>1. RunFits("none", saved[r])
      BY <1>1 DEF StoreFits
    <2>2. \A k \in 1..9 : Working[k] # "none"
      BY WorkingGoesOn
    <2>. QED
      BY <2>1, <2>2 DEF RunFits, Refusals
  <1>7. RunFits("OPEN", saved[r])
    BY <1>3, <1>6 DEF RunFits
  <1>8. ASSUME NEW q \in Runs PROVE RunFits(stage'[q], saved'[q])
    BY <1>1, <1>5, <1>7 DEF StoreFits
  <1>9. Contract!Next
    BY <1>2 DEF Contract!Next
  <1>. QED
    BY <1>1, <1>5, <1>8, <1>9 DEF StoreFits

\* A run is given up.
LEMMA GivenUpFits ==
  ASSUME StoreFits, NEW r \in Runs, stage[r] # "none", NEW end \in {"STALE", "FAILED"},
         stage' = [stage EXCEPT ![r] = end],
         packages' = packages, policy' = policy, saved' = saved, under' = under
  PROVE  /\ StoreFits' /\ Contract!Next
         /\ \A q \in Runs : stage[q] # "none" => stage'[q] # "none"
  <1>1. Contract!GiveUp(r)
    BY DEF Contract!GiveUp
  <1>2. Contract!Next
    BY <1>1 DEF Contract!Next
  <1>3. end \in Stages /\ stage \in [Runs -> Stages]
    BY DEF Stages, Ends, StoreFits
  <1>4. stage' \in [Runs -> Stages] /\ stage'[r] = end /\ \A q \in Runs \ {r} : stage'[q] = stage[q]
    BY <1>3
  <1>5. ASSUME NEW q \in Runs PROVE RunFits(stage'[q], saved'[q])
    BY <1>4 DEF StoreFits, RunFits
  <1>. QED
    BY <1>2, <1>4, <1>5 DEF StoreFits

\* The result of a step is saved, in its stage and after those before it.
LEMMA StageAfter ==
  ASSUME NEW k \in 1..9, NEW i, NEW sv, Len(sv) = k
  PROVE  RunFits(After(k, i), sv) /\ After(k, i) \in Stages /\ After(k, i) # "none"
  <1>1. CASE k = 2 /\ After(k, i) \in Refusals
    BY <1>1 DEF RunFits, Stages, Ends, Refusals
  <1>2. CASE k = 9 /\ After(k, i) = "COMPARED"
    BY <1>2 DEF RunFits, Stages, Ends
  <1>3. CASE k < 9 /\ After(k, i) = Working[k + 1]
    <2>1. k + 1 \in 1..9 /\ Len(sv) = (k + 1) - 1
      BY <1>3
    <2>2. Working[k + 1] # "none"
      BY <2>1, WorkingGoesOn
    <2>. QED
      BY <1>3, <2>1, <2>2 DEF RunFits, Stages
  <1>. QED
    BY <1>1, <1>2, <1>3, AfterIs

LEMMA SavedFits ==
  ASSUME StoreFits, NEW r \in Runs, NEW k \in 1..9, NEW i \in Inputs(k), NEW result \in Nat,
         stage[r] = Working[k], Len(saved[r]) = k - 1,
         k = 4 => saved[r][3] = "known",
         k = 7 => r \in DOMAIN packages /\ result = packages[r],
         SaveStep(r, k, i, result), packages' = packages, policy' = policy
  PROVE  /\ StoreFits' /\ Contract!Next
         /\ \A q \in Runs : stage[q] # "none" => stage'[q] # "none"
         /\ saved'[r] = Append(saved[r], i) /\ \A q \in Runs \ {r} : saved'[q] = saved[q]
  <1>1. /\ saved' = [saved EXCEPT ![r] = Append(saved[r], i)]
        /\ stage' = [stage EXCEPT ![r] = After(k, i)]
        /\ under' = IF Steps[k] = "assess" THEN [under EXCEPT ![r] = result] ELSE under
    BY DEF SaveStep
  <1>2. /\ stage \in [Runs -> Stages] /\ saved \in [Runs -> Seq(Choices)]
        /\ under \in [Runs -> Nat]
    BY DEF StoreFits
  <1>3. i \in Choices /\ k \in DOMAIN Steps
    BY StepsAre DEF Choices
  <1>4. PICK sv : sv = Append(saved[r], i)
    OBVIOUS
  <1>5. saved[r] \in Seq(Choices) /\ i \in Choices /\ sv = Append(saved[r], i)
    BY <1>2, <1>3, <1>4
  <1>6. sv \in Seq(Choices) /\ Len(sv) = Len(saved[r]) + 1
    BY <1>5, SeqGrows
  <1>7. Len(sv) = k
    BY <1>6
  <1>8. RunFits(After(k, i), sv) /\ After(k, i) \in Stages /\ After(k, i) # "none"
    BY <1>7, StageAfter
  <1>9. /\ stage' \in [Runs -> Stages] /\ stage'[r] = After(k, i)
        /\ \A q \in Runs \ {r} : stage'[q] = stage[q]
    BY <1>1, <1>2, <1>8
  <1>10. /\ saved' \in [Runs -> Seq(Choices)] /\ saved'[r] = sv
         /\ \A q \in Runs \ {r} : saved'[q] = saved[q]
    BY <1>1, <1>2, <1>4, <1>6
  <1>11. ASSUME NEW q \in Runs PROVE RunFits(stage'[q], saved'[q])
    BY <1>8, <1>9, <1>10 DEF StoreFits
  <1>12. /\ under' \in [Runs -> Nat]
         /\ \A q \in Runs : under'[q] # 0 => q \in DOMAIN packages /\ under'[q] = packages[q]
    <2>1. CASE k = 7
      <3>1. under' = [under EXCEPT ![r] = result]
        BY <1>1, <2>1, StepNames
      <3>. QED
        BY <1>2, <2>1, <3>1 DEF StoreFits
    <2>2. CASE k # 7
      BY <1>1, <2>2, StepNames DEF StoreFits
    <2>. QED
      BY <2>1, <2>2
  <1>13. Steps[k] = "request" => saved[r][k - 1] = "known"
    BY StepNames
  <1>14. Contract!Next
    BY <1>1, <1>3, <1>13, ContractAdvances
  <1>. QED
    BY <1>4, <1>8, <1>9, <1>10, <1>11, <1>12, <1>14 DEF StoreFits

(***************************************************************************)
(* Calls                                                                   *)
(***************************************************************************)
CallRecord == [at : {"idle", "check", "begin", "engine", "save", "fail"}, run : Nat,
               step : 0..9, input : Choices \cup {"none", "baseline", "policy"},
               end : {"none", "STALE", "FAILED"}, result : Nat]

\* The call of a window is of a step of a run that was in its stage when the
\* call began, so everything before it is saved.
CallFits(c) ==
  c.at \in {"check", "begin", "engine", "save"} =>
    /\ c.run \in Runs /\ stage[c.run] # "none"
    /\ c.step \in 1..9 /\ c.input \in Inputs(c.step)
    /\ Len(saved[c.run]) >= c.step - 1

\* One that passed its check builds on an answer the reviewer found known.
RequestFits(c) ==
  c.at \in {"begin", "engine", "save"} /\ c.step = 4 => saved[c.run][3] = "known"

\* What an assessment returned was made under the policy of the baseline.
ResultFits(c) ==
  c.at = "save" /\ c.step = 7 => c.run \in DOMAIN packages /\ c.result = packages[c.run]

\* A call keeps fitting while runs go on.
LEMMA CallStillFits ==
  ASSUME StoreFits, NEW c,
         \A q \in Runs : stage[q] # "none" => stage'[q] # "none",
         \A q \in Runs : /\ Len(saved'[q]) >= Len(saved[q]) /\ Len(saved'[q]) \in Nat
                         /\ \A n \in 1..Len(saved[q]) : saved'[q][n] = saved[q][n],
         \A r \in DOMAIN packages : r \in DOMAIN packages' /\ packages'[r] = packages[r]
  PROVE  /\ CallFits(c) => (c.at \in {"check", "begin", "engine", "save"} =>
                                /\ c.run \in Runs /\ stage'[c.run] # "none"
                                /\ c.step \in 1..9 /\ c.input \in Inputs(c.step)
                                /\ Len(saved'[c.run]) >= c.step - 1)
         /\ CallFits(c) /\ RequestFits(c) =>
              (c.at \in {"begin", "engine", "save"} /\ c.step = 4 => saved'[c.run][3] = "known")
         /\ ResultFits(c) =>
              (c.at = "save" /\ c.step = 7 => c.run \in DOMAIN packages' /\ c.result = packages'[c.run])
  <1>1. \A q \in Runs : saved[q] \in Seq(Choices)
    BY DEF StoreFits
  <1>2. \A q \in Runs : Len(saved[q]) \in Nat
    BY <1>1, LenProperties
  <1>3. ASSUME CallFits(c), c.at \in {"check", "begin", "engine", "save"}
        PROVE  /\ c.run \in Runs /\ stage'[c.run] # "none"
               /\ c.step \in 1..9 /\ c.input \in Inputs(c.step)
               /\ Len(saved'[c.run]) >= c.step - 1
    <2>1. /\ c.run \in Runs /\ stage[c.run] # "none" /\ c.step \in 1..9 /\ c.input \in Inputs(c.step)
          /\ Len(saved[c.run]) >= c.step - 1
      BY <1>3 DEF CallFits
    <2>2. PICK r, k : r = c.run /\ k = c.step
      OBVIOUS
    <2>5. r \in Runs /\ stage[r] # "none" /\ Len(saved[r]) >= k - 1
      BY <2>1, <2>2
    <2>3. /\ r \in Runs /\ stage'[r] # "none" /\ Len(saved[r]) >= k - 1
          /\ Len(saved'[r]) >= Len(saved[r]) /\ Len(saved'[r]) \in Nat /\ Len(saved[r]) \in Nat
      BY <1>2, <2>5
    <2>6. k \in Nat
      BY <2>1, <2>2
    <2>7. PICK m, n : m = Len(saved[r]) /\ n = Len(saved'[r])
      OBVIOUS
    <2>8. m \in Nat /\ n \in Nat /\ m >= k - 1 /\ n >= m
      BY <2>3, <2>7
    <2>9. n >= k - 1
      BY <2>6, <2>8
    <2>4. Len(saved'[r]) >= k - 1
      BY <2>7, <2>9
    <2>. QED
      BY <2>1, <2>2, <2>3, <2>4
  <1>4. ASSUME CallFits(c), RequestFits(c), c.at \in {"begin", "engine", "save"}, c.step = 4
        PROVE  saved'[c.run][3] = "known"
    <2>1. c.run \in Runs /\ Len(saved[c.run]) >= 3
      BY <1>4 DEF CallFits
    <2>2. saved[c.run][3] = "known"
      BY <1>4 DEF RequestFits
    <2>3. PICK r : r = c.run
      OBVIOUS
    <2>4. r \in Runs /\ Len(saved[r]) \in Nat /\ Len(saved[r]) >= 3
      BY <1>2, <2>1, <2>3
    <2>5. 3 \in 1..Len(saved[r])
      BY <2>4
    <2>. QED
      BY <2>2, <2>3, <2>4, <2>5
  <1>5. ASSUME ResultFits(c), c.at = "save", c.step = 7
        PROVE  c.run \in DOMAIN packages' /\ c.result = packages'[c.run]
    BY <1>5 DEF ResultFits
  <1>. QED
    BY <1>3, <1>4, <1>5

\* What only ever grows: runs that were created, steps saved, packages.
Grows ==
  /\ \A q \in Runs : stage[q] # "none" => stage'[q] # "none"
  /\ \A q \in Runs : /\ Len(saved'[q]) >= Len(saved[q]) /\ Len(saved'[q]) \in Nat
                     /\ \A n \in 1..Len(saved[q]) : saved'[q][n] = saved[q][n]
  /\ \A r \in DOMAIN packages : r \in DOMAIN packages' /\ packages'[r] = packages[r]

\* What the contract permits of a step.
Permitted == Contract!Next \/ UNCHANGED <<stage, saved>>

LEMMA SavedLengths ==
  ASSUME StoreFits, NEW q \in Runs
  PROVE  Len(saved[q]) \in Nat /\ DOMAIN saved[q] = 1..Len(saved[q])
  <1>1. saved[q] \in Seq(Choices)
    BY DEF StoreFits
  <1>. QED
    BY <1>1, LenProperties

LEMMA QuietGrows ==
  ASSUME StoreFits, UNCHANGED storeVars
  PROVE  StoreFits' /\ Grows /\ Permitted
  <1>1. \A q \in Runs : Len(saved[q]) \in Nat
    BY SavedLengths
  <1>. QED
    BY <1>1 DEF storeVars, StoreFits, Grows, Permitted

LEMMA BaselineGrows ==
  ASSUME StoreFits, ReplacePackage \/ ChangePolicy
  PROVE  StoreFits' /\ Grows /\ Permitted
  <1>1. \A q \in Runs : Len(saved[q]) \in Nat
    BY SavedLengths
  <1>2. /\ StoreFits' /\ stage' = stage /\ saved' = saved
        /\ \A r \in DOMAIN packages : r \in DOMAIN packages' /\ packages'[r] = packages[r]
    BY BaselineFits
  <1>. QED
    BY <1>1, <1>2 DEF Grows, Permitted

LEMMA CreateGrows ==
  ASSUME StoreFits, NEW r \in Runs, CreateRun(r)
  PROVE  StoreFits' /\ Grows /\ Permitted
  <1>1. \A q \in Runs : Len(saved[q]) \in Nat
    BY SavedLengths
  <1>2. /\ StoreFits' /\ Contract!Next
        /\ packages' = packages /\ saved' = saved /\ under' = under
        /\ \A q \in Runs : stage[q] # "none" => stage'[q] # "none"
    BY CreatedFits
  <1>. QED
    BY <1>1, <1>2 DEF Grows, Permitted

LEMMA GiveUpGrows ==
  ASSUME StoreFits, NEW r \in Runs, stage[r] # "none", NEW end \in {"STALE", "FAILED"},
         stage' = [stage EXCEPT ![r] = end],
         packages' = packages, policy' = policy, saved' = saved, under' = under
  PROVE  StoreFits' /\ Grows /\ Permitted
  <1>1. \A q \in Runs : Len(saved[q]) \in Nat
    BY SavedLengths
  <1>2. /\ StoreFits' /\ Contract!Next
        /\ \A q \in Runs : stage[q] # "none" => stage'[q] # "none"
    BY GivenUpFits
  <1>. QED
    BY <1>1, <1>2 DEF Grows, Permitted

LEMMA SaveGrows ==
  ASSUME StoreFits, NEW r \in Runs, NEW k \in 1..9, NEW i \in Inputs(k), NEW result \in Nat,
         stage[r] = Working[k], Len(saved[r]) = k - 1,
         k = 4 => saved[r][3] = "known",
         k = 7 => r \in DOMAIN packages /\ result = packages[r],
         SaveStep(r, k, i, result), packages' = packages, policy' = policy
  PROVE  /\ StoreFits' /\ Grows /\ Permitted
         /\ saved'[r] = Append(saved[r], i) /\ \A q \in Runs \ {r} : saved'[q] = saved[q]
  <1>1. \A q \in Runs : Len(saved[q]) \in Nat /\ saved[q] \in Seq(Choices)
    BY SavedLengths DEF StoreFits
  <1>2. /\ StoreFits' /\ Contract!Next
        /\ \A q \in Runs : stage[q] # "none" => stage'[q] # "none"
        /\ saved'[r] = Append(saved[r], i) /\ \A q \in Runs \ {r} : saved'[q] = saved[q]
    BY SavedFits
  <1>3. i \in Choices
    BY StepsAre DEF Choices
  <1>4. PICK sv : sv = Append(saved[r], i)
    OBVIOUS
  <1>5. saved[r] \in Seq(Choices) /\ i \in Choices /\ sv = Append(saved[r], i)
    BY <1>1, <1>3, <1>4
  <1>6. Len(sv) = Len(saved[r]) + 1 /\ \A n \in 1..Len(saved[r]) : sv[n] = saved[r][n]
    BY <1>5, SeqGrows
  <1>7. ASSUME NEW q \in Runs
        PROVE  /\ Len(saved'[q]) >= Len(saved[q]) /\ Len(saved'[q]) \in Nat
               /\ \A n \in 1..Len(saved[q]) : saved'[q][n] = saved[q][n]
    <2>1. CASE q = r
      BY <1>1, <1>2, <1>4, <1>6, <2>1
    <2>2. CASE q # r
      BY <1>1, <1>2, <2>2
    <2>. QED
      BY <2>1, <2>2
  <1>. QED
    BY <1>2, <1>7 DEF Grows, Permitted

LEMMA CallKeeps ==
  ASSUME StoreFits, Grows, NEW c
  PROVE  /\ CallFits(c) => CallFits(c)'
         /\ CallFits(c) /\ RequestFits(c) => RequestFits(c)'
         /\ ResultFits(c) => ResultFits(c)'
  <1>1. /\ \A q \in Runs : stage[q] # "none" => stage'[q] # "none"
        /\ \A q \in Runs : /\ Len(saved'[q]) >= Len(saved[q]) /\ Len(saved'[q]) \in Nat
                           /\ \A n \in 1..Len(saved[q]) : saved'[q][n] = saved[q][n]
        /\ \A r \in DOMAIN packages : r \in DOMAIN packages' /\ packages'[r] = packages[r]
    BY DEF Grows
  <1>2. /\ CallFits(c) => (c.at \in {"check", "begin", "engine", "save"} =>
                                /\ c.run \in Runs /\ stage'[c.run] # "none"
                                /\ c.step \in 1..9 /\ c.input \in Inputs(c.step)
                                /\ Len(saved'[c.run]) >= c.step - 1)
        /\ CallFits(c) /\ RequestFits(c) =>
              (c.at \in {"begin", "engine", "save"} /\ c.step = 4 => saved'[c.run][3] = "known")
        /\ ResultFits(c) =>
              (c.at = "save" /\ c.step = 7 => c.run \in DOMAIN packages' /\ c.result = packages'[c.run])
    BY <1>1, CallStillFits
  <1>3. CallFits(c) => CallFits(c)'
    BY <1>2 DEF CallFits
  <1>4. CallFits(c) /\ RequestFits(c) => RequestFits(c)'
    BY <1>2 DEF RequestFits
  <1>5. ResultFits(c) => ResultFits(c)'
    BY <1>2 DEF ResultFits
  <1>. QED
    BY <1>3, <1>4, <1>5

\* Moving a call to another place.
LEMMA CallAt ==
  ASSUME NEW c \in CallRecord, NEW at \in {"idle", "check", "begin", "engine", "save", "fail"},
         NEW x, x = [c EXCEPT !.at = at]
  PROVE  /\ x \in CallRecord /\ x.at = at /\ x.run = c.run /\ x.step = c.step
         /\ x.input = c.input /\ x.end = c.end /\ x.result = c.result
  BY DEF CallRecord

LEMMA IdleFits == Idle \in CallRecord /\ Idle.at = "idle"
  BY DEF Idle, CallRecord

LEMMA StartedCall ==
  ASSUME NEW r \in Runs, NEW k \in 1..9, NEW i \in Inputs(k), NEW x,
         x = [at |-> "check", run |-> r, step |-> k, input |-> i, end |-> "none", result |-> 0]
  PROVE  x \in CallRecord
  <1>1. i \in Choices /\ r \in Nat
    BY StepsAre, BoundsAssumption DEF Choices, Runs
  <1>. QED
    BY <1>1 DEF CallRecord

(***************************************************************************)
(* The legacy family                                                       *)
(***************************************************************************)
\* A call that began has an operation, and one that fails says how.
OperationFits(c) ==
  /\ c.at \in {"engine", "save", "fail"} => KeyOf(c) \in DOMAIN operations
  /\ c.at = "fail" => c.run \in Runs /\ stage[c.run] # "none" /\ c.end \in {"STALE", "FAILED"}

\* The operations that are completed are of what was saved.
OperationsFit ==
  /\ \A o \in DOMAIN operations : \E r \in Runs : \E k, i : o = <<r, k, i>>
  /\ \A r \in Runs : \A k, i :
       (<<r, k, i>> \in DOMAIN operations /\ operations[<<r, k, i>>] = "COMPLETED")
         <=> (k \in DOMAIN saved[r] /\ saved[r][k] = i)

CallSound(c) == CallFits(c) /\ RequestFits(c) /\ ResultFits(c) /\ OperationFits(c)

LegacyInv ==
  /\ StoreFits
  /\ call \in [Windows -> CallRecord]
  /\ \A w \in Windows : CallSound(call[w])
  /\ OperationsFit

LEMMA OperationKeeps ==
  ASSUME Grows, \A o \in DOMAIN operations : o \in DOMAIN operations', NEW c
  PROVE  OperationFits(c) => OperationFits(c)'
  <1> SUFFICES ASSUME OperationFits(c) PROVE OperationFits(c)'
    OBVIOUS
  <1>1. c.at \in {"engine", "save", "fail"} => KeyOf(c) \in DOMAIN operations'
    BY DEF OperationFits
  <1>2. c.at = "fail" => c.run \in Runs /\ stage'[c.run] # "none" /\ c.end \in {"STALE", "FAILED"}
    BY DEF OperationFits, Grows
  <1>. QED
    BY <1>1, <1>2 DEF OperationFits, KeyOf

\* A step of one window: the calls of the others keep fitting.
LEMMA WindowMoves ==
  ASSUME LegacyInv, StoreFits', Grows, \A o \in DOMAIN operations : o \in DOMAIN operations',
         OperationsFit', NEW w \in Windows, NEW x \in CallRecord, CallSound(x)',
         call' = [call EXCEPT ![w] = x]
  PROVE  LegacyInv'
  <1>1. call \in [Windows -> CallRecord] /\ StoreFits
    BY DEF LegacyInv
  <1>2. call' \in [Windows -> CallRecord] /\ call'[w] = x /\ \A v \in Windows \ {w} : call'[v] = call[v]
    BY <1>1
  <1>3. ASSUME NEW v \in Windows PROVE CallSound(call[v])'
    <2>1. CASE v = w
      BY <1>2, <2>1
    <2>2. CASE v # w
      <3>1. PICK c : c = call[v]
        OBVIOUS
      <3>2. CallFits(c) /\ RequestFits(c) /\ ResultFits(c) /\ OperationFits(c)
        BY <3>1 DEF LegacyInv, CallSound
      <3>3. CallFits(c)' /\ RequestFits(c)' /\ ResultFits(c)'
        BY <1>1, <3>2, CallKeeps
      <3>4. OperationFits(c)'
        BY <3>2, OperationKeeps
      <3>5. CallSound(c)'
        BY <3>3, <3>4 DEF CallSound
      <3>. QED
        BY <1>2, <2>2, <3>1, <3>5
    <2>. QED
      BY <2>1, <2>2
  <1>. QED
    BY <1>2, <1>3 DEF LegacyInv

LEMMA NobodyMoves ==
  ASSUME LegacyInv, StoreFits', Grows, operations' = operations,
         saved' = saved, call' = call
  PROVE  LegacyInv'
  <1>1. call \in [Windows -> CallRecord] /\ StoreFits
    BY DEF LegacyInv
  <1>2. OperationsFit'
    BY DEF LegacyInv, OperationsFit
  <1>3. ASSUME NEW v \in Windows PROVE CallSound(call[v])'
    <2>1. PICK c : c = call[v]
      OBVIOUS
    <2>2. CallFits(c) /\ RequestFits(c) /\ ResultFits(c) /\ OperationFits(c)
      BY <2>1 DEF LegacyInv, CallSound
    <2>3. CallFits(c)' /\ RequestFits(c)' /\ ResultFits(c)'
      BY <1>1, <2>2, CallKeeps
    <2>4. OperationFits(c)'
      BY <2>2, OperationKeeps
    <2>5. CallSound(c)'
      BY <2>3, <2>4 DEF CallSound
    <2>. QED
      BY <2>1, <2>5
  <1>. QED
    BY <1>1, <1>2, <1>3 DEF LegacyInv

\* An idle or refused call.
LEMMA NotWorking ==
  ASSUME NEW x, x.at = "idle"
  PROVE  CallSound(x)'
  BY DEF CallSound, CallFits, RequestFits, ResultFits, OperationFits

LEMMA OperationsSet ==
  ASSUME NEW o, NEW status, SetOperation(o, status)
  PROVE  /\ \A x : x \in DOMAIN operations' <=> x \in DOMAIN operations \/ x = o
         /\ operations'[o] = status
         /\ \A x \in DOMAIN operations : x # o => operations'[x] = operations[x]
  BY DEF SetOperation

LEMMA KeysEqual ==
  ASSUME NEW r, NEW k, NEW i, NEW q, NEW j, NEW h
  PROVE  <<r, k, i>> = <<q, j, h>> <=> r = q /\ k = j /\ i = h
  OBVIOUS

\* An operation of something that is not saved is begun or failed.
LEMMA OpenedFits ==
  ASSUME OperationsFit, saved' = saved, NEW r \in Runs, NEW k, NEW i,
         ~(k \in DOMAIN saved[r] /\ saved[r][k] = i),
         NEW status, status # "COMPLETED", NEW o, o = <<r, k, i>>, SetOperation(o, status)
  PROVE  OperationsFit' /\ \A x \in DOMAIN operations : x \in DOMAIN operations'
  <1>1. /\ \A x : x \in DOMAIN operations' <=> x \in DOMAIN operations \/ x = o
        /\ operations'[o] = status
        /\ \A x \in DOMAIN operations : x # o => operations'[x] = operations[x]
    BY OperationsSet
  <1>2. \A x \in DOMAIN operations' : \E q \in Runs : \E j, h : x = <<q, j, h>>
    BY <1>1 DEF OperationsFit
  <1>3. ASSUME NEW q \in Runs, NEW j, NEW h
        PROVE  (<<q, j, h>> \in DOMAIN operations' /\ operations'[<<q, j, h>>] = "COMPLETED")
                 <=> (j \in DOMAIN saved[q] /\ saved[q][j] = h)
    <2>1. CASE <<q, j, h>> = o
      <3>1. q = r /\ j = k /\ h = i
        BY <2>1, KeysEqual
      <3>. QED
        BY <1>1, <2>1, <3>1
    <2>2. CASE <<q, j, h>> # o
      BY <1>1, <2>2 DEF OperationsFit
    <2>. QED
      BY <2>1, <2>2
  <1>. QED
    BY <1>1, <1>2, <1>3 DEF OperationsFit

\* The operation of a step is completed with it.
LEMMA CompletedFits ==
  ASSUME StoreFits, OperationsFit, NEW r \in Runs, NEW i \in Choices, NEW k, k = Len(saved[r]) + 1,
         saved'[r] = Append(saved[r], i), \A q \in Runs \ {r} : saved'[q] = saved[q],
         NEW o, o = <<r, k, i>>, SetOperation(o, "COMPLETED")
  PROVE  OperationsFit' /\ \A x \in DOMAIN operations : x \in DOMAIN operations'
  <1>1. /\ \A x : x \in DOMAIN operations' <=> x \in DOMAIN operations \/ x = o
        /\ operations'[o] = "COMPLETED"
        /\ \A x \in DOMAIN operations : x # o => operations'[x] = operations[x]
    BY OperationsSet
  <1>2. \A x \in DOMAIN operations' : \E q \in Runs : \E j, h : x = <<q, j, h>>
    BY <1>1 DEF OperationsFit
  <1>3. PICK sv : sv = Append(saved[r], i)
    OBVIOUS
  <1>4. saved[r] \in Seq(Choices) /\ i \in Choices /\ sv = Append(saved[r], i)
    BY <1>3 DEF StoreFits
  <1>5. /\ sv[Len(saved[r]) + 1] = i /\ \A n \in 1..Len(saved[r]) : sv[n] = saved[r][n]
        /\ DOMAIN saved[r] = 1..Len(saved[r]) /\ DOMAIN sv = 1..(Len(saved[r]) + 1)
        /\ Len(saved[r]) \in Nat
    BY <1>4, SeqGrows
  <1>6. /\ sv[k] = i /\ \A n \in DOMAIN saved[r] : sv[n] = saved[r][n]
        /\ k \notin DOMAIN saved[r] /\ \A n : n \in DOMAIN sv <=> n \in DOMAIN saved[r] \/ n = k
    BY <1>5
  <1>7. ASSUME NEW q \in Runs, NEW j, NEW h
        PROVE  (<<q, j, h>> \in DOMAIN operations' /\ operations'[<<q, j, h>>] = "COMPLETED")
                 <=> (j \in DOMAIN saved'[q] /\ saved'[q][j] = h)
    <2>1. CASE <<q, j, h>> = o
      <3>1. q = r /\ j = k /\ h = i
        BY <2>1, KeysEqual
      <3>. QED
        BY <1>1, <1>3, <1>6, <2>1, <3>1
    <2>2. CASE <<q, j, h>> # o
      <3>1. (<<q, j, h>> \in DOMAIN operations' /\ operations'[<<q, j, h>>] = "COMPLETED")
              <=> (j \in DOMAIN saved[q] /\ saved[q][j] = h)
        BY <1>1, <2>2 DEF OperationsFit
      <3>2. CASE q # r
        BY <3>1, <3>2
      <3>3. CASE q = r
        <4>1. ~(j = k /\ h = i)
          BY <2>2, <3>3
        <4>2. saved'[q] = sv /\ saved[q] = saved[r]
          BY <1>3, <3>3
        <4>3. (j \in DOMAIN sv /\ sv[j] = h) <=> (j \in DOMAIN saved[r] /\ saved[r][j] = h)
          BY <1>6, <4>1
        <4>. QED
          BY <3>1, <4>2, <4>3
      <3>. QED
        BY <3>2, <3>3
    <2>. QED
      BY <2>1, <2>2
  <1>. QED
    BY <1>1, <1>2, <1>7 DEF OperationsFit

LEMMA LegacyInitInv == LegacyInit => LegacyInv
  <1> SUFFICES ASSUME LegacyInit PROVE LegacyInv
    OBVIOUS
  <1>1. /\ StoreInit /\ StoreFits /\ operations = [o \in {} |-> "none"]
        /\ call = [w \in Windows |-> Idle] /\ saved = [r \in Runs |-> << >>]
    BY StoreInitFits DEF LegacyInit, StoreInit
  <1>2. OperationsFit
    <2>1. DOMAIN operations = {} /\ \A r \in Runs : DOMAIN saved[r] = {}
      BY <1>1
    <2>. QED
      BY <2>1 DEF OperationsFit
  <1>3. \A w \in Windows : CallSound(call[w])
    BY <1>1, IdleFits DEF CallSound, CallFits, RequestFits, ResultFits, OperationFits
  <1>. QED
    BY <1>1, <1>2, <1>3, IdleFits DEF LegacyInv

LEMMA LegacyCreate ==
  ASSUME LegacyInv, NEW r \in Runs, Create(r)
  PROVE  LegacyInv' /\ Permitted
  <1>1. CreateRun(r) /\ call' = call /\ operations' = operations /\ StoreFits
    BY DEF Create, LegacyInv
  <1>2. StoreFits' /\ Grows /\ Permitted /\ saved' = saved
    BY <1>1, CreateGrows DEF CreateRun
  <1>. QED
    BY <1>1, <1>2, NobodyMoves

LEMMA LegacyBaseline ==
  ASSUME LegacyInv, ReplacePackage \/ ChangePolicy, UNCHANGED <<call, crashes, operations>>
  PROVE  LegacyInv' /\ Permitted
  <1>1. StoreFits /\ call' = call /\ operations' = operations
    BY DEF LegacyInv
  <1>2. StoreFits' /\ Grows /\ Permitted
    BY <1>1, BaselineGrows
  <1>3. saved' = saved
    BY DEF ReplacePackage, ChangePolicy
  <1>. QED
    BY <1>1, <1>2, <1>3, NobodyMoves

LEMMA LegacyCrash ==
  ASSUME LegacyInv, NEW w \in Windows, Crash(w), operations' = operations
  PROVE  LegacyInv' /\ Permitted
  <1>1. UNCHANGED storeVars /\ StoreFits /\ call' = [call EXCEPT ![w] = Idle]
    BY DEF LegacyInv, Crash, Returns
  <1>2. StoreFits' /\ Grows /\ Permitted /\ saved' = saved
    BY <1>1, QuietGrows DEF storeVars
  <1>3. OperationsFit' /\ \A o \in DOMAIN operations : o \in DOMAIN operations'
    BY <1>2 DEF LegacyInv, OperationsFit
  <1>4. CallSound(Idle)' /\ Idle \in CallRecord
    BY IdleFits, NotWorking
  <1>. QED
    BY <1>1, <1>2, <1>3, <1>4, WindowMoves

\* The state in which a call may begin: the run is in its stage.
LEMMA StartFits ==
  ASSUME StoreFits, NEW r \in Runs, NEW k \in 1..9, stage[r] = Working[k]
  PROVE  Len(saved[r]) = k - 1 /\ stage[r] # "none"
  <1>1. RunFits(Working[k], saved[r])
    BY DEF StoreFits
  <1>2. Working[k] \notin Ends /\ Working[k] # "none"
    BY WorkingGoesOn
  <1>3. \A j \in 1..9 : Working[j] = Working[k] => j = k
    BY WorkingDiffer
  <1>. QED
    BY <1>1, <1>2, <1>3 DEF RunFits, Ends

LEMMA LegacyPress ==
  ASSUME LegacyInv, NEW w \in Windows, NEW r \in Runs, Press(w, r), operations' = operations
  PROVE  LegacyInv' /\ Permitted
  <1>1. PICK k \in DOMAIN Steps : \E i \in Inputs(k) : Start(w, r, k, i)
    BY DEF Press
  <1>2. PICK i \in Inputs(k) : Start(w, r, k, i)
    BY <1>1
  <1>3. k \in 1..9
    BY StepsAre
  <1>4. PICK x : x = [Idle EXCEPT !.at = "check", !.run = r, !.step = k, !.input = i]
    OBVIOUS
  <1>5. /\ stage[r] = Working[k] /\ UNCHANGED storeVars /\ StoreFits
        /\ call' = [call EXCEPT ![w] = x]
    BY <1>2, <1>4 DEF Start, LegacyInv
  <1>6. x \in CallRecord /\ x.at = "check" /\ x.run = r /\ x.step = k /\ x.input = i
    <2>1. x = [at |-> "check", run |-> r, step |-> k, input |-> i, end |-> "none", result |-> 0]
      BY <1>4 DEF Idle
    <2>2. x \in CallRecord
      BY <1>3, <2>1, StartedCall
    <2>. QED
      BY <2>1, <2>2
  <1>7. StoreFits' /\ Grows /\ Permitted /\ saved' = saved /\ stage' = stage
    BY <1>5, QuietGrows DEF storeVars
  <1>8. Len(saved[r]) = k - 1 /\ stage[r] # "none"
    BY <1>3, <1>5, StartFits
  <1>9. CallSound(x)'
    <2>1. CallFits(x)'
      BY <1>3, <1>6, <1>7, <1>8 DEF CallFits
    <2>2. RequestFits(x)' /\ ResultFits(x)' /\ OperationFits(x)'
      BY <1>6 DEF RequestFits, ResultFits, OperationFits
    <2>. QED
      BY <2>1, <2>2 DEF CallSound
  <1>10. OperationsFit' /\ \A o \in DOMAIN operations : o \in DOMAIN operations'
    BY <1>7 DEF LegacyInv, OperationsFit
  <1>. QED
    BY <1>5, <1>6, <1>7, <1>9, <1>10, WindowMoves

\* Where a call that is under way stands.
LEMMA CallFacts ==
  ASSUME LegacyInv, NEW w \in Windows, NEW c, c = call[w]
  PROVE  /\ c \in CallRecord /\ CallFits(c) /\ RequestFits(c) /\ ResultFits(c) /\ OperationFits(c)
         /\ StoreFits /\ OperationsFit
  BY DEF LegacyInv, CallSound

\* Steps that change neither the runs nor the operations.
LEMMA OnlyMoves ==
  ASSUME LegacyInv, UNCHANGED storeVars, operations' = operations,
         NEW w \in Windows, NEW x \in CallRecord, CallSound(x),
         call' = [call EXCEPT ![w] = x]
  PROVE  LegacyInv' /\ Permitted
  <1>1. StoreFits
    BY DEF LegacyInv
  <1>2. StoreFits' /\ Grows /\ Permitted /\ saved' = saved
    BY <1>1, QuietGrows DEF storeVars
  <1>3. OperationsFit' /\ \A o \in DOMAIN operations : o \in DOMAIN operations'
    BY <1>2 DEF LegacyInv, OperationsFit
  <1>4. CallFits(x) /\ RequestFits(x) /\ ResultFits(x) /\ OperationFits(x)
    BY DEF CallSound
  <1>5. CallFits(x)' /\ RequestFits(x)' /\ ResultFits(x)'
    BY <1>1, <1>2, <1>4, CallKeeps
  <1>6. OperationFits(x)'
    BY <1>2, <1>3, <1>4, OperationKeeps
  <1>7. CallSound(x)'
    BY <1>5, <1>6 DEF CallSound
  <1>. QED
    BY <1>2, <1>3, <1>7, WindowMoves

LEMMA IdleSound ==
  ASSUME NEW x, x.at = "idle"
  PROVE  CallSound(x)
  BY DEF CallSound, CallFits, RequestFits, ResultFits, OperationFits

LEMMA JustReturns ==
  ASSUME LegacyInv, NEW w \in Windows, Returns(w), UNCHANGED storeVars, operations' = operations
  PROVE  LegacyInv' /\ Permitted
  <1>1. call' = [call EXCEPT ![w] = Idle] /\ Idle \in CallRecord /\ CallSound(Idle)
    BY IdleFits, IdleSound DEF Returns
  <1>. QED
    BY <1>1, OnlyMoves

\* Steps of a window that change an operation of something not saved.
LEMMA MovesAndOpens ==
  ASSUME LegacyInv, UNCHANGED storeVars, NEW w \in Windows, NEW x \in CallRecord,
         call' = [call EXCEPT ![w] = x],
         CallFits(x), RequestFits(x), ResultFits(x),
         NEW r \in Runs, NEW k, NEW i, ~(k \in DOMAIN saved[r] /\ saved[r][k] = i),
         NEW status, status # "COMPLETED", NEW o, o = <<r, k, i>>, SetOperation(o, status),
         KeyOf(x) = o, x.at = "fail" => stage[x.run] # "none" /\ x.end \in {"STALE", "FAILED"},
         x.run = r
  PROVE  LegacyInv' /\ Permitted
  <1>1. StoreFits /\ OperationsFit
    BY DEF LegacyInv
  <1>2. StoreFits' /\ Grows /\ Permitted /\ saved' = saved /\ stage' = stage
    BY <1>1, QuietGrows DEF storeVars
  <1>3. OperationsFit' /\ \A y \in DOMAIN operations : y \in DOMAIN operations'
    BY <1>1, <1>2, OpenedFits
  <1>4. CallFits(x)' /\ RequestFits(x)' /\ ResultFits(x)'
    BY <1>1, <1>2, CallKeeps
  <1>5. o \in DOMAIN operations'
    BY OperationsSet
  <1>6. OperationFits(x)'
    BY <1>2, <1>5 DEF OperationFits, KeyOf
  <1>7. CallSound(x)'
    BY <1>4, <1>6 DEF CallSound
  <1>. QED
    BY <1>2, <1>3, <1>7, WindowMoves

LEMMA LegacyCheck ==
  ASSUME LegacyInv, NEW w \in Windows, Check(w)
  PROVE  LegacyInv' /\ Permitted
  <1>1. PICK c : c = call[w]
    OBVIOUS
  <1>2. /\ c \in CallRecord /\ CallFits(c) /\ StoreFits /\ OperationsFit
        /\ c.at = "check" /\ UNCHANGED storeVars
    BY <1>1, CallFacts DEF Check
  <1>3. /\ c.run \in Runs /\ stage[c.run] # "none"
        /\ c.step \in 1..9 /\ c.input \in Inputs(c.step)
        /\ Len(saved[c.run]) >= c.step - 1
    BY <1>2 DEF CallFits
  <1>4. CASE Returns(w) /\ operations' = operations
    BY <1>2, <1>4, JustReturns
  <1>5. CASE Requestable(c.run, c.step) /\ Goes(w, "begin") /\ operations' = operations
    <2>1. PICK x : x = [c EXCEPT !.at = "begin"]
      OBVIOUS
    <2>2. call' = [call EXCEPT ![w] = x]
      BY <1>1, <1>5, <2>1 DEF Goes
    <2>3. /\ x \in CallRecord /\ x.at = "begin" /\ x.run = c.run /\ x.step = c.step
          /\ x.input = c.input
      BY <1>2, <2>1, CallAt
    <2>4. CallFits(x)
      BY <1>3, <2>3 DEF CallFits
    <2>5. x.step = 4 => saved[x.run][3] = "known"
      <3>1. Steps[4] = "request" /\ 4 - 1 = 3
        BY StepNames
      <3>. QED
        BY <1>5, <2>3, <3>1 DEF Requestable
    <2>6. CallSound(x)
      BY <2>3, <2>4, <2>5 DEF CallSound, RequestFits, ResultFits, OperationFits
    <2>. QED
      BY <1>2, <1>5, <2>2, <2>3, <2>6, OnlyMoves
  <1>6. CASE call' = [call EXCEPT ![w] = Stale(c)] /\ SetOperation(KeyOf(Stale(c)), "PENDING")
    <2>1. PICK x : x = Stale(c)
      OBVIOUS
    <2>2. /\ x \in CallRecord /\ x.at = "fail" /\ x.run = c.run /\ x.step = 0 /\ x.end = "STALE"
      <3>1. PICK input : input = IF c.run # Len(packages) THEN "baseline" ELSE "policy"
        OBVIOUS
      <3>2. x = [c EXCEPT !.at = "fail", !.step = 0, !.end = "STALE", !.input = input]
        BY <2>1, <3>1 DEF Stale, Marker
      <3>3. input \in Choices \cup {"none", "baseline", "policy"}
        BY <3>1
      <3>4. c \in CallRecord
        BY <1>2
      <3>5. x = [at |-> "fail", run |-> c.run, step |-> 0, input |-> input, end |-> "STALE",
                 result |-> c.result]
        BY <3>2, <3>4 DEF CallRecord
      <3>6. c.run \in Nat /\ c.result \in Nat
        BY <3>4 DEF CallRecord
      <3>7. x \in CallRecord
        BY <3>3, <3>5, <3>6 DEF CallRecord
      <3>. QED
        BY <3>5, <3>7
    <2>3. CallFits(x) /\ RequestFits(x) /\ ResultFits(x)
      BY <2>2 DEF CallFits, RequestFits, ResultFits
    <2>4. PICK r, k, i, o : r = c.run /\ k = 0 /\ i = x.input /\ o = <<r, k, i>>
      OBVIOUS
    <2>5. KeyOf(x) = o
      BY <2>2, <2>4 DEF KeyOf
    <2>6. r \in Runs /\ stage[x.run] # "none" /\ x.run = r
      BY <1>3, <2>2, <2>4
    <2>7. ~(k \in DOMAIN saved[r] /\ saved[r][k] = i)
      <3>1. DOMAIN saved[r] = 1..Len(saved[r]) /\ Len(saved[r]) \in Nat
        BY <1>2, <2>6, SavedLengths
      <3>. QED
        BY <2>4, <3>1
    <2>8. call' = [call EXCEPT ![w] = x] /\ SetOperation(o, "PENDING")
      BY <1>6, <2>1, <2>5
    <2>9. x.at = "fail" => stage[x.run] # "none" /\ x.end \in {"STALE", "FAILED"}
      BY <2>2, <2>6
    <2>10. "PENDING" # "COMPLETED"
      OBVIOUS
    <2>. QED
      BY <1>2, <2>2, <2>3, <2>4, <2>5, <2>6, <2>7, <2>8, <2>9, <2>10, MovesAndOpens
  <1>. QED
    BY <1>1, <1>4, <1>5, <1>6 DEF Check

\* What is not completed is not saved.
LEMMA NotRecorded ==
  ASSUME OperationsFit, NEW r \in Runs, NEW k, NEW i, NEW o, o = <<r, k, i>>,
         StatusOf(o) # "COMPLETED"
  PROVE  ~(k \in DOMAIN saved[r] /\ saved[r][k] = i)
  BY DEF OperationsFit, StatusOf

LEMMA LegacyBegin ==
  ASSUME LegacyInv, NEW w \in Windows, Begin(w)
  PROVE  LegacyInv' /\ Permitted
  <1>1. PICK c : c = call[w]
    OBVIOUS
  <1>2. /\ c \in CallRecord /\ CallFits(c) /\ RequestFits(c) /\ StoreFits /\ OperationsFit
        /\ c.at = "begin" /\ UNCHANGED storeVars
    BY <1>1, CallFacts DEF Begin
  <1>3. /\ c.run \in Runs /\ stage[c.run] # "none"
        /\ c.step \in 1..9 /\ c.input \in Inputs(c.step)
        /\ Len(saved[c.run]) >= c.step - 1
    BY <1>2 DEF CallFits
  <1>4. CASE Returns(w) /\ operations' = operations
    BY <1>2, <1>4, JustReturns
  <1>5. ASSUME NEW place \in {"engine", "save"}, Goes(w, place), SetOperation(KeyOf(c), "PENDING"),
               Workable(StatusOf(KeyOf(c))), place = "save" => c.step # 7
        PROVE  LegacyInv' /\ Permitted
    <2>1. PICK x : x = [c EXCEPT !.at = place]
      OBVIOUS
    <2>2. call' = [call EXCEPT ![w] = x]
      BY <1>1, <1>5, <2>1 DEF Goes
    <2>3. /\ x \in CallRecord /\ x.at = place /\ x.run = c.run /\ x.step = c.step
          /\ x.input = c.input
      BY <1>2, <2>1, CallAt
    <2>4. CallFits(x)
      BY <1>3, <2>3 DEF CallFits
    <2>5. RequestFits(x)
      BY <1>2, <2>3 DEF RequestFits
    <2>6. ResultFits(x)
      BY <1>5, <2>3 DEF ResultFits
    <2>7. PICK r, k, i, o : r = c.run /\ k = c.step /\ i = c.input /\ o = <<r, k, i>>
      OBVIOUS
    <2>8. KeyOf(x) = o /\ KeyOf(c) = o /\ r \in Runs /\ x.run = r
      BY <1>3, <2>3, <2>7 DEF KeyOf
    <2>9. StatusOf(o) # "COMPLETED"
      BY <1>5, <2>8 DEF Workable
    <2>10. ~(k \in DOMAIN saved[r] /\ saved[r][k] = i)
      BY <1>2, <2>7, <2>8, <2>9, NotRecorded
    <2>11. SetOperation(o, "PENDING") /\ "PENDING" # "COMPLETED"
      BY <1>5, <2>8
    <2>12. x.at = "fail" => stage[x.run] # "none" /\ x.end \in {"STALE", "FAILED"}
      BY <2>3
    <2>. QED
      BY <1>2, <2>2, <2>3, <2>4, <2>5, <2>6, <2>7, <2>8, <2>10, <2>11, <2>12, MovesAndOpens
  <1>6. \/ Returns(w) /\ operations' = operations
        \/ /\ Goes(w, IF Steps[c.step] \in Engines THEN "engine" ELSE "save")
           /\ SetOperation(KeyOf(c), "PENDING") /\ Workable(StatusOf(KeyOf(c)))
    BY <1>1 DEF Begin
  <1>7. c.step = 7 => Steps[c.step] \in Engines
    BY StepNames DEF Engines
  <1>8. CASE Steps[c.step] \in Engines
    BY <1>4, <1>5, <1>6, <1>8
  <1>9. CASE Steps[c.step] \notin Engines
    BY <1>4, <1>5, <1>6, <1>7, <1>9
  <1>. QED
    BY <1>8, <1>9

LEMMA LegacyEngine ==
  ASSUME LegacyInv, NEW w \in Windows, Engine(w)
  PROVE  LegacyInv' /\ Permitted
  <1>1. PICK c : c = call[w]
    OBVIOUS
  <1>2. /\ c \in CallRecord /\ CallFits(c) /\ RequestFits(c) /\ OperationFits(c)
        /\ StoreFits /\ c.at = "engine" /\ UNCHANGED storeVars /\ operations' = operations
    BY <1>1, CallFacts DEF Engine
  <1>3. /\ c.run \in Runs /\ stage[c.run] # "none"
        /\ c.step \in 1..9 /\ c.input \in Inputs(c.step)
        /\ Len(saved[c.run]) >= c.step - 1 /\ KeyOf(c) \in DOMAIN operations
    BY <1>2 DEF CallFits, OperationFits
  <1>4. ASSUME NEW end \in {"STALE", "FAILED"}, FailsAs(w, end)
        PROVE  LegacyInv' /\ Permitted
    <2>1. PICK x : x = [c EXCEPT !.at = "fail", !.end = end]
      OBVIOUS
    <2>2. call' = [call EXCEPT ![w] = x]
      BY <1>1, <1>4, <2>1 DEF FailsAs
    <2>3. /\ x \in CallRecord /\ x.at = "fail" /\ x.run = c.run /\ x.step = c.step
          /\ x.input = c.input /\ x.end = end
      BY <1>2, <2>1 DEF CallRecord
    <2>4. KeyOf(x) = KeyOf(c)
      BY <2>3 DEF KeyOf
    <2>5. CallSound(x)
      BY <1>3, <2>3, <2>4 DEF CallSound, CallFits, RequestFits, ResultFits, OperationFits
    <2>. QED
      BY <1>2, <2>2, <2>3, <2>5, OnlyMoves
  <1>5. ASSUME call' = [call EXCEPT ![w] = [@ EXCEPT !.at = "save", !.result = policy]],
               Steps[c.step] = "assess" => Accepts(c.run) /\ Agrees(c.run)
        PROVE  LegacyInv' /\ Permitted
    <2>1. PICK x : x = [c EXCEPT !.at = "save", !.result = policy]
      OBVIOUS
    <2>2. call' = [call EXCEPT ![w] = x]
      BY <1>1, <1>5, <2>1
    <2>3. /\ x \in CallRecord /\ x.at = "save" /\ x.run = c.run /\ x.step = c.step
          /\ x.input = c.input /\ x.result = policy
      BY <1>2, <2>1 DEF CallRecord, StoreFits
    <2>4. KeyOf(x) = KeyOf(c)
      BY <2>3 DEF KeyOf
    <2>5. CallFits(x) /\ RequestFits(x) /\ OperationFits(x)
      BY <1>2, <1>3, <2>3, <2>4 DEF CallFits, RequestFits, OperationFits
    <2>6. ResultFits(x)
      <3>1. SUFFICES ASSUME x.step = 7 PROVE x.run \in DOMAIN packages /\ x.result = packages[x.run]
        BY DEF ResultFits
      <3>2. Steps[c.step] = "assess"
        BY <2>3, <3>1, StepNames
      <3>3. c.run = Len(packages) /\ policy = packages[c.run]
        BY <1>5, <3>2 DEF Accepts, Agrees
      <3>4. packages \in Seq(Nat)
        BY <1>2 DEF StoreFits
      <3>5. DOMAIN packages = 1..Len(packages)
        BY <3>4, LenProperties
      <3>6. c.run \in 1..MaxPackages
        BY <1>3 DEF Runs
      <3>. QED
        BY <2>3, <3>3, <3>5, <3>6, BoundsAssumption
    <2>7. CallSound(x)
      BY <2>5, <2>6 DEF CallSound
    <2>. QED
      BY <1>2, <2>2, <2>3, <2>7, OnlyMoves
  <1>. QED
    BY <1>1, <1>4, <1>5 DEF Engine

LEMMA LegacySave ==
  ASSUME LegacyInv, NEW w \in Windows, Save(w)
  PROVE  LegacyInv' /\ Permitted
  <1>1. PICK c : c = call[w]
    OBVIOUS
  <1>2. /\ c \in CallRecord /\ CallFits(c) /\ RequestFits(c) /\ ResultFits(c) /\ OperationFits(c)
        /\ StoreFits /\ OperationsFit /\ c.at = "save" /\ packages' = packages /\ policy' = policy
    BY <1>1, CallFacts DEF Save
  <1>3. /\ c.run \in Runs /\ stage[c.run] # "none"
        /\ c.step \in 1..9 /\ c.input \in Inputs(c.step)
        /\ Len(saved[c.run]) >= c.step - 1 /\ KeyOf(c) \in DOMAIN operations
    BY <1>2 DEF CallFits, OperationFits
  <1>4. CASE ~(CanSave(c.run, c.step, c.input) /\ operations[KeyOf(c)] = "PENDING")
    <2>1. PICK x : x = [c EXCEPT !.at = "fail", !.end = "FAILED"]
      OBVIOUS
    <2>2. /\ call' = [call EXCEPT ![w] = x] /\ UNCHANGED storeVars /\ operations' = operations
      BY <1>1, <1>2, <1>4, <2>1 DEF Save, FailsAs, storeVars
    <2>3. /\ x \in CallRecord /\ x.at = "fail" /\ x.run = c.run /\ x.step = c.step
          /\ x.input = c.input /\ x.end = "FAILED"
      BY <1>2, <2>1 DEF CallRecord
    <2>4. KeyOf(x) = KeyOf(c)
      BY <2>3 DEF KeyOf
    <2>5. CallSound(x)
      BY <1>3, <2>3, <2>4 DEF CallSound, CallFits, RequestFits, ResultFits, OperationFits
    <2>. QED
      BY <2>2, <2>3, <2>5, OnlyMoves
  <1>5. CASE CanSave(c.run, c.step, c.input) /\ operations[KeyOf(c)] = "PENDING"
    <2>1. PICK r, k, i, result : r = c.run /\ k = c.step /\ i = c.input /\ result = c.result
      OBVIOUS
    <2>2. /\ SaveStep(r, k, i, result) /\ SetOperation(KeyOf(c), "COMPLETED")
          /\ call' = [call EXCEPT ![w] = Idle]
      BY <1>1, <1>5, <2>1 DEF Save, Returns
    <2>3. r \in Runs /\ k \in 1..9 /\ i \in Inputs(k) /\ result \in Nat
      BY <1>2, <1>3, <2>1 DEF CallRecord
    <2>4. stage[r] = Working[k] /\ Len(saved[r]) = k - 1
      BY <1>5, <2>1 DEF CanSave
    <2>5. k = 4 => saved[r][3] = "known"
      BY <1>2, <2>1 DEF RequestFits
    <2>6. k = 7 => r \in DOMAIN packages /\ result = packages[r]
      BY <1>2, <2>1 DEF ResultFits
    <2>7. /\ StoreFits' /\ Grows /\ Permitted
          /\ saved'[r] = Append(saved[r], i) /\ \A q \in Runs \ {r} : saved'[q] = saved[q]
      BY <1>2, <2>2, <2>3, <2>4, <2>5, <2>6, SaveGrows
    <2>8. PICK o : o = <<r, k, i>>
      OBVIOUS
    <2>9. SetOperation(o, "COMPLETED")
      BY <2>1, <2>2, <2>8 DEF KeyOf
    <2>10. i \in Choices /\ k = Len(saved[r]) + 1
      <3>1. Len(saved[r]) \in Nat
        BY <1>2, <2>3, SavedLengths
      <3>. QED
        BY <2>3, <2>4, <3>1, StepsAre DEF Choices
    <2>11. OperationsFit' /\ \A x \in DOMAIN operations : x \in DOMAIN operations'
      BY <1>2, <2>3, <2>7, <2>8, <2>9, <2>10, CompletedFits
    <2>12. Idle \in CallRecord /\ CallSound(Idle)'
      BY IdleFits, NotWorking
    <2>. QED
      BY <2>2, <2>7, <2>11, <2>12, WindowMoves
  <1>. QED
    BY <1>4, <1>5

LEMMA LegacyFail ==
  ASSUME LegacyInv, NEW w \in Windows, Fail(w)
  PROVE  LegacyInv' /\ Permitted
  <1>1. PICK c : c = call[w]
    OBVIOUS
  <1>2. /\ c \in CallRecord /\ OperationFits(c) /\ StoreFits /\ OperationsFit /\ c.at = "fail"
        /\ call' = [call EXCEPT ![w] = Idle]
        /\ packages' = packages /\ policy' = policy /\ saved' = saved /\ under' = under
    BY <1>1, CallFacts DEF Fail, Returns
  <1>3. /\ KeyOf(c) \in DOMAIN operations /\ c.run \in Runs /\ stage[c.run] # "none"
        /\ c.end \in {"STALE", "FAILED"}
    BY <1>2 DEF OperationFits
  <1>4. CASE ~Fails(operations[KeyOf(c)])
    <2>1. UNCHANGED storeVars /\ operations' = operations /\ Returns(w)
      BY <1>1, <1>2, <1>4 DEF Fail, storeVars
    <2>. QED
      BY <2>1, JustReturns
  <1>5. CASE Fails(operations[KeyOf(c)])
    <2>1. PICK r, k, i, o, end : r = c.run /\ k = c.step /\ i = c.input /\ o = <<r, k, i>> /\ end = c.end
      OBVIOUS
    <2>2. KeyOf(c) = o /\ r \in Runs /\ end \in {"STALE", "FAILED"} /\ stage[r] # "none"
      BY <1>3, <2>1 DEF KeyOf
    <2>3. SetOperation(o, "FAILED") /\ stage' = [stage EXCEPT ![r] = end]
      BY <1>1, <1>5, <2>1, <2>2 DEF Fail
    <2>4. StoreFits' /\ Grows /\ Permitted
      BY <1>2, <2>2, <2>3, GiveUpGrows
    <2>5. StatusOf(o) # "COMPLETED"
      BY <1>3, <1>5, <2>2 DEF Fails, StatusOf
    <2>6. ~(k \in DOMAIN saved[r] /\ saved[r][k] = i)
      BY <1>2, <2>1, <2>2, <2>5, NotRecorded
    <2>7. "FAILED" # "COMPLETED"
      OBVIOUS
    <2>8. OperationsFit' /\ \A x \in DOMAIN operations : x \in DOMAIN operations'
      BY <1>2, <2>1, <2>2, <2>3, <2>6, <2>7, OpenedFits
    <2>9. Idle \in CallRecord /\ CallSound(Idle)'
      BY IdleFits, NotWorking
    <2>. QED
      BY <1>2, <2>4, <2>8, <2>9, WindowMoves
  <1>. QED
    BY <1>4, <1>5

LEMMA LegacyNextInv ==
  LegacyInv /\ [LegacyNext]_legacyVars => LegacyInv' /\ Permitted
  <1> SUFFICES ASSUME LegacyInv, [LegacyNext]_legacyVars PROVE LegacyInv' /\ Permitted
    OBVIOUS
  <1>1. CASE \E r \in Runs : Create(r)
    BY <1>1, LegacyCreate
  <1>2. CASE \E w \in Windows, r \in Runs : Press(w, r) /\ UNCHANGED operations
    BY <1>2, LegacyPress
  <1>3. CASE \E w \in Windows : Works(w)
    BY <1>3, LegacyCheck, LegacyBegin, LegacyEngine, LegacySave, LegacyFail DEF Works
  <1>4. CASE \E w \in Windows : Crash(w) /\ UNCHANGED operations
    BY <1>4, LegacyCrash
  <1>5. CASE (ReplacePackage \/ ChangePolicy) /\ UNCHANGED <<call, crashes, operations>>
    BY <1>5, LegacyBaseline
  <1>6. CASE UNCHANGED legacyVars
    <2>1. UNCHANGED storeVars /\ call' = call /\ operations' = operations /\ StoreFits
      BY <1>6 DEF legacyVars, LegacyInv
    <2>2. StoreFits' /\ Grows /\ Permitted /\ saved' = saved
      BY <2>1, QuietGrows DEF storeVars
    <2>. QED
      BY <2>1, <2>2, NobodyMoves
  <1>. QED
    BY <1>1, <1>2, <1>3, <1>4, <1>5, <1>6 DEF LegacyNext

\* The legacy service keeps the abstract contract, although every call reads,
\* decides and writes apart: steps in order and once, with what the reviewer found
\* known, and nothing after an end (M2ReassessmentService over
\* SQLiteReassessmentRepository).
THEOREM LegacyKeepsContract == LegacySpec => FollowsContract
<1>1. LegacyInit => Contract!Init
  BY ContractSteps DEF LegacyInit, StoreInit
<1>2. Permitted <=> [Contract!Next]_<<stage, saved>>
  BY DEF Permitted
<1>3. Contract!Spec <=> Contract!Init /\ [][Contract!Next]_<<stage, saved>>
  BY DEF Contract!Spec, Contract!vars
<1> QED
  BY <1>1, <1>2, <1>3, LegacyInitInv, LegacyNextInv, PTL DEF LegacySpec, FollowsContract

\* Every run can be listed, and an operation is completed exactly when its
\* result was saved (list_runs_for_baseline, _complete_operation_in_tx).
THEOREM RecordsAgreeHolds == LegacySpec => []RecordsAgree
<1>1. LegacyInv => RecordsAgree
  <2> SUFFICES ASSUME LegacyInv PROVE RecordsAgree
    OBVIOUS
  <2>1. StoreFits /\ OperationsFit
    BY DEF LegacyInv
  <2>2. ASSUME NEW r \in Runs PROVE Listed(r)
    <3>1. RunFits(stage[r], saved[r])
      BY <2>1 DEF StoreFits
    <3>. QED
      BY <3>1, StepsAre DEF RunFits, Listed
  <2>3. ASSUME NEW o \in DOMAIN operations
        PROVE  operations[o] = "COMPLETED" <=> o[2] \in DOMAIN saved[o[1]] /\ saved[o[1]][o[2]] = o[3]
    <3>1. PICK r \in Runs : \E k, i : o = <<r, k, i>>
      BY <2>1 DEF OperationsFit
    <3>2. PICK k, i : o = <<r, k, i>>
      BY <3>1
    <3>3. o[1] = r /\ o[2] = k /\ o[3] = i
      BY <3>2
    <3>4. operations[o] = "COMPLETED" <=> (k \in DOMAIN saved[r] /\ saved[r][k] = i)
      BY <2>1, <3>2 DEF OperationsFit
    <3>. QED
      BY <3>3, <3>4
  <2>. QED
    BY <2>2, <2>3 DEF RecordsAgree
<1> QED
  BY <1>1, LegacyInitInv, LegacyNextInv, PTL DEF LegacySpec

\* A successor of the legacy family is assessed under the policy of the baseline
\* it is compared with, whatever policies are loaded meanwhile (assess_successor).
THEOREM LegacyAssessedUnderPin == LegacySpec => []AssessedUnderPin
<1>1. LegacyInv => AssessedUnderPin
  BY DEF LegacyInv, StoreFits, AssessedUnderPin
<1> QED
  BY <1>1, LegacyInitInv, LegacyNextInv, PTL DEF LegacySpec

(***************************************************************************)
(* The four-gate family                                                    *)
(***************************************************************************)
\* What passed its check was made under the policy of the baseline.
PinFits(c) ==
  c.at \in {"engine", "save"} => c.run \in DOMAIN packages /\ c.result = packages[c.run]

FourGateSound(c) == CallFits(c) /\ RequestFits(c) /\ PinFits(c)

FourGateInv ==
  /\ StoreFits
  /\ call \in [Windows -> CallRecord]
  /\ \A w \in Windows : FourGateSound(call[w])

LEMMA PinKeeps ==
  ASSUME Grows, NEW c
  PROVE  PinFits(c) => PinFits(c)'
  <1> SUFFICES ASSUME PinFits(c), c.at \in {"engine", "save"}
               PROVE  c.run \in DOMAIN packages' /\ c.result = packages'[c.run]
    BY DEF PinFits
  <1>1. c.run \in DOMAIN packages /\ c.result = packages[c.run]
    BY DEF PinFits
  <1>. QED
    BY <1>1 DEF Grows

LEMMA FourGateKeeps ==
  ASSUME StoreFits, Grows, NEW c, FourGateSound(c)
  PROVE  FourGateSound(c)'
  <1>1. CallFits(c) /\ RequestFits(c) /\ PinFits(c)
    BY DEF FourGateSound
  <1>2. CallFits(c)' /\ RequestFits(c)'
    BY <1>1, CallKeeps
  <1>3. PinFits(c)'
    BY <1>1, PinKeeps
  <1>. QED
    BY <1>2, <1>3 DEF FourGateSound

LEMMA FourGateMoves ==
  ASSUME FourGateInv, StoreFits', Grows, NEW w \in Windows, NEW x \in CallRecord,
         FourGateSound(x)', call' = [call EXCEPT ![w] = x]
  PROVE  FourGateInv'
  <1>1. call \in [Windows -> CallRecord] /\ StoreFits
    BY DEF FourGateInv
  <1>2. call' \in [Windows -> CallRecord] /\ call'[w] = x /\ \A v \in Windows \ {w} : call'[v] = call[v]
    BY <1>1
  <1>3. ASSUME NEW v \in Windows PROVE FourGateSound(call[v])'
    <2>1. CASE v = w
      BY <1>2, <2>1
    <2>2. CASE v # w
      <3>1. PICK c : c = call[v]
        OBVIOUS
      <3>2. FourGateSound(c)
        BY <3>1 DEF FourGateInv
      <3>3. FourGateSound(c)'
        BY <1>1, <3>2, FourGateKeeps
      <3>. QED
        BY <1>2, <2>2, <3>1, <3>3
    <2>. QED
      BY <2>1, <2>2
  <1>. QED
    BY <1>2, <1>3 DEF FourGateInv

LEMMA FourGateRests ==
  ASSUME FourGateInv, StoreFits', Grows, call' = call
  PROVE  FourGateInv'
  <1>1. call \in [Windows -> CallRecord] /\ StoreFits
    BY DEF FourGateInv
  <1>2. ASSUME NEW v \in Windows PROVE FourGateSound(call[v])'
    <2>1. PICK c : c = call[v]
      OBVIOUS
    <2>2. FourGateSound(c)
      BY <2>1 DEF FourGateInv
    <2>3. FourGateSound(c)'
      BY <1>1, <2>2, FourGateKeeps
    <2>. QED
      BY <2>1, <2>3
  <1>. QED
    BY <1>1, <1>2 DEF FourGateInv

LEMMA FourGateOnlyMoves ==
  ASSUME FourGateInv, UNCHANGED storeVars, NEW w \in Windows, NEW x \in CallRecord,
         FourGateSound(x), call' = [call EXCEPT ![w] = x]
  PROVE  FourGateInv' /\ Permitted
  <1>1. StoreFits
    BY DEF FourGateInv
  <1>2. StoreFits' /\ Grows /\ Permitted
    BY <1>1, QuietGrows
  <1>3. FourGateSound(x)'
    BY <1>1, <1>2, FourGateKeeps
  <1>. QED
    BY <1>2, <1>3, FourGateMoves

LEMMA IdleIsSound == Idle \in CallRecord /\ FourGateSound(Idle) /\ FourGateSound(Idle)'
  BY IdleFits DEF FourGateSound, CallFits, RequestFits, PinFits

LEMMA FourGateReturns ==
  ASSUME FourGateInv, NEW w \in Windows, Returns(w), UNCHANGED storeVars
  PROVE  FourGateInv' /\ Permitted
  <1>1. call' = [call EXCEPT ![w] = Idle] /\ Idle \in CallRecord /\ FourGateSound(Idle)
    BY IdleIsSound DEF Returns
  <1>. QED
    BY <1>1, FourGateOnlyMoves

LEMMA FourGateInitInv == StoreInit => FourGateInv
  <1> SUFFICES ASSUME StoreInit PROVE FourGateInv
    OBVIOUS
  <1>1. StoreFits /\ call = [w \in Windows |-> Idle]
    BY StoreInitFits DEF StoreInit
  <1>. QED
    BY <1>1, IdleIsSound DEF FourGateInv

LEMMA FourGatePress ==
  ASSUME FourGateInv, NEW w \in Windows, NEW r \in Runs, Press(w, r)
  PROVE  FourGateInv' /\ Permitted
  <1>1. PICK k \in DOMAIN Steps : \E i \in Inputs(k) : Start(w, r, k, i)
    BY DEF Press
  <1>2. PICK i \in Inputs(k) : Start(w, r, k, i)
    BY <1>1
  <1>3. k \in 1..9
    BY StepsAre
  <1>4. PICK x : x = [Idle EXCEPT !.at = "check", !.run = r, !.step = k, !.input = i]
    OBVIOUS
  <1>5. /\ stage[r] = Working[k] /\ UNCHANGED storeVars /\ StoreFits
        /\ call' = [call EXCEPT ![w] = x]
    BY <1>2, <1>4 DEF Start, FourGateInv
  <1>6. x \in CallRecord /\ x.at = "check" /\ x.run = r /\ x.step = k /\ x.input = i
    <2>1. x = [at |-> "check", run |-> r, step |-> k, input |-> i, end |-> "none", result |-> 0]
      BY <1>4 DEF Idle
    <2>2. x \in CallRecord
      BY <1>3, <2>1, StartedCall
    <2>. QED
      BY <2>1, <2>2
  <1>7. Len(saved[r]) = k - 1 /\ stage[r] # "none"
    BY <1>3, <1>5, StartFits
  <1>8. Len(saved[r]) \in Nat
    BY <1>5, SavedLengths
  <1>9. CallFits(x)
    BY <1>3, <1>6, <1>7, <1>8 DEF CallFits
  <1>10. FourGateSound(x)
    BY <1>6, <1>9 DEF FourGateSound, RequestFits, PinFits
  <1>. QED
    BY <1>5, <1>6, <1>10, FourGateOnlyMoves

LEMMA FourGateFacts ==
  ASSUME FourGateInv, NEW w \in Windows, NEW c, c = call[w]
  PROVE  c \in CallRecord /\ CallFits(c) /\ RequestFits(c) /\ PinFits(c) /\ StoreFits
  BY DEF FourGateInv, FourGateSound

LEMMA FourGateCheck ==
  ASSUME FourGateInv, NEW w \in Windows, CheckFourGate(w)
  PROVE  FourGateInv' /\ Permitted
  <1>1. PICK c : c = call[w]
    OBVIOUS
  <1>2. /\ c \in CallRecord /\ CallFits(c) /\ StoreFits /\ c.at = "check" /\ UNCHANGED storeVars
    BY <1>1, FourGateFacts DEF CheckFourGate
  <1>3. /\ c.run \in Runs /\ stage[c.run] # "none"
        /\ c.step \in 1..9 /\ c.input \in Inputs(c.step)
        /\ Len(saved[c.run]) >= c.step - 1
    BY <1>2 DEF CallFits
  <1>4. CASE ~(Fresh(c.run) /\ Requestable(c.run, c.step))
    <2>1. Returns(w)
      BY <1>1, <1>4 DEF CheckFourGate
    <2>. QED
      BY <1>2, <2>1, FourGateReturns
  <1>5. CASE Fresh(c.run) /\ Requestable(c.run, c.step)
    <2>1. PICK at : at = IF Steps[c.step] \in Engines THEN "engine" ELSE "save"
      OBVIOUS
    <2>2. at \in {"engine", "save"}
      BY <2>1
    <2>3. PICK x : x = [c EXCEPT !.at = at, !.result = policy]
      OBVIOUS
    <2>4. call' = [call EXCEPT ![w] = x]
      BY <1>1, <1>5, <2>1, <2>3 DEF CheckFourGate
    <2>5. x = [at |-> at, run |-> c.run, step |-> c.step, input |-> c.input, end |-> c.end,
               result |-> policy]
      BY <1>2, <2>3 DEF CallRecord
    <2>6. x \in CallRecord
      BY <1>2, <2>2, <2>5 DEF CallRecord, StoreFits
    <2>7. CallFits(x)
      BY <1>3, <2>5 DEF CallFits
    <2>8. RequestFits(x)
      <3>1. Steps[4] = "request" /\ 4 - 1 = 3
        BY StepNames
      <3>2. c.step = 4 => saved[c.run][3] = "known"
        BY <1>5, <3>1 DEF Requestable
      <3>. QED
        BY <2>5, <3>2 DEF RequestFits
    <2>9. PinFits(x)
      <3>1. c.run = Len(packages) /\ packages[c.run] = policy
        BY <1>5 DEF Fresh
      <3>2. packages \in Seq(Nat)
        BY <1>2 DEF StoreFits
      <3>3. DOMAIN packages = 1..Len(packages)
        BY <3>2, LenProperties
      <3>4. c.run \in 1..MaxPackages
        BY <1>3 DEF Runs
      <3>5. c.run \in DOMAIN packages
        BY <3>1, <3>3, <3>4, BoundsAssumption
      <3>. QED
        BY <2>5, <3>1, <3>5 DEF PinFits
    <2>10. FourGateSound(x)
      BY <2>7, <2>8, <2>9 DEF FourGateSound
    <2>. QED
      BY <1>2, <2>4, <2>6, <2>10, FourGateOnlyMoves
  <1>. QED
    BY <1>4, <1>5

LEMMA FourGateEngine ==
  ASSUME FourGateInv, NEW w \in Windows, EngineFourGate(w)
  PROVE  FourGateInv' /\ Permitted
  <1>1. PICK c : c = call[w]
    OBVIOUS
  <1>2. /\ c \in CallRecord /\ CallFits(c) /\ RequestFits(c) /\ PinFits(c) /\ StoreFits
        /\ c.at = "engine" /\ UNCHANGED storeVars
    BY <1>1, FourGateFacts DEF EngineFourGate
  <1>3. CASE Returns(w)
    BY <1>2, <1>3, FourGateReturns
  <1>4. CASE Goes(w, "save")
    <2>1. PICK x : x = [c EXCEPT !.at = "save"]
      OBVIOUS
    <2>2. call' = [call EXCEPT ![w] = x]
      BY <1>1, <1>4, <2>1 DEF Goes
    <2>3. /\ x \in CallRecord /\ x.at = "save" /\ x.run = c.run /\ x.step = c.step
          /\ x.input = c.input /\ x.end = c.end /\ x.result = c.result
      BY <1>2, <2>1, CallAt
    <2>4. FourGateSound(x)
      BY <1>2, <2>3 DEF FourGateSound, CallFits, RequestFits, PinFits
    <2>. QED
      BY <1>2, <2>2, <2>3, <2>4, FourGateOnlyMoves
  <1>. QED
    BY <1>3, <1>4 DEF EngineFourGate

\* A save that finds the run in its stage finds the steps before it and no other.
LEMMA FourGateSave ==
  ASSUME FourGateInv, NEW w \in Windows, SaveFourGate(w)
  PROVE  FourGateInv' /\ Permitted
  <1>1. PICK c : c = call[w]
    OBVIOUS
  <1>2. /\ c \in CallRecord /\ CallFits(c) /\ RequestFits(c) /\ PinFits(c) /\ StoreFits
        /\ c.at = "save" /\ packages' = packages /\ policy' = policy /\ Returns(w)
    BY <1>1, FourGateFacts DEF SaveFourGate
  <1>3. /\ c.run \in Runs /\ c.step \in 1..9 /\ c.input \in Inputs(c.step)
    BY <1>2 DEF CallFits
  <1>4. CASE ~SavesFourGate(c.run, c.step, c.input)
    <2>1. UNCHANGED storeVars
      BY <1>1, <1>2, <1>4 DEF SaveFourGate, storeVars
    <2>. QED
      BY <1>2, <2>1, FourGateReturns
  <1>5. CASE SavesFourGate(c.run, c.step, c.input)
    <2>1. PICK r, k, i, result : r = c.run /\ k = c.step /\ i = c.input /\ result = c.result
      OBVIOUS
    <2>2. SaveStep(r, k, i, result) /\ call' = [call EXCEPT ![w] = Idle]
      BY <1>1, <1>2, <1>5, <2>1 DEF SaveFourGate, Returns
    <2>3. r \in Runs /\ k \in 1..9 /\ i \in Inputs(k) /\ result \in Nat
      BY <1>2, <1>3, <2>1 DEF CallRecord
    <2>4. stage[r] = Working[k]
      BY <1>5, <2>1 DEF SavesFourGate
    <2>5. Len(saved[r]) = k - 1
      BY <1>2, <2>3, <2>4, StartFits
    <2>6. k = 4 => saved[r][3] = "known"
      BY <1>2, <2>1 DEF RequestFits
    <2>7. k = 7 => r \in DOMAIN packages /\ result = packages[r]
      BY <1>2, <2>1 DEF PinFits
    <2>8. StoreFits' /\ Grows /\ Permitted
      BY <1>2, <2>2, <2>3, <2>4, <2>5, <2>6, <2>7, SaveGrows
    <2>. QED
      BY <2>2, <2>8, IdleIsSound, FourGateMoves
  <1>. QED
    BY <1>4, <1>5

LEMMA FourGateNextInv ==
  FourGateInv /\ [FourGateNext]_fourGateVars => FourGateInv' /\ Permitted
  <1> SUFFICES ASSUME FourGateInv, [FourGateNext]_fourGateVars PROVE FourGateInv' /\ Permitted
    OBVIOUS
  <1>1. ASSUME NEW r \in Runs, CreateFourGate(r) PROVE FourGateInv' /\ Permitted
    <2>1. CreateRun(r) /\ call' = call /\ StoreFits
      BY <1>1 DEF CreateFourGate, FourGateInv
    <2>2. StoreFits' /\ Grows /\ Permitted
      BY <2>1, CreateGrows
    <2>. QED
      BY <2>1, <2>2, FourGateRests
  <1>2. CASE \E w \in Windows, r \in Runs : Press(w, r)
    BY <1>2, FourGatePress
  <1>3. ASSUME NEW w \in Windows, CheckFourGate(w) \/ EngineFourGate(w) \/ SaveFourGate(w)
        PROVE  FourGateInv' /\ Permitted
    BY <1>3, FourGateCheck, FourGateEngine, FourGateSave
  <1>4. ASSUME NEW w \in Windows, Crash(w) PROVE FourGateInv' /\ Permitted
    BY <1>4, FourGateReturns DEF Crash
  <1>5. CASE (ReplacePackage \/ ChangePolicy) /\ UNCHANGED <<call, crashes>>
    <2>1. StoreFits
      BY DEF FourGateInv
    <2>2. StoreFits' /\ Grows /\ Permitted
      BY <1>5, <2>1, BaselineGrows
    <2>. QED
      BY <1>5, <2>2, FourGateRests
  <1>6. CASE UNCHANGED fourGateVars
    <2>1. UNCHANGED storeVars /\ call' = call /\ StoreFits
      BY <1>6 DEF fourGateVars, FourGateInv
    <2>2. StoreFits' /\ Grows /\ Permitted
      BY <2>1, QuietGrows
    <2>. QED
      BY <2>1, <2>2, FourGateRests
  <1>. QED
    BY <1>1, <1>2, <1>3, <1>4, <1>5, <1>6 DEF FourGateNext

\* The four-gate service keeps the same contract with fewer checks when it saves:
\* the stage alone finds the steps before it (_require_stage).
THEOREM FourGateKeepsContract == FourGateSpec => FollowsContract
<1>1. StoreInit => Contract!Init
  BY ContractSteps DEF StoreInit
<1>2. Permitted <=> [Contract!Next]_<<stage, saved>>
  BY DEF Permitted
<1>3. Contract!Spec <=> Contract!Init /\ [][Contract!Next]_<<stage, saved>>
  BY DEF Contract!Spec, Contract!vars
<1> QED
  BY <1>1, <1>2, <1>3, FourGateInitInv, FourGateNextInv, PTL DEF FourGateSpec, FollowsContract

\* A four-gate successor is assessed under the policy of its baseline: what was
\* read when the call was checked (_assert_fresh) is what the engine runs under.
THEOREM FourGateAssessedUnderPin == FourGateSpec => []AssessedUnderPin
<1>1. FourGateInv => AssessedUnderPin
  BY DEF FourGateInv, StoreFits, AssessedUnderPin
<1> QED
  BY <1>1, FourGateInitInv, FourGateNextInv, PTL DEF FourGateSpec

(***************************************************************************)
(* Answers: what was submitted and judged, and the calls that are under    *)
(* way.                                                                    *)
(***************************************************************************)
Submission == [package : Nat, answer : Answers]
Judgement == [submission : Nat, decision : Decisions, proof : Nat]
Doing == [at : {"idle", "submit", "answering", "review", "proving", "judging"}, on : Nat,
          what : Answers \cup Decisions \cup {"none"}, proof : Nat]

Submitting(c) == c.at \in {"submit", "answering"}
Judging(c) == c.at \in {"review", "proving", "judging"}
Begun(c) == c.at \in {"answering", "proving", "judging"}
OpKey(c) == <<IF c.at = "answering" THEN "submit" ELSE "review", c.on, c.what>>

\* Whatever is stored has a completed operation of its own.
DataFits ==
  /\ submissions \in Seq(Submission) /\ reviews \in Seq(Judgement)
  /\ \A i \in 1..Len(submissions) :
       StatusAt(<<"submit", submissions[i].package, submissions[i].answer>>) = "COMPLETED"
  /\ \A i \in 1..Len(reviews) :
       /\ reviews[i].submission \in 1..Len(submissions)
       /\ reviews[i].proof = submissions[reviews[i].submission].package
       /\ StatusAt(<<"review", reviews[i].submission, reviews[i].decision>>) = "COMPLETED"
  /\ \A i, j \in 1..Len(submissions) : i # j => submissions[i] # submissions[j]
  /\ \A i, j \in 1..Len(reviews) : i # j => reviews[i] # reviews[j]

ActiveFits ==
  /\ package \in Nat \ {0}
  /\ active \in [package : Nat, submission : Nat, review : Nat]
  /\ active.submission \in 0..Len(submissions) /\ active.review \in 0..Len(reviews)

DoingFits(c) ==
  /\ Judging(c) => c.on \in 1..Len(submissions) /\ c.what \in Decisions
  /\ Submitting(c) => c.what \in Answers
  /\ c.at = "judging" => c.proof = submissions[c.on].package
  /\ Begun(c) => StatusAt(OpKey(c)) = "STARTED"

\* Two calls that have begun have begun different operations.
CallsFit ==
  /\ doing \in [Sessions -> Doing]
  /\ \A s \in Sessions : DoingFits(doing[s])
  /\ \A s, t \in Sessions :
       s # t /\ Begun(doing[s]) /\ Begun(doing[t]) => OpKey(doing[s]) # OpKey(doing[t])

\* A call that nothing overlapped finds the workspace as it read it.
Undisturbed(c) ==
  /\ Submitting(c) => c.on = active.package /\ c.on # 0 /\ active.submission = 0 /\ active.review = 0
  /\ Judging(c) => c.on = active.submission /\ c.on # 0 /\ active.review = 0 /\ active.package # 0

OrderFits ==
  ~overlapped =>
    /\ Readable
    /\ \A s, t \in Sessions : doing[s].at # "idle" /\ doing[t].at # "idle" => s = t
    /\ \A s \in Sessions : Undisturbed(doing[s])

AnswerInv == DataFits /\ ActiveFits /\ CallsFit /\ OrderFits

LEMMA NoCallFits ==
  /\ NoCall \in Doing /\ NoCall.at = "idle" /\ ~Begun(NoCall)
  /\ DoingFits(NoCall) /\ DoingFits(NoCall)' /\ Undisturbed(NoCall) /\ Undisturbed(NoCall)'
  <1>1. NoCall \in Doing /\ NoCall.at = "idle"
    BY DEF NoCall, Doing
  <1>2. ~Begun(NoCall) /\ ~Judging(NoCall) /\ ~Submitting(NoCall)
    BY <1>1 DEF Begun, Judging, Submitting
  <1>. QED
    BY <1>1, <1>2 DEF DoingFits, Undisturbed

LEMMA SameDoing ==
  ASSUME NEW x \in Doing, NEW y \in Doing,
         x.at = y.at, x.on = y.on, x.what = y.what, x.proof = y.proof
  PROVE  x = y
  BY DEF Doing

LEMMA MarksOne ==
  ASSUME NEW key, NEW status, Marks(key, status)
  PROVE  \A k : StatusAt(k)' = IF k = key THEN status ELSE StatusAt(k)
  BY DEF Marks, StatusAt

LEMMA Lengths ==
  ASSUME DataFits
  PROVE  /\ Len(submissions) \in Nat /\ DOMAIN submissions = 1..Len(submissions)
         /\ Len(reviews) \in Nat /\ DOMAIN reviews = 1..Len(reviews)
  BY LenProperties DEF DataFits

LEMMA OfDoing ==
  ASSUME CallsFit, NEW s \in Sessions, NEW c, c = doing[s]
  PROVE  c \in Doing /\ DoingFits(c)
  BY DEF CallsFit

\* One session's call moves; what the others have begun is left to them.
LEMMA SessionMoves ==
  ASSUME CallsFit, NEW s \in Sessions, NEW x \in Doing, doing' = [doing EXCEPT ![s] = x],
         DoingFits(x)',
         \A i \in 1..Len(submissions) :
           i \in 1..Len(submissions') /\ submissions'[i] = submissions[i],
         \A t \in Sessions \ {s} : Begun(doing[t]) =>
           /\ \A k : k = OpKey(doing[t]) => StatusAt(k)' = "STARTED"
           /\ Begun(x) => OpKey(doing[t]) # OpKey(x)
  PROVE  CallsFit'
  <1>1. /\ doing' \in [Sessions -> Doing] /\ doing'[s] = x
        /\ \A t \in Sessions \ {s} : doing'[t] = doing[t]
    BY DEF CallsFit
  <1>2. ASSUME NEW t \in Sessions \ {s}, NEW c, c = doing[t]
        PROVE  DoingFits(c)'
    <2>1. DoingFits(c)
      BY <1>2, OfDoing
    <2>2. /\ Judging(c) => c.on \in 1..Len(submissions') /\ c.what \in Decisions
          /\ Submitting(c) => c.what \in Answers
      BY <2>1 DEF DoingFits
    <2>3. c.at = "judging" => c.proof = submissions'[c.on].package
      <3>1. c.at = "judging" => Judging(c)
        BY DEF Judging
      <3>. QED
        BY <2>1, <3>1 DEF DoingFits
    <2>4. Begun(c) => StatusAt(OpKey(c))' = "STARTED"
      <3>1. PICK k : k = OpKey(c)
        OBVIOUS
      <3>2. Begun(c) => StatusAt(k)' = "STARTED"
        BY <1>2, <3>1
      <3>. QED
        BY <3>1, <3>2 DEF OpKey
    <2>. QED
      BY <2>2, <2>3, <2>4 DEF DoingFits, Judging, Submitting, Begun, OpKey
  <1>3. ASSUME NEW t \in Sessions PROVE DoingFits(doing[t])'
    <2>1. CASE t = s
      BY <1>1, <2>1
    <2>2. CASE t # s
      <3>1. PICK c : c = doing[t]
        OBVIOUS
      <3>2. DoingFits(c)'
        BY <1>2, <2>2, <3>1
      <3>. QED
        BY <1>1, <2>2, <3>1, <3>2
    <2>. QED
      BY <2>1, <2>2
  <1>4. ASSUME NEW t \in Sessions, NEW u \in Sessions, t # u, Begun(doing'[t]), Begun(doing'[u])
        PROVE  OpKey(doing'[t]) # OpKey(doing'[u])
    <2>1. CASE t = s
      <3>1. doing'[t] = x /\ doing'[u] = doing[u] /\ u \in Sessions \ {s}
        BY <1>1, <1>4, <2>1
      <3>. QED
        BY <1>4, <3>1
    <2>2. CASE u = s
      <3>1. doing'[u] = x /\ doing'[t] = doing[t] /\ t \in Sessions \ {s}
        BY <1>1, <1>4, <2>2
      <3>. QED
        BY <1>4, <3>1
    <2>3. CASE t # s /\ u # s
      <3>1. doing'[u] = doing[u] /\ doing'[t] = doing[t]
        BY <1>1, <2>3
      <3>. QED
        BY <1>4, <3>1 DEF CallsFit
    <2>. QED
      BY <2>1, <2>2, <2>3
  <1>. QED
    BY <1>1, <1>3, <1>4 DEF CallsFit, Begun, OpKey

\* Nothing is stored, and no operation that was completed is marked again.
LEMMA DataKept ==
  ASSUME DataFits, submissions' = submissions, reviews' = reviews,
         \A k : StatusAt(k) = "COMPLETED" => StatusAt(k)' = "COMPLETED"
  PROVE  DataFits'
  <1>1. ASSUME NEW i \in 1..Len(submissions)
        PROVE  StatusAt(<<"submit", submissions[i].package, submissions[i].answer>>)' = "COMPLETED"
    <2>1. PICK k : k = <<"submit", submissions[i].package, submissions[i].answer>>
      OBVIOUS
    <2>2. StatusAt(k)' = "COMPLETED"
      BY <2>1 DEF DataFits
    <2>. QED
      BY <2>1, <2>2
  <1>2. ASSUME NEW i \in 1..Len(reviews)
        PROVE  StatusAt(<<"review", reviews[i].submission, reviews[i].decision>>)' = "COMPLETED"
    <2>1. PICK k : k = <<"review", reviews[i].submission, reviews[i].decision>>
      OBVIOUS
    <2>2. StatusAt(k)' = "COMPLETED"
      BY <2>1 DEF DataFits
    <2>. QED
      BY <2>1, <2>2
  <1>. QED
    BY <1>1, <1>2 DEF DataFits

\* The order part, of a step of one session that finds the others idle.
LEMMA OrderMoves ==
  ASSUME CallsFit, NEW s \in Sessions, NEW x, doing' = [doing EXCEPT ![s] = x],
         ~overlapped' => Alone(s) /\ Readable' /\ Undisturbed(x)'
  PROVE  OrderFits'
  <1> SUFFICES ASSUME ~overlapped'
               PROVE  /\ Readable'
                      /\ \A t, u \in Sessions : doing'[t].at # "idle" /\ doing'[u].at # "idle" => t = u
                      /\ \A t \in Sessions : Undisturbed(doing[t])'
    BY DEF OrderFits
  <1>1. doing'[s] = x /\ \A t \in Sessions \ {s} : doing'[t] = doing[t]
    BY DEF CallsFit
  <1>2. \A t \in Sessions \ {s} : doing[t].at = "idle"
    BY DEF Alone
  <1>3. ASSUME NEW t \in Sessions PROVE Undisturbed(doing[t])'
    <2>1. CASE t = s
      BY <1>1, <2>1
    <2>2. CASE t # s
      <3>1. doing'[t].at = "idle"
        BY <1>1, <1>2, <2>2
      <3>. QED
        BY <3>1 DEF Undisturbed, Submitting, Judging
    <2>. QED
      BY <2>1, <2>2
  <1>. QED
    BY <1>1, <1>2, <1>3

\* Without an overlap, a call that is under way is the only one.
LEMMA BusyAlone ==
  ASSUME OrderFits, ~overlapped, NEW s \in Sessions, NEW c, c = doing[s], c.at # "idle"
  PROVE  Alone(s) /\ Readable /\ Undisturbed(c)
  BY DEF OrderFits, Alone

LEMMA AnswerInitInv == AnswerInit => AnswerInv
  <1> SUFFICES ASSUME AnswerInit PROVE AnswerInv
    OBVIOUS
  <1>1. /\ package = 1 /\ active = [package |-> 1, submission |-> 0, review |-> 0] /\ ready = TRUE
        /\ submissions = << >> /\ reviews = << >>
        /\ doing = [s \in Sessions |-> NoCall]
    BY DEF AnswerInit
  <1>2. Len(<< >>) = 0 /\ << >> \in Seq(Submission) /\ << >> \in Seq(Judgement)
    BY EmptySeq
  <1>3. DataFits /\ ActiveFits
    BY <1>1, <1>2 DEF DataFits, ActiveFits
  <1>4. CallsFit
    BY <1>1, NoCallFits DEF CallsFit
  <1>5. OrderFits
    BY <1>1, NoCallFits DEF OrderFits, Readable
  <1>. QED
    BY <1>3, <1>4, <1>5 DEF AnswerInv

\* Statuses are kept where nothing is marked.
LEMMA StatusKept ==
  ASSUME started' = started
  PROVE  \A k : StatusAt(k)' = StatusAt(k)
  BY DEF StatusAt

LEMMA NobodyElseMoved ==
  ASSUME CallsFit, NEW s \in Sessions, NEW x, ~Begun(x),
         \A k : StatusAt(k) = "STARTED" => StatusAt(k)' = "STARTED"
  PROVE  \A t \in Sessions \ {s} : Begun(doing[t]) =>
           /\ \A k : k = OpKey(doing[t]) => StatusAt(k)' = "STARTED"
           /\ Begun(x) => OpKey(doing[t]) # OpKey(x)
  BY DEF CallsFit, DoingFits

\* A session marks its own operation: what the others have begun is another one.
LEMMA OnlyItsOwn ==
  ASSUME CallsFit, NEW s \in Sessions, NEW x, ~Begun(x), NEW c, c = doing[s], Begun(c),
         NEW key, key = OpKey(c),
         \A k : k # key => StatusAt(k)' = StatusAt(k)
  PROVE  \A t \in Sessions \ {s} : Begun(doing[t]) =>
           /\ \A k : k = OpKey(doing[t]) => StatusAt(k)' = "STARTED"
           /\ Begun(x) => OpKey(doing[t]) # OpKey(x)
  BY DEF CallsFit, DoingFits

LEMMA AnswerKeeps ==
  ASSUME AnswerInv, NEW s \in Sessions, NEW a \in Answers, Answer(s, a)
  PROVE  AnswerInv'
  <1>. PICK x : x = [at |-> "submit", on |-> active.package, what |-> a, proof |-> 0]
    OBVIOUS
  <1>0. DataFits /\ ActiveFits /\ CallsFit /\ OrderFits
    BY DEF AnswerInv
  <1>1. /\ doing' = [doing EXCEPT ![s] = x] /\ submissions' = submissions /\ reviews' = reviews
        /\ started' = started /\ package' = package /\ active' = active /\ ready' = ready
        /\ overlapped' = (overlapped \/ ~Alone(s))
        /\ Context /\ active.submission = 0
    <2>1. [NoCall EXCEPT !.at = "submit", !.on = active.package, !.what = a] = x
      <3>1. PICK z : z = [NoCall EXCEPT !.at = "submit", !.on = active.package, !.what = a]
        OBVIOUS
      <3>2. active.package \in Nat
        BY <1>0 DEF ActiveFits
      <3>3. NoCall \in Doing /\ NoCall.proof = 0
        BY DEF NoCall, Doing
      <3>4. z \in Doing /\ x \in Doing
        BY <3>1, <3>2, <3>3 DEF Doing
      <3>5. z.at = x.at /\ z.on = x.on /\ z.what = x.what /\ z.proof = x.proof
        BY <3>1, <3>3 DEF Doing
      <3>. QED
        BY <3>1, <3>4, <3>5, SameDoing
    <2>. QED
      BY <2>1 DEF Answer, NotesOverlap, Unanswered
  <1>2. \A k : StatusAt(k)' = StatusAt(k)
    BY <1>1, StatusKept
  <1>3. DataFits'
    BY <1>0, <1>1, <1>2, DataKept
  <1>4. ActiveFits'
    BY <1>0, <1>1 DEF ActiveFits
  <1>5. x \in Doing /\ ~Begun(x) /\ x.at = "submit" /\ x.on = active.package /\ x.what = a
    BY <1>0 DEF Doing, Begun, ActiveFits
  <1>6. CallsFit'
    <2>1. DoingFits(x)'
      BY <1>5 DEF DoingFits, Judging, Submitting, Begun
    <2>2. \A i \in 1..Len(submissions) : i \in 1..Len(submissions') /\ submissions'[i] = submissions[i]
      BY <1>1
    <2>3. \A k : StatusAt(k) = "STARTED" => StatusAt(k)' = "STARTED"
      BY <1>2
    <2>4. ~Begun(x)
      BY <1>5
    <2>5. \A t \in Sessions \ {s} : Begun(doing[t]) =>
            /\ \A k : k = OpKey(doing[t]) => StatusAt(k)' = "STARTED"
            /\ Begun(x) => OpKey(doing[t]) # OpKey(x)
      BY <1>0, <2>3, <2>4, NobodyElseMoved
    <2>. QED
      BY <1>0, <1>1, <1>5, <2>1, <2>2, <2>5, SessionMoves
  <1>7. OrderFits'
    <2>1. ASSUME ~overlapped' PROVE Alone(s) /\ Readable' /\ Undisturbed(x)'
      <3>1. Alone(s) /\ ~overlapped /\ Readable
        BY <1>0, <1>1, <2>1 DEF OrderFits
      <3>2. active.review = 0
        <4>1. Len(reviews) \in Nat /\ active.review \in 0..Len(reviews)
          BY <1>0, Lengths DEF ActiveFits
        <4>2. active.review # 0 => active.review \in 1..Len(reviews)
          BY <4>1
        <4>3. active.review # 0 => reviews[active.review].submission # 0
          <5>1. \A i \in 1..Len(reviews) : reviews[i].submission \in 1..Len(submissions)
            BY <1>0 DEF DataFits
          <5>2. \A i \in 1..Len(reviews) : reviews[i].submission # 0
            BY <1>0, <5>1, Lengths
          <5>. QED
            BY <4>2, <5>2
        <4>. QED
          BY <1>1, <3>1, <4>3 DEF Readable
      <3>. QED
        BY <1>1, <1>5, <3>1, <3>2 DEF Readable, Undisturbed, Submitting, Judging, Context
    <2>. QED
      BY <1>0, <1>1, <2>1, OrderMoves
  <1>. QED
    BY <1>3, <1>4, <1>6, <1>7 DEF AnswerInv

LEMMA JudgeKeeps ==
  ASSUME AnswerInv, NEW s \in Sessions, NEW d \in Decisions, Judge(s, d)
  PROVE  AnswerInv'
  <1>. PICK x : x = [at |-> "review", on |-> active.submission, what |-> d, proof |-> 0]
    OBVIOUS
  <1>0. DataFits /\ ActiveFits /\ CallsFit /\ OrderFits
    BY DEF AnswerInv
  <1>1. /\ doing' = [doing EXCEPT ![s] = x] /\ submissions' = submissions /\ reviews' = reviews
        /\ started' = started /\ package' = package /\ active' = active /\ ready' = ready
        /\ overlapped' = (overlapped \/ ~Alone(s))
        /\ Context /\ active.submission # 0 /\ active.review = 0
    <2>1. [NoCall EXCEPT !.at = "review", !.on = active.submission, !.what = d] = x
      <3>1. PICK z : z = [NoCall EXCEPT !.at = "review", !.on = active.submission, !.what = d]
        OBVIOUS
      <3>2. active.submission \in Nat
        BY <1>0 DEF ActiveFits
      <3>3. NoCall \in Doing /\ NoCall.proof = 0
        BY DEF NoCall, Doing
      <3>4. z \in Doing /\ x \in Doing
        BY <3>1, <3>2, <3>3 DEF Doing
      <3>5. z.at = x.at /\ z.on = x.on /\ z.what = x.what /\ z.proof = x.proof
        BY <3>1, <3>3 DEF Doing
      <3>. QED
        BY <3>1, <3>4, <3>5, SameDoing
    <2>. QED
      BY <2>1 DEF Judge, NotesOverlap, Unreviewed
  <1>2. \A k : StatusAt(k)' = StatusAt(k)
    BY <1>1, StatusKept
  <1>3. DataFits'
    BY <1>0, <1>1, <1>2, DataKept
  <1>4. ActiveFits'
    BY <1>0, <1>1 DEF ActiveFits
  <1>5. x \in Doing /\ ~Begun(x) /\ x.at = "review" /\ x.on = active.submission /\ x.what = d
    BY <1>0 DEF Doing, Begun, ActiveFits
  <1>6. CallsFit'
    <2>1. DoingFits(x)'
      <3>1. active.submission \in 1..Len(submissions)
        BY <1>0, <1>1, Lengths DEF ActiveFits
      <3>. QED
        BY <1>1, <1>5, <3>1 DEF DoingFits, Judging, Submitting, Begun
    <2>2. \A i \in 1..Len(submissions) : i \in 1..Len(submissions') /\ submissions'[i] = submissions[i]
      BY <1>1
    <2>3. \A k : StatusAt(k) = "STARTED" => StatusAt(k)' = "STARTED"
      BY <1>2
    <2>4. ~Begun(x)
      BY <1>5
    <2>5. \A t \in Sessions \ {s} : Begun(doing[t]) =>
            /\ \A k : k = OpKey(doing[t]) => StatusAt(k)' = "STARTED"
            /\ Begun(x) => OpKey(doing[t]) # OpKey(x)
      BY <1>0, <2>3, <2>4, NobodyElseMoved
    <2>. QED
      BY <1>0, <1>1, <1>5, <2>1, <2>2, <2>5, SessionMoves
  <1>7. OrderFits'
    <2>1. ASSUME ~overlapped' PROVE Alone(s) /\ Readable' /\ Undisturbed(x)'
      <3>1. Alone(s) /\ ~overlapped /\ Readable
        BY <1>0, <1>1, <2>1 DEF OrderFits
      <3>. QED
        BY <1>1, <1>5, <3>1 DEF Readable, Undisturbed, Submitting, Judging, Context
    <2>. QED
      BY <1>0, <1>1, <2>1, OrderMoves
  <1>. QED
    BY <1>3, <1>4, <1>6, <1>7 DEF AnswerInv

\* A call that leaves, whatever it did to its own operation short of completing it.
LEMMA LeavingKeeps ==
  ASSUME AnswerInv, NEW s \in Sessions, NEW c, c = doing[s], c.at # "idle",
         Leaves(s), submissions' = submissions, reviews' = reviews,
         package' = package, active' = active, ready' = ready, overlapped' = overlapped,
         \/ \A k : StatusAt(k)' = StatusAt(k)
         \/ Begun(c) /\ \A k : k # OpKey(c) => StatusAt(k)' = StatusAt(k)
  PROVE  AnswerInv'
  <1>0. DataFits /\ ActiveFits /\ CallsFit /\ OrderFits
    BY DEF AnswerInv
  <1>. PICK x : x = NoCall
    OBVIOUS
  <1>1. doing' = [doing EXCEPT ![s] = x]
    BY DEF Leaves
  <1>2. x \in Doing /\ ~Begun(x) /\ DoingFits(x)' /\ Undisturbed(x)'
    BY NoCallFits
  <1>3. DataFits'
    <2>1. \A k : StatusAt(k) = "COMPLETED" => StatusAt(k)' = "COMPLETED"
      <3>1. Begun(c) => StatusAt(OpKey(c)) = "STARTED"
        BY <1>0 DEF CallsFit, DoingFits
      <3>. QED
        BY <3>1
    <2>. QED
      BY <1>0, <2>1, DataKept
  <1>4. ActiveFits'
    BY <1>0 DEF ActiveFits
  <1>5. CallsFit'
    <2>2. \A i \in 1..Len(submissions) : i \in 1..Len(submissions') /\ submissions'[i] = submissions[i]
      OBVIOUS
    <2>4. ~Begun(x)
      BY <1>2
    <2>5. \A t \in Sessions \ {s} : Begun(doing[t]) =>
            /\ \A k : k = OpKey(doing[t]) => StatusAt(k)' = "STARTED"
            /\ Begun(x) => OpKey(doing[t]) # OpKey(x)
      <3>1. CASE \A k : StatusAt(k)' = StatusAt(k)
        <4>1. \A k : StatusAt(k) = "STARTED" => StatusAt(k)' = "STARTED"
          BY <3>1
        <4>. QED
          BY <1>0, <2>4, <4>1, NobodyElseMoved
      <3>2. CASE Begun(c) /\ \A k : k # OpKey(c) => StatusAt(k)' = StatusAt(k)
        <4>1. PICK key : key = OpKey(c)
          OBVIOUS
        <4>2. Begun(c) /\ \A k : k # key => StatusAt(k)' = StatusAt(k)
          BY <3>2, <4>1
        <4>. QED
          BY <1>0, <2>4, <4>1, <4>2, OnlyItsOwn
      <3>. QED
        BY <3>1, <3>2
    <2>. QED
      BY <1>0, <1>1, <1>2, <2>2, <2>5, SessionMoves
  <1>6. OrderFits'
    <2>1. ASSUME ~overlapped' PROVE Alone(s) /\ Readable' /\ Undisturbed(x)'
      <3>1. Alone(s) /\ Readable
        BY <1>0, <2>1, BusyAlone
      <3>. QED
        BY <1>2, <3>1 DEF Readable
    <2>. QED
      BY <1>0, <1>1, <2>1, OrderMoves
  <1>. QED
    BY <1>3, <1>4, <1>5, <1>6 DEF AnswerInv

LEMMA BeginAnswerKeeps ==
  ASSUME AnswerInv, NEW s \in Sessions, BeginAnswer(s)
  PROVE  AnswerInv'
  <1>0. DataFits /\ ActiveFits /\ CallsFit /\ OrderFits
    BY DEF AnswerInv
  <1>. PICK c : c = doing[s]
    OBVIOUS
  <1>. PICK key : key = <<c.at, c.on, c.what>>
    OBVIOUS
  <1>1. /\ c.at \in {"submit", "review"} /\ c \in Doing /\ DoingFits(c) /\ ~Begun(c)
        /\ submissions' = submissions /\ reviews' = reviews /\ package' = package
        /\ active' = active /\ ready' = ready /\ overlapped' = overlapped
    BY <1>0, OfDoing DEF BeginAnswer, Begun
  <1>2. CASE ~Begins(StatusAt(Key(doing[s])))
    <2>1. Leaves(s) /\ started' = started
      BY <1>2 DEF BeginAnswer
    <2>2. \/ \A k : StatusAt(k)' = StatusAt(k)
          \/ Begun(c) /\ \A k : k # OpKey(c) => StatusAt(k)' = StatusAt(k)
      BY <2>1, StatusKept
    <2>3. c.at # "idle"
      BY <1>1
    <2>. QED
      BY <1>1, <2>1, <2>2, <2>3, LeavingKeeps
  <1>3. CASE Begins(StatusAt(Key(doing[s])))
    <2>. PICK x : x = [at |-> IF c.at = "submit" THEN "answering" ELSE "proving",
                       on |-> c.on, what |-> c.what, proof |-> c.proof]
      OBVIOUS
    <2>1. /\ Marks(key, "STARTED") /\ doing' = [doing EXCEPT ![s] = x]
          /\ StatusAt(key) \in {"absent", "FAILED"}
      <3>1. c = [at |-> c.at, on |-> c.on, what |-> c.what, proof |-> c.proof]
        BY <1>1 DEF Doing
      <3>2. [c EXCEPT !.at = IF c.at = "submit" THEN "answering" ELSE "proving"] = x
        BY <3>1
      <3>3. [doing EXCEPT ![s].at = IF doing[s].at = "submit" THEN "answering" ELSE "proving"]
              = [doing EXCEPT ![s] = x]
        BY <3>2
      <3>. QED
        BY <1>3, <3>3 DEF BeginAnswer, Begins, Key
    <2>2. \A k : StatusAt(k)' = IF k = key THEN "STARTED" ELSE StatusAt(k)
      BY <2>1, MarksOne
    <2>3. /\ x \in Doing /\ Begun(x) /\ x.on = c.on /\ x.what = c.what
          /\ x.at = IF c.at = "submit" THEN "answering" ELSE "proving"
      BY <1>1 DEF Doing, Begun
    <2>4. OpKey(x) = key /\ OpKey(x)' = key
      <3>1. c.at = "submit" <=> x.at = "answering"
        BY <2>3
      <3>2. c.at # "submit" => c.at = "review"
        BY <1>1
      <3>. QED
        BY <2>3, <3>1, <3>2 DEF OpKey
    <2>5. DataFits'
      <3>1. \A k : StatusAt(k) = "COMPLETED" => StatusAt(k)' = "COMPLETED"
        BY <2>1, <2>2
      <3>. QED
        BY <1>0, <1>1, <3>1, DataKept
    <2>6. ActiveFits'
      BY <1>0, <1>1 DEF ActiveFits
    <2>7. CallsFit'
      <3>1. DoingFits(x)'
        <4>1. (Judging(x) => x.on \in 1..Len(submissions) /\ x.what \in Decisions)'
          BY <1>1, <2>3 DEF DoingFits, Judging
        <4>2. (Submitting(x) => x.what \in Answers)'
          BY <1>1, <2>3 DEF DoingFits, Submitting
        <4>3. x.at # "judging"
          BY <2>3
        <4>4. StatusAt(OpKey(x))' = "STARTED"
          BY <2>2, <2>4
        <4>. QED
          BY <4>1, <4>2, <4>3, <4>4 DEF DoingFits
      <3>2. \A i \in 1..Len(submissions) : i \in 1..Len(submissions') /\ submissions'[i] = submissions[i]
        BY <1>1
      <3>3. ASSUME NEW t \in Sessions \ {s}, Begun(doing[t])
            PROVE  /\ \A k : k = OpKey(doing[t]) => StatusAt(k)' = "STARTED"
                   /\ Begun(x) => OpKey(doing[t]) # OpKey(x)
        <4>1. StatusAt(OpKey(doing[t])) = "STARTED"
          BY <1>0, <3>3 DEF CallsFit, DoingFits
        <4>2. OpKey(doing[t]) # key
          BY <2>1, <4>1
        <4>. QED
          BY <2>2, <2>4, <4>1, <4>2
      <3>. QED
        BY <1>0, <2>1, <2>3, <3>1, <3>2, <3>3, SessionMoves
    <2>8. OrderFits'
      <3>1. ASSUME ~overlapped' PROVE Alone(s) /\ Readable' /\ Undisturbed(x)'
        <4>0. c.at # "idle" /\ ~overlapped
          BY <1>1, <3>1
        <4>1. Alone(s) /\ Readable /\ Undisturbed(c)
          BY <1>0, <4>0, BusyAlone
        <4>2. (Submitting(x) <=> Submitting(c)) /\ (Judging(x) <=> Judging(c))
          BY <1>1, <2>3 DEF Submitting, Judging
        <4>. QED
          BY <1>1, <2>3, <4>1, <4>2 DEF Readable, Undisturbed, Submitting, Judging
      <3>. QED
        BY <1>0, <2>1, <3>1, OrderMoves
    <2>. QED
      BY <2>5, <2>6, <2>7, <2>8 DEF AnswerInv
  <1>. QED
    BY <1>2, <1>3

LEMMA ProveKeeps ==
  ASSUME AnswerInv, NEW s \in Sessions, Prove(s)
  PROVE  AnswerInv'
  <1>0. DataFits /\ ActiveFits /\ CallsFit /\ OrderFits
    BY DEF AnswerInv
  <1>. PICK c : c = doing[s]
    OBVIOUS
  <1>. PICK key : key = <<"review", c.on, c.what>>
    OBVIOUS
  <1>1. /\ c.at = "proving" /\ c \in Doing /\ DoingFits(c) /\ Begun(c) /\ OpKey(c) = key
        /\ submissions' = submissions /\ reviews' = reviews /\ package' = package
        /\ active' = active /\ ready' = ready /\ overlapped' = overlapped
    BY <1>0, OfDoing DEF Prove, Begun, OpKey
  <1>2. CASE ~Proves(c.on)
    <2>1. Leaves(s) /\ Marks(key, "FAILED")
      BY <1>2 DEF Prove
    <2>2. \A k : StatusAt(k)' = IF k = key THEN "FAILED" ELSE StatusAt(k)
      BY <2>1, MarksOne
    <2>3. \/ \A k : StatusAt(k)' = StatusAt(k)
          \/ Begun(c) /\ \A k : k # OpKey(c) => StatusAt(k)' = StatusAt(k)
      BY <1>1, <2>2
    <2>4. c.at # "idle"
      BY <1>1
    <2>. QED
      BY <1>1, <2>1, <2>3, <2>4, LeavingKeeps
  <1>3. CASE Proves(c.on)
    <2>. PICK x : x = [at |-> "judging", on |-> c.on, what |-> c.what, proof |-> active.package]
      OBVIOUS
    <2>1. doing' = [doing EXCEPT ![s] = x] /\ started' = started
      <3>1. c = [at |-> c.at, on |-> c.on, what |-> c.what, proof |-> c.proof]
        BY <1>1 DEF Doing
      <3>2. [c EXCEPT !.at = "judging", !.proof = active.package] = x
        <4>1. PICK z : z = [c EXCEPT !.at = "judging", !.proof = active.package]
          OBVIOUS
        <4>2. active.package \in Nat
          BY <1>0 DEF ActiveFits
        <4>3. z \in Doing /\ x \in Doing
          BY <1>1, <4>1, <4>2 DEF Doing
        <4>4. z.at = x.at /\ z.on = x.on /\ z.what = x.what /\ z.proof = x.proof
          BY <1>1, <4>1 DEF Doing
        <4>. QED
          BY <4>1, <4>3, <4>4, SameDoing
      <3>3. [doing EXCEPT ![s] = [@ EXCEPT !.at = "judging", !.proof = active.package]]
              = [doing EXCEPT ![s] = x]
        BY <3>2
      <3>. QED
        BY <1>3, <3>3 DEF Prove
    <2>2. \A k : StatusAt(k)' = StatusAt(k)
      BY <2>1, StatusKept
    <2>3. /\ x \in Doing /\ Begun(x) /\ x.on = c.on /\ x.what = c.what /\ x.at = "judging"
          /\ x.proof = active.package
      BY <1>0, <1>1 DEF Doing, Begun, ActiveFits
    <2>4. OpKey(x) = key /\ OpKey(x)' = key
      BY <2>3 DEF OpKey
    <2>5. DataFits'
      BY <1>0, <1>1, <2>2, DataKept
    <2>6. ActiveFits'
      BY <1>0, <1>1 DEF ActiveFits
    <2>7. CallsFit'
      <3>1. DoingFits(x)'
        <4>1. (Judging(x) => x.on \in 1..Len(submissions) /\ x.what \in Decisions)'
          BY <1>1, <2>3 DEF DoingFits, Judging
        <4>2. ~Submitting(x)
          BY <2>3 DEF Submitting
        <4>3. (x.proof = submissions[x.on].package)'
          BY <1>1, <1>3, <2>3 DEF Proves
        <4>4. StatusAt(OpKey(x))' = "STARTED"
          BY <1>1, <2>2, <2>4 DEF DoingFits
        <4>. QED
          BY <4>1, <4>2, <4>3, <4>4 DEF DoingFits, Submitting
      <3>2. \A i \in 1..Len(submissions) : i \in 1..Len(submissions') /\ submissions'[i] = submissions[i]
        BY <1>1
      <3>3. ASSUME NEW t \in Sessions \ {s}, Begun(doing[t])
            PROVE  /\ \A k : k = OpKey(doing[t]) => StatusAt(k)' = "STARTED"
                   /\ Begun(x) => OpKey(doing[t]) # OpKey(x)
        <4>1. StatusAt(OpKey(doing[t])) = "STARTED"
          BY <1>0, <3>3 DEF CallsFit, DoingFits
        <4>2. OpKey(doing[t]) # OpKey(c)
          BY <1>0, <1>1, <3>3 DEF CallsFit
        <4>. QED
          BY <1>1, <2>2, <2>4, <4>1, <4>2
      <3>. QED
        BY <1>0, <2>1, <2>3, <3>1, <3>2, <3>3, SessionMoves
    <2>8. OrderFits'
      <3>1. ASSUME ~overlapped' PROVE Alone(s) /\ Readable' /\ Undisturbed(x)'
        <4>0. c.at # "idle" /\ ~overlapped
          BY <1>1, <3>1
        <4>1. Alone(s) /\ Readable /\ Undisturbed(c)
          BY <1>0, <4>0, BusyAlone
        <4>. QED
          BY <1>1, <2>3, <4>1 DEF Readable, Undisturbed, Submitting, Judging
      <3>. QED
        BY <1>0, <2>1, <3>1, OrderMoves
    <2>. QED
      BY <2>5, <2>6, <2>7, <2>8 DEF AnswerInv
  <1>. QED
    BY <1>2, <1>3

LEMMA InterruptedKeeps ==
  ASSUME AnswerInv, NEW s \in Sessions, Interrupted(s)
  PROVE  AnswerInv'
  <1>. PICK c : c = doing[s]
    OBVIOUS
  <1>. PICK key : key = <<IF c.at = "answering" THEN "submit" ELSE "review", c.on, c.what>>
    OBVIOUS
  <1>1. /\ Begun(c) /\ OpKey(c) = key /\ c.at # "idle"
        /\ submissions' = submissions /\ reviews' = reviews /\ package' = package
        /\ active' = active /\ ready' = ready /\ overlapped' = overlapped
        /\ Leaves(s) /\ (Marks(key, "FAILED") \/ started' = started)
    BY DEF Interrupted, Begun, OpKey
  <1>2. \/ \A k : StatusAt(k)' = StatusAt(k)
        \/ Begun(c) /\ \A k : k # OpKey(c) => StatusAt(k)' = StatusAt(k)
    <2>1. CASE Marks(key, "FAILED")
      <3>1. \A k : StatusAt(k)' = IF k = key THEN "FAILED" ELSE StatusAt(k)
        BY <2>1, MarksOne
      <3>. QED
        BY <1>1, <3>1
    <2>2. CASE started' = started
      BY <2>2, StatusKept
    <2>. QED
      BY <1>1, <2>1, <2>2
  <1>. QED
    BY <1>1, <1>2, LeavingKeeps

\* The workspace is changed beside the calls: whoever is in one is overlapped.
LEMMA BesideKeeps ==
  ASSUME AnswerInv, submissions' = submissions, reviews' = reviews, started' = started,
         doing' = doing, overlapped' = (overlapped \/ BusyNow),
         ActiveFits', Readable'
  PROVE  AnswerInv'
  <1>0. DataFits /\ ActiveFits /\ CallsFit /\ OrderFits
    BY DEF AnswerInv
  <1>1. \A k : StatusAt(k)' = StatusAt(k)
    BY StatusKept
  <1>2. DataFits'
    BY <1>0, <1>1, DataKept
  <1>3. CallsFit'
    <2>1. ASSUME NEW s \in Sessions PROVE DoingFits(doing[s])'
      <3>1. PICK c : c = doing[s]
        OBVIOUS
      <3>2. c \in Doing /\ DoingFits(c)
        BY <1>0, <3>1, OfDoing
      <3>3. DoingFits(c)'
        BY <1>1, <3>2 DEF DoingFits, Judging, Submitting, Begun, OpKey, StatusAt
      <3>. QED
        BY <3>1, <3>3
    <2>. QED
      BY <1>0, <2>1 DEF CallsFit, Begun, OpKey
  <1>4. OrderFits'
    <2>1. ASSUME ~overlapped', NEW s \in Sessions PROVE doing[s].at = "idle"
      BY <2>1 DEF BusyNow
    <2>. QED
      BY <2>1 DEF OrderFits, Undisturbed, Submitting, Judging
  <1>. QED
    BY <1>2, <1>3, <1>4 DEF AnswerInv

LEMMA ReplaceBasisKeeps == AnswerInv /\ ReplaceBasis => AnswerInv'
  <1> SUFFICES ASSUME AnswerInv, ReplaceBasis PROVE AnswerInv'
    OBVIOUS
  <1>1. /\ submissions' = submissions /\ reviews' = reviews /\ started' = started
        /\ doing' = doing /\ overlapped' = (overlapped \/ BusyNow)
    BY DEF ReplaceBasis
  <1>2. ActiveFits'
    BY Lengths DEF ReplaceBasis, AnswerInv, ActiveFits
  <1>3. Readable'
    BY DEF ReplaceBasis, Readable
  <1>. QED
    BY <1>1, <1>2, <1>3, BesideKeeps

LEMMA PackageAgainKeeps == AnswerInv /\ PackageAgain => AnswerInv'
  <1> SUFFICES ASSUME AnswerInv, PackageAgain PROVE AnswerInv'
    OBVIOUS
  <1>1. /\ submissions' = submissions /\ reviews' = reviews /\ started' = started
        /\ doing' = doing /\ overlapped' = (overlapped \/ BusyNow)
    BY DEF PackageAgain
  <1>2. ActiveFits' /\ package + 1 \in Nat \ {0}
    BY Lengths DEF PackageAgain, AnswerInv, ActiveFits
  <1>3. Readable'
    BY <1>2 DEF PackageAgain, Readable
  <1>. QED
    BY <1>1, <1>2, <1>3, BesideKeeps

\* A sequence that grows keeps what it had.
LEMMA Appended ==
  ASSUME NEW S, NEW q \in Seq(S), NEW e \in S, NEW q2, q2 = Append(q, e)
  PROVE  /\ q2 \in Seq(S) /\ Len(q) \in Nat /\ Len(q2) = Len(q) + 1
         /\ q2[Len(q) + 1] = e
         /\ \A i \in 1..Len(q) : i \in 1..Len(q2) /\ q2[i] = q[i]
         /\ \A i \in 1..Len(q2) : i \in 1..Len(q) \/ i = Len(q) + 1
  <1>1. /\ q2 \in Seq(S) /\ Len(q2) = Len(q) + 1 /\ q2[Len(q) + 1] = e
        /\ \A i \in 1..Len(q) : q2[i] = q[i]
    BY AppendProperties
  <1>2. Len(q) \in Nat
    BY LenProperties
  <1>. QED
    BY <1>1, <1>2

\* The call that leaves after it has completed its operation.
LEMMA CompletedLeaves ==
  ASSUME CallsFit, NEW s \in Sessions, NEW c, c = doing[s], Begun(c),
         NEW key, key = OpKey(c),
         \A k : StatusAt(k)' = IF k = key THEN "COMPLETED" ELSE StatusAt(k),
         Leaves(s),
         \A i \in 1..Len(submissions) :
           i \in 1..Len(submissions') /\ submissions'[i] = submissions[i]
  PROVE  CallsFit'
  <1>. PICK x : x = NoCall
    OBVIOUS
  <1>1. doing' = [doing EXCEPT ![s] = x]
    BY DEF Leaves
  <1>2. x \in Doing /\ DoingFits(x)'
    BY NoCallFits
  <1>3. ~Begun(x)
    BY NoCallFits
  <1>4. \A k : k # key => StatusAt(k)' = StatusAt(k)
    OBVIOUS
  <1>5. \A t \in Sessions \ {s} : Begun(doing[t]) =>
          /\ \A k : k = OpKey(doing[t]) => StatusAt(k)' = "STARTED"
          /\ Begun(x) => OpKey(doing[t]) # OpKey(x)
    BY <1>3, <1>4, OnlyItsOwn
  <1>. QED
    BY <1>1, <1>2, <1>5, SessionMoves

LEMMA SaveAnswerKeeps ==
  ASSUME AnswerInv, NEW s \in Sessions, SaveAnswer(s)
  PROVE  AnswerInv'
  <1>0. DataFits /\ ActiveFits /\ CallsFit /\ OrderFits
    BY DEF AnswerInv
  <1>. PICK c : c = doing[s]
    OBVIOUS
  <1>. PICK key : key = <<"submit", c.on, c.what>>
    OBVIOUS
  <1>. PICK e : e = [package |-> c.on, answer |-> c.what]
    OBVIOUS
  <1>. PICK n : n = Len(submissions)
    OBVIOUS
  <1>1. /\ c.at = "answering" /\ c \in Doing /\ DoingFits(c) /\ Begun(c) /\ OpKey(c) = key
        /\ submissions' = Append(submissions, e) /\ reviews' = reviews /\ package' = package
        /\ active' = [active EXCEPT !.submission = n + 1] /\ ready' = TRUE
        /\ overlapped' = overlapped /\ Marks(key, "COMPLETED") /\ Leaves(s)
    BY <1>0, OfDoing DEF SaveAnswer, Begun, OpKey
  <1>2. e \in Submission /\ e.package = c.on /\ e.answer = c.what
    BY <1>1 DEF DoingFits, Submitting, Doing, Submission
  <1>3. StatusAt(key) = "STARTED"
    BY <1>1 DEF DoingFits
  <1>4. \A k : StatusAt(k)' = IF k = key THEN "COMPLETED" ELSE StatusAt(k)
    BY <1>1, MarksOne
  <1>5. submissions \in Seq(Submission) /\ reviews \in Seq(Judgement)
    BY <1>0 DEF DataFits
  <1>6. /\ submissions' \in Seq(Submission) /\ n \in Nat /\ Len(submissions') = n + 1
        /\ submissions'[n + 1] = e
        /\ \A i \in 1..n : i \in 1..Len(submissions') /\ submissions'[i] = submissions[i]
        /\ \A i \in 1..Len(submissions') : i \in 1..n \/ i = n + 1
    BY <1>1, <1>2, <1>5, Appended
  <1>7. ASSUME NEW k, StatusAt(k) = "COMPLETED" PROVE StatusAt(k)' = "COMPLETED"
    BY <1>4, <1>7
  <1>8. ASSUME NEW i \in 1..n PROVE submissions[i] # e
    <2>1. PICK k : k = <<"submit", submissions[i].package, submissions[i].answer>>
      OBVIOUS
    <2>2. StatusAt(k) = "COMPLETED"
      BY <1>0, <2>1 DEF DataFits
    <2>3. k # key
      BY <1>3, <2>2
    <2>. QED
      BY <1>2, <2>1, <2>3
  <1>9. DataFits'
    <2>1. ASSUME NEW i \in 1..Len(submissions')
          PROVE  StatusAt(<<"submit", submissions[i].package, submissions[i].answer>>)' = "COMPLETED"
      <3>1. PICK k : k = <<"submit", submissions'[i].package, submissions'[i].answer>>
        OBVIOUS
      <3>2. CASE i \in 1..n
        <4>1. k = <<"submit", submissions[i].package, submissions[i].answer>>
          BY <1>6, <3>1, <3>2
        <4>2. StatusAt(k) = "COMPLETED"
          BY <1>0, <3>2, <4>1 DEF DataFits
        <4>. QED
          BY <1>7, <3>1, <4>2
      <3>3. CASE i = n + 1
        <4>1. k = key
          BY <1>2, <1>6, <3>1, <3>3
        <4>2. StatusAt(k)' = "COMPLETED"
          BY <1>4, <4>1
        <4>. QED
          BY <3>1, <4>2
      <3>. QED
        BY <1>6, <3>2, <3>3
    <2>2. ASSUME NEW i \in 1..Len(reviews)
          PROVE  /\ reviews[i].submission \in 1..Len(submissions')
                 /\ reviews[i].proof = submissions'[reviews[i].submission].package
                 /\ StatusAt(<<"review", reviews[i].submission, reviews[i].decision>>)' = "COMPLETED"
      <3>1. PICK k : k = <<"review", reviews[i].submission, reviews[i].decision>>
        OBVIOUS
      <3>2. /\ reviews[i].submission \in 1..n
            /\ reviews[i].proof = submissions[reviews[i].submission].package
            /\ StatusAt(k) = "COMPLETED"
        BY <1>0, <3>1 DEF DataFits
      <3>3. StatusAt(k)' = "COMPLETED"
        BY <1>7, <3>2
      <3>4. /\ reviews[i].submission \in 1..Len(submissions')
            /\ reviews[i].proof = submissions'[reviews[i].submission].package
        BY <1>6, <3>2
      <3>. QED
        BY <1>1, <3>1, <3>3, <3>4
    <2>3. ASSUME NEW i \in 1..Len(submissions'), NEW j \in 1..Len(submissions'), i # j
          PROVE  submissions'[i] # submissions'[j]
      <3>1. (i \in 1..n \/ i = n + 1) /\ (j \in 1..n \/ j = n + 1)
        BY <1>6
      <3>2. CASE i \in 1..n /\ j \in 1..n
        BY <1>0, <1>6, <2>3, <3>2 DEF DataFits
      <3>3. CASE i \in 1..n /\ j = n + 1
        BY <1>6, <1>8, <3>3
      <3>4. CASE j \in 1..n /\ i = n + 1
        BY <1>6, <1>8, <3>4
      <3>. QED
        BY <2>3, <3>1, <3>2, <3>3, <3>4
    <2>4. \A i, j \in 1..Len(reviews) : i # j => reviews[i] # reviews[j]
      BY <1>0 DEF DataFits
    <2>. QED
      BY <1>1, <1>5, <1>6, <2>1, <2>2, <2>3, <2>4 DEF DataFits
  <1>10. ActiveFits'
    <2>1. active' \in [package : Nat, submission : Nat, review : Nat]
      <3>1. active \in [package : Nat, submission : Nat, review : Nat]
        BY <1>0 DEF ActiveFits
      <3>2. n + 1 \in Nat
        BY <1>6
      <3>3. active' = [active EXCEPT !.submission = n + 1]
        BY <1>1
      <3>. QED
        BY <3>1, <3>2, <3>3
    <2>2. active'.submission = n + 1 /\ active'.review = active.review
      BY <1>0, <1>1 DEF ActiveFits
    <2>. QED
      BY <1>0, <1>1, <1>6, <2>1, <2>2 DEF ActiveFits
  <1>11. CallsFit'
    <2>1. \A i \in 1..Len(submissions) : i \in 1..Len(submissions') /\ submissions'[i] = submissions[i]
      BY <1>6
    <2>. QED
      BY <1>0, <1>1, <1>4, <2>1, CompletedLeaves
  <1>12. OrderFits'
    <2>. PICK x : x = NoCall
      OBVIOUS
    <2>1. doing' = [doing EXCEPT ![s] = x]
      BY <1>1 DEF Leaves
    <2>2. ASSUME ~overlapped' PROVE Alone(s) /\ Readable' /\ Undisturbed(x)'
      <3>1. c.at # "idle" /\ ~overlapped
        BY <1>1, <2>2
      <3>2. Alone(s) /\ Readable /\ Undisturbed(c)
        BY <1>0, <3>1, BusyAlone
      <3>3. active'.package = active.package /\ active'.review = active.review /\ active'.submission = n + 1
        BY <1>0, <1>1 DEF ActiveFits
      <3>4. c.on = active.package /\ c.on # 0 /\ active.review = 0
        BY <1>1, <3>2 DEF Undisturbed, Submitting
      <3>5. Readable'
        BY <1>2, <1>6, <3>3, <3>4 DEF Readable
      <3>. QED
        BY <3>2, <3>5, NoCallFits
    <2>. QED
      BY <1>0, <2>1, <2>2, OrderMoves
  <1>. QED
    BY <1>9, <1>10, <1>11, <1>12 DEF AnswerInv

LEMMA SaveReviewKeeps ==
  ASSUME AnswerInv, NEW s \in Sessions, SaveReview(s)
  PROVE  AnswerInv'
  <1>0. DataFits /\ ActiveFits /\ CallsFit /\ OrderFits
    BY DEF AnswerInv
  <1>. PICK c : c = doing[s]
    OBVIOUS
  <1>. PICK key : key = <<"review", c.on, c.what>>
    OBVIOUS
  <1>. PICK e : e = [submission |-> c.on, decision |-> c.what, proof |-> c.proof]
    OBVIOUS
  <1>. PICK n : n = Len(reviews)
    OBVIOUS
  <1>1. /\ c.at = "judging" /\ c \in Doing /\ DoingFits(c) /\ Begun(c) /\ OpKey(c) = key
        /\ reviews' = Append(reviews, e) /\ submissions' = submissions /\ package' = package
        /\ active' = [active EXCEPT !.review = n + 1] /\ ready' = TRUE
        /\ overlapped' = overlapped /\ Marks(key, "COMPLETED") /\ Leaves(s)
    BY <1>0, OfDoing DEF SaveReview, Begun, OpKey
  <1>2. /\ e \in Judgement /\ e.submission = c.on /\ e.decision = c.what /\ e.proof = c.proof
        /\ c.on \in 1..Len(submissions) /\ c.proof = submissions[c.on].package
    BY <1>1 DEF DoingFits, Judging, Doing, Judgement
  <1>3. StatusAt(key) = "STARTED"
    BY <1>1 DEF DoingFits
  <1>4. \A k : StatusAt(k)' = IF k = key THEN "COMPLETED" ELSE StatusAt(k)
    BY <1>1, MarksOne
  <1>5. submissions \in Seq(Submission) /\ reviews \in Seq(Judgement)
    BY <1>0 DEF DataFits
  <1>6. /\ reviews' \in Seq(Judgement) /\ n \in Nat /\ Len(reviews') = n + 1
        /\ reviews'[n + 1] = e
        /\ \A i \in 1..n : i \in 1..Len(reviews') /\ reviews'[i] = reviews[i]
        /\ \A i \in 1..Len(reviews') : i \in 1..n \/ i = n + 1
    BY <1>1, <1>2, <1>5, Appended
  <1>7. ASSUME NEW k, StatusAt(k) = "COMPLETED" PROVE StatusAt(k)' = "COMPLETED"
    BY <1>4, <1>7
  <1>8. ASSUME NEW i \in 1..n PROVE reviews[i] # e
    <2>1. PICK k : k = <<"review", reviews[i].submission, reviews[i].decision>>
      OBVIOUS
    <2>2. StatusAt(k) = "COMPLETED"
      BY <1>0, <2>1 DEF DataFits
    <2>3. k # key
      BY <1>3, <2>2
    <2>. QED
      BY <1>2, <2>1, <2>3
  <1>9. DataFits'
    <2>1. ASSUME NEW i \in 1..Len(reviews')
          PROVE  /\ reviews'[i].submission \in 1..Len(submissions)
                 /\ reviews'[i].proof = submissions[reviews'[i].submission].package
                 /\ StatusAt(<<"review", reviews[i].submission, reviews[i].decision>>)' = "COMPLETED"
      <3>1. PICK k : k = <<"review", reviews'[i].submission, reviews'[i].decision>>
        OBVIOUS
      <3>2. CASE i \in 1..n
        <4>1. k = <<"review", reviews[i].submission, reviews[i].decision>> /\ reviews'[i] = reviews[i]
          BY <1>6, <3>1, <3>2
        <4>2. StatusAt(k) = "COMPLETED"
          BY <1>0, <3>2, <4>1 DEF DataFits
        <4>3. StatusAt(k)' = "COMPLETED"
          BY <1>7, <4>2
        <4>. QED
          BY <1>0, <3>1, <3>2, <4>1, <4>3 DEF DataFits
      <3>3. CASE i = n + 1
        <4>1. k = key /\ reviews'[i] = e
          BY <1>2, <1>6, <3>1, <3>3
        <4>2. StatusAt(k)' = "COMPLETED"
          BY <1>4, <4>1
        <4>. QED
          BY <1>2, <3>1, <4>1, <4>2
      <3>. QED
        BY <1>6, <3>2, <3>3
    <2>2. ASSUME NEW i \in 1..Len(submissions)
          PROVE  StatusAt(<<"submit", submissions[i].package, submissions[i].answer>>)' = "COMPLETED"
      <3>1. PICK k : k = <<"submit", submissions[i].package, submissions[i].answer>>
        OBVIOUS
      <3>2. StatusAt(k) = "COMPLETED"
        BY <1>0, <3>1 DEF DataFits
      <3>3. StatusAt(k)' = "COMPLETED"
        BY <1>7, <3>2
      <3>. QED
        BY <1>1, <3>1, <3>3
    <2>3. ASSUME NEW i \in 1..Len(reviews'), NEW j \in 1..Len(reviews'), i # j
          PROVE  reviews'[i] # reviews'[j]
      <3>1. (i \in 1..n \/ i = n + 1) /\ (j \in 1..n \/ j = n + 1)
        BY <1>6
      <3>2. CASE i \in 1..n /\ j \in 1..n
        BY <1>0, <1>6, <2>3, <3>2 DEF DataFits
      <3>3. CASE i \in 1..n /\ j = n + 1
        BY <1>6, <1>8, <3>3
      <3>4. CASE j \in 1..n /\ i = n + 1
        BY <1>6, <1>8, <3>4
      <3>. QED
        BY <2>3, <3>1, <3>2, <3>3, <3>4
    <2>4. \A i, j \in 1..Len(submissions) : i # j => submissions[i] # submissions[j]
      BY <1>0 DEF DataFits
    <2>. QED
      BY <1>1, <1>5, <1>6, <2>1, <2>2, <2>3, <2>4 DEF DataFits
  <1>10. ActiveFits'
    <2>1. active' \in [package : Nat, submission : Nat, review : Nat]
      <3>1. active \in [package : Nat, submission : Nat, review : Nat]
        BY <1>0 DEF ActiveFits
      <3>2. n + 1 \in Nat
        BY <1>6
      <3>3. active' = [active EXCEPT !.review = n + 1]
        BY <1>1
      <3>. QED
        BY <3>1, <3>2, <3>3
    <2>2. active'.submission = active.submission /\ active'.review = n + 1
      BY <1>0, <1>1 DEF ActiveFits
    <2>. QED
      BY <1>0, <1>1, <1>6, <2>1, <2>2 DEF ActiveFits
  <1>11. CallsFit'
    <2>1. \A i \in 1..Len(submissions) : i \in 1..Len(submissions') /\ submissions'[i] = submissions[i]
      BY <1>1
    <2>. QED
      BY <1>0, <1>1, <1>4, <2>1, CompletedLeaves
  <1>12. OrderFits'
    <2>. PICK x : x = NoCall
      OBVIOUS
    <2>1. doing' = [doing EXCEPT ![s] = x]
      BY <1>1 DEF Leaves
    <2>2. ASSUME ~overlapped' PROVE Alone(s) /\ Readable' /\ Undisturbed(x)'
      <3>1. c.at # "idle" /\ ~overlapped
        BY <1>1, <2>2
      <3>2. Alone(s) /\ Readable /\ Undisturbed(c)
        BY <1>0, <3>1, BusyAlone
      <3>3. active'.package = active.package /\ active'.review = n + 1 /\ active'.submission = active.submission
        BY <1>0, <1>1 DEF ActiveFits
      <3>4. c.on = active.submission /\ active.package # 0
        BY <1>1, <3>2 DEF Undisturbed, Judging
      <3>5. Readable'
        BY <1>1, <1>2, <1>6, <3>2, <3>3, <3>4 DEF Readable
      <3>. QED
        BY <3>2, <3>5, NoCallFits
    <2>. QED
      BY <1>0, <2>1, <2>2, OrderMoves
  <1>. QED
    BY <1>9, <1>10, <1>11, <1>12 DEF AnswerInv

\* Answers are recorded once for a package and judged once in one way, beside
\* the package they are for, and calls that do not overlap leave a workspace
\* that loads: GrwM1Service, for any sessions, answers and decisions.
THEOREM AnswersSoundHolds == AnswerSpec => []AnswersSound
  <1>1. ASSUME AnswerInv, [AnswerNext]_answerVars PROVE AnswerInv'
    <2>1. ASSUME NEW s \in Sessions, NEW a \in Answers, Answer(s, a) PROVE AnswerInv'
      BY <1>1, <2>1, AnswerKeeps
    <2>2. ASSUME NEW s \in Sessions, NEW d \in Decisions, Judge(s, d) PROVE AnswerInv'
      BY <1>1, <2>2, JudgeKeeps
    <2>3. ASSUME NEW s \in Sessions, BeginAnswer(s) PROVE AnswerInv'
      BY <1>1, <2>3, BeginAnswerKeeps
    <2>4. ASSUME NEW s \in Sessions, SaveAnswer(s) PROVE AnswerInv'
      BY <1>1, <2>4, SaveAnswerKeeps
    <2>5. ASSUME NEW s \in Sessions, Prove(s) PROVE AnswerInv'
      BY <1>1, <2>5, ProveKeeps
    <2>6. ASSUME NEW s \in Sessions, SaveReview(s) PROVE AnswerInv'
      BY <1>1, <2>6, SaveReviewKeeps
    <2>7. ASSUME NEW s \in Sessions, Interrupted(s) PROVE AnswerInv'
      BY <1>1, <2>7, InterruptedKeeps
    <2>8. CASE ReplaceBasis
      BY <1>1, <2>8, ReplaceBasisKeeps
    <2>9. CASE PackageAgain
      BY <1>1, <2>9, PackageAgainKeeps
    <2>10. CASE UNCHANGED answerVars
      <3>1. /\ submissions' = submissions /\ reviews' = reviews /\ started' = started
            /\ doing' = doing /\ overlapped' = overlapped /\ active' = active
            /\ package' = package /\ ready' = ready
        BY <2>10 DEF answerVars
      <3>2. DataFits' /\ ActiveFits'
        BY <1>1, <3>1 DEF AnswerInv, DataFits, ActiveFits, StatusAt
      <3>3. CallsFit'
        BY <1>1, <3>1 DEF AnswerInv, CallsFit, DoingFits, Begun, Judging, Submitting, OpKey, StatusAt
      <3>4. OrderFits'
        BY <1>1, <3>1 DEF AnswerInv, OrderFits, Readable, Undisturbed, Judging, Submitting
      <3>. QED
        BY <3>2, <3>3, <3>4 DEF AnswerInv
    <2>. QED
      BY <1>1, <2>1, <2>2, <2>3, <2>4, <2>5, <2>6, <2>7, <2>8, <2>9, <2>10 DEF AnswerNext
  <1>2. ASSUME AnswerInv PROVE AnswersSound
    <2>1. DOMAIN submissions = 1..Len(submissions) /\ DOMAIN reviews = 1..Len(reviews)
      BY <1>2, Lengths DEF AnswerInv
    <2>2. AnswersStand
      BY <1>2, <2>1 DEF AnswerInv, DataFits, AnswersStand
    <2>3. LoadsUnlessOverlapped
      BY <1>2 DEF AnswerInv, OrderFits, LoadsUnlessOverlapped
    <2>. QED
      BY <2>2, <2>3 DEF AnswersSound
  <1>. QED
    BY AnswerInitInv, <1>1, <1>2, PTL DEF AnswerSpec
=============================================================================
