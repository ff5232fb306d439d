---------------------------- MODULE FormalProofs -----------------------------
(***************************************************************************)
(* Proofs about the formal assessment runs, for any number of runs,        *)
(* attempts and callers who interleave, repeat their requests and crash,   *)
(* and about the draft an attempt is prepared in, for any fields, values   *)
(* and candidates.                                                         *)
(***************************************************************************)
EXTENDS FormalProperties, FormalDraft, SequenceTheorems, FiniteSetTheorems, TLAPS

AttemptRecord ==
  [status : Statuses, record : {"none", "result", "failure"}, engine : Nat, request : Requests]

(***************************************************************************)
(* The inductive invariant                                                 *)
(***************************************************************************)
Exists(at) == at \in Results /\ at[2] \in 1 .. Len(attempts[at[1]])

\* Status, record, engine and the rows tell the same of an attempt.
AttemptFits(at) ==
  /\ Attempt(at).engine \in {0, 1}
  /\ Attempt(at).status \in {"RUNNING", "INTERRUPTED"} => Attempt(at).record = "none"
  /\ Attempt(at).status = "COMPLETED_PENDING_REVIEW" <=> Attempt(at).record = "result"
  /\ Attempt(at).record = "result" => Attempt(at).engine = 1
  /\ at \in Stored <=> Attempt(at).record = "result"

AttemptsFit == \A at \in Results : Exists(at) => AttemptFits(at)

RowsFit ==
  /\ \A i \in 1 .. Len(rows) : Exists(rows[i])
  /\ \A i, j \in 1 .. Len(rows) : rows[i] = rows[j] => i = j

Running(x) == x.pc \in {"engine", "append"}
Finishing(x) ==
  \/ x.pc \in {"guide", "heads", "supersede", "link"}
  \/ x.pc = "idle" /\ x.at # << >>

\* The attempt to create continues one that is over; one attempt is run by one
\* caller, and whoever was answered was answered from the store.
Over == {"RETRY_AVAILABLE", "ABANDONED"}
Fits(x) ==
  /\ x.pc = "create" =>
       /\ x.at[2] - 1 <= Len(attempts[x.at[1]])
       /\ x.at[2] > 1 => attempts[x.at[1]][x.at[2] - 1].status \in Over
  /\ x.pc \in {"engine", "append", "recover"} => Exists(x.at)
  /\ x.pc = "engine" => Attempt(x.at).engine = 0
  /\ x.pc = "append" => Attempt(x.at).engine = 1
  /\ Finishing(x) => x.at \in Stored
CallsFit == \A c \in Callers : Fits(call[c])
OneRunner ==
  \A c, d \in Callers :
    Running(call[c]) /\ Running(call[d]) /\ call[c].at = call[d].at => c = d

FormalInv == FormalTypeOK /\ OneLiveAttempt /\ AttemptsFit /\ RowsFit /\ CallsFit /\ OneRunner

LEMMA InitFormalInv == Init => FormalInv
<1> SUFFICES ASSUME Init PROVE FormalInv
  OBVIOUS
<1> USE BoundsAssumption DEF Init
<1>1. \A c \in Callers : call[c] = Notice
  OBVIOUS
<1>2. Notice \in Calls
  BY DEF Notice, InCall, Calls
<1>3. FormalTypeOK
  <2>1. call \in [Callers -> Calls]
    BY <1>2
  <2>2. \A c \in Callers : CallOK(call[c])
    BY <1>1, <1>2 DEF CallOK, Notice, InCall
  <2> QED
    BY <2>1, <2>2 DEF FormalTypeOK
<1>4. OneLiveAttempt /\ AttemptsFit /\ RowsFit
  <2>1. \A at \in Results : ~Exists(at)
    BY DEF Exists, Results
  <2> QED
    BY <2>1 DEF OneLiveAttempt, AttemptsFit, RowsFit
<1>5. CallsFit /\ OneRunner
  BY <1>1 DEF CallsFit, Fits, OneRunner, Running, Finishing, Notice, InCall
<1> QED
  BY <1>3, <1>4, <1>5 DEF FormalInv

(***************************************************************************)
(* What a step does to the attempts                                        *)
(***************************************************************************)
LEMMA ResultIsPair ==
  ASSUME NEW at \in Results
  PROVE  /\ at[1] \in Runs /\ at[2] \in 1 .. MaxAttempts[at[1]]
         /\ MaxAttempts[at[1]] \in Nat \ {0} /\ at[2] \in Nat \ {0}
         /\ at = <<at[1], at[2]>>
BY BoundsAssumption DEF Results

LEMMA PairIsResult ==
  ASSUME NEW r \in Runs, NEW n \in 1 .. MaxAttempts[r]
  PROVE  <<r, n>> \in Results /\ <<r, n>>[1] = r /\ <<r, n>>[2] = n
BY DEF Results

LEMMA StoredAttempts ==
  ASSUME FormalTypeOK
  PROVE  /\ \A r \in Runs : /\ attempts[r] \in Seq(AttemptRecord)
                             /\ Len(attempts[r]) \in Nat
                             /\ Len(attempts[r]) <= MaxAttempts[r]
                             /\ \A n \in 1 .. Len(attempts[r]) :
                                  attempts[r][n] \in AttemptRecord /\ <<r, n>> \in Results
         /\ \A at \in Results : Exists(at) => Attempt(at) \in AttemptRecord
<1>1. attempts \in [Runs -> Seq(AttemptRecord)]
  BY DEF FormalTypeOK, AttemptRecord
<1>2. ASSUME NEW r \in Runs
      PROVE  /\ attempts[r] \in Seq(AttemptRecord) /\ Len(attempts[r]) \in Nat
             /\ Len(attempts[r]) <= MaxAttempts[r]
             /\ \A n \in 1 .. Len(attempts[r]) :
                  attempts[r][n] \in AttemptRecord /\ <<r, n>> \in Results
  <2>1. attempts[r] \in Seq(AttemptRecord) /\ Len(attempts[r]) <= MaxAttempts[r]
    BY <1>1 DEF FormalTypeOK
  <2>2. \A n \in 1 .. Len(attempts[r]) : attempts[r][n] \in AttemptRecord
    BY <2>1, ElementOfSeq
  <2>3. \A n \in 1 .. Len(attempts[r]) : <<r, n>> \in Results
    BY <2>1, BoundsAssumption DEF Results
  <2> QED
    BY <2>1, <2>2, <2>3, LenProperties
<1>3. \A at \in Results : Exists(at) => Attempt(at) \in AttemptRecord
  BY <1>2, ResultIsPair DEF Exists, Attempt
<1> QED
  BY <1>2, <1>3

\* Creating an attempt appends it and touches no other.
LEMMA CreatedAttempt ==
  ASSUME FormalTypeOK, NEW at \in Results, NEW request \in Requests,
         Len(attempts[at[1]]) = at[2] - 1,
         attempts' = [attempts EXCEPT ![at[1]] =
                        SubSeq(attempts[at[1]], 1, at[2] - 1) \o <<StartedBy(request)>>]
  PROVE  /\ attempts' \in [Runs -> Seq(AttemptRecord)]
         /\ attempts'[at[1]] = Append(attempts[at[1]], StartedBy(request))
         /\ Len(attempts'[at[1]]) = at[2]
         /\ \A n \in 1 .. at[2] - 1 : attempts'[at[1]][n] = attempts[at[1]][n]
         /\ attempts'[at[1]][at[2]] = StartedBy(request)
         /\ \A r \in Runs \ {at[1]} : attempts'[r] = attempts[r]
         /\ StartedBy(request) \in AttemptRecord
<1> DEFINE old == attempts[at[1]]
           new == SubSeq(old, 1, at[2] - 1) \o <<StartedBy(request)>>
<1>1. StartedBy(request) \in AttemptRecord
  BY DEF StartedBy, AttemptRecord, Statuses
<1>2. at[1] \in Runs /\ at[2] \in Nat \ {0} /\ old \in Seq(AttemptRecord)
  BY ResultIsPair, StoredAttempts
<1>3. attempts \in [Runs -> Seq(AttemptRecord)]
  BY DEF FormalTypeOK, AttemptRecord
<1>4. SubSeq(old, 1, at[2] - 1) = old
  BY <1>2
<1> DEFINE e == StartedBy(request)
<1>5. new = Append(old, e)
  <2> HIDE DEF old, e
  <2>1. old \o <<e>> = Append(old, e)
    BY <1>1, <1>2
  <2> QED
    BY <2>1, <1>4 DEF e
<1>6. /\ new \in Seq(AttemptRecord) /\ Len(new) = at[2] /\ new[at[2]] = StartedBy(request)
      /\ \A n \in 1 .. at[2] - 1 : new[n] = old[n]
  <2> HIDE DEF old, e, new
  <2> QED
    BY <1>1, <1>2, <1>5, AppendProperties, ResultIsPair DEF e, old
<1> QED
  BY <1>1, <1>2, <1>3, <1>5, <1>6

\* An event changes one attempt in place.
LEMMA ChangedAttempt ==
  ASSUME FormalTypeOK, NEW at, Exists(at), NEW b \in AttemptRecord,
         attempts' = [attempts EXCEPT ![at[1]] = [attempts[at[1]] EXCEPT ![at[2]] = b]]
  PROVE  /\ attempts' \in [Runs -> Seq(AttemptRecord)]
         /\ \A r \in Runs : Len(attempts'[r]) = Len(attempts[r])
         /\ attempts'[at[1]][at[2]] = b
         /\ \A n \in 1 .. Len(attempts[at[1]]) :
              n # at[2] => attempts'[at[1]][n] = attempts[at[1]][n]
         /\ \A r \in Runs \ {at[1]} : attempts'[r] = attempts[r]
<1> DEFINE old == attempts[at[1]]
           new == [old EXCEPT ![at[2]] = b]
<1>1. at \in Results /\ at[1] \in Runs /\ at[2] \in 1 .. Len(old) /\ old \in Seq(AttemptRecord)
  BY ResultIsPair, StoredAttempts DEF Exists
<1>2. attempts \in [Runs -> Seq(AttemptRecord)]
  BY DEF FormalTypeOK, AttemptRecord
<1>3. /\ new \in Seq(AttemptRecord) /\ Len(new) = Len(old) /\ new[at[2]] = b
      /\ \A n \in 1 .. Len(old) : n # at[2] => new[n] = old[n]
  BY <1>1
<1> QED
  BY <1>1, <1>2, <1>3

(***************************************************************************)
(* What a step of one call leaves of the others                            *)
(***************************************************************************)
\* Every other call still fits when an attempt was created, when one changed
\* without coming back to life, and when nothing changed.
LEMMA FitsWhenUntouched ==
  ASSUME attempts' = attempts, rows' = rows
  PROVE  /\ \A x : Fits(x) => Fits(x)'
         /\ OneLiveAttempt => OneLiveAttempt'
         /\ AttemptsFit => AttemptsFit'
         /\ RowsFit => RowsFit'
BY DEF Fits, OneLiveAttempt, AttemptsFit, AttemptFits, RowsFit, Exists, Attempt, Stored, Finishing

LEMMA FitsWhenCreated ==
  ASSUME FormalTypeOK, NEW at \in Results, NEW request \in Requests,
         Len(attempts[at[1]]) = at[2] - 1, rows' = rows,
         attempts' = [attempts EXCEPT ![at[1]] =
                        SubSeq(attempts[at[1]], 1, at[2] - 1) \o <<StartedBy(request)>>],
         NEW x \in Calls, CallOK(x), Fits(x)
  PROVE  Fits(x)'
<1>1. \A b \in Results : Exists(b) => Exists(b)' /\ Attempt(b)' = Attempt(b)
  BY CreatedAttempt, ResultIsPair, SMTT(30) DEF Exists, Attempt
<1>2. ASSUME x.pc = "create"
      PROVE  /\ x.at[2] - 1 <= Len(attempts'[x.at[1]])
             /\ x.at[2] > 1 => attempts'[x.at[1]][x.at[2] - 1].status \in Over
  <2>1. x.at \in Results /\ x.at[1] \in Runs /\ x.at[2] \in Nat \ {0}
    BY <1>2, ResultIsPair DEF CallOK
  <2>2. CASE x.at[1] = at[1]
    <3> DEFINE y == x.at
    <3>1. /\ at[2] \in Nat \ {0} /\ Len(attempts'[at[1]]) = at[2]
          /\ \A n \in 1 .. at[2] - 1 : attempts'[at[1]][n] = attempts[at[1]][n]
      BY CreatedAttempt, ResultIsPair
    <3>2. /\ y[2] - 1 <= at[2] - 1
          /\ y[2] > 1 => attempts[at[1]][y[2] - 1].status \in Over
      BY <1>2, <2>2 DEF Fits
    <3>3. y[2] \in Nat \ {0} /\ y[1] = at[1]
      BY <2>1, <2>2
    <3> HIDE DEF y
    <3>4. y[2] > 1 => y[2] - 1 \in 1 .. at[2] - 1
      BY <3>1, <3>2, <3>3
    <3>5. y[2] > 1 => attempts'[y[1]][y[2] - 1].status \in Over
      BY <3>1, <3>2, <3>3, <3>4
    <3>6. y[2] - 1 <= Len(attempts'[y[1]])
      BY <3>1, <3>2, <3>3
    <3> QED
      BY <3>5, <3>6 DEF y
  <2>3. CASE x.at[1] # at[1]
    BY <1>2, <2>1, <2>3, CreatedAttempt DEF Fits
  <2> QED
    BY <2>2, <2>3
<1>3. x.pc \in {"engine", "append", "recover"} =>
        x.at \in Results /\ Exists(x.at) /\ Exists(x.at)' /\ Attempt(x.at)' = Attempt(x.at)
  BY <1>1 DEF Fits, Exists
<1>4. Stored' = Stored
  BY DEF Stored
<1> QED
  BY <1>2, <1>3, <1>4 DEF Fits, Finishing, Exists, Attempt

LEMMA FitsWhenChanged ==
  ASSUME FormalTypeOK, NEW at, Exists(at), NEW b \in AttemptRecord,
         attempts' = [attempts EXCEPT ![at[1]] = [attempts[at[1]] EXCEPT ![at[2]] = b]],
         Attempt(at).status \in Over => b.status \in Over,
         Stored \subseteq Stored',
         NEW x \in Calls, CallOK(x), Fits(x),
         Running(x) => x.at # at \/ b.engine = Attempt(at).engine
  PROVE  Fits(x)'
<1>0. at \in Results /\ at[1] \in Runs /\ at[2] \in 1 .. Len(attempts[at[1]])
  BY ResultIsPair DEF Exists
<1>1. \A y \in Results : Exists(y) => /\ Exists(y)'
                                    /\ (y # at => Attempt(y)' = Attempt(y))
  BY <1>0, ChangedAttempt, ResultIsPair DEF Exists, Attempt
<1>2. Attempt(at)' = b
  BY <1>0, ChangedAttempt DEF Attempt
<1>3. ASSUME x.pc = "create"
      PROVE  /\ x.at[2] - 1 <= Len(attempts'[x.at[1]])
             /\ x.at[2] > 1 => attempts'[x.at[1]][x.at[2] - 1].status \in Over
  <2> DEFINE y == x.at
  <2>1. y \in Results /\ y[1] \in Runs /\ y[2] \in Nat \ {0} /\ Len(attempts[y[1]]) \in Nat
    BY <1>3, ResultIsPair, StoredAttempts DEF CallOK
  <2>2. y[2] - 1 <= Len(attempts[y[1]]) /\ Len(attempts'[y[1]]) = Len(attempts[y[1]])
    BY <1>3, <2>1, ChangedAttempt DEF Fits
  <2>3. ASSUME y[2] > 1 PROVE attempts'[y[1]][y[2] - 1].status \in Over
    <3>1. attempts[y[1]][y[2] - 1].status \in Over /\ y[2] - 1 \in 1 .. Len(attempts[y[1]])
      BY <1>3, <2>1, <2>2, <2>3 DEF Fits
    <3>2. CASE y[1] = at[1] /\ y[2] - 1 = at[2]
      BY <3>1, <3>2, <1>0, ChangedAttempt DEF Attempt
    <3>3. CASE ~(y[1] = at[1] /\ y[2] - 1 = at[2])
      <4>1. attempts'[y[1]][y[2] - 1] = attempts[y[1]][y[2] - 1]
        BY <3>1, <3>3, <2>1, <1>0, ChangedAttempt
      <4> QED
        BY <3>1, <4>1
    <3> QED
      BY <3>2, <3>3
  <2> QED
    BY <2>2, <2>3
<1>4. x.pc \in {"engine", "append", "recover"} =>
        x.at \in Results /\ Exists(x.at) /\ Exists(x.at)'
  BY <1>1 DEF Fits, Exists
<1>5. Running(x) => Attempt(x.at)'.engine = Attempt(x.at).engine
  BY <1>1, <1>2, <1>4 DEF Running
<1> QED
  BY <1>3, <1>4, <1>5 DEF Fits, Finishing, Exists, Attempt, Running

\* What the transactions leave of the store.
LEMMA StoreWhenCreated ==
  ASSUME FormalTypeOK, NEW at \in Results, NEW request \in Requests,
         Len(attempts[at[1]]) = at[2] - 1, rows' = rows,
         attempts' = [attempts EXCEPT ![at[1]] =
                        SubSeq(attempts[at[1]], 1, at[2] - 1) \o <<StartedBy(request)>>],
         at[2] > 1 => attempts[at[1]][at[2] - 1].status \in Over,
         OneLiveAttempt, AttemptsFit, RowsFit
  PROVE  OneLiveAttempt' /\ AttemptsFit' /\ RowsFit'
<1> DEFINE new == StartedBy(request)
<1>1. /\ at[1] \in Runs /\ at[2] \in Nat \ {0} /\ Len(attempts'[at[1]]) = at[2]
      /\ attempts'[at[1]][at[2]] = new
      /\ \A n \in 1 .. at[2] - 1 : attempts'[at[1]][n] = attempts[at[1]][n]
      /\ \A r \in Runs \ {at[1]} : attempts'[r] = attempts[r]
  BY CreatedAttempt, ResultIsPair
<1>2. OneLiveAttempt'
  <2> SUFFICES ASSUME NEW r \in Runs, NEW n \in 1 .. Len(attempts'[r]), n < Len(attempts'[r])
               PROVE  attempts'[r][n].status \in Over
    BY DEF OneLiveAttempt, Over
  <2>1. CASE r # at[1]
    BY <1>1, <2>1 DEF OneLiveAttempt, Over
  <2>2. CASE r = at[1]
    <3>1. n \in 1 .. at[2] - 1 /\ attempts'[r][n] = attempts[at[1]][n]
      BY <1>1, <2>2
    <3>2. CASE n = at[2] - 1
      <4>1. at[2] > 1
        BY <1>1, <3>1, <3>2
      <4>2. attempts[at[1]][n].status \in Over
        BY <3>2, <4>1
      <4> QED
        BY <3>1, <4>2
    <3>3. CASE n < at[2] - 1
      BY <1>1, <3>1, <3>3 DEF OneLiveAttempt, Over
    <3> QED
      BY <1>1, <3>1, <3>2, <3>3
  <2> QED
    BY <2>1, <2>2
<1>3. \A y \in Results : Exists(y) => Exists(y)' /\ Attempt(y)' = Attempt(y)
  BY CreatedAttempt, ResultIsPair, SMTT(30) DEF Exists, Attempt
<1>4. \A y \in Results : Exists(y)' => Exists(y) \/ y = at
  BY <1>1, ResultIsPair DEF Exists
<1>5. ~Exists(at)
  BY <1>1 DEF Exists
<1>6. Stored' = Stored /\ at \notin Stored
  BY <1>5 DEF Stored, RowsFit
<1>7. AttemptFits(at)'
  <2>1. Attempt(at)' = new /\ at \notin Stored'
    BY <1>1, <1>6 DEF Attempt
  <2>2. new.engine = 0 /\ new.status = "RUNNING" /\ new.record = "none"
    BY DEF StartedBy
  <2> QED
    BY <2>1, <2>2 DEF AttemptFits
<1>8. AttemptsFit'
  BY <1>3, <1>4, <1>6, <1>7 DEF AttemptsFit, AttemptFits
<1>9. RowsFit'
  BY <1>3 DEF RowsFit, Exists
<1> QED
  BY <1>2, <1>8, <1>9

LEMMA StoreWhenChanged ==
  ASSUME FormalTypeOK, NEW at, Exists(at), NEW b \in AttemptRecord,
         attempts' = [attempts EXCEPT ![at[1]] = [attempts[at[1]] EXCEPT ![at[2]] = b]],
         Attempt(at).status \in Over => b.status \in Over,
         b.engine \in {0, 1},
         b.status \in {"RUNNING", "INTERRUPTED"} => b.record = "none",
         b.status = "COMPLETED_PENDING_REVIEW" <=> b.record = "result",
         b.record = "result" => b.engine = 1,
         at \in Stored' <=> b.record = "result",
         \A y : y # at => (y \in Stored' <=> y \in Stored),
         OneLiveAttempt, AttemptsFit
  PROVE  OneLiveAttempt' /\ AttemptsFit' /\ (\A y \in Results : Exists(y) => Exists(y)')
<1>1. /\ at \in Results /\ at[1] \in Runs /\ at[2] \in 1 .. Len(attempts[at[1]])
      /\ at = <<at[1], at[2]>> /\ attempts'[at[1]][at[2]] = b
      /\ \A r \in Runs : Len(attempts'[r]) = Len(attempts[r])
      /\ \A n \in 1 .. Len(attempts[at[1]]) :
           n # at[2] => attempts'[at[1]][n] = attempts[at[1]][n]
      /\ \A r \in Runs \ {at[1]} : attempts'[r] = attempts[r]
  BY ChangedAttempt, ResultIsPair DEF Exists
<1>2. OneLiveAttempt'
  <2> SUFFICES ASSUME NEW r \in Runs, NEW n \in 1 .. Len(attempts'[r]), n < Len(attempts'[r])
               PROVE  attempts'[r][n].status \in Over
    BY DEF OneLiveAttempt, Over
  <2>1. attempts[r][n].status \in Over /\ n \in 1 .. Len(attempts[r])
    BY <1>1 DEF OneLiveAttempt, Over
  <2>2. CASE r = at[1] /\ n = at[2]
    BY <1>1, <2>1, <2>2 DEF Attempt
  <2>3. CASE ~(r = at[1] /\ n = at[2])
    BY <1>1, <2>1, <2>3
  <2> QED
    BY <2>2, <2>3
<1>3. \A y \in Results : Exists(y)' <=> Exists(y)
  BY <1>1, ResultIsPair DEF Exists
<1>4. \A y \in Results : Exists(y) /\ y # at => Attempt(y)' = Attempt(y)
  BY <1>1, ResultIsPair DEF Exists, Attempt
<1>5. AttemptFits(at)'
  BY <1>1 DEF AttemptFits, Attempt
<1>6. ASSUME NEW y \in Results, Exists(y), y # at PROVE AttemptFits(y)'
  BY <1>4, <1>6 DEF AttemptFits, AttemptsFit
<1>7. AttemptsFit'
  BY <1>3, <1>5, <1>6 DEF AttemptsFit
<1> QED
  BY <1>2, <1>3, <1>7

\* A call that takes over from another call of the same caller.
LEMMA CallsWhenProceeding ==
  ASSUME FormalInv, NEW c \in Callers, NEW x, call' = [call EXCEPT ![c] = x],
         CallOK(x), Fits(x)',
         \A d \in Callers \ {c} : Fits(call[d])',
         Running(x) => \A d \in Callers \ {c} : Running(call[d]) => call[d].at # x.at
  PROVE  /\ call' \in [Callers -> Calls] /\ \A d \in Callers : CallOK(call'[d])
         /\ CallsFit' /\ OneRunner'
<1>1. call \in [Callers -> Calls] /\ \A d \in Callers : CallOK(call[d])
  BY DEF FormalInv, FormalTypeOK
<1>2. call'[c] = x /\ \A d \in Callers \ {c} : call'[d] = call[d]
  BY <1>1
<1>3. x \in Calls
  BY DEF CallOK
<1>4. call' \in [Callers -> Calls] /\ \A d \in Callers : CallOK(call'[d])
  BY <1>1, <1>2, <1>3
<1>5. CallsFit'
  <2>1. ASSUME NEW d \in Callers PROVE Fits(call[d])'
    <3>1. CASE d = c
      <4>1. call[d]' = x
        BY <1>2, <3>1
      <4> QED
        BY <4>1 DEF Fits
    <3>2. CASE d # c
      BY <3>2
    <3> QED
      BY <3>1, <3>2
  <2> QED
    BY <2>1 DEF CallsFit
<1>6. OneRunner'
  BY <1>2 DEF FormalInv, OneRunner, Running
<1> QED
  BY <1>4, <1>5, <1>6

(***************************************************************************)
(* The steps                                                               *)
(***************************************************************************)
LEMMA StoredExist ==
  ASSUME FormalInv
  PROVE  /\ Stored \subseteq Results /\ Heads \subseteq Stored
         /\ \A at \in Stored : Exists(at)
         /\ rows \in Seq(Results) /\ Len(rows) \in Nat
BY DEF FormalInv, FormalTypeOK, RowsFit, Stored, Heads, Exists

LEMMA NoticeFits ==
  ASSUME FormalInv PROVE CallOK(Notice) /\ Fits(Notice) /\ ~Running(Notice)
BY DEF Notice, InCall, Calls, CallOK, Fits, Running, Finishing

LEMMA FinishingFits ==
  ASSUME FormalInv, NEW at \in Stored, NEW pc \in {"idle", "guide", "heads"}
  PROVE  CallOK(InCall(pc, at)) /\ Fits(InCall(pc, at)) /\ ~Running(InCall(pc, at))
BY StoredExist DEF InCall, Calls, CallOK, Fits, Running, Finishing

\* A step that reads: nothing is stored of an attempt or a result.
LEMMA ReadingStep ==
  ASSUME FormalInv, NEW c \in Callers, NEW x, call' = [call EXCEPT ![c] = x],
         attempts' = attempts, rows' = rows,
         links' \subseteq Results \X Results, guided' \subseteq Results,
         CallOK(x), Fits(x), ~Running(x)
  PROVE  FormalInv'
<1>1. /\ \A y : Fits(y) => Fits(y)'
      /\ OneLiveAttempt' /\ AttemptsFit' /\ RowsFit'
  BY FitsWhenUntouched DEF FormalInv
<1>2. \A d \in Callers : Fits(call[d])
  BY DEF FormalInv, CallsFit
<1>3. /\ call' \in [Callers -> Calls] /\ \A d \in Callers : CallOK(call'[d])
      /\ CallsFit' /\ OneRunner'
  <2>1. Fits(x)'
    BY <1>1
  <2>2. \A d \in Callers \ {c} : Fits(call[d])'
    <3> SUFFICES ASSUME NEW d \in Callers \ {c} PROVE Fits(call[d])'
      OBVIOUS
    <3>1. call'[d] = call[d]
      OBVIOUS
    <3> QED
      BY <1>1, <1>2, <3>1 DEF Fits
  <2> QED
    BY <2>1, <2>2, CallsWhenProceeding
<1>4. FormalTypeOK'
  BY <1>3 DEF FormalInv, FormalTypeOK
<1> QED
  BY <1>1, <1>3, <1>4 DEF FormalInv

LEMMA AnswerStep ==
  ASSUME FormalInv, NEW c \in Callers, NEW at, Exists(at), Answer(c, at), UNCHANGED store
  PROVE  FormalInv'
<1>1. CASE Attempt(at).status = "COMPLETED_PENDING_REVIEW"
  <2>1. at \in Stored
    BY <1>1 DEF FormalInv, AttemptsFit, AttemptFits, Exists
  <2>2. call' = [call EXCEPT ![c] = InCall("guide", at)]
    BY <1>1 DEF Answer, Proceed
  <2> QED
    BY <2>1, <2>2, FinishingFits, ReadingStep DEF store, FormalInv, FormalTypeOK
<1>2. CASE Attempt(at).status # "COMPLETED_PENDING_REVIEW"
  BY <1>2, NoticeFits, ReadingStep DEF Answer, Proceed, store, FormalInv, FormalTypeOK
<1> QED
  BY <1>1, <1>2

LEMMA NoticeStep ==
  ASSUME FormalInv, NEW c \in Callers, Proceed(c, Notice), UNCHANGED store
  PROVE  FormalInv'
BY NoticeFits, ReadingStep DEF Proceed, store, FormalInv, FormalTypeOK

\* Every attempt that a request counts is one of a run.
LEMMA CountedExists ==
  ASSUME FormalInv, NEW r \in Runs, NEW n \in 1 .. Len(attempts[r])
  PROVE  Exists(<<r, n>>) /\ <<r, n>> \in Results /\ n \in Nat
BY StoredAttempts DEF FormalInv, Exists

\* An attempt may be created next if the one before it is over.
LEMMA CreatingFits ==
  ASSUME FormalInv, NEW at \in Results, NEW request \in Requests,
         at[2] - 1 <= Len(attempts[at[1]]),
         at[2] > 1 => attempts[at[1]][at[2] - 1].status \in Over
  PROVE  LET x == [InCall("create", at) EXCEPT !.request = request] IN
         CallOK(x) /\ Fits(x) /\ ~Running(x)
BY DEF InCall, Calls, CallOK, Fits, Running, Finishing

LEMMA ExecuteStep ==
  ASSUME FormalInv, NEW c \in Callers, NEW r \in Runs, Execute(c, r)
  PROVE  FormalInv'
<1>1. CASE attempts[r] # << >> /\ Answer(c, <<r, 1>>)
  <2>1. 1 \in 1 .. Len(attempts[r])
    BY <1>1, StoredAttempts, EmptySeq DEF FormalInv
  <2> QED
    BY <1>1, <2>1, CountedExists, AnswerStep DEF Execute
<1>2. CASE /\ attempts[r] = << >>
           /\ Proceed(c, [InCall("create", <<r, 1>>) EXCEPT !.request = DraftRequest(r)])
  <2>1. <<r, 1>> \in Results /\ DraftRequest(r) \in Requests
    BY BoundsAssumption DEF Results, DraftRequest, Requests
  <2>2. <<r, 1>>[2] - 1 <= Len(attempts[<<r, 1>>[1]]) /\ ~(<<r, 1>>[2] > 1)
    BY <1>2
  <2> QED
    BY <1>2, <2>1, <2>2, CreatingFits, ReadingStep DEF Execute, Proceed, store, FormalInv, FormalTypeOK
<1>3. CASE Proceed(c, Notice)
  BY <1>3, NoticeStep DEF Execute
<1> QED
  BY <1>1, <1>2, <1>3 DEF Execute

LEMMA RetryStep ==
  ASSUME FormalInv, NEW c \in Callers, NEW r \in Runs, Retry(c, r)
  PROVE  FormalInv'
<1>1. PICK shown \in 1 .. Latest(r) :
        LET request == ActionRequest(c, shown)
            tried == { n \in 1 .. Latest(r) : attempts[r][n].request = request }
        IN  IF Latest(r) \in tried THEN Answer(c, <<r, Latest(r)>>)
            ELSE IF tried # {} \/ attempts[r][Latest(r)].status # "RETRY_AVAILABLE"
                 THEN Proceed(c, Notice)
            ELSE /\ Latest(r) < MaxAttempts[r]
                 /\ \/ Proceed(c, [InCall("create", <<r, Latest(r) + 1>>)
                                     EXCEPT !.request = request])
                    \/ Proceed(c, Notice)
  BY DEF Retry
<1>2. UNCHANGED store
  BY DEF Retry
<1>3. Latest(r) \in Nat /\ Latest(r) \in 1 .. Latest(r)
  BY <1>1, StoredAttempts DEF Latest, FormalInv
<1>4. CASE Answer(c, <<r, Latest(r)>>)
  BY <1>2, <1>3, <1>4, CountedExists, AnswerStep DEF Latest
<1>5. CASE Proceed(c, Notice)
  BY <1>2, <1>5, NoticeStep
<1>6. CASE /\ Latest(r) < MaxAttempts[r] /\ attempts[r][Latest(r)].status = "RETRY_AVAILABLE"
           /\ Proceed(c, [InCall("create", <<r, Latest(r) + 1>>)
                            EXCEPT !.request = ActionRequest(c, shown)])
  <2> DEFINE at == <<r, Latest(r) + 1>>
  <2>1. at \in Results /\ at[1] = r /\ at[2] = Latest(r) + 1
    BY <1>3, <1>6, BoundsAssumption DEF Results
  <2>2. ActionRequest(c, shown) \in Requests
    BY <1>1, <1>3 DEF ActionRequest, Requests
  <2>3. at[2] - 1 <= Len(attempts[at[1]]) /\ attempts[at[1]][at[2] - 1].status \in Over
    BY <1>3, <1>6, <2>1 DEF Latest, Over
  <2> QED
    BY <1>2, <1>6, <2>1, <2>2, <2>3, CreatingFits, ReadingStep
       DEF Proceed, store, FormalInv, FormalTypeOK
<1> QED
  BY <1>1, <1>4, <1>5, <1>6

LEMMA RecoverStep ==
  ASSUME FormalInv, NEW c \in Callers, NEW r \in Runs, Recover(c, r)
  PROVE  FormalInv'
<1> DEFINE at == <<r, Latest(r)>>
<1>1. UNCHANGED store
  BY DEF Recover
<1>2. CASE Proceed(c, Notice)
  BY <1>1, <1>2, NoticeStep
<1>3. CASE attempts[r] # << >> /\ Answer(c, at)
  <2>1. Latest(r) \in 1 .. Len(attempts[r])
    BY <1>3, StoredAttempts, EmptySeq DEF Latest, FormalInv
  <2> QED
    BY <1>1, <1>3, <2>1, CountedExists, AnswerStep
<1>4. ASSUME attempts[r] # << >>, NEW operation \in DOMAIN Recoveries,
             Attempt(at).status \in Recoveries[operation].allowed,
             Proceed(c, [InCall("recover", at) EXCEPT !.seen = Attempt(at).status,
                                                      !.to = Recoveries[operation].target])
      PROVE  FormalInv'
  <2> DEFINE x == [InCall("recover", at) EXCEPT !.seen = Attempt(at).status,
                                                !.to = Recoveries[operation].target]
  <2>1. Exists(at) /\ at \in Results
    <3>1. Latest(r) \in 1 .. Len(attempts[r])
      BY <1>4, StoredAttempts, EmptySeq DEF Latest, FormalInv
    <3> QED
      BY <3>1, CountedExists
  <2>2. Attempt(at).status \in Statuses /\ Recoveries[operation].target \in Statuses
    BY <1>4, <2>1, StoredAttempts DEF FormalInv, AttemptRecord, Recoveries, Statuses
  <2>3. x.pc = "recover" /\ x.at = at /\ x \in Calls
        /\ x.seen = Attempt(at).status /\ x.to = Recoveries[operation].target
    BY <2>1, <2>2 DEF InCall, Calls
  <2>4. CallOK(x) /\ Fits(x) /\ ~Running(x)
    BY <1>4, <2>1, <2>3 DEF CallOK, Fits, Running, Finishing
  <2> QED
    BY <1>1, <1>4, <2>4, ReadingStep DEF Proceed, store, FormalInv, FormalTypeOK
<1> QED
  BY <1>2, <1>3, <1>4 DEF Recover

\* What the caller of a step works on.
LEMMA CallerFacts ==
  ASSUME FormalInv, NEW c \in Callers
  PROVE  /\ call[c] \in Calls /\ CallOK(call[c]) /\ Fits(call[c])
         /\ \A d \in Callers \ {c} : call[d] \in Calls /\ CallOK(call[d]) /\ Fits(call[d])
         /\ call[c].pc \in {"engine", "append", "recover"} =>
              /\ Exists(call[c].at) /\ AttemptFits(call[c].at)
              /\ Attempt(call[c].at) \in AttemptRecord
BY StoredAttempts DEF FormalInv, FormalTypeOK, CallsFit, Fits, AttemptsFit, Exists

LEMMA CreatingStep ==
  ASSUME FormalInv, NEW c \in Callers, NEW at \in Results, NEW request \in Requests,
         Len(attempts[at[1]]) = at[2] - 1,
         at[2] > 1 => attempts[at[1]][at[2] - 1].status \in Over,
         attempts' = [attempts EXCEPT ![at[1]] =
                        SubSeq(attempts[at[1]], 1, at[2] - 1) \o <<StartedBy(request)>>],
         call' = [call EXCEPT ![c] = InCall("engine", at)],
         rows' = rows, links' = links, guided' = guided
  PROVE  FormalInv'
<1>1. FormalTypeOK /\ OneLiveAttempt /\ AttemptsFit /\ RowsFit
  BY DEF FormalInv
<1>2. OneLiveAttempt' /\ AttemptsFit' /\ RowsFit'
  BY <1>1, StoreWhenCreated
<1>3. /\ attempts' \in [Runs -> Seq(AttemptRecord)] /\ Len(attempts'[at[1]]) = at[2]
      /\ attempts'[at[1]][at[2]] = StartedBy(request)
      /\ \A r \in Runs \ {at[1]} : attempts'[r] = attempts[r]
  BY <1>1, CreatedAttempt
<1>4. \A d \in Callers \ {c} : Fits(call[d])'
  <2> SUFFICES ASSUME NEW d \in Callers \ {c} PROVE Fits(call[d])'
    OBVIOUS
  <2>1. call[d] \in Calls /\ CallOK(call[d]) /\ Fits(call[d]) /\ call'[d] = call[d]
    BY CallerFacts
  <2>2. ASSUME NEW z \in Calls, CallOK(z), Fits(z) PROVE Fits(z)'
    BY <1>1, <2>2, FitsWhenCreated
  <2> QED
    BY <2>1, <2>2 DEF Fits
<1> DEFINE x == InCall("engine", at)
<1>5. x \in Calls /\ CallOK(x) /\ x.pc = "engine" /\ x.at = at
  BY DEF InCall, Calls, CallOK
<1>6. Exists(at)' /\ Attempt(at)'.engine = 0
  BY <1>3, ResultIsPair DEF Exists, Attempt, StartedBy
<1>7. Fits(x)'
  BY <1>5, <1>6 DEF Fits, Finishing, Exists, Attempt
<1>8. ASSUME NEW d \in Callers \ {c}, Running(call[d]) PROVE call[d].at # at
  <2>1. Exists(call[d].at)
    BY <1>8, CallerFacts DEF Running, Fits
  <2>2. ~Exists(at)
    BY ResultIsPair DEF Exists
  <2> QED
    BY <2>1, <2>2
<1>9. /\ call' \in [Callers -> Calls] /\ \A d \in Callers : CallOK(call'[d])
      /\ CallsFit' /\ OneRunner'
  BY <1>4, <1>5, <1>7, <1>8, CallsWhenProceeding
<1>10. ASSUME NEW r \in Runs PROVE Len(attempts'[r]) <= MaxAttempts[r]
  <2>1. CASE r = at[1]
    BY <1>3, <2>1, ResultIsPair
  <2>2. CASE r # at[1]
    BY <1>1, <1>3, <2>2, StoredAttempts
  <2> QED
    BY <2>1, <2>2
<1>11. FormalTypeOK'
  BY <1>1, <1>3, <1>9, <1>10 DEF FormalTypeOK, AttemptRecord
<1> QED
  BY <1>2, <1>9, <1>11 DEF FormalInv

LEMMA CreateStep ==
  ASSUME FormalInv, NEW c \in Callers, Create(c)
  PROVE  FormalInv'
<1>1. CASE Proceed(c, Notice) /\ UNCHANGED attempts
  BY <1>1, NoticeStep DEF Create, store
<1>2. CASE ~(Proceed(c, Notice) /\ UNCHANGED attempts)
  <2>1. PICK at, request :
          /\ at = call[c].at /\ request = call[c].request
          /\ call[c].pc = "create" /\ Len(attempts[at[1]]) = at[2] - 1
          /\ attempts' = [attempts EXCEPT ![at[1]] =
                            SubSeq(attempts[at[1]], 1, at[2] - 1) \o <<StartedBy(request)>>]
          /\ call' = [call EXCEPT ![c] = InCall("engine", at)]
          /\ rows' = rows /\ links' = links /\ guided' = guided
    BY <1>2 DEF Create, Vacant, At, Proceed
  <2>2. /\ at \in Results /\ request \in Requests
        /\ at[2] > 1 => attempts[at[1]][at[2] - 1].status \in Over
    BY <2>1, CallerFacts DEF CallOK, Fits
  <2> QED
    BY <2>1, <2>2, CreatingStep
<1> QED
  BY <1>1, <1>2

\* The three steps that change an attempt in place.
LEMMA ChangingStep ==
  ASSUME FormalInv, NEW c \in Callers, NEW at, Exists(at), NEW b \in AttemptRecord, NEW x,
         call' = [call EXCEPT ![c] = x],
         attempts' = [attempts EXCEPT ![at[1]] = [attempts[at[1]] EXCEPT ![at[2]] = b]],
         \/ rows' = rows /\ (b.record = "result" <=> Attempt(at).record = "result")
         \/ rows' = Append(rows, at) /\ b.record = "result" /\ at \notin Stored,
         links' = links, guided' = guided,
         Attempt(at).status \in Over => b.status \in Over,
         b.engine \in {0, 1},
         b.status \in {"RUNNING", "INTERRUPTED"} => b.record = "none",
         b.status = "COMPLETED_PENDING_REVIEW" <=> b.record = "result",
         b.record = "result" => b.engine = 1,
         b.engine = Attempt(at).engine \/ (Running(call[c]) /\ call[c].at = at),
         CallOK(x), x.pc = "append" => x.at = at /\ b.engine = 1,
         x.pc \in {"idle", "guide", "append"},
         Finishing(x) => x.at \in Stored',
         Running(x) => Running(call[c]) /\ x.at = call[c].at
  PROVE  FormalInv'
<1>1. /\ FormalTypeOK /\ OneLiveAttempt /\ AttemptsFit /\ RowsFit /\ OneRunner
      /\ rows \in Seq(Results) /\ at \in Results
  BY DEF FormalInv, FormalTypeOK, Exists
<1>2. /\ rows' \in Seq(Results)
      /\ \A y : y # at => (y \in Stored' <=> y \in Stored)
      /\ Stored \subseteq Stored'
      /\ at \in Stored' <=> b.record = "result"
  <2>1. at \in Stored <=> Attempt(at).record = "result"
    BY <1>1 DEF AttemptsFit, AttemptFits
  <2>2. CASE rows' = rows /\ (b.record = "result" <=> Attempt(at).record = "result")
    BY <1>1, <2>1, <2>2 DEF Stored
  <2>3. CASE rows' = Append(rows, at) /\ b.record = "result" /\ at \notin Stored
    <3>1. /\ Append(rows, at) \in Seq(Results) /\ Len(Append(rows, at)) = Len(rows) + 1
          /\ \A i \in 1 .. Len(rows) : Append(rows, at)[i] = rows[i]
          /\ Append(rows, at)[Len(rows) + 1] = at /\ Len(rows) \in Nat
      BY <1>1, AppendProperties, LenProperties
    <3>2. Stored' = Stored \cup {at}
      BY <2>3, <3>1 DEF Stored
    <3> QED
      BY <2>3, <3>1, <3>2
  <2> QED
    BY <2>2, <2>3
<1>3. OneLiveAttempt' /\ AttemptsFit' /\ (\A y \in Results : Exists(y) => Exists(y)')
  BY <1>1, <1>2, StoreWhenChanged
<1>4. RowsFit'
  <2>1. CASE rows' = rows
    BY <1>1, <1>3, <2>1 DEF RowsFit, Exists
  <2>2. CASE rows' = Append(rows, at) /\ at \notin Stored
    <3>1. /\ Len(rows') = Len(rows) + 1 /\ \A i \in 1 .. Len(rows) : rows'[i] = rows[i]
          /\ rows'[Len(rows) + 1] = at /\ Len(rows) \in Nat
      BY <1>1, <2>2, AppendProperties, LenProperties
    <3>2. \A i \in 1 .. Len(rows) : rows[i] # at
      BY <2>2 DEF Stored
    <3>3. \A i \in 1 .. Len(rows') :
            rows'[i] \in Results /\ rows'[i][2] \in 1 .. Len(attempts'[rows'[i][1]])
      BY <1>1, <1>3, <3>1 DEF RowsFit, Exists
    <3>4. \A i, j \in 1 .. Len(rows') : rows'[i] = rows'[j] => i = j
      BY <1>1, <3>1, <3>2 DEF RowsFit
    <3> QED
      BY <3>3, <3>4 DEF RowsFit, Exists
  <2> QED
    BY <2>1, <2>2
<1>5. /\ attempts' \in [Runs -> Seq(AttemptRecord)]
      /\ \A r \in Runs : Len(attempts'[r]) = Len(attempts[r])
      /\ attempts'[at[1]][at[2]] = b
  BY <1>1, ChangedAttempt
<1>6. \A d \in Callers \ {c} : Fits(call[d])'
  <2> SUFFICES ASSUME NEW d \in Callers \ {c} PROVE Fits(call[d])'
    OBVIOUS
  <2>1. /\ call[d] \in Calls /\ CallOK(call[d]) /\ Fits(call[d]) /\ call'[d] = call[d]
        /\ Running(call[d]) => call[d].at # at \/ b.engine = Attempt(at).engine
    BY <1>1, CallerFacts DEF OneRunner
  <2>2. ASSUME NEW z \in Calls, CallOK(z), Fits(z),
               Running(z) => z.at # at \/ b.engine = Attempt(at).engine
        PROVE  Fits(z)'
    BY <1>1, <1>2, <2>2, FitsWhenChanged
  <2> QED
    BY <2>1, <2>2 DEF Fits
<1>7. Fits(x)'
  <2>1. Exists(at)' /\ Attempt(at)' = b
    BY <1>1, <1>3, <1>5 DEF Attempt
  <2> QED
    BY <2>1 DEF Fits, Finishing, Exists, Attempt
<1>8. /\ call' \in [Callers -> Calls] /\ \A d \in Callers : CallOK(call'[d])
      /\ CallsFit' /\ OneRunner'
  BY <1>1, <1>6, <1>7, CallsWhenProceeding DEF OneRunner
<1>9. FormalTypeOK'
  BY <1>1, <1>2, <1>5, <1>8 DEF FormalTypeOK, AttemptRecord
<1> QED
  BY <1>3, <1>4, <1>8, <1>9 DEF FormalInv

LEMMA RunEngineStep ==
  ASSUME FormalInv, NEW c \in Callers, RunEngine(c)
  PROVE  FormalInv'
<1>1. PICK at, b, to :
        /\ at = call[c].at /\ b = [Attempt(at) EXCEPT !.engine = @ + 1]
        /\ to \in {"COMPLETED_PENDING_REVIEW", "FAILED"} /\ call[c].pc = "engine"
        /\ call' = [call EXCEPT ![c] = [InCall("append", at) EXCEPT !.to = to]]
        /\ attempts' = [attempts EXCEPT ![at[1]] = [attempts[at[1]] EXCEPT ![at[2]] = b]]
        /\ rows' = rows /\ links' = links /\ guided' = guided
  BY DEF RunEngine, At, Proceed, Attempt
<1>2. /\ Exists(at) /\ at \in Results /\ Attempt(at) \in AttemptRecord /\ AttemptFits(at)
      /\ Attempt(at).engine = 0
  BY <1>1, CallerFacts DEF Fits, Exists
<1>3. /\ b \in AttemptRecord /\ b.engine = 1
      /\ b.status = Attempt(at).status /\ b.record = Attempt(at).record
  BY <1>1, <1>2 DEF AttemptRecord
<1> DEFINE x == [InCall("append", at) EXCEPT !.to = to]
<1>4. x.pc = "append" /\ x.at = at /\ CallOK(x)
  BY <1>1, <1>2 DEF InCall, CallOK, Calls, Statuses
<1> HIDE DEF x
<1>5. Running(call[c]) /\ ~Finishing(x) /\ call' = [call EXCEPT ![c] = x]
  BY <1>1, <1>4 DEF Running, Finishing, x
<1>6. /\ b.record # "result" /\ b.status # "COMPLETED_PENDING_REVIEW"
      /\ b.status \in {"RUNNING", "INTERRUPTED"} => b.record = "none"
      /\ Attempt(at).record # "result" /\ b.engine \in {0, 1}
  BY <1>2, <1>3 DEF AttemptFits
<1> QED
  BY <1>1, <1>2, <1>3, <1>4, <1>5, <1>6, ChangingStep

LEMMA AppendedEvent ==
  ASSUME NEW at, NEW to, AppendEvent(at, to)
  PROVE  attempts' = [attempts EXCEPT ![at[1]] = [attempts[at[1]] EXCEPT ![at[2]] =
                       [Attempt(at) EXCEPT !.status = to,
                                           !.record = RecordWith(Attempt(at).record, to)]]]
BY DEF AppendEvent, Attempt

LEMMA AppendTerminalStep ==
  ASSUME FormalInv, NEW c \in Callers, AppendTerminal(c)
  PROVE  FormalInv'
<1>1. CASE Proceed(c, Notice) /\ UNCHANGED <<attempts, rows>>
  BY <1>1, NoticeStep DEF AppendTerminal, store
<1>2. CASE ~(Proceed(c, Notice) /\ UNCHANGED <<attempts, rows>>)
  <2>1. PICK at, b, x :
          /\ at = call[c].at /\ call[c].pc = "append" /\ Attempt(at).status = "RUNNING"
          /\ b = [Attempt(at) EXCEPT !.status = call[c].to,
                                     !.record = RecordWith(Attempt(at).record, call[c].to)]
          /\ attempts' = [attempts EXCEPT ![at[1]] = [attempts[at[1]] EXCEPT ![at[2]] = b]]
          /\ x = IF call[c].to = "FAILED" THEN Notice ELSE InCall("guide", at)
          /\ rows' = IF call[c].to = "FAILED" THEN rows ELSE Append(rows, at)
          /\ call' = [call EXCEPT ![c] = x] /\ links' = links /\ guided' = guided
    <3>1. /\ call[c].pc = "append" /\ Attempt(call[c].at).status = "RUNNING"
          /\ AppendEvent(call[c].at, call[c].to)
          /\ rows' = IF call[c].to = "FAILED" THEN rows ELSE Append(rows, call[c].at)
          /\ call' = [call EXCEPT ![c] = IF call[c].to = "FAILED" THEN Notice
                                                ELSE InCall("guide", call[c].at)]
          /\ links' = links /\ guided' = guided
      BY <1>2 DEF AppendTerminal, At, Proceed, Extends
    <3>2. attempts' = [attempts EXCEPT ![call[c].at[1]] =
             [attempts[call[c].at[1]] EXCEPT ![call[c].at[2]] =
                [Attempt(call[c].at) EXCEPT !.status = call[c].to,
                   !.record = RecordWith(Attempt(call[c].at).record, call[c].to)]]]
      BY <3>1, AppendedEvent
    <3> QED
      BY <3>1, <3>2
  <2>2. /\ Exists(at) /\ at \in Results /\ Attempt(at) \in AttemptRecord /\ AttemptFits(at)
        /\ Attempt(at).engine = 1 /\ Running(call[c])
        /\ call[c].to \in {"COMPLETED_PENDING_REVIEW", "FAILED"}
    BY <2>1, CallerFacts DEF Fits, Exists, CallOK, Running
  <2>3. Attempt(at).record = "none" /\ at \notin Stored
    BY <2>1, <2>2 DEF AttemptFits
  <2>4. /\ b \in AttemptRecord /\ b.engine = 1 /\ b.status = call[c].to
        /\ b.record = IF call[c].to = "FAILED" THEN "failure" ELSE "result"
    BY <2>1, <2>2, <2>3 DEF AttemptRecord, RecordWith, Statuses
  <2>5. CASE call[c].to = "FAILED"
    <3>1. x = Notice /\ rows' = rows /\ CallOK(x) /\ ~Running(x) /\ ~Finishing(x) /\ x.pc = "idle"
      BY <2>1, <2>5, NoticeFits DEF Notice, InCall, Finishing
    <3>2. b.record = "failure" /\ b.status = "FAILED" /\ Attempt(at).status \notin Over
      BY <2>1, <2>4, <2>5 DEF Over
    <3> QED
      BY <2>1, <2>2, <2>3, <2>4, <3>1, <3>2, ChangingStep
  <2>6. CASE call[c].to = "COMPLETED_PENDING_REVIEW"
    <3>1. x.pc = "guide" /\ x.at = at /\ CallOK(x) /\ ~Running(x)
      BY <2>1, <2>2, <2>6 DEF InCall, Calls, CallOK, Running
    <3>2. rows' = Append(rows, at)
      BY <2>1, <2>6
    <3>3. at \in Stored'
      <4>1. rows \in Seq(Results)
        BY StoredExist
      <4>2. /\ Len(Append(rows, at)) = Len(rows) + 1 /\ Len(rows) \in Nat
            /\ Append(rows, at)[Len(rows) + 1] = at
        BY <2>2, <4>1, AppendProperties, LenProperties
      <4> QED
        BY <3>2, <4>2 DEF Stored
    <3>4. b.record = "result" /\ b.status = "COMPLETED_PENDING_REVIEW"
      BY <2>4, <2>6
    <3>7. Attempt(at).status \notin Over
      BY <2>1 DEF Over
    <3>5. rows' = Append(rows, at) /\ b.record = "result" /\ at \notin Stored
      BY <2>3, <3>2, <3>4
    <3>6. x.pc \in {"idle", "guide", "append"} /\ x.pc # "append" /\ x.at \in Stored'
      BY <3>1, <3>3
    <3> QED
      BY <2>1, <2>2, <2>4, <3>1, <3>4, <3>5, <3>6, <3>7, ChangingStep
  <2> QED
    BY <2>2, <2>5, <2>6
<1> QED
  BY <1>1, <1>2

LEMMA AppendRecoveryStep ==
  ASSUME FormalInv, NEW c \in Callers, AppendRecovery(c)
  PROVE  FormalInv'
<1>1. CASE UNCHANGED attempts
  BY <1>1, NoticeStep DEF AppendRecovery, store
<1>2. CASE attempts' # attempts
  <2>1. PICK at, b :
          /\ at = call[c].at /\ call[c].pc = "recover" /\ Attempt(at).status = call[c].seen
          /\ b = [Attempt(at) EXCEPT !.status = call[c].to,
                                     !.record = RecordWith(Attempt(at).record, call[c].to)]
          /\ attempts' = [attempts EXCEPT ![at[1]] = [attempts[at[1]] EXCEPT ![at[2]] = b]]
          /\ call' = [call EXCEPT ![c] = Notice]
          /\ rows' = rows /\ links' = links /\ guided' = guided
    <3>1. /\ call[c].pc = "recover" /\ Attempt(call[c].at).status = call[c].seen
          /\ AppendEvent(call[c].at, call[c].to) /\ call' = [call EXCEPT ![c] = Notice]
          /\ rows' = rows /\ links' = links /\ guided' = guided
      BY <1>2 DEF AppendRecovery, At, Proceed, Extends
    <3>2. attempts' = [attempts EXCEPT ![call[c].at[1]] =
             [attempts[call[c].at[1]] EXCEPT ![call[c].at[2]] =
                [Attempt(call[c].at) EXCEPT !.status = call[c].to,
                   !.record = RecordWith(Attempt(call[c].at).record, call[c].to)]]]
      BY <3>1, AppendedEvent
    <3> QED
      BY <3>1, <3>2
  <2>2. /\ Exists(at) /\ at \in Results /\ Attempt(at) \in AttemptRecord /\ AttemptFits(at)
    BY <2>1, CallerFacts DEF Exists
  <2>3. \/ call[c].seen = "RUNNING" /\ call[c].to = "INTERRUPTED"
        \/ call[c].seen \in {"FAILED", "INTERRUPTED"} /\ call[c].to = "RETRY_AVAILABLE"
        \/ call[c].seen \in {"INTERRUPTED", "RETRY_AVAILABLE"} /\ call[c].to = "ABANDONED"
    <3>1. PICK o \in DOMAIN Recoveries :
            call[c].seen \in Recoveries[o].allowed /\ call[c].to = Recoveries[o].target
      BY <2>1, CallerFacts DEF CallOK
    <3> QED
      BY <3>1 DEF Recoveries
  <2>4. /\ b.status = call[c].to /\ b.engine = Attempt(at).engine /\ b \in AttemptRecord
        /\ b.record = RecordWith(Attempt(at).record, call[c].to)
    BY <2>1, <2>2, <2>3 DEF AttemptRecord, RecordWith, Statuses
  <2>5. /\ Attempt(at).record # "result" /\ b.record # "result" /\ b.engine \in {0, 1}
        /\ b.status = "INTERRUPTED" => b.record = "none"
    BY <2>1, <2>2, <2>3, <2>4 DEF AttemptFits, RecordWith, AttemptRecord
  <2>6. /\ b.status \in {"INTERRUPTED", "RETRY_AVAILABLE", "ABANDONED"}
        /\ Attempt(at).status \in Over => b.status \in Over
    BY <2>1, <2>3, <2>4 DEF Over
  <2>7. Notice.pc = "idle" /\ ~Finishing(Notice) /\ ~Running(Notice) /\ CallOK(Notice)
    BY NoticeFits DEF Notice, InCall, Finishing
  <2> QED
    BY <2>1, <2>2, <2>4, <2>5, <2>6, <2>7, ChangingStep
<1> QED
  BY <1>1, <1>2

\* The steps of the page, and the end of the process.
LEMMA PageStep ==
  ASSUME FormalInv, NEW c \in Callers,
         \/ Guide(c) \/ ReadHeads(c) \/ CheckSupersession(c) \/ AppendSupersession(c)
         \/ Return(c) \/ RecordCurrent(c)
  PROVE  FormalInv'
<1> DEFINE at == call[c].at
<1>0. /\ links \subseteq Results \X Results /\ guided \subseteq Results
      /\ call[c] \in Calls /\ Stored \subseteq Results /\ Heads \subseteq Stored
  BY StoredExist, CallerFacts DEF FormalInv, FormalTypeOK
<1>1. at \in Stored \/ call[c].pc = "idle"
  <2>1. call[c].pc \in {"guide", "heads", "supersede", "link", "idle"}
    BY DEF Guide, ReadHeads, CheckSupersession, AppendSupersession, Return, RecordCurrent, At
  <2> QED
    BY <2>1, CallerFacts DEF Fits, Finishing
<1>2. CASE Guide(c)
  <2>1. guided' \subseteq Results /\ at \in Stored
    BY <1>0, <1>1, <1>2 DEF Guide, EnsureGuidance, At
  <2> QED
    BY <1>0, <1>2, <2>1, FinishingFits, ReadingStep DEF Guide, Proceed
<1>3. CASE ReadHeads(c)
  <2> DEFINE x == [InCall("supersede", at) EXCEPT !.todo = Heads \ {at}]
  <2>1. at \in Stored
    BY <1>1, <1>3 DEF ReadHeads, At
  <2>2. CallOK(x) /\ Fits(x) /\ ~Running(x)
    BY <1>0, <2>1 DEF InCall, Calls, CallOK, Fits, Running, Finishing
  <2> QED
    BY <1>0, <1>3, <2>2, ReadingStep DEF ReadHeads, Proceed, store
<1>4. CASE CheckSupersession(c)
  <2>1. at \in Stored /\ call[c].pc = "supersede"
    BY <1>1, <1>4 DEF CheckSupersession, At
  <2>2. PICK x : /\ call' = [call EXCEPT ![c] = x]
                 /\ \/ x = [call[c] EXCEPT !.pc = "link"]
                    \/ \E old : x = [call[c] EXCEPT !.todo = @ \ {old}]
    BY <1>4 DEF CheckSupersession, Proceed
  <2>3. x \in Calls /\ x.pc \in {"link", "supersede"} /\ x.at = at
    BY <1>0, <2>1, <2>2 DEF Calls
  <2>4. CallOK(x) /\ Fits(x) /\ ~Running(x)
    BY <1>0, <2>1, <2>3 DEF CallOK, Fits, Running, Finishing
  <2> QED
    BY <1>0, <1>4, <2>2, <2>4, ReadingStep DEF CheckSupersession, store
<1>5. CASE AppendSupersession(c)
  <2>1. at \in Stored /\ call[c].pc = "link"
    BY <1>1, <1>5 DEF AppendSupersession, At
  <2>2. PICK old \in call[c].todo :
          /\ links' \subseteq links \cup {<<old, at>>}
          /\ call' = [call EXCEPT ![c] = [call[c] EXCEPT !.pc = "supersede", !.todo = @ \ {old}]]
    BY <1>5 DEF AppendSupersession, Proceed
  <2> DEFINE x == [call[c] EXCEPT !.pc = "supersede", !.todo = @ \ {old}]
  <2>3. x \in Calls /\ x.pc = "supersede" /\ x.at = at
    BY <1>0, <2>1 DEF Calls
  <2>4. CallOK(x) /\ Fits(x) /\ ~Running(x)
    BY <1>0, <2>1, <2>3 DEF CallOK, Fits, Running, Finishing
  <2>5. links' \subseteq Results \X Results
    <3>1. old \in Results
      BY <1>0, <2>2 DEF Calls
    <3>2. at \in Results /\ links \subseteq Results \X Results
      BY <1>0, <2>1
    <3> HIDE DEF at
    <3>3. <<old, at>> \in Results \X Results
      BY <3>1, <3>2
    <3> QED
      BY <2>2, <3>2, <3>3
  <2> QED
    BY <1>0, <1>5, <2>2, <2>4, <2>5, ReadingStep DEF AppendSupersession
<1>6. CASE Return(c)
  <2>1. at \in Stored
    BY <1>1, <1>6 DEF Return, At
  <2> QED
    BY <1>0, <1>6, <2>1, FinishingFits, ReadingStep DEF Return, Completed, Proceed, store
<1>7. CASE RecordCurrent(c)
  <2>1. PICK latest \in Stored : Proceed(c, InCall("heads", latest))
    BY <1>0, <1>7 DEF RecordCurrent
  <2> QED
    BY <1>0, <1>7, <2>1, FinishingFits, ReadingStep DEF RecordCurrent, Proceed, store
<1> QED
  BY <1>2, <1>3, <1>4, <1>5, <1>6, <1>7

LEMMA QuietStep ==
  ASSUME FormalInv, UNCHANGED <<attempts, rows>>, links' = links, guided' \subseteq Results,
         call' = call \/ call' = [c \in Callers |-> Notice]
  PROVE  FormalInv'
<1>1. /\ \A y : Fits(y) => Fits(y)'
      /\ OneLiveAttempt' /\ AttemptsFit' /\ RowsFit'
  BY FitsWhenUntouched DEF FormalInv
<1>2. call' \in [Callers -> Calls] /\ \A d \in Callers : CallOK(call'[d]) /\ Fits(call'[d])
  <2>1. CASE call' = call
    BY <2>1, CallerFacts DEF FormalInv, FormalTypeOK
  <2>2. CASE call' = [c \in Callers |-> Notice]
    BY <2>2, NoticeFits DEF CallOK
  <2> QED
    BY <2>1, <2>2
<1>3. CallsFit'
  BY <1>1, <1>2 DEF CallsFit, Fits
<1>4. OneRunner'
  <2>1. CASE call' = call
    BY <2>1 DEF FormalInv, OneRunner
  <2>2. CASE call' = [c \in Callers |-> Notice]
    <3>1. \A c \in Callers : ~Running(call'[c])
      BY <2>2, NoticeFits
    <3> QED
      BY <3>1 DEF OneRunner
  <2> QED
    BY <2>1, <2>2
<1>5. FormalTypeOK'
  BY <1>2 DEF FormalInv, FormalTypeOK
<1> QED
  BY <1>1, <1>3, <1>4, <1>5 DEF FormalInv

LEMMA NextFormalInv == FormalInv /\ [Next]_vars => FormalInv'
<1> SUFFICES ASSUME FormalInv, [Next]_vars PROVE FormalInv'
  OBVIOUS
<1>1. guided \subseteq Results /\ Stored \subseteq Results
  BY StoredExist DEF FormalInv, FormalTypeOK
<1>2. CASE UNCHANGED vars
  BY <1>1, <1>2, QuietStep DEF vars
<1>3. CASE Crash
  BY <1>1, <1>3, QuietStep DEF Crash, store
<1>4. ASSUME NEW c \in Callers, NEW r \in Runs, Execute(c, r) \/ Retry(c, r) \/ Recover(c, r)
      PROVE  FormalInv'
  BY <1>4, ExecuteStep, RetryStep, RecoverStep
<1>5. ASSUME NEW c \in Callers, ShowResult(c) PROVE FormalInv'
  <2>1. guided' \subseteq Results
    BY <1>1, <1>5 DEF ShowResult, EnsureGuidance
  <2> QED
    BY <1>5, <2>1, QuietStep DEF ShowResult
<1>6. ASSUME NEW c \in Callers, RecordCurrent(c) \/ Guide(c) \/ ReadHeads(c)
               \/ CheckSupersession(c) \/ AppendSupersession(c) \/ Return(c)
      PROVE  FormalInv'
  BY <1>6, PageStep
<1>7. ASSUME NEW c \in Callers,
             Create(c) \/ RunEngine(c) \/ AppendTerminal(c) \/ AppendRecovery(c)
      PROVE  FormalInv'
  BY <1>7, CreateStep, RunEngineStep, AppendTerminalStep, AppendRecoveryStep
<1> QED
  BY <1>2, <1>3, <1>4, <1>5, <1>6, <1>7 DEF Next, Ask, Continue

LEMMA FormalInvAlways == Spec => []FormalInv
BY InitFormalInv, NextFormalInv, PTL DEF Spec

(***************************************************************************)
(* A supersession never leaves a store without a current result            *)
(***************************************************************************)
\* Supersessions and what is to be superseded are among the stored results,
\* and every stored result leads to one that is current.
LinksFit == \A l \in links : l \in Stored \X Stored
TodoFits == \A c \in Callers : call[c].todo \subseteq Stored
LeadsToHead == \A result \in Stored : Successors(result) \cap Heads # {}
HeadsInv == LinksFit /\ TodoFits /\ LeadsToHead

\* Successors hold the result, follow the supersessions, and are transitive.
LEMMA SuccessorsReflexive ==
  ASSUME NEW result \in Results PROVE result \in Successors(result)
BY DEF Successors

LEMMA SuccessorsClosed ==
  ASSUME NEW result \in Results, NEW a \in Successors(result), NEW l \in links,
         l[1] = a, l[2] \in Results
  PROVE  l[2] \in Successors(result)
BY DEF Successors

LEMMA SuccessorsTransitive ==
  ASSUME NEW result \in Results, NEW a \in Successors(result), NEW b \in Successors(a)
  PROVE  b \in Successors(result)
BY DEF Successors

LEMMA SuccessorsGrow ==
  ASSUME links \subseteq links', NEW result \in Results, NEW a \in Successors(result)
  PROVE  a \in Successors(result)'
BY DEF Successors, Results

LEMMA InitHeadsInv == Init => HeadsInv
<1> SUFFICES ASSUME Init PROVE HeadsInv
  OBVIOUS
<1>1. Stored = {}
  BY DEF Init, Stored
<1> QED
  BY <1>1 DEF Init, HeadsInv, LinksFit, TodoFits, LeadsToHead, Notice, InCall

LEMMA LinkedHeads ==
  ASSUME FormalInv, HeadsInv, NEW old \in Stored, NEW new \in Stored, Linkable(old, new),
         links' = links \cup {<<old, new>>}, rows' = rows
  PROVE  LinksFit' /\ LeadsToHead'
<1>1. Stored' = Stored /\ Stored \subseteq Results /\ Results' = Results
  BY StoredExist DEF Stored, Results
<1>2. old \notin Successors(new)
  BY DEF Linkable
<1>3. \A h \in Heads : h # old => h \in Heads'
  BY <1>1 DEF Heads, IsHead
<1>4. LinksFit'
  BY <1>1 DEF HeadsInv, LinksFit
<1>5. \A result \in Stored : Successors(result) \subseteq Successors(result)'
  BY <1>1, SuccessorsGrow
<1>6. ASSUME NEW result \in Stored PROVE \E h \in Heads' : h \in Successors(result)'
  <2>1. PICK h \in Heads : h \in Successors(result)
    BY DEF HeadsInv, LeadsToHead
  <2>2. CASE h # old
    BY <1>3, <1>5, <2>1, <2>2
  <2>3. CASE h = old
    <3>1. PICK g \in Heads : g \in Successors(new)
      BY DEF HeadsInv, LeadsToHead
    <3>2. g \in Heads' /\ g \in Successors(new)'
      BY <1>2, <1>3, <1>5, <3>1
    <3>3. old \in Successors(result)'
      BY <1>5, <2>1, <2>3
    <3>4. <<old, new>> \in links' /\ new \in Results /\ result \in Results
      BY <1>1
    <3>5. new \in Successors(result)'
      BY <1>1, <3>3, <3>4 DEF Successors
    <3>6. g \in Successors(result)'
      BY <1>1, <3>2, <3>4, <3>5 DEF Successors
    <3> QED
      BY <3>2, <3>6
  <2> QED
    BY <2>2, <2>3
<1>7. LeadsToHead'
  BY <1>1, <1>6 DEF LeadsToHead
<1> QED
  BY <1>4, <1>7

LEMMA CompletedHeads ==
  ASSUME FormalInv, HeadsInv, NEW at \in Results, at \notin Stored,
         rows' = Append(rows, at), links' = links
  PROVE  LinksFit' /\ LeadsToHead' /\ Stored' = Stored \cup {at}
<1>1. rows \in Seq(Results)
  BY StoredExist
<1>2. /\ Len(Append(rows, at)) = Len(rows) + 1 /\ Len(rows) \in Nat
      /\ \A i \in 1 .. Len(rows) : Append(rows, at)[i] = rows[i]
      /\ Append(rows, at)[Len(rows) + 1] = at
  BY <1>1, AppendProperties, LenProperties
<1>3. Stored' = Stored \cup {at}
  BY <1>2 DEF Stored
<1>4. LinksFit'
  BY <1>3 DEF HeadsInv, LinksFit
<1>5. Heads \cup {at} \subseteq Heads'
  BY <1>3 DEF HeadsInv, LinksFit, Heads, IsHead
<1>6. \A result : Successors(result)' = Successors(result)
  BY DEF Successors, Results
<1>7. LeadsToHead'
  BY <1>3, <1>5, <1>6, SuccessorsReflexive DEF HeadsInv, LeadsToHead
<1> QED
  BY <1>3, <1>4, <1>7

LEMMA SameHeads ==
  ASSUME HeadsInv, rows' = rows, links' = links
  PROVE  LinksFit' /\ LeadsToHead' /\ Stored' = Stored
<1>1. Stored' = Stored /\ Heads' = Heads
  BY DEF Stored, Heads, IsHead
<1>2. \A result : Successors(result)' = Successors(result)
  BY DEF Successors, Results
<1> QED
  BY <1>1, <1>2 DEF HeadsInv, LinksFit, LeadsToHead

LEMMA TodoKept ==
  ASSUME FormalInv, HeadsInv, Stored \subseteq Stored', NEW c \in Callers, NEW x,
         call' = [call EXCEPT ![c] = x], x.todo \subseteq Stored
  PROVE  TodoFits'
<1>1. call'[c] = x /\ \A d \in Callers \ {c} : call'[d] = call[d]
  BY DEF FormalInv, FormalTypeOK
<1> QED
  BY <1>1 DEF HeadsInv, TodoFits

\* A call that begins, answers or goes on has nothing yet to supersede.
LEMMA NothingTodo ==
  \A pc, at, a, b : /\ InCall(pc, at).todo = {} /\ Notice.todo = {}
                    /\ [InCall(pc, at) EXCEPT !.request = a].todo = {}
                    /\ [InCall(pc, at) EXCEPT !.to = a].todo = {}
                    /\ [InCall(pc, at) EXCEPT !.seen = a, !.to = b].todo = {}
BY DEF InCall, Notice

LEMMA CallStepHeads ==
  ASSUME FormalInv, HeadsInv, NEW c \in Callers, rows' = rows, links' = links,
         NEW x, Proceed(c, x), x.todo \subseteq Stored
  PROVE  HeadsInv'
BY SameHeads, TodoKept DEF Proceed, HeadsInv

LEMMA NextHeadsInv == FormalInv /\ HeadsInv /\ [Next]_vars => HeadsInv'
<1> SUFFICES ASSUME FormalInv, HeadsInv, [Next]_vars PROVE HeadsInv'
  OBVIOUS
<1>1. CASE UNCHANGED vars
  BY <1>1, SameHeads DEF vars, HeadsInv, TodoFits
<1>2. CASE Crash
  <2>1. \A c \in Callers : call'[c].todo = {}
    BY <1>2, NothingTodo DEF Crash
  <2> QED
    BY <1>2, <2>1, SameHeads DEF Crash, store, HeadsInv, TodoFits
<1>3. ASSUME NEW c \in Callers, NEW r \in Runs, Execute(c, r) \/ Retry(c, r) \/ Recover(c, r)
      PROVE  HeadsInv'
  <2>1. UNCHANGED store
    BY <1>3 DEF Execute, Retry, Recover
  <2>2. \E x : Proceed(c, x) /\ x.todo = {}
    BY <1>3, NothingTodo DEF Execute, Retry, Recover, Answer
  <2> QED
    BY <2>1, <2>2, CallStepHeads DEF store
<1>4. ASSUME NEW c \in Callers, ShowResult(c) PROVE HeadsInv'
  BY <1>4, SameHeads DEF ShowResult, HeadsInv, TodoFits
<1>5. ASSUME NEW c \in Callers,
             \/ RecordCurrent(c) \/ Guide(c) \/ Return(c)
             \/ Create(c) \/ RunEngine(c) \/ AppendRecovery(c)
      PROVE  HeadsInv'
  <2>1. rows' = rows /\ links' = links
    BY <1>5 DEF RecordCurrent, Guide, Return, Create, RunEngine, AppendRecovery, store
  <2>2. \E x : Proceed(c, x) /\ x.todo = {}
    BY <1>5, NothingTodo
       DEF RecordCurrent, Guide, Return, Completed, Create, RunEngine, AppendRecovery
  <2> QED
    BY <2>1, <2>2, CallStepHeads
<1>6. ASSUME NEW c \in Callers, ReadHeads(c) PROVE HeadsInv'
  <2> DEFINE x == [InCall("supersede", call[c].at) EXCEPT !.todo = Heads \ {call[c].at}]
  <2>1. x.todo \subseteq Stored
    BY DEF InCall, Heads
  <2> QED
    BY <1>6, <2>1, CallStepHeads DEF ReadHeads, store
<1>7. ASSUME NEW c \in Callers, CheckSupersession(c) PROVE HeadsInv'
  <2>1. PICK x : /\ Proceed(c, x)
                 /\ \/ x = [call[c] EXCEPT !.pc = "link"]
                    \/ \E old : x = [call[c] EXCEPT !.todo = @ \ {old}]
    BY <1>7 DEF CheckSupersession
  <2>2. call[c].todo \subseteq Stored /\ call[c] \in Calls
    BY CallerFacts DEF HeadsInv, TodoFits
  <2>3. x.todo \subseteq Stored
    BY <2>1, <2>2 DEF Calls
  <2> QED
    BY <1>7, <2>1, <2>3, CallStepHeads DEF CheckSupersession, store
<1>8. ASSUME NEW c \in Callers, AppendSupersession(c) PROVE HeadsInv'
  <2>1. PICK old \in call[c].todo :
          /\ \/ Linkable(old, call[c].at) /\ links' = links \cup {<<old, call[c].at>>}
             \/ links' = links
          /\ Proceed(c, [call[c] EXCEPT !.pc = "supersede", !.todo = @ \ {old}])
    BY <1>8 DEF AppendSupersession
  <2>2. /\ call[c].todo \subseteq Stored /\ call[c] \in Calls /\ rows' = rows
        /\ call[c].at \in Stored
    BY <1>8, CallerFacts DEF HeadsInv, TodoFits, AppendSupersession, At, Fits, Finishing
  <2> DEFINE x == [call[c] EXCEPT !.pc = "supersede", !.todo = @ \ {old}]
  <2>3. x.todo \subseteq Stored
    BY <2>2 DEF Calls
  <2>4. LinksFit' /\ LeadsToHead' /\ Stored' = Stored
    BY <2>1, <2>2, LinkedHeads, SameHeads DEF Stored
  <2> QED
    BY <2>1, <2>3, <2>4, TodoKept DEF Proceed, HeadsInv
<1>9. ASSUME NEW c \in Callers, AppendTerminal(c) PROVE HeadsInv'
  <2>1. CASE rows' = rows
    <3>1. \E x : Proceed(c, x) /\ x.todo = {}
      BY <1>9, NothingTodo DEF AppendTerminal
    <3> QED
      BY <1>9, <2>1, <3>1, CallStepHeads DEF AppendTerminal
  <2>2. CASE rows' # rows
    <3>1. /\ call[c].pc = "append" /\ Attempt(call[c].at).status = "RUNNING"
          /\ rows' = Append(rows, call[c].at) /\ links' = links
          /\ Proceed(c, InCall("guide", call[c].at))
      BY <1>9, <2>2 DEF AppendTerminal, At, Extends
    <3>2. call[c].at \in Results /\ call[c].at \notin Stored
      BY <3>1, CallerFacts DEF Exists, AttemptFits
    <3>3. LinksFit' /\ LeadsToHead' /\ Stored \subseteq Stored'
      BY <3>1, <3>2, CompletedHeads
    <3> QED
      BY <3>1, <3>3, NothingTodo, TodoKept DEF Proceed, HeadsInv
  <2> QED
    BY <2>1, <2>2
<1> QED
  BY <1>1, <1>2, <1>3, <1>4, <1>5, <1>6, <1>7, <1>8, <1>9 DEF Next, Ask, Continue

(***************************************************************************)
(* The theorems                                                            *)
(***************************************************************************)
\* The store and the calls keep their types.
THEOREM FormalTypeCorrect == Spec => []FormalTypeOK
<1>1. FormalInv => FormalTypeOK
  BY DEF FormalInv
<1> QED
  BY <1>1, FormalInvAlways, PTL

\* Callers who interleave between reading the history and appending to it, repeat
\* their requests and crash leave one live attempt of a run, whose engine ran
\* once, one result of the run, answers that are in the store, and while there
\* are results one that is current (formal/run_service.py and its repository).
THEOREM AttemptsAreSound == Spec => []AttemptsSound
<1>1. ASSUME FormalInv, HeadsInv PROVE AttemptsSound
  <2>1. OneLiveAttempt
    BY <1>1 DEF FormalInv
  <2>2. EngineOnce
    <3> SUFFICES ASSUME NEW r \in Runs, NEW n \in 1 .. Len(attempts[r])
                 PROVE  /\ attempts[r][n].engine <= 1
                        /\ attempts[r][n].record = "result" => attempts[r][n].engine = 1
      BY DEF EngineOnce
    <3>1. AttemptFits(<<r, n>>) /\ Attempt(<<r, n>>) = attempts[r][n]
      BY <1>1, CountedExists DEF FormalInv, AttemptsFit, Attempt
    <3> QED
      BY <3>1 DEF AttemptFits
  <2>3. \A i \in 1 .. Len(rows) :
          /\ Exists(rows[i]) /\ rows[i] \in Results
          /\ Attempt(rows[i]).status = "COMPLETED_PENDING_REVIEW"
    <3>1. \A at \in Stored : Exists(at) /\ at \in Results
      BY <1>1, StoredExist
    <3>2. \A at \in Stored : Attempt(at).status = "COMPLETED_PENDING_REVIEW"
      BY <1>1, <3>1 DEF FormalInv, AttemptsFit, AttemptFits
    <3> QED
      BY <3>1, <3>2 DEF Stored
  <2>4. OneResultPerRun
    <3> SUFFICES ASSUME NEW i \in 1 .. Len(rows), NEW j \in 1 .. Len(rows),
                        rows[i][1] = rows[j][1]
                 PROVE  i = j
      BY <2>3 DEF OneResultPerRun
    <3> DEFINE r == rows[i][1]
               a == rows[i][2]
               b == rows[j][2]
    <3>1. /\ r \in Runs /\ a \in 1 .. Len(attempts[r]) /\ b \in 1 .. Len(attempts[r])
          /\ Len(attempts[r]) \in Nat /\ rows[i] = <<r, a>> /\ rows[j] = <<r, b>>
      BY <1>1, <2>3, ResultIsPair, StoredAttempts DEF Exists, FormalInv
    <3>2. /\ attempts[r][a].status = "COMPLETED_PENDING_REVIEW"
          /\ attempts[r][b].status = "COMPLETED_PENDING_REVIEW"
      BY <2>3, <3>1 DEF Attempt
    <3> HIDE DEF r, a, b
    <3>3. a = Len(attempts[r]) /\ b = Len(attempts[r])
      BY <2>1, <3>1, <3>2 DEF OneLiveAttempt
    <3> QED
      BY <1>1, <3>1, <3>3 DEF FormalInv, RowsFit
  <2>5. AnsweredIsStored
    BY <1>1, CallerFacts DEF AnsweredIsStored, At, Fits, Finishing
  <2>6. SomeResultIsCurrent
    <3>1. rows # << >> => Stored # {}
      BY <1>1, StoredExist, EmptySeq DEF Stored
    <3> QED
      BY <1>1, <3>1 DEF HeadsInv, LeadsToHead, SomeResultIsCurrent
  <2> QED
    BY <2>1, <2>2, <2>4, <2>5, <2>6 DEF AttemptsSound
<1> QED
  BY <1>1, InitFormalInv, NextFormalInv, InitHeadsInv, NextHeadsInv, PTL DEF Spec

(***************************************************************************)
(* The store implements the contract of attempts                           *)
(***************************************************************************)
Told(a) == [status |-> a.status, record |-> a.record]
HistoryOf(some) == [n \in 1 .. Len(some) |-> Told(some[n])]
History == [r \in Runs |-> HistoryOf(attempts[r])]
ToldAttempt == [status : Statuses, record : {"none", "result", "failure"}]

\* What is told of a run, of its next attempt and of a changed one.
LEMMA ToldOfNone == HistoryOf(<< >>) = << >>
BY DEF HistoryOf

LEMMA ToldOfRun ==
  ASSUME NEW some \in Seq(AttemptRecord)
  PROVE  /\ HistoryOf(some) \in Seq(ToldAttempt) /\ Len(HistoryOf(some)) = Len(some)
         /\ \A n \in 1 .. Len(some) : HistoryOf(some)[n] = Told(some[n])
         /\ DOMAIN HistoryOf(some) = 1 .. Len(some)
<1>1. \A n \in 1 .. Len(some) : Told(some[n]) \in ToldAttempt
  <2> SUFFICES ASSUME NEW n \in 1 .. Len(some) PROVE Told(some[n]) \in ToldAttempt
    OBVIOUS
  <2>1. some[n] \in AttemptRecord
    BY ElementOfSeq
  <2> QED
    BY <2>1 DEF Told, AttemptRecord, ToldAttempt
<1>2. Len(some) \in Nat
  BY LenProperties
<1> QED
  BY <1>1, <1>2 DEF HistoryOf

LEMMA ToldOfNext ==
  ASSUME NEW some \in Seq(AttemptRecord), NEW b \in AttemptRecord
  PROVE  HistoryOf(Append(some, b)) = Append(HistoryOf(some), Told(b))
<1> DEFINE new == Append(some, b)
           told == Append(HistoryOf(some), Told(b))
<1>1. /\ new \in Seq(AttemptRecord) /\ Len(new) = Len(some) + 1 /\ Len(some) \in Nat
      /\ \A n \in 1 .. Len(some) : new[n] = some[n]
      /\ new[Len(some) + 1] = b
  BY AppendProperties, LenProperties
<1>2. HistoryOf(some) \in Seq(ToldAttempt) /\ Len(HistoryOf(some)) = Len(some)
      /\ Told(b) \in ToldAttempt
  BY ToldOfRun DEF Told, AttemptRecord, ToldAttempt
<1>3. /\ told \in Seq(ToldAttempt) /\ Len(told) = Len(some) + 1
      /\ \A n \in 1 .. Len(some) : told[n] = HistoryOf(some)[n]
      /\ told[Len(some) + 1] = Told(b)
  BY <1>2, AppendProperties
<1>4. /\ HistoryOf(new) \in Seq(ToldAttempt) /\ Len(HistoryOf(new)) = Len(some) + 1
      /\ \A n \in 1 .. Len(some) + 1 : HistoryOf(new)[n] = Told(new[n])
  BY <1>1, ToldOfRun
<1>5. \A n \in 1 .. Len(some) : HistoryOf(some)[n] = Told(some[n])
  BY ToldOfRun
<1> HIDE DEF new, told
<1>6. \A n \in 1 .. Len(some) + 1 : HistoryOf(new)[n] = told[n]
  BY <1>1, <1>3, <1>4, <1>5
<1> QED
  BY <1>3, <1>4, <1>6, SeqEqual DEF new, told

LEMMA ToldOfChange ==
  ASSUME NEW some \in Seq(AttemptRecord), NEW n \in 1 .. Len(some), NEW b \in AttemptRecord
  PROVE  HistoryOf([some EXCEPT ![n] = b]) = [HistoryOf(some) EXCEPT ![n] = Told(b)]
<1> DEFINE new == [some EXCEPT ![n] = b]
<1>1. Len(new) = Len(some) /\ \A i \in 1 .. Len(some) : new[i] = IF i = n THEN b ELSE some[i]
  BY ExceptSeq
<1>2. HistoryOf(new) = [i \in 1 .. Len(some) |-> IF i = n THEN Told(b) ELSE Told(some[i])]
  <2> HIDE DEF new
  <2> QED
    BY <1>1 DEF HistoryOf
<1>3. [HistoryOf(some) EXCEPT ![n] = Told(b)]
        = [i \in 1 .. Len(some) |-> IF i = n THEN Told(b) ELSE Told(some[i])]
  BY DEF HistoryOf
<1> QED
  BY <1>2, <1>3

LEMMA ContractHistory ==
  /\ Contract!Init <=> History = [r \in Runs |-> << >>]
  /\ Contract!Next <=> \E r \in Runs : Contract!Start(r) \/ Contract!Advance(r)
  /\ \A r \in Runs :
       Contract!Start(r) <=>
         /\ \/ History[r] = << >>
            \/ /\ History[r] # << >>
               /\ History[r][Len(History[r])].status \in {"RETRY_AVAILABLE", "ABANDONED"}
         /\ History' = [History EXCEPT ![r] =
                          Append(@, [status |-> "RUNNING", record |-> "none"])]
  /\ \A r \in Runs :
       Contract!Advance(r) <=>
         \E n \in DOMAIN History[r], to \in Statuses :
           /\ <<History[r][n].status, to>> \in Contract!Permitted
           /\ History' = [History EXCEPT ![r][n] =
                            [status |-> to, record |-> Contract!RecordAfter(@, to)]]
BY DEF Contract!Init, Contract!Next, Contract!Start, Contract!Advance, History, HistoryOf, Told,
       Contract!Statuses, Statuses

LEMMA CreatingTold ==
  ASSUME FormalInv, NEW at \in Results, NEW request \in Requests,
         Len(attempts[at[1]]) = at[2] - 1,
         at[2] > 1 => attempts[at[1]][at[2] - 1].status \in Over,
         attempts' = [attempts EXCEPT ![at[1]] =
                        SubSeq(attempts[at[1]], 1, at[2] - 1) \o <<StartedBy(request)>>]
  PROVE  Contract!Next
<1> DEFINE r == at[1]
           old == attempts[r]
           b == StartedBy(request)
<1>1. /\ r \in Runs /\ old \in Seq(AttemptRecord) /\ Len(old) \in Nat
      /\ b \in AttemptRecord /\ attempts'[r] = Append(old, b)
      /\ \A q \in Runs \ {r} : attempts'[q] = attempts[q]
      /\ at[2] \in Nat \ {0}
  BY CreatedAttempt, StoredAttempts, ResultIsPair DEF FormalInv
<1>2. HistoryOf(attempts'[r]) = Append(HistoryOf(old), Told(b))
  BY <1>1, ToldOfNext
<1>3. Told(b) = [status |-> "RUNNING", record |-> "none"]
  BY DEF Told, StartedBy
<1>4. History' = [History EXCEPT ![r] = Append(@, [status |-> "RUNNING", record |-> "none"])]
  <2> HIDE DEF r, old, b
  <2>1. History' = [q \in Runs |-> HistoryOf(attempts'[q])]
    BY DEF History
  <2>2. History[r] = HistoryOf(old) /\ \A q \in Runs : History[q] = HistoryOf(attempts[q])
    BY <1>1 DEF History, old
  <2>3. History' = [q \in Runs |-> IF q = r THEN Append(History[r], Told(b)) ELSE History[q]]
    BY <1>1, <1>2, <2>1, <2>2
  <2>4. [History EXCEPT ![r] = Append(History[r], Told(b))]
          = [q \in Runs |-> IF q = r THEN Append(History[r], Told(b)) ELSE History[q]]
    BY DEF History
  <2> QED
    BY <1>3, <2>3, <2>4
<1>5. /\ History[r] = HistoryOf(old) /\ Len(HistoryOf(old)) = Len(old)
      /\ \A n \in 1 .. Len(old) : HistoryOf(old)[n] = Told(old[n])
  BY <1>1, ToldOfRun DEF History
<1>6. CASE at[2] = 1
  <2>1. old = << >>
    BY <1>1, <1>6, EmptySeq
  <2>2. History[r] = << >>
    BY <1>5, <2>1, ToldOfNone
  <2> QED
    BY <1>1, <1>4, <2>2, ContractHistory
<1>7. CASE at[2] > 1
  <2>1. Len(old) = at[2] - 1 /\ Len(old) \in 1 .. Len(old) /\ old[Len(old)].status \in Over
    BY <1>1, <1>7
  <2>2. History[r][Len(History[r])].status \in {"RETRY_AVAILABLE", "ABANDONED"}
    <3> HIDE DEF r, old
    <3>1. History[r][Len(History[r])] = Told(old[Len(old)])
      BY <1>5, <2>1
    <3>2. Told(old[Len(old)]).status = old[Len(old)].status
      BY DEF Told
    <3> QED
      BY <2>1, <3>1, <3>2 DEF Over
  <2>3. History[r] # << >>
    BY <1>5, <2>1
  <2> QED
    BY <1>1, <1>4, <2>2, <2>3, ContractHistory
<1> QED
  BY <1>1, <1>6, <1>7

LEMMA ChangingTold ==
  ASSUME FormalInv, NEW at, Exists(at), NEW b \in AttemptRecord,
         attempts' = [attempts EXCEPT ![at[1]] = [attempts[at[1]] EXCEPT ![at[2]] = b]],
         b.record = RecordWith(Attempt(at).record, b.status),
         \/ Attempt(at).status = "RUNNING"
              /\ b.status \in {"COMPLETED_PENDING_REVIEW", "FAILED", "INTERRUPTED"}
         \/ Attempt(at).status \in {"FAILED", "INTERRUPTED"} /\ b.status = "RETRY_AVAILABLE"
         \/ Attempt(at).status \in {"INTERRUPTED", "RETRY_AVAILABLE"} /\ b.status = "ABANDONED",
         AttemptFits(at)
  PROVE  Contract!Next
<1> DEFINE r == at[1]
           old == attempts[r]
<1>1. /\ r \in Runs /\ old \in Seq(AttemptRecord) /\ at[2] \in 1 .. Len(old)
      /\ attempts'[r] = [old EXCEPT ![at[2]] = b]
      /\ \A q \in Runs \ {r} : attempts'[q] = attempts[q]
      /\ old[at[2]] = Attempt(at)
  <2>1. at \in Results /\ at[1] \in Runs
    BY ResultIsPair DEF Exists
  <2> QED
    BY <2>1, ChangedAttempt, StoredAttempts DEF FormalInv, Exists, FormalTypeOK, Attempt
<1>2. HistoryOf(attempts'[r]) = [HistoryOf(old) EXCEPT ![at[2]] = Told(b)]
  <2> HIDE DEF r, old
  <2>0. old \in Seq(AttemptRecord) /\ at[2] \in 1 .. Len(old)
    BY <1>1
  <2>1. HistoryOf([old EXCEPT ![at[2]] = b]) = [HistoryOf(old) EXCEPT ![at[2]] = Told(b)]
    BY <2>0, ToldOfChange
  <2> QED
    BY <1>1, <2>1
<1>3. /\ History[r] = HistoryOf(old) /\ DOMAIN History[r] = 1 .. Len(old)
      /\ History[r][at[2]] = Told(Attempt(at))
  BY <1>1, ToldOfRun DEF History
<1>4. Told(b) = [status |-> b.status,
                 record |-> Contract!RecordAfter(Told(Attempt(at)), b.status)]
  BY DEF Told, AttemptFits, RecordWith, Contract!RecordAfter
<1>5. <<Told(Attempt(at)).status, b.status>> \in Contract!Permitted
  BY DEF Told, Contract!Permitted
<1>6. History' = [History EXCEPT ![r][at[2]] = Told(b)]
  <2> DEFINE told == [HistoryOf(old) EXCEPT ![at[2]] = Told(b)]
  <2> HIDE DEF r, old
  <2>1. History' = [q \in Runs |-> HistoryOf(attempts'[q])]
    BY DEF History
  <2>2. \A q \in Runs : History[q] = HistoryOf(attempts[q])
    BY DEF History
  <2>3. History' = [q \in Runs |-> IF q = r THEN told ELSE History[q]]
    BY <1>1, <1>2, <2>1, <2>2
  <2>4. [History EXCEPT ![r] = told] = [q \in Runs |-> IF q = r THEN told ELSE History[q]]
    BY DEF History
  <2>5. [History EXCEPT ![r][at[2]] = Told(b)]
          = [History EXCEPT ![r] = [History[r] EXCEPT ![at[2]] = Told(b)]]
    BY <1>1 DEF History
  <2> QED
    BY <1>3, <2>3, <2>4, <2>5
<1>7. b.status \in Statuses
  BY DEF AttemptRecord
<1>8. History' = [History EXCEPT ![r][at[2]] =
                    [status |-> b.status, record |-> Contract!RecordAfter(@, b.status)]]
  BY <1>3, <1>4, <1>6
<1> QED
  BY <1>1, <1>3, <1>5, <1>7, <1>8, ContractHistory

LEMMA UntoldStep ==
  ASSUME FormalInv, NEW c \in Callers,
         \/ attempts' = attempts
         \/ RunEngine(c)
  PROVE  History' = History
<1>1. CASE attempts' = attempts
  BY <1>1 DEF History
<1>2. CASE RunEngine(c)
  <2>1. PICK at, b :
          /\ at = call[c].at /\ b = [Attempt(at) EXCEPT !.engine = @ + 1]
          /\ attempts' = [attempts EXCEPT ![at[1]] = [attempts[at[1]] EXCEPT ![at[2]] = b]]
          /\ call[c].pc = "engine"
    BY <1>2 DEF RunEngine, At, Attempt
  <2>2. /\ Exists(at) /\ at \in Results /\ at[1] \in Runs /\ Attempt(at) \in AttemptRecord
    BY <2>1, CallerFacts, ResultIsPair DEF Exists
  <2>3. b \in AttemptRecord /\ Told(b) = Told(Attempt(at))
    BY <2>1, <2>2 DEF AttemptRecord, Told
  <2>4. /\ attempts[at[1]] \in Seq(AttemptRecord) /\ at[2] \in 1 .. Len(attempts[at[1]])
        /\ attempts'[at[1]] = [attempts[at[1]] EXCEPT ![at[2]] = b]
        /\ \A q \in Runs \ {at[1]} : attempts'[q] = attempts[q]
    BY <2>1, <2>2, <2>3, ChangedAttempt, StoredAttempts DEF FormalInv, Exists, FormalTypeOK
  <2>5. HistoryOf(attempts'[at[1]]) = [HistoryOf(attempts[at[1]]) EXCEPT ![at[2]] = Told(b)]
    BY <2>3, <2>4, ToldOfChange
  <2>6. HistoryOf(attempts[at[1]])[at[2]] = Told(b)
    BY <2>3, <2>4 DEF HistoryOf, Attempt
  <2>7. HistoryOf(attempts'[at[1]]) = HistoryOf(attempts[at[1]])
    BY <2>5, <2>6 DEF HistoryOf
  <2> QED
    BY <2>4, <2>7 DEF History
<1> QED
  BY <1>1, <1>2

LEMMA NextImplements ==
  ASSUME FormalInv, [Next]_vars
  PROVE  Contract!Next \/ History' = History
<1>1. CASE UNCHANGED vars \/ Crash
  BY <1>1 DEF vars, Crash, store, History
<1>2. ASSUME NEW c \in Callers, Ask(c) PROVE History' = History
  <2>1. attempts' = attempts
    BY <1>2 DEF Ask, Execute, Retry, Recover, ShowResult, RecordCurrent, store
  <2> QED
    BY <2>1 DEF History
<1>3. ASSUME NEW c \in Callers,
             \/ RunEngine(c) \/ Guide(c) \/ ReadHeads(c) \/ CheckSupersession(c)
             \/ AppendSupersession(c) \/ Return(c)
      PROVE  History' = History
  BY <1>3, UntoldStep DEF Guide, ReadHeads, CheckSupersession, AppendSupersession, Return, store
<1>4. ASSUME NEW c \in Callers, Create(c) PROVE Contract!Next \/ History' = History
  <2>1. CASE attempts' = attempts
    BY <2>1 DEF History
  <2>2. CASE attempts' # attempts
    <3>1. PICK at, request :
            /\ at = call[c].at /\ request = call[c].request
            /\ call[c].pc = "create" /\ Len(attempts[at[1]]) = at[2] - 1
            /\ attempts' = [attempts EXCEPT ![at[1]] =
                              SubSeq(attempts[at[1]], 1, at[2] - 1) \o <<StartedBy(request)>>]
      BY <1>4, <2>2 DEF Create, Vacant, At
    <3>2. /\ at \in Results /\ request \in Requests
          /\ at[2] > 1 => attempts[at[1]][at[2] - 1].status \in Over
      BY <3>1, CallerFacts DEF CallOK, Fits
    <3> QED
      BY <3>1, <3>2, CreatingTold
  <2> QED
    BY <2>1, <2>2
<1>5. ASSUME NEW c \in Callers, AppendTerminal(c) \/ AppendRecovery(c)
      PROVE  Contract!Next \/ History' = History
  <2>1. CASE attempts' = attempts
    BY <2>1 DEF History
  <2>2. CASE attempts' # attempts
    <3>1. /\ AppendEvent(call[c].at, call[c].to)
          /\ \/ call[c].pc = "append" /\ Attempt(call[c].at).status = "RUNNING"
             \/ call[c].pc = "recover" /\ Attempt(call[c].at).status = call[c].seen
      BY <1>5, <2>2 DEF AppendTerminal, AppendRecovery, At, Extends
    <3>2. PICK at, b :
            /\ at = call[c].at
            /\ b = [Attempt(at) EXCEPT !.status = call[c].to,
                                       !.record = RecordWith(Attempt(at).record, call[c].to)]
            /\ attempts' = [attempts EXCEPT ![at[1]] = [attempts[at[1]] EXCEPT ![at[2]] = b]]
      <4>1. attempts' = [attempts EXCEPT ![call[c].at[1]] =
               [attempts[call[c].at[1]] EXCEPT ![call[c].at[2]] =
                  [Attempt(call[c].at) EXCEPT !.status = call[c].to,
                     !.record = RecordWith(Attempt(call[c].at).record, call[c].to)]]]
        BY <3>1, AppendedEvent
      <4> QED
        BY <4>1
    <3>3. /\ Exists(at) /\ AttemptFits(at) /\ Attempt(at) \in AttemptRecord
      BY <3>1, <3>2, CallerFacts
    <3>4. \/ /\ Attempt(at).status = "RUNNING"
             /\ call[c].to \in {"COMPLETED_PENDING_REVIEW", "FAILED", "INTERRUPTED"}
          \/ /\ Attempt(at).status \in {"FAILED", "INTERRUPTED"}
             /\ call[c].to = "RETRY_AVAILABLE"
          \/ /\ Attempt(at).status \in {"INTERRUPTED", "RETRY_AVAILABLE"}
             /\ call[c].to = "ABANDONED"
      <4>1. CASE call[c].pc = "append"
        BY <3>1, <3>2, <4>1, CallerFacts DEF CallOK
      <4>2. CASE call[c].pc = "recover"
        <5>1. PICK o \in DOMAIN Recoveries :
                call[c].seen \in Recoveries[o].allowed /\ call[c].to = Recoveries[o].target
          BY <4>2, CallerFacts DEF CallOK
        <5> QED
          BY <3>1, <3>2, <4>2, <5>1 DEF Recoveries
      <4> QED
        BY <3>1, <4>1, <4>2
    <3>5. /\ b.status = call[c].to /\ b \in AttemptRecord
          /\ b.record = RecordWith(Attempt(at).record, b.status)
      BY <3>2, <3>3, <3>4 DEF AttemptRecord, RecordWith, Statuses
    <3> QED
      BY <3>2, <3>3, <3>4, <3>5, ChangingTold
  <2> QED
    BY <2>1, <2>2
<1> QED
  BY <1>1, <1>2, <1>3, <1>4, <1>5 DEF Next, Continue

\* What the run service stores is what the frozen contracts of a formal assessment
\* permit: gap-free attempts, permitted transitions, one immutable terminal record
\* (run_service.py implements contracts/formal-assessment).
THEOREM StoreKeepsContract == Spec => KeepsContract
<1>1. Init => Contract!Init
  <2> SUFFICES ASSUME Init PROVE History = [r \in Runs |-> << >>]
    BY ContractHistory
  <2> QED
    BY ToldOfNone DEF Init, History
<1>2. FormalInv /\ [Next]_vars => [Contract!Next]_History
  BY NextImplements
<1>3. Contract!Spec <=> Contract!Init /\ [][Contract!Next]_History
  BY DEF Contract!Spec, History, HistoryOf, Told
<1> QED
  BY <1>1, <1>2, <1>3, InitFormalInv, NextFormalInv, PTL DEF Spec, KeepsContract

-----------------------------------------------------------------------------
(***************************************************************************)
(* The adapter: what preflights projects, and what projects is accepted    *)
(***************************************************************************)
LEMMA Competing ==
  ASSUME NEW S, IsFiniteSet(S), Cardinality(S) # 1, S # {}
  PROVE  \E a, b \in S : a # b
  BY FS_Singleton

LEMMA TwoOfThem ==
  ASSUME NEW S, IsFiniteSet(S), NEW a \in S, NEW b \in S, a # b
  PROVE  Cardinality(S) >= 2
  <1>1. IsFiniteSet({a}) /\ Cardinality({a}) = 1
    BY FS_Singleton
  <1>2. IsFiniteSet({a} \cup {b}) /\ Cardinality({a} \cup {b}) = 2
    <2>1. PICK T : T = {a}
      OBVIOUS
    <2>2. IsFiniteSet(T) /\ Cardinality(T) = 1 /\ b \notin T
      BY <1>1, <2>1
    <2>3. /\ IsFiniteSet(T \cup {b})
          /\ Cardinality(T \cup {b}) = IF b \in T THEN Cardinality(T) ELSE Cardinality(T) + 1
      BY <2>2, FS_AddElement
    <2>. QED
      BY <2>1, <2>2, <2>3
  <1>3. {a} \cup {b} \in SUBSET S
    OBVIOUS
  <1>4. Cardinality({a} \cup {b}) <= Cardinality(S)
    BY <1>3, FS_Subset
  <1>5. Cardinality(S) \in Nat
    BY FS_CardinalityType
  <1>. QED
    BY <1>2, <1>4, <1>5

\* A function of finitely many things has finitely many values.
LEMMA FiniteRange ==
  ASSUME NEW S, IsFiniteSet(S), NEW g, NEW T, T = {g[x] : x \in S}, DOMAIN g = S,
         g = [x \in S |-> g[x]]
  PROVE  IsFiniteSet(T)
  <1>1. g \in Surjection(S, T)
    BY DEF Surjection
  <1>. QED
    BY <1>1, FS_Surjection

\* Candidates as the draft pins them.
Usable(mappings) ==
  IsFiniteSet(mappings) /\ \A m \in mappings : m.positive => m.value \in Values

LEMMA KeysAre ==
  ASSUME NEW mappings, Usable(mappings), NEW f
  PROVE  /\ IsFiniteSet(Keys(mappings, f)) /\ None \notin Keys(mappings, f)
         /\ (Keys(mappings, f) = {} <=> Positive(mappings, f) = {})
  <1>1. Positive(mappings, f) \in SUBSET mappings
    BY DEF Positive
  <1>2. IsFiniteSet(Positive(mappings, f))
    BY <1>1, FS_Subset DEF Usable
  <1>3. PICK g : g = [m \in Positive(mappings, f) |-> m.value]
    OBVIOUS
  <1>4. IsFiniteSet(Keys(mappings, f))
    <2>1. Keys(mappings, f) = {g[m] : m \in Positive(mappings, f)}
      BY <1>3 DEF Keys
    <2>2. DOMAIN g = Positive(mappings, f) /\ g = [m \in Positive(mappings, f) |-> g[m]]
      BY <1>3
    <2>. QED
      BY <1>2, <2>1, <2>2, FiniteRange
  <1>5. None \notin Keys(mappings, f)
    BY NoneAssumption DEF Keys, Positive, Usable
  <1>6. Keys(mappings, f) = {} <=> Positive(mappings, f) = {}
    BY DEF Keys
  <1>. QED
    BY <1>4, <1>5, <1>6

\* The traces of a field, by its three cases.
LEMMA SourceTrace ==
  ASSUME NEW app, NEW mappings, NEW res, NEW f \in Fields,
         NEW t, t = ProjectField(app, mappings, res, f), Keys(mappings, f) = {}
  PROVE  /\ f \notin Conflicts(app, mappings) /\ t.approved = app[f].value
         /\ t.origin = "SOURCE_ONLY" /\ t.projected = app[f].value
         /\ t.mappings = {} /\ t.evidence = app[f].cited
  <1>1. f \notin Conflicts(app, mappings)
    BY DEF Conflicts, Settled
  <1>. QED
    BY <1>1 DEF ProjectField, Trace

LEMMA ResolvedTrace ==
  ASSUME NEW app, NEW mappings, NEW res, NEW f \in Fields,
         NEW t, t = ProjectField(app, mappings, res, f), f \in Conflicts(app, mappings)
  PROVE  /\ Keys(mappings, f) # {} /\ t.approved = app[f].value
         /\ t.origin = "EXPLICITLY_RESOLVED" /\ t.projected = res[f].selected
         /\ t.evidence = TRUE
  <1>1. Keys(mappings, f) # {}
    BY DEF Conflicts, Settled
  <1>. QED
    BY <1>1 DEF ProjectField, Trace, ResolvedValue, ResolvedMappings

LEMMA ResolvedCarriesAll ==
  ASSUME NEW app, NEW mappings, NEW res, NEW f \in Conflicts(app, mappings)
  PROVE  ProjectField(app, mappings, res, f).mappings = Positive(mappings, f)
  <1>1. Keys(mappings, f) # {}
    BY DEF Conflicts, Settled
  <1>. QED
    BY <1>1 DEF ProjectField, Trace, ResolvedValue, ResolvedMappings

LEMMA AgreedTrace ==
  ASSUME NEW app, NEW mappings, NEW res, NEW f \in Fields,
         NEW t, t = ProjectField(app, mappings, res, f),
         Keys(mappings, f) # {}, f \notin Conflicts(app, mappings)
  PROVE  /\ t = ProjectField(app, mappings, << >>, f) /\ t.approved = app[f].value
         /\ t.origin # "EXPLICITLY_RESOLVED"
         /\ t.projected = CHOOSE v \in Keys(mappings, f) : TRUE
  BY DEF ProjectField, Trace

\* A preflight that succeeds found every conflict: once each has one of its
\* alternatives selected, the adapter projects.
LEMMA PreflightedProjects ==
  ASSUME NEW app, NEW mappings, Usable(mappings), NEW res,
         Preflights(app, mappings), DOMAIN res = Conflicts(app, mappings),
         \A f \in DOMAIN res : Resolves(app, mappings, res[f], f)
  PROVE  Projects(app, mappings, res)
  <1> SUFFICES ASSUME NEW f \in Fields
               PROVE  /\ f \in DOMAIN res => AlternativesValid(app, mappings, f)
                      /\ TraceValid(ProjectField(app, mappings, res, f))
    BY DEF Projects
  <1>1. CASE f \in Conflicts(app, mappings)
    <2>1. AlternativesValid(app, mappings, f)
      BY <1>1 DEF Preflights, ConflictNoted
    <2>2. TraceValid(ProjectField(app, mappings, res, f))
      <3>1. PICK t : t = ProjectField(app, mappings, res, f)
        OBVIOUS
      <3>2. /\ t.origin = "EXPLICITLY_RESOLVED" /\ t.evidence = TRUE
            /\ Keys(mappings, f) # {}
        BY <1>1, <3>1, ResolvedTrace
      <3>3. t.mappings # {}
        <4>1. t.mappings = Positive(mappings, f)
          BY <1>1, <3>1, ResolvedCarriesAll
        <4>. QED
          BY <3>2, <4>1, KeysAre
      <3>. QED
        BY <3>1, <3>2, <3>3 DEF TraceValid
    <2>. QED
      BY <2>1, <2>2
  <1>2. CASE f \notin Conflicts(app, mappings)
    <2>1. TraceValid(ProjectField(app, mappings, << >>, f))
      BY <1>2 DEF Preflights
    <2>2. ProjectField(app, mappings, res, f) = ProjectField(app, mappings, << >>, f)
      BY <1>2 DEF ProjectField
    <2>. QED
      BY <1>2, <2>1, <2>2
  <1>. QED
    BY <1>1, <1>2

\* No mapping replaces an approved value by itself.
LEMMA ProjectedKeeps ==
  ASSUME NEW app, NEW mappings, Usable(mappings), NEW res, NEW f \in Fields,
         DOMAIN res = Conflicts(app, mappings),
         NEW t, t = ProjectField(app, mappings, res, f)
  PROVE  \/ t.projected = app[f].value
         \/ f \in DOMAIN res /\ t.projected = res[f].selected
         \/ app[f].value = None /\ {t.projected} = Keys(mappings, f)
  <1>1. CASE Keys(mappings, f) = {}
    BY <1>1, SourceTrace
  <1>2. CASE f \in Conflicts(app, mappings)
    <2>1. t.projected = res[f].selected
      BY <1>2, ResolvedTrace, ZenonT(40)
    <2>. QED
      BY <1>2, <2>1
  <1>3. CASE Keys(mappings, f) # {} /\ f \notin Conflicts(app, mappings)
    <2>1. Settled(app, mappings, f)
      BY <1>3 DEF Conflicts
    <2>2. PICK v : Keys(mappings, f) = {v} /\ (app[f].value = None \/ v = app[f].value)
      <3>1. CASE app[f].value = None /\ Cardinality(Keys(mappings, f)) = 1
        BY <3>1, KeysAre, FS_Singleton
      <3>2. CASE Keys(mappings, f) = {app[f].value}
        BY <3>2
      <3>. QED
        BY <1>3, <2>1, <3>1, <3>2 DEF Settled
    <2>3. t.projected = CHOOSE w \in {v} : TRUE
      BY <1>3, <2>2, AgreedTrace
    <2>4. (CHOOSE w \in {v} : TRUE) = v
      OBVIOUS
    <2>. QED
      BY <2>2, <2>3, <2>4
  <1>. QED
    BY <1>1, <1>2, <1>3

LEMMA ConflictsAreFields ==
  ASSUME NEW app, NEW mappings, NEW f \in Conflicts(app, mappings)
  PROVE  f \in Fields
  BY DEF Conflicts

\* The alternative of a value in a conflict.
Alternative(app, mappings, f, v) ==
    [value |-> v,
     origin |-> CASE v # app[f].value -> "SUPPORTING_MAPPING"
                  [] v = app[f].value /\ v \in Keys(mappings, f) -> "CORROBORATED"
                  [] OTHER -> "APPROVED_PROCESS",
     evidence |-> v \in Keys(mappings, f) \/ app[f].cited,
     mappings |-> { m \in Positive(mappings, f) : m.value = v }]

LEMMA AlternativesAre ==
  ASSUME NEW app, NEW mappings, NEW f
  PROVE  Alternatives(app, mappings, f) =
           { Alternative(app, mappings, f, v) :
               v \in Keys(mappings, f) \cup ({app[f].value} \ {None}) }
  BY DEF Alternatives, Alternative

LEMMA AlternativeFields ==
  ASSUME NEW app, NEW mappings, NEW f, NEW v,
         NEW a, a = Alternative(app, mappings, f, v)
  PROVE  /\ a.value = v
         /\ a.mappings = { m \in Positive(mappings, f) : m.value = v }
         /\ v # app[f].value => a.origin = "SUPPORTING_MAPPING"
         /\ v = app[f].value /\ v \in Keys(mappings, f) => a.origin = "CORROBORATED"
         /\ v = app[f].value /\ v \notin Keys(mappings, f) => a.origin = "APPROVED_PROCESS"
  <1>1. /\ a.value = v /\ a.mappings = { m \in Positive(mappings, f) : m.value = v }
        /\ a.origin = CASE v # app[f].value -> "SUPPORTING_MAPPING"
                        [] v = app[f].value /\ v \in Keys(mappings, f) -> "CORROBORATED"
                        [] OTHER -> "APPROVED_PROCESS"
    BY DEF Alternative
  <1>2. CASE v # app[f].value
    BY <1>1, <1>2
  <1>3. CASE v = app[f].value /\ v \in Keys(mappings, f)
    BY <1>1, <1>3
  <1>4. CASE v = app[f].value /\ v \notin Keys(mappings, f)
    BY <1>1, <1>4
  <1>. QED
    BY <1>2, <1>3, <1>4

KnownOf(alternatives) == { a \in alternatives : a.origin \in {"APPROVED_PROCESS", "CORROBORATED"} }
SupportingOf(alternatives) ==
    { a \in alternatives : a.origin \in {"SUPPORTING_MAPPING", "CORROBORATED"} }

\* The alternatives of known origin: the approved value, when there is one.
LEMMA KnownAlternatives ==
  ASSUME NEW app, NEW mappings, Usable(mappings), NEW f, NEW as,
         as = Alternatives(app, mappings, f)
  PROVE  \A a : a \in KnownOf(as) <=>
                  app[f].value # None /\ a = Alternative(app, mappings, f, app[f].value)
  <1>1. None \notin Keys(mappings, f)
    BY KeysAre
  <1>2. ASSUME NEW a \in KnownOf(as)
        PROVE  app[f].value # None /\ a = Alternative(app, mappings, f, app[f].value)
    <2>1. a \in as /\ a.origin \in {"APPROVED_PROCESS", "CORROBORATED"}
      BY <1>2 DEF KnownOf
    <2>2. PICK v \in Keys(mappings, f) \cup ({app[f].value} \ {None}) :
                 a = Alternative(app, mappings, f, v)
      BY <2>1, AlternativesAre
    <2>3. v # app[f].value => a.origin = "SUPPORTING_MAPPING"
      BY <2>2, AlternativeFields
    <2>4. v = app[f].value
      BY <2>1, <2>3
    <2>. QED
      BY <1>1, <2>2, <2>4
  <1>3. ASSUME NEW a, app[f].value # None, a = Alternative(app, mappings, f, app[f].value)
        PROVE  a \in KnownOf(as)
    <2>1. a \in as
      BY <1>3, AlternativesAre
    <2>2. PICK v : v = app[f].value
      OBVIOUS
    <2>3. a = Alternative(app, mappings, f, v)
      BY <1>3, <2>2
    <2>4. /\ v \in Keys(mappings, f) => a.origin = "CORROBORATED"
          /\ v \notin Keys(mappings, f) => a.origin = "APPROVED_PROCESS"
      BY <2>2, <2>3, AlternativeFields
    <2>. QED
      BY <2>1, <2>4 DEF KnownOf
  <1>. QED
    BY <1>2, <1>3

\* The supporting ones: one for each group of mappings.
LEMMA SupportingAlternatives ==
  ASSUME NEW app, NEW mappings, NEW f, NEW as,
         as = Alternatives(app, mappings, f)
  PROVE  \A a : a \in SupportingOf(as) <=>
                  \E v \in Keys(mappings, f) : a = Alternative(app, mappings, f, v)
  <1>2. ASSUME NEW a \in SupportingOf(as)
        PROVE  \E v \in Keys(mappings, f) : a = Alternative(app, mappings, f, v)
    <2>1. a \in as /\ a.origin \in {"SUPPORTING_MAPPING", "CORROBORATED"}
      BY <1>2 DEF SupportingOf
    <2>2. PICK v \in Keys(mappings, f) \cup ({app[f].value} \ {None}) :
                 a = Alternative(app, mappings, f, v)
      BY <2>1, AlternativesAre
    <2>3. v = app[f].value /\ v \notin Keys(mappings, f) => a.origin = "APPROVED_PROCESS"
      BY <2>2, AlternativeFields
    <2>. QED
      BY <2>1, <2>2, <2>3
  <1>3. ASSUME NEW v \in Keys(mappings, f), NEW a, a = Alternative(app, mappings, f, v)
        PROVE  a \in SupportingOf(as)
    <2>1. a \in as
      BY <1>3, AlternativesAre
    <2>2. /\ v # app[f].value => a.origin = "SUPPORTING_MAPPING"
          /\ v = app[f].value /\ v \in Keys(mappings, f) => a.origin = "CORROBORATED"
      BY <1>3, AlternativeFields
    <2>. QED
      BY <2>1, <2>2 DEF SupportingOf
  <1>. QED
    BY <1>2, <1>3

\* Together the supporting alternatives carry every positive mapping.
LEMMA SupportingCarryAll ==
  ASSUME NEW app, NEW mappings, NEW f, NEW as,
         as = Alternatives(app, mappings, f), NEW m
  PROVE  m \in UNION { a.mappings : a \in SupportingOf(as) } <=> m \in Positive(mappings, f)
  <1>1. ASSUME m \in UNION { a.mappings : a \in SupportingOf(as) }
        PROVE  m \in Positive(mappings, f)
    <2>1. PICK a \in SupportingOf(as) : m \in a.mappings
      BY <1>1
    <2>2. PICK v \in Keys(mappings, f) : a = Alternative(app, mappings, f, v)
      BY <2>1, SupportingAlternatives
    <2>3. a.mappings = { n \in Positive(mappings, f) : n.value = v }
      BY <2>2 DEF Alternative
    <2>. QED
      BY <2>1, <2>3
  <1>2. ASSUME m \in Positive(mappings, f)
        PROVE  m \in UNION { a.mappings : a \in SupportingOf(as) }
    <2>1. m.value \in Keys(mappings, f)
      BY <1>2 DEF Keys
    <2>2. PICK v : v = m.value
      OBVIOUS
    <2>3. PICK a : a = Alternative(app, mappings, f, v)
      OBVIOUS
    <2>4. a \in SupportingOf(as)
      BY <2>1, <2>2, <2>3, SupportingAlternatives
    <2>5. a.mappings = { n \in Positive(mappings, f) : n.value = v }
      BY <2>3 DEF Alternative
    <2>6. m \in a.mappings
      BY <1>2, <2>2, <2>5
    <2>. QED
      BY <2>4, <2>6
  <1>. QED
    BY <1>1, <1>2

\* A field left unknown by the review is in conflict over two groups at least.
LEMMA UnknownCompetes ==
  ASSUME NEW app, NEW mappings, Usable(mappings), NEW f \in Conflicts(app, mappings),
         app[f].value = None, NEW supporting,
         supporting = SupportingOf(Alternatives(app, mappings, f))
  PROVE  Cardinality(supporting) >= 2
  <1>1. Keys(mappings, f) # {} /\ Cardinality(Keys(mappings, f)) # 1
    BY DEF Conflicts, Settled
  <1>2. IsFiniteSet(Keys(mappings, f))
    BY KeysAre
  <1>3. PICK v, w \in Keys(mappings, f) : v # w
    BY <1>1, <1>2, Competing
  <1>4. PICK as : as = Alternatives(app, mappings, f)
    OBVIOUS
  <1>5. supporting = SupportingOf(as)
    BY <1>4
  <1>6. \A a : a \in supporting <=>
                  \E u \in Keys(mappings, f) : a = Alternative(app, mappings, f, u)
    BY <1>4, <1>5, SupportingAlternatives
  <1>7. PICK g : g = [u \in Keys(mappings, f) |-> Alternative(app, mappings, f, u)]
    OBVIOUS
  <1>8. IsFiniteSet(supporting)
    <2>1. supporting = {g[u] : u \in Keys(mappings, f)}
      BY <1>6, <1>7
    <2>2. DOMAIN g = Keys(mappings, f) /\ g = [u \in Keys(mappings, f) |-> g[u]]
      BY <1>7
    <2>. QED
      BY <1>2, <2>1, <2>2, FiniteRange
  <1>9. PICK a : a = Alternative(app, mappings, f, v)
    OBVIOUS
  <1>10. PICK b : b = Alternative(app, mappings, f, w)
    OBVIOUS
  <1>11. a \in supporting /\ b \in supporting
    BY <1>6, <1>9, <1>10
  <1>12. a.value = v /\ b.value = w
    BY <1>9, <1>10 DEF Alternative
  <1>. QED
    BY <1>3, <1>8, <1>11, <1>12, TwoOfThem

\* What the adapter builds for a conflict the contract of projections accepts.
LEMMA ResolvedIsAccepted ==
  ASSUME NEW app, NEW mappings, Usable(mappings), NEW f \in Conflicts(app, mappings),
         NEW as, as = Alternatives(app, mappings, f),
         NEW known, known = KnownOf(as), NEW supporting, supporting = SupportingOf(as)
  PROVE  IF app[f].value = None
         THEN known = {} /\ Cardinality(supporting) >= 2
         ELSE /\ Cardinality(known) = 1 /\ supporting # {}
              /\ \A a \in known : a.value = app[f].value
  <1>1. \A a : a \in known <=>
                 app[f].value # None /\ a = Alternative(app, mappings, f, app[f].value)
    BY KnownAlternatives
  <1>2. CASE app[f].value = None
    <2>1. known = {}
      BY <1>1, <1>2
    <2>2. supporting = SupportingOf(Alternatives(app, mappings, f))
      OBVIOUS
    <2>3. Cardinality(supporting) >= 2
      BY <1>2, <2>2, UnknownCompetes
    <2>. QED
      BY <1>2, <2>1, <2>3
  <1>3. CASE app[f].value # None
    <2>1. PICK k : k = Alternative(app, mappings, f, app[f].value)
      OBVIOUS
    <2>2. known = {k}
      BY <1>1, <1>3, <2>1
    <2>3. Cardinality(known) = 1
      BY <2>2, FS_Singleton
    <2>4. \A a \in known : a.value = app[f].value
      BY <2>1, <2>2 DEF Alternative
    <2>5. supporting # {}
      <3>1. PICK v \in Keys(mappings, f) : TRUE
        BY DEF Conflicts, Settled
      <3>2. PICK a : a = Alternative(app, mappings, f, v)
        OBVIOUS
      <3>3. a \in supporting
        BY <3>1, <3>2, SupportingAlternatives
      <3>. QED
        BY <3>3
    <2>. QED
      BY <1>3, <2>3, <2>4, <2>5
  <1>. QED
    BY <1>2, <1>3

\* The whole projection: every trace agrees with the contract.
LEMMA ProjectedIsAccepted ==
  ASSUME NEW app, NEW mappings, Usable(mappings), NEW res, Projects(app, mappings, res),
         NEW traces, traces = Projection(app, mappings, res)
  PROVE  ContractAccepts(app, mappings, res, traces)
  <1> SUFFICES ASSUME NEW f \in Fields
               PROVE  /\ traces[f].approved = app[f].value
                      /\ (traces[f].origin = "EXPLICITLY_RESOLVED") = (f \in DOMAIN res)
                      /\ f \in DOMAIN res =>
                           LET known == KnownOf(res[f].alternatives)
                               supporting == SupportingOf(res[f].alternatives)
                           IN  /\ traces[f].projected = res[f].selected
                               /\ UNION { a.mappings : a \in supporting } = traces[f].mappings
                               /\ IF app[f].value = None
                                  THEN known = {} /\ Cardinality(supporting) >= 2
                                  ELSE /\ Cardinality(known) = 1 /\ supporting # {}
                                       /\ \A a \in known : a.value = app[f].value
    BY DEF ContractAccepts, KnownOf, SupportingOf
  <1>1. DOMAIN res = Conflicts(app, mappings)
    BY DEF Projects
  <1>2. PICK t : t = ProjectField(app, mappings, res, f)
    OBVIOUS
  <1>3. traces[f] = t
    BY <1>2 DEF Projection
  <1>4. CASE Keys(mappings, f) = {}
    <2>1. f \notin Conflicts(app, mappings) /\ t.approved = app[f].value /\ t.origin = "SOURCE_ONLY"
      BY <1>2, <1>4, SourceTrace
    <2>. QED
      BY <1>1, <1>3, <2>1
  <1>5. CASE Keys(mappings, f) # {} /\ f \notin Conflicts(app, mappings)
    <2>1. t.approved = app[f].value /\ t.origin # "EXPLICITLY_RESOLVED"
      BY <1>2, <1>5, AgreedTrace
    <2>. QED
      BY <1>1, <1>3, <1>5, <2>1
  <1>6. CASE f \in Conflicts(app, mappings)
    <2>1. /\ t.approved = app[f].value /\ t.origin = "EXPLICITLY_RESOLVED"
          /\ t.projected = res[f].selected
      <3>1. Keys(mappings, f) # {}
        BY <1>6 DEF Conflicts, Settled
      <3>. QED
        BY <1>2, <1>6, <3>1 DEF ProjectField, Trace, ResolvedValue
    <2>2. t.mappings = Positive(mappings, f)
      BY <1>2, <1>6, ResolvedCarriesAll
    <2>3. PICK as : as = res[f].alternatives
      OBVIOUS
    <2>4. as = Alternatives(app, mappings, f)
      BY <1>1, <1>6, <2>3 DEF Projects, Resolves
    <2>5. PICK known : known = KnownOf(as)
      OBVIOUS
    <2>6. PICK supporting : supporting = SupportingOf(as)
      OBVIOUS
    <2>7. UNION { a.mappings : a \in supporting } = t.mappings
      <3>1. \A m : m \in UNION { a.mappings : a \in SupportingOf(as) } <=> m \in Positive(mappings, f)
        BY <2>4, SupportingCarryAll
      <3>2. \A m : m \in UNION { a.mappings : a \in supporting } <=> m \in t.mappings
        BY <2>2, <2>6, <3>1
      <3>. QED
        BY <3>2
    <2>8. IF app[f].value = None
          THEN known = {} /\ Cardinality(supporting) >= 2
          ELSE /\ Cardinality(known) = 1 /\ supporting # {}
               /\ \A a \in known : a.value = app[f].value
      BY <1>6, <2>4, <2>5, <2>6, ResolvedIsAccepted
    <2>. QED
      BY <1>1, <1>3, <1>6, <2>1, <2>3, <2>5, <2>6, <2>7, <2>8
  <1>. QED
    BY <1>4, <1>5, <1>6

-----------------------------------------------------------------------------
(***************************************************************************)
(* The invariant of the prepared attempt: it fits the candidate it pinned,  *)
(* which nobody else's revision of the history changes.                     *)
(***************************************************************************)
\* The selections made so far are of alternatives of the draft's conflicts.
Selects(app, d, resolutions) ==
  \A f \in DOMAIN resolutions : Resolves(app, d.mappings, resolutions[f], f)

\* What an authorization fixed, if one was made, resolves every conflict.
FinalFits(app, d) ==
  d.final # {} => \E fixed : /\ d.final = {fixed} /\ DOMAIN fixed = d.conflicts
                             /\ Selects(app, d, fixed)

DraftShape(d) ==
  /\ d = [mode |-> d.mode, disposition |-> d.disposition, head |-> d.head,
          mappings |-> d.mappings, conflicts |-> d.conflicts,
          resolutions |-> d.resolutions, final |-> d.final]
  /\ d.mode \in {ProcessOnly, Supporting}

DraftFits(app, d) ==
  /\ DraftShape(d)
  /\ Usable(d.mappings)
  /\ d.conflicts = Conflicts(app, d.mappings)
  /\ d.mode = Supporting => Preflights(app, d.mappings)
  /\ d.mode = ProcessOnly => d.mappings = {}
  /\ DOMAIN d.resolutions \subseteq d.conflicts
  /\ Selects(app, d, d.resolutions)
  /\ FinalFits(app, d)

\* DraftSound and the shape of a run, of the attempt r.
RunFits(app, r) ==
  r # NoRun =>
    /\ DOMAIN r.traces = Fields
    /\ ContractAccepts(app, r.mappings, r.resolutions, r.traces)
    /\ r.mode = ProcessOnly => \A f \in Fields : r.traces[f].origin = "SOURCE_ONLY"
    /\ \A f \in Fields :
         \/ r.traces[f].projected = app[f].value
         \/ f \in DOMAIN r.resolutions /\ r.traces[f].projected = r.resolutions[f].selected
         \/ app[f].value = None /\ {r.traces[f].projected} = Keys(r.mappings, f)

DraftInv ==
  /\ approved \in [Fields -> Approved]
  /\ /\ history.head \in 0 .. MaxHead /\ history.ready \in BOOLEAN
     /\ history.mappings \in Candidates \cup {{}}
  /\ draft # NoDraft => DraftFits(approved, draft)
  /\ RunFits(approved, run)

LEMMA NothingUsable == Usable({})
  BY FS_EmptySet DEF Usable

LEMMA HistoryUsable ==
  ASSUME NEW mappings \in Candidates \cup {{}}
  PROVE  Usable(mappings)
  BY CandidatesAssumption, NothingUsable DEF Usable

LEMMA NothingConflicts ==
  ASSUME NEW app
  PROVE  Conflicts(app, {}) = {} /\ \A f \in Fields : Keys({}, f) = {}
  BY DEF Conflicts, Settled, Keys, Positive

\* A draft as _prepare_draft makes it.
LEMMA FreshFits ==
  ASSUME NEW app, NEW mode \in {ProcessOnly, Supporting}, NEW disposition, NEW head,
         NEW mappings, Usable(mappings), NEW conflicts, conflicts = Conflicts(app, mappings),
         mode = Supporting => Preflights(app, mappings),
         mode = ProcessOnly => mappings = {},
         NEW d, d = [mode |-> mode, disposition |-> disposition, head |-> head,
                     mappings |-> mappings, conflicts |-> conflicts,
                     resolutions |-> << >>, final |-> {}]
  PROVE  DraftFits(app, d)
  <1>1. /\ d.mode = mode /\ d.disposition = disposition /\ d.head = head
        /\ d.mappings = mappings /\ d.conflicts = conflicts
        /\ d.resolutions = << >> /\ d.final = {}
    OBVIOUS
  <1>2. DraftShape(d)
    BY <1>1 DEF DraftShape
  <1>3. DOMAIN d.resolutions = {}
    BY <1>1
  <1>4. Selects(app, d, d.resolutions) /\ FinalFits(app, d)
    BY <1>1, <1>3 DEF Selects, FinalFits
  <1>. QED
    BY <1>1, <1>2, <1>3, <1>4 DEF DraftFits

\* Selecting an alternative, or dropping a selection, of a draft that fits.
LEMMA ReselectedFits ==
  ASSUME NEW app, NEW d, DraftFits(app, d), NEW resolutions,
         DOMAIN resolutions \subseteq d.conflicts, Selects(app, d, resolutions),
         NEW e, e = [d EXCEPT !.resolutions = resolutions]
  PROVE  DraftFits(app, e)
  <1>1. DraftShape(d)
    BY DEF DraftFits
  <1>2. e = [mode |-> d.mode, disposition |-> d.disposition, head |-> d.head,
             mappings |-> d.mappings, conflicts |-> d.conflicts,
             resolutions |-> resolutions, final |-> d.final]
    BY <1>1 DEF DraftShape
  <1>3. /\ e.mode = d.mode /\ e.disposition = d.disposition /\ e.head = d.head
        /\ e.mappings = d.mappings /\ e.conflicts = d.conflicts
        /\ e.resolutions = resolutions /\ e.final = d.final
    BY <1>2
  <1>4. DraftShape(e)
    BY <1>1, <1>2, <1>3 DEF DraftShape
  <1>5. Selects(app, e, e.resolutions) /\ FinalFits(app, e)
    BY <1>3 DEF Selects, DraftFits, FinalFits
  <1>. QED
    BY <1>3, <1>4, <1>5 DEF DraftFits

\* An authorization of every conflict is kept.
LEMMA FixedFits ==
  ASSUME NEW app, NEW d, DraftFits(app, d), NEW fixed,
         DOMAIN fixed = d.conflicts, Selects(app, d, fixed),
         NEW e, e = [d EXCEPT !.final = {fixed}]
  PROVE  DraftFits(app, e)
  <1>1. DraftShape(d)
    BY DEF DraftFits
  <1>2. e = [mode |-> d.mode, disposition |-> d.disposition, head |-> d.head,
             mappings |-> d.mappings, conflicts |-> d.conflicts,
             resolutions |-> d.resolutions, final |-> {fixed}]
    BY <1>1 DEF DraftShape
  <1>3. /\ e.mode = d.mode /\ e.disposition = d.disposition /\ e.head = d.head
        /\ e.mappings = d.mappings /\ e.conflicts = d.conflicts
        /\ e.resolutions = d.resolutions /\ e.final = {fixed}
    BY <1>2
  <1>4. DraftShape(e)
    BY <1>1, <1>2, <1>3 DEF DraftShape
  <1>5. Selects(app, e, e.resolutions)
    BY <1>3 DEF Selects, DraftFits
  <1>6. FinalFits(app, e)
    BY <1>3 DEF Selects, FinalFits
  <1>. QED
    BY <1>3, <1>4, <1>5, <1>6 DEF DraftFits

\* What the projection of a draft that fits is started with.
LEMMA StartedFits ==
  ASSUME NEW app, NEW d, DraftFits(app, d), NEW resolutions,
         DOMAIN resolutions = Conflicts(app, d.mappings),
         Projects(app, d.mappings, resolutions),
         NEW traces, traces = Projection(app, d.mappings, resolutions),
         NEW r, r.mode = d.mode, r.mappings = d.mappings, r.resolutions = resolutions,
         r.traces = traces
  PROVE  RunFits(app, r)
  <1>1. Usable(d.mappings)
    BY DEF DraftFits
  <1>2. DOMAIN r.traces = Fields
    BY DEF Projection
  <1>3. PICK mappings : mappings = d.mappings
    OBVIOUS
  <1>4. ContractAccepts(app, r.mappings, r.resolutions, r.traces)
    <2>1. Usable(mappings) /\ Projects(app, mappings, resolutions)
          /\ traces = Projection(app, mappings, resolutions)
      BY <1>1, <1>3
    <2>2. ContractAccepts(app, mappings, resolutions, traces)
      BY <2>1, ProjectedIsAccepted
    <2>. QED
      BY <1>3, <2>2
  <1>5. ASSUME NEW f \in Fields
        PROVE  \/ r.traces[f].projected = app[f].value
               \/ f \in DOMAIN r.resolutions /\ r.traces[f].projected = r.resolutions[f].selected
               \/ app[f].value = None /\ {r.traces[f].projected} = Keys(r.mappings, f)
    <2>1. PICK t : t = ProjectField(app, mappings, resolutions, f)
      OBVIOUS
    <2>2. r.traces[f] = t
      BY <1>3, <2>1 DEF Projection
    <2>3. Usable(mappings) /\ DOMAIN resolutions = Conflicts(app, mappings)
      BY <1>1, <1>3
    <2>4. \/ t.projected = app[f].value
          \/ f \in DOMAIN resolutions /\ t.projected = resolutions[f].selected
          \/ app[f].value = None /\ {t.projected} = Keys(mappings, f)
      BY <2>1, <2>3, ProjectedKeeps
    <2>. QED
      BY <1>3, <2>2, <2>4
  <1>6. ASSUME r.mode = ProcessOnly, NEW f \in Fields
        PROVE  r.traces[f].origin = "SOURCE_ONLY"
    <2>1. mappings = {}
      BY <1>3, <1>6 DEF DraftFits
    <2>2. Keys(mappings, f) = {}
      BY <2>1, NothingConflicts
    <2>3. PICK t : t = ProjectField(app, mappings, resolutions, f)
      OBVIOUS
    <2>4. t.origin = "SOURCE_ONLY"
      BY <2>2, <2>3, SourceTrace
    <2>. QED
      BY <1>3, <2>3, <2>4 DEF Projection
  <1>. QED
    BY <1>2, <1>4, <1>5, <1>6 DEF RunFits

LEMMA DraftInitInv == DraftInit => DraftInv
  <1> SUFFICES ASSUME DraftInit PROVE DraftInv
    OBVIOUS
  <1>1. approved \in [Fields -> Approved] /\ draft = NoDraft /\ run = NoRun
    BY DEF DraftInit
  <1>2. history.head \in 0 .. MaxHead /\ history.ready \in BOOLEAN
        /\ history.mappings \in Candidates \cup {{}}
    BY HeadAssumption DEF DraftInit, NoHistory
  <1>. QED
    BY <1>1, <1>2 DEF DraftInv, RunFits

LEMMA PrepareInv ==
  ASSUME DraftInv, NEW mode \in {ProcessOnly, Supporting}, Prepare(mode)
  PROVE  DraftInv'
  <1>1. approved' = approved /\ history' = history /\ run' = run
    BY DEF Prepare
  <1>2. PICK mappings, conflicts, app, disposition, head :
               /\ mappings = Used(mode) /\ app = approved
               /\ disposition = Disposition(mode) /\ head = history.head
               /\ conflicts = IF mode = Supporting
                              THEN Conflicts(approved, history.mappings) ELSE {}
    OBVIOUS
  <1>3. ASSUME draft' # NoDraft PROVE DraftFits(app, draft')
    <2>1. /\ mode = Supporting => Preflights(app, history.mappings)
          /\ draft' = [mode |-> mode, disposition |-> disposition, head |-> head,
                       mappings |-> mappings, conflicts |-> conflicts,
                       resolutions |-> << >>, final |-> {}]
      BY <1>2, <1>3 DEF Prepare, FreshSelections
    <2>2. Usable(mappings)
      BY <1>2, HistoryUsable, NothingUsable DEF Used, DraftInv
    <2>3. ProcessOnly # Supporting
      BY DEF ProcessOnly, Supporting
    <2>4. mode = ProcessOnly => mappings = {}
      BY <1>2, <2>3 DEF Used
    <2>5. mode = Supporting => mappings = history.mappings
      BY <1>2 DEF Used
    <2>6. conflicts = Conflicts(app, mappings)
      <3>1. CASE mode = Supporting
        BY <1>2, <2>5, <3>1
      <3>2. CASE mode = ProcessOnly
        BY <1>2, <2>3, <2>4, <3>2, NothingConflicts
      <3>. QED
        BY <3>1, <3>2
    <2>7. mode = Supporting => Preflights(app, mappings)
      BY <2>1, <2>5
    <2>8. PICK d : d = draft'
      OBVIOUS
    <2>9. d = [mode |-> mode, disposition |-> disposition, head |-> head,
                       mappings |-> mappings, conflicts |-> conflicts,
                       resolutions |-> << >>, final |-> {}]
      BY <2>1, <2>8
    <2>10. DraftFits(app, d)
      BY <2>2, <2>4, <2>6, <2>7, <2>9, FreshFits
    <2>. QED
      BY <2>8, <2>10
  <1>. QED
    BY <1>1, <1>2, <1>3 DEF DraftInv

LEMMA ResolveInv ==
  ASSUME DraftInv, NEW f \in Fields, Resolve(f)
  PROVE  DraftInv'
  <1>1. approved' = approved /\ history' = history /\ run' = run /\ draft # NoDraft
    BY DEF Resolve, Shown
  <1>2. PICK app, d, e : app = approved /\ d = draft /\ e = draft'
    OBVIOUS
  <1>3. DraftFits(app, d)
    BY <1>1, <1>2 DEF DraftInv
  <1>4. f \in d.conflicts \ DOMAIN d.resolutions
    BY <1>2 DEF Resolve
  <1>5. PICK alternatives : alternatives = Alternatives(app, d.mappings, f)
    OBVIOUS
  <1>6. PICK a \in Alternatives(approved, draft.mappings, f) :
           draft' = [draft EXCEPT !.resolutions =
                       [g \in DOMAIN draft.resolutions \cup {f} |->
                          IF g = f
                          THEN [alternatives |-> Alternatives(approved, draft.mappings, f),
                                selected |-> a.value]
                          ELSE draft.resolutions[g]]]
    BY DEF Resolve
  <1>7. PICK resolutions :
           resolutions = [g \in DOMAIN d.resolutions \cup {f} |->
                            IF g = f THEN [alternatives |-> alternatives, selected |-> a.value]
                            ELSE d.resolutions[g]]
    OBVIOUS
  <1>8. e = [d EXCEPT !.resolutions = resolutions]
    BY <1>2, <1>5, <1>6, <1>7
  <1>9. DOMAIN resolutions = DOMAIN d.resolutions \cup {f}
    BY <1>7
  <1>10. DOMAIN resolutions \subseteq d.conflicts
    BY <1>3, <1>4, <1>9 DEF DraftFits
  <1>11. Selects(app, d, resolutions)
    <2> SUFFICES ASSUME NEW g \in DOMAIN resolutions
                 PROVE  Resolves(app, d.mappings, resolutions[g], g)
      BY DEF Selects
    <2>1. CASE g = f
      <3>1. a \in alternatives
        BY <1>2, <1>5, <1>6
      <3>2. resolutions[g].alternatives = alternatives /\ resolutions[g].selected = a.value
        BY <1>7, <2>1
      <3>. QED
        BY <1>5, <2>1, <3>1, <3>2 DEF Resolves
    <2>2. CASE g # f
      <3>1. g \in DOMAIN d.resolutions /\ resolutions[g] = d.resolutions[g]
        BY <1>7, <1>9, <2>2
      <3>. QED
        BY <1>3, <3>1 DEF DraftFits, Selects
    <2>. QED
      BY <2>1, <2>2
  <1>12. DraftFits(app, e)
    BY <1>3, <1>8, <1>10, <1>11, ReselectedFits
  <1>. QED
    BY <1>1, <1>2, <1>12 DEF DraftInv

LEMMA ChangeSelectionInv ==
  ASSUME DraftInv, NEW f \in Fields, ChangeSelection(f)
  PROVE  DraftInv'
  <1>1. approved' = approved /\ history' = history /\ run' = run /\ draft # NoDraft
    BY DEF ChangeSelection, Shown
  <1>2. PICK app, d, e : app = approved /\ d = draft /\ e = draft'
    OBVIOUS
  <1>3. DraftFits(app, d)
    BY <1>1, <1>2 DEF DraftInv
  <1>4. PICK resolutions : resolutions = Without(d.resolutions, f)
    OBVIOUS
  <1>5. e = [d EXCEPT !.resolutions = resolutions]
    BY <1>2, <1>4 DEF ChangeSelection
  <1>6. /\ DOMAIN resolutions = DOMAIN d.resolutions \ {f}
        /\ \A g \in DOMAIN resolutions : resolutions[g] = d.resolutions[g]
    BY <1>4 DEF Without
  <1>7. DOMAIN resolutions \subseteq d.conflicts /\ Selects(app, d, resolutions)
    BY <1>3, <1>6 DEF DraftFits, Selects
  <1>8. DraftFits(app, e)
    BY <1>3, <1>5, <1>7, ReselectedFits
  <1>. QED
    BY <1>1, <1>2, <1>8 DEF DraftInv

\* What the page runs resolves every conflict of the draft.
LEMMA AuthorizedFits ==
  ASSUME DraftInv, draft # NoDraft, AllResolved
  PROVE  /\ DOMAIN Authorized = draft.conflicts
         /\ Selects(approved, draft, Authorized)
  <1>1. DraftFits(approved, draft)
    BY DEF DraftInv
  <1>2. CASE draft.final = {}
    <2>1. Authorized = draft.resolutions
      BY <1>2 DEF Authorized
    <2>. QED
      BY <1>1, <2>1 DEF AllResolved, DraftFits
  <1>3. CASE draft.final # {}
    <2>1. PICK fixed : /\ draft.final = {fixed} /\ DOMAIN fixed = draft.conflicts
                       /\ Selects(approved, draft, fixed)
      BY <1>1, <1>3 DEF DraftFits, FinalFits
    <2>2. Authorized = CHOOSE resolutions \in {fixed} : TRUE
      BY <1>3, <2>1 DEF Authorized
    <2>3. Authorized = fixed
      BY <2>2
    <2>. QED
      BY <2>1, <2>3
  <1>. QED
    BY <1>2, <1>3

LEMMA RunRaisesInv ==
  ASSUME DraftInv, RunRaises
  PROVE  DraftInv'
  <1>1. /\ approved' = approved /\ history' = history /\ run' = run
        /\ draft # NoDraft /\ AllResolved
    BY DEF RunRaises, Shown
  <1>2. PICK app, d, e, fixed : app = approved /\ d = draft /\ e = draft' /\ fixed = Authorized
    OBVIOUS
  <1>3. DraftFits(app, d)
    BY <1>1, <1>2 DEF DraftInv
  <1>4. DOMAIN fixed = d.conflicts /\ Selects(app, d, fixed)
    BY <1>1, <1>2, AuthorizedFits
  <1>5. e = [d EXCEPT !.final = {fixed}]
    BY <1>2 DEF RunRaises
  <1>6. DraftFits(app, e)
    BY <1>3, <1>4, <1>5, FixedFits
  <1>. QED
    BY <1>1, <1>2, <1>6 DEF DraftInv

LEMMA RunDraftInv ==
  ASSUME DraftInv, RunDraft
  PROVE  DraftInv'
  <1>1. /\ approved' = approved /\ history' = history /\ draft' = NoDraft
        /\ draft # NoDraft /\ AllResolved
    BY DEF RunDraft, Shown
  <1>2. PICK app, d, r, resolutions :
          app = approved /\ d = draft /\ r = run' /\ resolutions = Authorized
    OBVIOUS
  <1>3. DraftFits(app, d)
    BY <1>1, <1>2 DEF DraftInv
  <1>4. DOMAIN resolutions = d.conflicts
    BY <1>1, <1>2, AuthorizedFits
  <1>5. DOMAIN resolutions = Conflicts(app, d.mappings)
    BY <1>3, <1>4 DEF DraftFits
  <1>6. CASE ~Projects(app, d.mappings, resolutions)
    <2>1. r = NoRun
      BY <1>2, <1>6 DEF RunDraft
    <2>2. RunFits(app, r)
      BY <2>1 DEF RunFits
    <2>. QED
      BY <1>1, <1>2, <2>2 DEF DraftInv
  <1>7. CASE Projects(app, d.mappings, resolutions)
    <2>1. PICK traces : traces = Projection(app, d.mappings, resolutions)
      OBVIOUS
    <2>2. r = [mode |-> d.mode, disposition |-> d.disposition, head |-> d.head,
               shown |-> d.resolutions, resolutions |-> resolutions,
               mappings |-> d.mappings, traces |-> traces]
      BY <1>2, <1>7, <2>1 DEF RunDraft
    <2>3. /\ r.mode = d.mode /\ r.mappings = d.mappings /\ r.resolutions = resolutions
          /\ r.traces = traces
      BY <2>2
    <2>4. RunFits(app, r)
      BY <1>3, <1>5, <1>7, <2>1, <2>3, StartedFits
    <2>. QED
      BY <1>1, <1>2, <2>4 DEF DraftInv
  <1>. QED
    BY <1>6, <1>7

LEMMA ReviseInv ==
  ASSUME DraftInv, Revise
  PROVE  DraftInv'
  <1>1. approved' = approved /\ draft' = draft /\ run' = run /\ history.head < MaxHead
    BY DEF Revise
  <1>2. PICK candidate \in Candidates, ready \in BOOLEAN :
          history' = [head |-> history.head + 1, ready |-> ready, mappings |-> candidate]
    BY DEF Revise
  <1>3. /\ history'.head = history.head + 1 /\ history'.ready = ready
        /\ history'.mappings = candidate
    BY <1>2
  <1>4. history'.head \in 0 .. MaxHead
    BY <1>1, <1>3, HeadAssumption DEF DraftInv
  <1>. QED
    BY <1>1, <1>2, <1>3, <1>4 DEF DraftInv

LEMMA NextDraftInv == DraftInv /\ [DraftNext]_draftVars => DraftInv'
  <1> SUFFICES ASSUME DraftInv, [DraftNext]_draftVars PROVE DraftInv'
    OBVIOUS
  <1>1. CASE \E mode \in {ProcessOnly, Supporting} : Prepare(mode)
    BY <1>1, PrepareInv
  <1>2. CASE \E f \in Fields : Resolve(f)
    BY <1>2, ResolveInv
  <1>3. CASE \E f \in Fields : ChangeSelection(f)
    BY <1>3, ChangeSelectionInv
  <1>4. CASE RunDraft
    BY <1>4, RunDraftInv
  <1>5. CASE RunRaises
    BY <1>5, RunRaisesInv
  <1>6. CASE Discard
    BY <1>6 DEF Discard, DraftInv
  <1>7. CASE Revise
    BY <1>7, ReviseInv
  <1>8. CASE UNCHANGED draftVars
    BY <1>8 DEF draftVars, DraftInv
  <1>. QED
    BY <1>1, <1>2, <1>3, <1>4, <1>5, <1>6, <1>7, <1>8 DEF DraftNext

\* The prepared attempt keeps its type: a draft resolves conflicts of its own
\* candidate, a run has a trace of every field (_prepare_draft, project).
THEOREM DraftTypeCorrect == DraftSpec => []DraftTypeOK
<1>1. DraftInv => DraftTypeOK
  <2> SUFFICES ASSUME DraftInv PROVE DraftTypeOK
    OBVIOUS
  <2>1. ASSUME draft # NoDraft
        PROVE  /\ draft.mode \in {ProcessOnly, Supporting} /\ draft.conflicts \subseteq Fields
               /\ DOMAIN draft.resolutions \subseteq draft.conflicts
    BY <2>1 DEF DraftInv, DraftFits, DraftShape, Conflicts
  <2>. QED
    BY <2>1 DEF DraftInv, DraftTypeOK, RunFits, Started
<1> QED
  BY <1>1, DraftInitInv, NextDraftInv, PTL DEF DraftSpec

\* What is prepared can be run, whatever other sessions add to the history
\* meanwhile: a preflight that succeeds lists every conflict (preflight_conflicts
\* against project, formal/input_adapter.py).
THEOREM PreparedProjectsHolds == DraftSpec => []PreparedProjects
<1>1. DraftInv => PreparedProjects
  <2> SUFFICES ASSUME DraftInv, draft # NoDraft, draft.mode = Supporting, AllResolved
               PROVE  Projects(approved, draft.mappings, draft.resolutions)
    BY DEF PreparedProjects
  <2>1. PICK app, d : app = approved /\ d = draft
    OBVIOUS
  <2>2. DraftFits(app, d)
    BY <2>1 DEF DraftInv
  <2>3. PICK mappings, resolutions : mappings = d.mappings /\ resolutions = d.resolutions
    OBVIOUS
  <2>4. /\ Usable(mappings) /\ Preflights(app, mappings)
        /\ DOMAIN resolutions = Conflicts(app, mappings)
    BY <2>1, <2>2, <2>3 DEF DraftFits, AllResolved
  <2>5. \A f \in DOMAIN resolutions : Resolves(app, mappings, resolutions[f], f)
    BY <2>2, <2>3 DEF DraftFits, Selects
  <2>6. Projects(app, mappings, resolutions)
    BY <2>4, <2>5, PreflightedProjects
  <2>. QED
    BY <2>1, <2>3, <2>6
<1> QED
  BY <1>1, DraftInitInv, NextDraftInv, PTL DEF DraftSpec

\* A run assesses what its user approved or selected, and what the adapter builds
\* is what the contract of projections accepts (validate_projection,
\* models/formal_assessment.py).
THEOREM DraftSoundHolds == DraftSpec => []DraftSound
<1>1. DraftInv => DraftSound
  BY DEF DraftInv, RunFits, DraftSound, Started, ContractHolds, NeverOverridden,
         ProcessOnlyIsApproved
<1> QED
  BY <1>1, DraftInitInv, NextDraftInv, PTL DEF DraftSpec
=============================================================================
