--------------------------- MODULE EvidenceProofs ---------------------------
(***************************************************************************)
(* What holds of the evidence workflow for any sessions, documents,        *)
(* contents, limits and proposals: the attempts to read a document settle  *)
(* once, what concurrent uploads leave is sound, and what is shown as      *)
(* prepared is so now.  Each of the three parts has an invariant of its    *)
(* own; every step is shown to keep it.                                    *)
(***************************************************************************)
EXTENDS EvidenceProperties, EvidencePreparation, Integers, SequenceTheorems,
        FiniteSetTheorems, WellFoundedInduction, TLAPS

(***************************************************************************)
(* Attempts: the starts and the rows that record them, and what a session  *)
(* holds of them.                                                          *)
(***************************************************************************)
StartOf(c) == [line |-> c.line, doc |-> c.doc, number |-> c.number]

\* Of an attempt nothing is recorded yet.
NoRow(i) == \A l \in Lines, d \in Docs : \A n \in 1..Len(rows[l][d]) : rows[l][d][n].start # i

\* An attempt that would still extend its line follows none or one that may be
\* retried: a line only grows, and what grew refuses the attempt.
ReadyFor(l, d, n) ==
  /\ n >= 1 /\ n <= Len(rows[l][d]) + 1
  /\ n > 1 /\ n = Len(rows[l][d]) + 1 => rows[l][d][n - 1].status \in Retryable

Ready(start) == ReadyFor(start.line, start.doc, start.number)

Ongoing(c) == c.step \in {"consent", "work", "read end", "end"}
Past(c) == Ongoing(c) \/ c.step \in {"read start", "start"}

\* What the call of a session that has begun rests on.
CallFits(s, c) ==
  /\ c.step = "begin" => c.number >= 1
  /\ Past(c) => Ready(StartOf(c))
  /\ Ongoing(c) => c.attempt \in kept[s] /\ starts[c.attempt] = StartOf(c) /\ NoRow(c.attempt)
  /\ c.step \in {"read end", "end"} => c.status \in Usable \cup Retryable

RowsFit == RecordsItsStart /\ UsableIsLast /\ ExtractionHasText
StartsFit == \A i \in 1..Len(starts) : Ready(starts[i])
OwnFits ==
  /\ \A s \in Sessions : pending[s] \subseteq kept[s]
  /\ \A s \in Sessions : \A i \in pending[s] : starts[i].line = "extraction" /\ NoRow(i)
  /\ \A s, t \in Sessions : s # t => kept[s] \cap kept[t] = {}
WorkFits == \A s \in Sessions : CallFits(s, work[s])

AttemptsInv == AttemptsTypeOK /\ RowsFit /\ StartsFit /\ OwnFits /\ WorkFits

LEMMA IdleFits ==
  /\ Idle.step = "idle" /\ ~Past(Idle) /\ ~Ongoing(Idle)
  /\ \A s : CallFits(s, Idle) /\ CallFits(s, Idle)'
  <1>1. Idle.step = "idle"
    BY DEF Idle
  <1>2. ~Past(Idle) /\ ~Ongoing(Idle)
    BY <1>1 DEF Past, Ongoing
  <1>. QED
    BY <1>1, <1>2 DEF CallFits

LEMMA Lines2 == ASSUME AttemptsTypeOK, NEW l \in Lines, NEW d \in Docs
  PROVE /\ rows[l][d] \in Seq(Row) /\ Len(rows[l][d]) \in Nat /\ DOMAIN rows[l][d] = 1..Len(rows[l][d])
        /\ Len(starts) \in Nat
        /\ Line(l, d) = rows[l][d] /\ (rows[l][d] = << >> <=> Len(rows[l][d]) = 0)
  <1>1. rows[l][d] \in Seq(Row) /\ starts \in Seq(Start)
    BY DEF AttemptsTypeOK
  <1>. QED
    BY <1>1, LenProperties, EmptySeq DEF Line

\* A session's call moves, and what it holds; rows and starts stay.
LEMMA QuietKeeps ==
  ASSUME AttemptsInv, NEW s \in Sessions, NEW x \in Calls \cup {Idle},
         rows' = rows, starts' = starts, work' = [work EXCEPT ![s] = x],
         superseded' \subseteq Docs, consents' \in [Docs -> BOOLEAN],
         pressed' \in [Sessions -> SUBSET Docs],
         NEW K, NEW P, kept' = [kept EXCEPT ![s] = K], pending' = [pending EXCEPT ![s] = P],
         K \subseteq kept[s], P \subseteq K,
         \A i \in P : starts[i].line = "extraction" /\ NoRow(i),
         CallFits(s, x)'
  PROVE  AttemptsInv'
  <1>1. AttemptsTypeOK /\ RowsFit /\ StartsFit /\ OwnFits /\ WorkFits
    BY DEF AttemptsInv
  <1>2. /\ kept \in [Sessions -> SUBSET (1..Len(starts))] /\ pending \in [Sessions -> SUBSET (1..Len(starts))]
        /\ work \in [Sessions -> Calls \cup {Idle}]
    BY <1>1 DEF AttemptsTypeOK
  <1>3. /\ kept' \in [Sessions -> SUBSET (1..Len(starts))] /\ pending' \in [Sessions -> SUBSET (1..Len(starts))]
        /\ work' \in [Sessions -> Calls \cup {Idle}]
        /\ kept'[s] = K /\ pending'[s] = P /\ work'[s] = x
        /\ \A t \in Sessions \ {s} : kept'[t] = kept[t] /\ pending'[t] = pending[t] /\ work'[t] = work[t]
    BY <1>2
  <1>4. AttemptsTypeOK'
    BY <1>1, <1>3 DEF AttemptsTypeOK
  <1>5. RowsFit'
    BY <1>1 DEF RowsFit, RecordsItsStart, UsableIsLast, ExtractionHasText, Latest, Line
  <1>6. StartsFit'
    BY <1>1 DEF StartsFit, Ready, ReadyFor
  <1>7. \A i : NoRow(i)' <=> NoRow(i)
    BY DEF NoRow
  <1>8. OwnFits'
    <2>1. \A t \in Sessions : pending'[t] \subseteq kept'[t]
      BY <1>1, <1>3 DEF OwnFits
    <2>2. \A t \in Sessions : \A i \in pending'[t] : starts'[i].line = "extraction" /\ NoRow(i)'
      <3>1. ASSUME NEW t \in Sessions, NEW i \in pending'[t] PROVE starts[i].line = "extraction" /\ NoRow(i)
        <4>1. CASE t = s
          BY <1>3, <3>1, <4>1
        <4>2. CASE t # s
          BY <1>1, <1>3, <3>1, <4>2 DEF OwnFits
        <4>. QED
          BY <4>1, <4>2
      <3>. QED
        BY <1>7, <3>1
    <2>3. \A t, u \in Sessions : t # u => kept'[t] \cap kept'[u] = {}
      <3>1. \A t \in Sessions : kept'[t] \subseteq kept[t]
        BY <1>3
      <3>. QED
        BY <1>1, <3>1 DEF OwnFits
    <2>. QED
      BY <2>1, <2>2, <2>3 DEF OwnFits
  <1>9. WorkFits'
    <2>1. ASSUME NEW t \in Sessions \ {s} PROVE CallFits(t, work[t])'
      <3>1. CallFits(t, work[t]) /\ kept'[t] = kept[t] /\ work'[t] = work[t]
        BY <1>1, <1>3 DEF WorkFits
      <3>. QED
        BY <1>7, <3>1 DEF CallFits, Past, Ongoing, Ready, ReadyFor, StartOf
    <2>2. CallFits(s, work[s])'
      BY <1>3
    <2>. QED
      BY <2>1, <2>2 DEF WorkFits
  <1>. QED
    BY <1>4, <1>5, <1>6, <1>8, <1>9 DEF AttemptsInv

\* Only the call moves.
LEMMA CallMoves ==
  ASSUME AttemptsInv, NEW s \in Sessions, NEW x \in Calls \cup {Idle},
         rows' = rows, starts' = starts, work' = [work EXCEPT ![s] = x],
         superseded' = superseded, consents' \in [Docs -> BOOLEAN],
         pressed' \in [Sessions -> SUBSET Docs], kept' = kept, pending' = pending,
         CallFits(s, x)'
  PROVE  AttemptsInv'
  <1>. PICK K, P : K = kept[s] /\ P = pending[s]
    OBVIOUS
  <1>1. superseded' \subseteq Docs
    BY DEF AttemptsInv, AttemptsTypeOK
  <1>2. kept' = [kept EXCEPT ![s] = K] /\ pending' = [pending EXCEPT ![s] = P]
    BY DEF AttemptsInv, AttemptsTypeOK
  <1>3. K \subseteq kept[s] /\ P \subseteq K
    BY DEF AttemptsInv, OwnFits
  <1>4. \A i \in P : starts[i].line = "extraction" /\ NoRow(i)
    BY DEF AttemptsInv, OwnFits
  <1>. QED
    BY <1>1, <1>2, <1>3, <1>4, QuietKeeps

LEMMA AttemptsInitInv == AttemptsInit => AttemptsInv
  <1> SUFFICES ASSUME AttemptsInit PROVE AttemptsInv
    OBVIOUS
  <1>1. Len(<< >>) = 0 /\ << >> \in Seq(Row) /\ << >> \in Seq(Start)
    BY EmptySeq
  <1>2. AttemptsTypeOK
    BY <1>1 DEF AttemptsInit, AttemptsTypeOK
  <1>3. \A l \in Lines, d \in Docs : rows[l][d] = << >>
    BY DEF AttemptsInit
  <1>4. RowsFit
    BY <1>1, <1>3 DEF RowsFit, RecordsItsStart, UsableIsLast, ExtractionHasText, Line, Lines
  <1>5. StartsFit /\ OwnFits
    BY <1>1 DEF AttemptsInit, StartsFit, OwnFits
  <1>6. WorkFits
    BY IdleFits DEF AttemptsInit, WorkFits
  <1>. QED
    BY <1>2, <1>4, <1>5, <1>6 DEF AttemptsInv

LEMMA CallTyped ==
  ASSUME NEW l \in Lines, NEW d \in Docs, NEW n \in Nat
  PROVE  /\ Call(l, d, n) \in Calls /\ Call(l, d, n).step = "begin" /\ Call(l, d, n).number = n
         /\ Call(l, d, n) = [step |-> "begin", line |-> l, doc |-> d, number |-> n,
                             attempt |-> 0, status |-> "STARTED", latest |-> FALSE]
  BY DEF Call, Calls

LEMMA BeginFits ==
  ASSUME NEW s, NEW x, x.step = "begin", x.number >= 1
  PROVE  CallFits(s, x)'
  BY DEF CallFits, Past, Ongoing

LEMMA UploadKeeps ==
  ASSUME AttemptsInv, NEW s \in Sessions, NEW d \in Docs, Upload(s, d)
  PROVE  AttemptsInv'
  <1>. PICK x : x = Call("ingestion", d, 1)
    OBVIOUS
  <1>1. x \in Calls \cup {Idle} /\ x.step = "begin" /\ x.number >= 1
    BY CallTyped DEF Lines
  <1>2. CallFits(s, x)'
    BY <1>1, BeginFits
  <1>3. /\ rows' = rows /\ starts' = starts /\ work' = [work EXCEPT ![s] = x]
        /\ superseded' = superseded /\ kept' = kept /\ pending' = pending
        /\ consents' = consents /\ pressed' = [pressed EXCEPT ![s] = @ \cup {d}]
    BY DEF Upload
  <1>4. consents' \in [Docs -> BOOLEAN] /\ pressed' \in [Sessions -> SUBSET Docs]
    BY <1>3 DEF AttemptsInv, AttemptsTypeOK
  <1>. QED
    BY <1>1, <1>2, <1>3, <1>4, CallMoves

LEMMA ExtractKeeps ==
  ASSUME AttemptsInv, NEW s \in Sessions, NEW d \in Docs, Extract(s, d)
  PROVE  AttemptsInv'
  <1>. PICK n : n = Len(Line("extraction", d)) + 1
    OBVIOUS
  <1>. PICK x : x = Call("extraction", d, n)
    OBVIOUS
  <1>0. n \in Nat /\ n >= 1
    BY Lines2 DEF AttemptsInv, Lines
  <1>1. x \in Calls \cup {Idle} /\ x.step = "begin" /\ x.number >= 1
    BY <1>0, CallTyped DEF Lines
  <1>2. CallFits(s, x)'
    BY <1>1, BeginFits
  <1>3. /\ rows' = rows /\ starts' = starts /\ work' = [work EXCEPT ![s] = x]
        /\ superseded' = superseded /\ kept' = kept /\ pending' = pending
        /\ consents' = consents /\ pressed' = pressed
    BY DEF Extract, sessionVars
  <1>4. consents' \in [Docs -> BOOLEAN] /\ pressed' \in [Sessions -> SUBSET Docs]
    BY <1>3 DEF AttemptsInv, AttemptsTypeOK
  <1>. QED
    BY <1>1, <1>2, <1>3, <1>4, CallMoves

LEMMA DeclareKeeps ==
  ASSUME AttemptsInv, NEW s \in Sessions, NEW d \in Docs, Declare(s, d)
  PROVE  AttemptsInv'
  <1>. PICK x : x = Idle
    OBVIOUS
  <1>1. x \in Calls \cup {Idle}
    OBVIOUS
  <1>2. CallFits(s, x)'
    BY IdleFits
  <1>3. /\ rows' = rows /\ starts' = starts /\ work' = [work EXCEPT ![s] = x]
        /\ superseded' = superseded /\ kept' = kept /\ pending' = pending
        /\ pressed' = pressed
    BY DEF Declare, sessionVars, AttemptsInv, AttemptsTypeOK
  <1>4. consents' \in [Docs -> BOOLEAN] /\ pressed' \in [Sessions -> SUBSET Docs]
    BY <1>3 DEF AttemptsInv, AttemptsTypeOK, Declare
  <1>. QED
    BY <1>1, <1>2, <1>3, <1>4, CallMoves

\* Of the call under way.
LEMMA WorkTyped ==
  ASSUME AttemptsInv, NEW s \in Sessions, NEW c, c = work[s], c.step # "idle"
  PROVE  /\ c \in Calls /\ CallFits(s, c)
         /\ c.line \in Lines /\ c.doc \in Docs /\ c.number \in Nat /\ c.attempt \in Nat
  <1>1. c \in Calls
    BY IdleFits DEF AttemptsInv, AttemptsTypeOK
  <1>. QED
    BY <1>1 DEF Calls, AttemptsInv, WorkFits

\* A call that goes on one step, with nothing else changed.
LEMMA StepKeeps ==
  ASSUME AttemptsInv, NEW s \in Sessions, NEW c, c = work[s], NEW x \in Calls \cup {Idle},
         work' = [work EXCEPT ![s] = x], CallFits(s, x),
         rows' = rows, starts' = starts, kept' = kept, pending' = pending,
         superseded' = superseded, consents' = consents, pressed' = pressed
  PROVE  AttemptsInv'
  <1>1. consents' \in [Docs -> BOOLEAN] /\ pressed' \in [Sessions -> SUBSET Docs]
    BY DEF AttemptsInv, AttemptsTypeOK
  <1>2. CallFits(s, x)'
    BY DEF CallFits, Past, Ongoing, Ready, ReadyFor, StartOf, NoRow
  <1>. QED
    BY <1>1, <1>2, CallMoves

LEMMA StopKeeps ==
  ASSUME AttemptsInv, NEW s \in Sessions, Stops(s),
         rows' = rows, starts' = starts, kept' = kept, pending' = pending,
         superseded' = superseded, consents' = consents, pressed' = pressed
  PROVE  AttemptsInv'
  <1>. PICK c : c = work[s]
    OBVIOUS
  <1>. PICK x : x = Idle
    OBVIOUS
  <1>1. x \in Calls \cup {Idle} /\ work' = [work EXCEPT ![s] = x]
    BY DEF Stops
  <1>2. CallFits(s, x)
    BY IdleFits
  <1>. QED
    BY <1>1, <1>2, StepKeeps

LEMMA ReadEventKeeps ==
  ASSUME AttemptsInv, NEW s \in Sessions, ReadEvent(s)
  PROVE  AttemptsInv'
  <1>. PICK c : c = work[s]
    OBVIOUS
  <1>. PICK x : x = [c EXCEPT !.latest = TRUE, !.step = IF @ = "read start" THEN "start" ELSE "end"]
    OBVIOUS
  <1>1. c.step \in {"read start", "read end"} /\ c.step # "idle"
    BY DEF ReadEvent
  <1>2. c \in Calls /\ CallFits(s, c)
    BY <1>1, WorkTyped
  <1>3. x \in Calls /\ x.step = (IF c.step = "read start" THEN "start" ELSE "end")
        /\ x.line = c.line /\ x.doc = c.doc /\ x.number = c.number
        /\ x.attempt = c.attempt /\ x.status = c.status
    BY <1>1, <1>2 DEF Calls
  <1>4. work' = [work EXCEPT ![s] = x]
    <2>1. work \in [Sessions -> Calls \cup {Idle}]
      BY DEF AttemptsInv, AttemptsTypeOK
    <2>. QED
      BY <1>1, <2>1 DEF ReadEvent
  <1>5. CallFits(s, x)
    <2>1. StartOf(x) = StartOf(c) /\ Past(c) /\ Past(x) /\ (Ongoing(x) <=> Ongoing(c))
      <3>1. StartOf(x) = StartOf(c)
        BY <1>3 DEF StartOf
      <3>2. CASE c.step = "read start"
        <4>1. x.step = "start"
          BY <1>3, <3>2
        <4>. QED
          BY <3>1, <3>2, <4>1 DEF Past, Ongoing
      <3>3. CASE c.step = "read end"
        <4>1. x.step = "end"
          BY <1>3, <3>3
        <4>. QED
          BY <3>1, <3>3, <4>1 DEF Past, Ongoing
      <3>. QED
        BY <1>1, <3>2, <3>3
    <2>2. x.step # "begin" /\ (x.step \in {"read end", "end"} => c.step \in {"read end", "end"})
      <3>1. CASE c.step = "read start"
        <4>1. x.step = "start"
          BY <1>3, <3>1
        <4>. QED
          BY <4>1
      <3>2. CASE c.step = "read end"
        <4>1. x.step = "end"
          BY <1>3, <3>2
        <4>. QED
          BY <3>2, <4>1
      <3>. QED
        BY <1>1, <3>1, <3>2
    <2>3. x.attempt = c.attempt /\ x.status = c.status
      BY <1>3
    <2>. QED
      BY <1>2, <2>1, <2>2, <2>3 DEF CallFits
  <1>6. /\ rows' = rows /\ starts' = starts /\ kept' = kept /\ pending' = pending
        /\ superseded' = superseded /\ consents' = consents /\ pressed' = pressed
    BY DEF ReadEvent, sessionVars
  <1>7. x \in Calls \cup {Idle}
    BY <1>3
  <1>. QED
    BY <1>4, <1>5, <1>6, <1>7, StepKeeps

LEMMA CheckConsentKeeps ==
  ASSUME AttemptsInv, NEW s \in Sessions, CheckConsent(s)
  PROVE  AttemptsInv'
  <1>. PICK c : c = work[s]
    OBVIOUS
  <1>. PICK x : x = [c EXCEPT !.step = "work"]
    OBVIOUS
  <1>1. c.step = "consent" /\ c.step # "idle"
    BY DEF CheckConsent
  <1>2. c \in Calls /\ CallFits(s, c)
    BY <1>1, WorkTyped
  <1>3. x \in Calls /\ x.step = "work"
        /\ x.line = c.line /\ x.doc = c.doc /\ x.number = c.number
        /\ x.attempt = c.attempt /\ x.status = c.status
    BY <1>1, <1>2 DEF Calls
  <1>5. CallFits(s, x)
    BY <1>1, <1>2, <1>3 DEF CallFits, Past, Ongoing, StartOf
  <1>6. /\ rows' = rows /\ starts' = starts /\ kept' = kept /\ pending' = pending
        /\ superseded' = superseded /\ consents' = consents /\ pressed' = pressed
    BY DEF CheckConsent, sessionVars
  <1>7. x \in Calls \cup {Idle}
    BY <1>3
  <1>8. CASE Stops(s)
    BY <1>6, <1>8, StopKeeps
  <1>9. CASE Steps(s, "work")
    <2>1. work' = [work EXCEPT ![s] = x]
      BY <1>9 DEF Steps
    <2>. QED
      BY <1>5, <1>6, <1>7, <2>1, StepKeeps
  <1>. QED
    BY <1>8, <1>9 DEF CheckConsent

LEMMA PerformKeeps ==
  ASSUME AttemptsInv, NEW s \in Sessions, Perform(s)
  PROVE  AttemptsInv'
  <1>. PICK c : c = work[s]
    OBVIOUS
  <1>1. c.step = "work" /\ c.step # "idle"
    BY DEF Perform
  <1>. PICK status \in Usable \cup {"FAILED"} :
         work' = [work EXCEPT ![s].step = "read end", ![s].status = status]
    BY DEF Perform
  <1>. PICK x : x = [c EXCEPT !.step = "read end", !.status = status]
    OBVIOUS
  <1>2. c \in Calls /\ CallFits(s, c)
    BY <1>1, WorkTyped
  <1>3. x \in Calls /\ x.step = "read end"
        /\ x.line = c.line /\ x.doc = c.doc /\ x.number = c.number
        /\ x.attempt = c.attempt /\ x.status = status
    BY <1>1, <1>2 DEF Calls, Usable, Retryable
  <1>4. work' = [work EXCEPT ![s] = x]
    <2>1. work \in [Sessions -> Calls \cup {Idle}]
      BY DEF AttemptsInv, AttemptsTypeOK
    <2>. QED
      BY <2>1
  <1>5. CallFits(s, x)
    BY <1>1, <1>2, <1>3 DEF CallFits, Past, Ongoing, StartOf, Retryable
  <1>6. /\ rows' = rows /\ starts' = starts /\ kept' = kept /\ pending' = pending
        /\ superseded' = superseded /\ consents' = consents /\ pressed' = pressed
    BY DEF Perform, sessionVars
  <1>7. x \in Calls \cup {Idle}
    BY <1>3
  <1>. QED
    BY <1>4, <1>5, <1>6, <1>7, StepKeeps

\* An attempt of the session that no row records: its number is not taken yet.
LEMMA UnfinishedHasNoRow ==
  ASSUME AttemptsInv, NEW l \in Lines, NEW d \in Docs, NEW i,
         starts[i] = [line |-> l, doc |-> d, number |-> Len(rows[l][d]) + 1]
  PROVE  NoRow(i)
  <1> SUFFICES ASSUME NEW k \in Lines, NEW e \in Docs, NEW n \in 1..Len(rows[k][e]), rows[k][e][n].start = i
               PROVE  FALSE
    BY DEF NoRow
  <1>1. starts[i] = [line |-> k, doc |-> e, number |-> n]
    BY DEF AttemptsInv, RowsFit, RecordsItsStart, Line
  <1>2. k = l /\ e = d /\ n = Len(rows[l][d]) + 1
    BY <1>1
  <1>3. Len(rows[l][d]) \in Nat
    BY Lines2 DEF AttemptsInv
  <1>. QED
    BY <1>2, <1>3

LEMMA NextNumber ==
  ASSUME NEW n \in Nat, NEW k, k = n + 1
  PROVE  k >= 1 /\ k <= n + 1 /\ k - 1 = n /\ k \in Nat
  OBVIOUS

LEMMA BeginKeeps ==
  ASSUME AttemptsInv, NEW s \in Sessions, Begin(s)
  PROVE  AttemptsInv'
  <1>. PICK c : c = work[s]
    OBVIOUS
  <1>. PICK mine : mine = Unfinished(s, c)
    OBVIOUS
  <1>. PICK begins : begins = (Startable(c) /\ Numbered(c))
    OBVIOUS
  <1>1. c.step = "begin" /\ c.step # "idle"
    BY DEF Begin
  <1>2. c \in Calls /\ CallFits(s, c) /\ c.line \in Lines /\ c.doc \in Docs /\ c.number \in Nat
    BY <1>1, WorkTyped
  <1>3. /\ IF begins /\ mine = {} THEN Steps(s, "read start") ELSE Stops(s)
        /\ pending' = IF begins /\ c.line = "extraction" /\ mine # {}
                      THEN [pending EXCEPT ![s] = {i \in @ : starts[i].doc # c.doc} \cup mine]
                      ELSE pending
        /\ rows' = rows /\ starts' = starts /\ superseded' = superseded /\ consents' = consents
        /\ kept' = kept /\ pressed' = pressed
    BY DEF Begin
  <1>4. AttemptsTypeOK /\ OwnFits
    BY DEF AttemptsInv
  <1>5. CASE begins /\ mine = {}
    <2>. PICK x : x = [c EXCEPT !.step = "read start"]
      OBVIOUS
    <2>1. x \in Calls /\ x.step = "read start"
          /\ x.line = c.line /\ x.doc = c.doc /\ x.number = c.number
      BY <1>1, <1>2 DEF Calls
    <2>2. work' = [work EXCEPT ![s] = x] /\ pending' = pending
      BY <1>3, <1>5 DEF Steps
    <2>3. Ready(StartOf(x))
      <3>1. PICK n : n = Len(rows[c.line][c.doc])
        OBVIOUS
      <3>2. n \in Nat /\ Line(c.line, c.doc) = rows[c.line][c.doc] /\ (rows[c.line][c.doc] = << >> <=> n = 0)
        BY <1>2, <1>4, <3>1, Lines2
      <3>3. c.number = n + 1
        BY <1>5, <3>1, <3>2 DEF Numbered
      <3>4. c.number > 1 => rows[c.line][c.doc][n].status \in Retryable
        BY <1>5, <3>1, <3>2 DEF Numbered, Latest
      <3>5. ReadyFor(c.line, c.doc, c.number)
        <4>1. c.number >= 1 /\ c.number <= n + 1 /\ c.number - 1 = n
          <5>1. n \in Nat
            BY <3>2
          <5>. QED
            BY <3>3, <5>1, NextNumber
        <4>. QED
          BY <3>1, <3>4, <4>1 DEF ReadyFor
      <3>. QED
        BY <2>1, <3>5 DEF Ready, StartOf
    <2>4. CallFits(s, x)
      BY <2>1, <2>3 DEF CallFits, Ongoing, Past
    <2>5. x \in Calls \cup {Idle}
      BY <2>1
    <2>. QED
      BY <1>3, <2>2, <2>4, <2>5, StepKeeps
  <1>6. CASE ~(begins /\ mine = {})
    <2>. PICK x : x = Idle
      OBVIOUS
    <2>1. x \in Calls \cup {Idle} /\ work' = [work EXCEPT ![s] = x]
      BY <1>3, <1>6 DEF Stops
    <2>2. CASE begins /\ c.line = "extraction" /\ mine # {}
      <3>. PICK P : P = {i \in pending[s] : starts[i].doc # c.doc} \cup mine
        OBVIOUS
      <3>. PICK K : K = kept[s]
        OBVIOUS
      <3>1. pending' = [pending EXCEPT ![s] = P] /\ kept' = [kept EXCEPT ![s] = K]
        <4>1. pending \in [Sessions -> SUBSET (1..Len(starts))] /\ kept \in [Sessions -> SUBSET (1..Len(starts))]
          BY <1>4 DEF AttemptsTypeOK
        <4>2. pending' = [pending EXCEPT ![s] = {i \in @ : starts[i].doc # c.doc} \cup mine]
          BY <1>3, <2>2
        <4>3. [pending EXCEPT ![s] = {i \in @ : starts[i].doc # c.doc} \cup mine] = [pending EXCEPT ![s] = P]
          BY <4>1
        <4>. QED
          BY <1>3, <4>1, <4>2, <4>3
      <3>2. ASSUME NEW i \in mine
            PROVE  i \in K /\ starts[i].line = "extraction" /\ NoRow(i)
        <4>1. i \in K /\ starts[i] = [line |-> c.line, doc |-> c.doc, number |-> c.number]
          BY DEF Unfinished
        <4>2. c.number = Len(rows[c.line][c.doc]) + 1
          BY <2>2 DEF Numbered, Line
        <4>3. starts[i] = [line |-> c.line, doc |-> c.doc, number |-> Len(rows[c.line][c.doc]) + 1]
          BY <4>1, <4>2
        <4>4. NoRow(i)
          BY <1>2, <4>3, UnfinishedHasNoRow
        <4>. QED
          BY <2>2, <4>1, <4>4
      <3>3. K \subseteq kept[s] /\ P \subseteq K
        BY <1>4, <3>2 DEF OwnFits
      <3>4. \A i \in P : starts[i].line = "extraction" /\ NoRow(i)
        BY <1>4, <3>2 DEF OwnFits
      <3>5. CallFits(s, x)'
        BY IdleFits
      <3>6. /\ superseded' \subseteq Docs /\ consents' \in [Docs -> BOOLEAN]
            /\ pressed' \in [Sessions -> SUBSET Docs]
        BY <1>3, <1>4 DEF AttemptsTypeOK
      <3>7. rows' = rows /\ starts' = starts
        BY <1>3
      <3>. QED
        BY <2>1, <3>1, <3>3, <3>4, <3>5, <3>6, <3>7, QuietKeeps
    <2>3. CASE ~(begins /\ c.line = "extraction" /\ mine # {})
      <3>1. pending' = pending /\ Stops(s)
        BY <1>3, <1>6, <2>3
      <3>. QED
        BY <1>3, <3>1, StopKeeps
    <2>. QED
      BY <2>2, <2>3
  <1>. QED
    BY <1>5, <1>6

LEMMA InterruptKeeps ==
  ASSUME AttemptsInv, NEW s \in Sessions, Interrupt(s)
  PROVE  AttemptsInv'
  <1>. PICK c : c = work[s]
    OBVIOUS
  <1>. PICK x : x = Idle
    OBVIOUS
  <1>1. c.step = "work" /\ c.step # "idle" /\ c.line = "extraction"
    BY DEF Interrupt
  <1>2. c \in Calls /\ CallFits(s, c)
    BY <1>1, WorkTyped
  <1>3. AttemptsTypeOK /\ OwnFits
    BY DEF AttemptsInv
  <1>. PICK P : P = {i \in pending[s] : starts[i].doc # c.doc} \cup {c.attempt}
    OBVIOUS
  <1>. PICK K : K = kept[s]
    OBVIOUS
  <1>4. /\ rows' = rows /\ starts' = starts /\ superseded' = superseded /\ consents' = consents
        /\ kept' = kept /\ pressed' = pressed
        /\ pending' = [pending EXCEPT ![s] = {i \in @ : starts[i].doc # c.doc} \cup {c.attempt}]
    BY DEF Interrupt
  <1>5. pending' = [pending EXCEPT ![s] = P] /\ kept' = [kept EXCEPT ![s] = K]
    <2>1. pending \in [Sessions -> SUBSET (1..Len(starts))] /\ kept \in [Sessions -> SUBSET (1..Len(starts))]
      BY <1>3 DEF AttemptsTypeOK
    <2>2. [pending EXCEPT ![s] = {i \in @ : starts[i].doc # c.doc} \cup {c.attempt}] = [pending EXCEPT ![s] = P]
      BY <2>1
    <2>. QED
      BY <1>4, <2>1, <2>2
  <1>6. c.attempt \in K /\ starts[c.attempt].line = "extraction" /\ NoRow(c.attempt)
    BY <1>1, <1>2 DEF CallFits, Ongoing, StartOf
  <1>7. K \subseteq kept[s] /\ P \subseteq K
    BY <1>3, <1>6 DEF OwnFits
  <1>8. \A i \in P : starts[i].line = "extraction" /\ NoRow(i)
    BY <1>3, <1>6 DEF OwnFits
  <1>9. CallFits(s, x)'
    BY IdleFits
  <1>10. /\ superseded' \subseteq Docs /\ consents' \in [Docs -> BOOLEAN]
         /\ pressed' \in [Sessions -> SUBSET Docs]
    BY <1>3, <1>4 DEF AttemptsTypeOK
  <1>11. x \in Calls \cup {Idle} /\ work' = [work EXCEPT ![s] = x]
    BY DEF Interrupt, Stops
  <1>12. rows' = rows /\ starts' = starts
    BY <1>4
  <1>. QED
    BY <1>5, <1>7, <1>8, <1>9, <1>10, <1>11, <1>12, QuietKeeps

LEMMA LoseKeeps ==
  ASSUME AttemptsInv, NEW s \in Sessions, Lose(s)
  PROVE  AttemptsInv'
  <1>. PICK x : x = Idle
    OBVIOUS
  <1>. PICK P : P = {}
    OBVIOUS
  <1>1. /\ rows' = rows /\ starts' = starts /\ superseded' = superseded /\ consents' = consents
        /\ kept' = [kept EXCEPT ![s] = P] /\ pending' = [pending EXCEPT ![s] = P]
        /\ pressed' = [pressed EXCEPT ![s] = {}]
        /\ work' = [work EXCEPT ![s] = x] /\ x \in Calls \cup {Idle}
    BY DEF Lose, Stops
  <1>2. /\ superseded' \subseteq Docs /\ consents' \in [Docs -> BOOLEAN]
        /\ pressed' \in [Sessions -> SUBSET Docs]
    BY <1>1 DEF AttemptsInv, AttemptsTypeOK
  <1>3. P \subseteq kept[s] /\ P \subseteq P /\ \A i \in P : starts[i].line = "extraction" /\ NoRow(i)
    OBVIOUS
  <1>4. CallFits(s, x)'
    BY IdleFits
  <1>. QED
    BY <1>1, <1>2, <1>3, <1>4, QuietKeeps

LEMMA AbandonKeeps ==
  ASSUME AttemptsInv, NEW s \in Sessions, NEW i \in pending[s], Abandon(s, i)
  PROVE  AttemptsInv'
  <1>. PICK c : c = work[s]
    OBVIOUS
  <1>1. AttemptsTypeOK /\ OwnFits /\ StartsFit
    BY DEF AttemptsInv
  <1>2. i \in 1..Len(starts) /\ i \in kept[s] /\ starts[i].line = "extraction" /\ NoRow(i)
    BY <1>1 DEF AttemptsTypeOK, OwnFits
  <1>3. starts[i] \in Start
    BY <1>1, <1>2 DEF AttemptsTypeOK
  <1>4. /\ starts[i].doc \in Docs /\ starts[i].number \in Nat
        /\ starts[i] = [line |-> "extraction", doc |-> starts[i].doc, number |-> starts[i].number]
    BY <1>2, <1>3 DEF Start
  <1>. PICK y : y = Call("extraction", starts[i].doc, starts[i].number)
    OBVIOUS
  <1>. PICK x : x = [y EXCEPT !.step = "read end", !.attempt = i, !.status = "ABANDONED"]
    OBVIOUS
  <1>5. y \in Calls /\ y.line = "extraction" /\ y.doc = starts[i].doc /\ y.number = starts[i].number
    BY <1>4, CallTyped DEF Lines
  <1>6. i \in Nat
    BY <1>2
  <1>7. /\ x \in Calls /\ x.step = "read end" /\ x.attempt = i /\ x.status = "ABANDONED"
        /\ x.line = "extraction" /\ x.doc = starts[i].doc /\ x.number = starts[i].number
    BY <1>5, <1>6 DEF Calls, Retryable
  <1>8. StartOf(x) = starts[i]
    BY <1>4, <1>7 DEF StartOf
  <1>9. CallFits(s, x)
    BY <1>1, <1>2, <1>7, <1>8 DEF CallFits, StartsFit, Retryable
  <1>10. work' = [work EXCEPT ![s] = x] /\ x \in Calls \cup {Idle}
    BY <1>7 DEF Abandon
  <1>11. /\ rows' = rows /\ starts' = starts /\ superseded' = superseded /\ consents' = consents
         /\ kept' = kept /\ pending' = pending /\ pressed' = pressed
    BY DEF Abandon, sessionVars
  <1>. QED
    BY <1>9, <1>10, <1>11, StepKeeps

\* What fits the tables fits them while they are left alone.
LEMMA SameTables ==
  ASSUME RowsFit, StartsFit, rows' = rows, starts' = starts
  PROVE  RowsFit' /\ StartsFit'
  <1>1. RecordsItsStart'
    BY DEF RowsFit, RecordsItsStart, Line
  <1>2. UsableIsLast'
    BY DEF RowsFit, UsableIsLast, Line
  <1>3. ExtractionHasText'
    BY DEF RowsFit, ExtractionHasText, Latest, Line
  <1>4. StartsFit'
    BY DEF StartsFit, Ready, ReadyFor
  <1>. QED
    BY <1>1, <1>2, <1>3, <1>4 DEF RowsFit

LEMMA SupersedeKeeps ==
  ASSUME AttemptsInv, NEW d \in Docs, Supersede(d)
  PROVE  AttemptsInv'
  <1>1. /\ rows' = rows /\ starts' = starts /\ superseded' = superseded \cup {d} /\ consents' = consents
        /\ kept' = kept /\ pending' = pending /\ pressed' = pressed /\ work' = work
    BY DEF Supersede, sessionVars
  <1>2. AttemptsTypeOK'
    BY <1>1 DEF AttemptsInv, AttemptsTypeOK
  <1>3. RowsFit' /\ StartsFit'
    BY <1>1, SameTables DEF AttemptsInv
  <1>4. OwnFits'
    BY <1>1 DEF AttemptsInv, OwnFits, NoRow
  <1>5. WorkFits'
    BY <1>1 DEF AttemptsInv, WorkFits, CallFits, Past, Ongoing, Ready, ReadyFor, StartOf, NoRow
  <1>. QED
    BY <1>2, <1>3, <1>4, <1>5 DEF AttemptsInv

\* An event is appended: whoever read the latest one before it no longer has it.
Carried(c, c2) == c2 = c \/ (c \in Calls /\ c2 = [c EXCEPT !.latest = FALSE])

LEMMA CarriedFits ==
  ASSUME NEW c \in Calls \cup {Idle}, NEW c2, Carried(c, c2)
  PROVE  /\ c2 \in Calls \cup {Idle} /\ c2.step = c.step
         /\ c \in Calls => /\ c2 \in Calls /\ c2.line = c.line /\ c2.doc = c.doc /\ c2.number = c.number
                           /\ c2.attempt = c.attempt /\ c2.status = c.status
  <1>1. CASE c2 = c
    BY <1>1
  <1>2. CASE c \in Calls /\ c2 = [c EXCEPT !.latest = FALSE]
    BY <1>2 DEF Calls
  <1>. QED
    BY <1>1, <1>2 DEF Carried

LEMMA OvertakenWork ==
  ASSUME AttemptsInv, NEW s \in Sessions, NEW x \in Calls \cup {Idle}, Overtakes(s, x)
  PROVE  /\ work' \in [Sessions -> Calls \cup {Idle}] /\ work'[s] = x
         /\ \A t \in Sessions \ {s} : Carried(work[t], work'[t])
  <1>1. work \in [Sessions -> Calls \cup {Idle}]
    BY DEF AttemptsInv, AttemptsTypeOK
  <1>2. work'[s] = x /\ DOMAIN work' = Sessions
    BY DEF Overtakes
  <1>3. ASSUME NEW t \in Sessions \ {s} PROVE Carried(work[t], work'[t])
    <2>1. CASE work[t] = Idle
      BY <2>1 DEF Overtakes, Carried
    <2>2. CASE work[t] # Idle
      <3>1. work[t] \in Calls /\ work'[t] = [work[t] EXCEPT !.latest = FALSE]
        BY <1>1, <2>2 DEF Overtakes
      <3>. QED
        BY <3>1 DEF Carried
    <2>. QED
      BY <2>1, <2>2
  <1>4. \A t \in Sessions \ {s} : work'[t] \in Calls \cup {Idle}
    BY <1>1, <1>3, CarriedFits
  <1>5. work' = [t \in Sessions |-> work'[t]]
    BY DEF Overtakes
  <1>. QED
    BY <1>2, <1>3, <1>4, <1>5

\* What a call rests on, where its line only grew and it is still unrecorded.
LEMMA OtherFits ==
  ASSUME AttemptsInv, NEW t \in Sessions, NEW c, c = work[t], NEW c2, Carried(c, c2),
         kept'[t] = kept[t],
         \A i \in 1..Len(starts) : starts'[i] = starts[i],
         \A l \in Lines, d \in Docs, n \in Nat : ReadyFor(l, d, n) => ReadyFor(l, d, n)',
         \A i \in kept[t] : NoRow(i) => NoRow(i)'
  PROVE  CallFits(t, c2)'
  <1>1. c \in Calls \cup {Idle}
    BY DEF AttemptsInv, AttemptsTypeOK
  <1>2. CASE c = Idle
    <2>1. c2.step = "idle"
      BY <1>1, <1>2, CarriedFits, IdleFits
    <2>. QED
      BY <2>1 DEF CallFits, Past, Ongoing
  <1>3. CASE c \in Calls
    <2>1. /\ c2 \in Calls /\ c2.line = c.line /\ c2.doc = c.doc /\ c2.number = c.number
          /\ c2.attempt = c.attempt /\ c2.status = c.status /\ c2.step = c.step
      BY <1>1, <1>3, CarriedFits
    <2>2. CallFits(t, c) /\ kept[t] \in SUBSET (1..Len(starts))
      BY DEF AttemptsInv, WorkFits, AttemptsTypeOK
    <2>3. c.line \in Lines /\ c.doc \in Docs /\ c.number \in Nat
      BY <1>3 DEF Calls
    <2>4. StartOf(c2) = StartOf(c) /\ (Past(c2) <=> Past(c)) /\ (Ongoing(c2) <=> Ongoing(c))
      BY <2>1 DEF StartOf, Past, Ongoing
    <2>5. Past(c) => Ready(StartOf(c2))'
      <3>1. Past(c) => ReadyFor(c.line, c.doc, c.number)
        BY <2>2 DEF CallFits, Ready, StartOf
      <3>2. Past(c) => ReadyFor(c.line, c.doc, c.number)'
        BY <2>3, <3>1
      <3>. QED
        BY <2>1, <3>2 DEF Ready, StartOf
    <2>6. Ongoing(c) => c.attempt \in kept[t] /\ starts'[c.attempt] = StartOf(c) /\ NoRow(c.attempt)'
      BY <2>2 DEF CallFits
    <2>7. c.step = "begin" => c.number >= 1
      BY <2>2 DEF CallFits
    <2>8. c.step \in {"read end", "end"} => c.status \in Usable \cup Retryable
      BY <2>2 DEF CallFits
    <2>9. StartOf(c2)' = StartOf(c)
      BY <2>4 DEF StartOf
    <2>10. Ongoing(c2) => (c2.attempt \in kept[t])' /\ (starts[c2.attempt] = StartOf(c2))' /\ NoRow(c2.attempt)'
      BY <2>1, <2>4, <2>6, <2>9
    <2>. QED
      BY <2>1, <2>4, <2>5, <2>7, <2>8, <2>10 DEF CallFits, Past, Ongoing
  <1>. QED
    BY <1>1, <1>2, <1>3

LEMMA AppendStartKeeps ==
  ASSUME AttemptsInv, NEW s \in Sessions, AppendStart(s)
  PROVE  AttemptsInv'
  <1>. PICK c : c = work[s]
    OBVIOUS
  <1>. PICK n : n = Len(starts)
    OBVIOUS
  <1>. PICK e : e = StartOf(c)
    OBVIOUS
  <1>1. c.step = "start" /\ c.step # "idle"
    BY DEF AppendStart
  <1>2. /\ c \in Calls /\ CallFits(s, c)
        /\ c.line \in Lines /\ c.doc \in Docs /\ c.number \in Nat
    BY <1>1, WorkTyped
  <1>3. AttemptsTypeOK /\ RowsFit /\ StartsFit /\ OwnFits /\ WorkFits
    BY DEF AttemptsInv
  <1>4. /\ rows' = rows /\ superseded' = superseded /\ consents' = consents
        /\ pending' = pending /\ pressed' = pressed
    BY DEF AppendStart
  <1>5. CASE ~c.latest
    <2>1. Stops(s) /\ starts' = starts /\ kept' = kept
      BY <1>5 DEF AppendStart
    <2>. QED
      BY <1>4, <2>1, StopKeeps
  <1>6. CASE c.latest
    <2>. PICK next : next = IF c.line = "extraction" THEN "consent" ELSE "work"
      OBVIOUS
    <2>. PICK x : x = [c EXCEPT !.step = next, !.attempt = n + 1, !.latest = FALSE]
      OBVIOUS
    <2>1. /\ starts' = Append(starts, e) /\ kept' = [kept EXCEPT ![s] = @ \cup {n + 1}]
          /\ Overtakes(s, x)
      BY <1>6 DEF AppendStart, FreshAttempt, StartOf
    <2>2. e \in Start /\ starts \in Seq(Start) /\ n \in Nat
      BY <1>2, <1>3, LenProperties DEF Start, StartOf, AttemptsTypeOK
    <2>3. /\ starts' \in Seq(Start) /\ Len(starts') = n + 1 /\ starts'[n + 1] = e
          /\ \A i \in 1..n : starts'[i] = starts[i]
      BY <2>1, <2>2, AppendProperties
    <2>4. /\ x \in Calls /\ x.step = next /\ x.attempt = n + 1
          /\ x.line = c.line /\ x.doc = c.doc /\ x.number = c.number
      <3>1. n + 1 \in Nat /\ next \in {"consent", "work"}
        BY <2>2
      <3>. QED
        BY <1>2, <3>1, ZenonT(40) DEF Calls
    <2>5. x \in Calls \cup {Idle}
      BY <2>4
    <2>6. /\ work' \in [Sessions -> Calls \cup {Idle}] /\ work'[s] = x
          /\ \A t \in Sessions \ {s} : Carried(work[t], work'[t])
      BY <2>1, <2>5, OvertakenWork
    <2>7. /\ kept \in [Sessions -> SUBSET (1..n)] /\ pending \in [Sessions -> SUBSET (1..n)]
      BY <1>3 DEF AttemptsTypeOK
    <2>8. 1..n \subseteq 1..(n + 1) /\ n + 1 \in 1..(n + 1) /\ n + 1 \notin 1..n
      BY <2>2
    <2>9. /\ kept' \in [Sessions -> SUBSET (1..(n + 1))] /\ pending' \in [Sessions -> SUBSET (1..(n + 1))]
          /\ kept'[s] = kept[s] \cup {n + 1} /\ \A t \in Sessions \ {s} : kept'[t] = kept[t]
      BY <1>4, <2>1, <2>7, <2>8
    <2>10. AttemptsTypeOK'
      <3>1. superseded' \subseteq Docs /\ consents' \in [Docs -> BOOLEAN] /\ pressed' \in [Sessions -> SUBSET Docs]
            /\ rows' \in [Lines -> [Docs -> Seq(Row)]]
        BY <1>3, <1>4 DEF AttemptsTypeOK
      <3>. QED
        BY <2>3, <2>6, <2>9, <3>1 DEF AttemptsTypeOK
    <2>11. RowsFit'
      <3>1. RecordsItsStart'
        <4>1. ASSUME NEW l \in Lines, NEW d \in Docs, NEW k \in 1..Len(rows[l][d])
              PROVE  /\ rows[l][d][k].start \in 1..(n + 1)
                     /\ starts'[rows[l][d][k].start] = [line |-> l, doc |-> d, number |-> k]
          <5>1. /\ rows[l][d][k].start \in 1..n
                /\ starts[rows[l][d][k].start] = [line |-> l, doc |-> d, number |-> k]
            BY <1>3 DEF RowsFit, RecordsItsStart, Line
          <5>. QED
            BY <2>3, <2>8, <5>1
        <4>. QED
          BY <1>4, <2>3, <4>1 DEF RecordsItsStart, Line
      <3>. QED
        BY <1>3, <1>4, <3>1 DEF RowsFit, UsableIsLast, ExtractionHasText, Latest, Line
    <2>12. StartsFit'
      <3>1. Ready(e)
        BY <1>1, <1>2 DEF CallFits, Past
      <3>2. ASSUME NEW i \in 1..(n + 1) PROVE Ready(starts'[i])
        <4>1. i \in 1..n \/ i = n + 1
          BY <2>2
        <4>. QED
          BY <1>3, <2>3, <3>1, <4>1 DEF StartsFit
      <3>. QED
        BY <1>4, <2>3, <3>2 DEF StartsFit, Ready, ReadyFor
    <2>13. \A i : NoRow(i)' <=> NoRow(i)
      BY <1>4 DEF NoRow
    <2>14. NoRow(n + 1)
      <3>1. ASSUME NEW l \in Lines, NEW d \in Docs, NEW k \in 1..Len(rows[l][d])
            PROVE  rows[l][d][k].start \in 1..n
        BY <1>3 DEF RowsFit, RecordsItsStart, Line
      <3>. QED
        BY <2>8, <3>1 DEF NoRow
    <2>15. OwnFits'
      <3>1. \A t \in Sessions : pending'[t] \subseteq kept'[t]
        BY <1>3, <1>4, <2>9 DEF OwnFits
      <3>2. \A t \in Sessions : \A i \in pending'[t] : starts'[i].line = "extraction" /\ NoRow(i)'
        BY <1>3, <1>4, <2>3, <2>7, <2>13 DEF OwnFits
      <3>3. \A t, u \in Sessions : t # u => kept'[t] \cap kept'[u] = {}
        <4>1. \A t, u \in Sessions : t # u => kept[t] \cap kept[u] = {}
          BY <1>3 DEF OwnFits
        <4>2. \A t \in Sessions : n + 1 \notin kept[t]
          BY <2>7, <2>8
        <4>. QED
          BY <2>9, <4>1, <4>2
      <3>. QED
        BY <3>1, <3>2, <3>3 DEF OwnFits
    <2>16. WorkFits'
      <3>1. CallFits(s, x)'
        <4>1. StartOf(x) = e /\ StartOf(x)' = e
          BY <2>4 DEF StartOf
        <4>2. Ready(e)'
          BY <1>1, <1>2, <1>4 DEF CallFits, Past, Ready, ReadyFor
        <4>3. x.step \in {"consent", "work"}
          BY <2>4
        <4>4. x.attempt \in kept'[s] /\ starts'[x.attempt] = e /\ NoRow(x.attempt)'
          BY <2>3, <2>4, <2>9, <2>13, <2>14
        <4>. QED
          BY <4>1, <4>2, <4>3, <4>4 DEF CallFits
      <3>2. ASSUME NEW t \in Sessions \ {s} PROVE CallFits(t, work[t])'
        <4>. PICK c1 : c1 = work[t]
          OBVIOUS
        <4>. PICK c2 : c2 = work'[t]
          OBVIOUS
        <4>1. Carried(c1, c2) /\ kept'[t] = kept[t]
          BY <2>6, <2>9
        <4>2. \A i \in 1..Len(starts) : starts'[i] = starts[i]
          BY <2>3
        <4>3. \A l \in Lines, d \in Docs, k \in Nat : ReadyFor(l, d, k) => ReadyFor(l, d, k)'
          BY <1>4 DEF ReadyFor
        <4>4. \A i \in kept[t] : NoRow(i) => NoRow(i)'
          BY <2>13
        <4>5. CallFits(t, c2)'
          BY <4>1, <4>2, <4>3, <4>4, OtherFits
        <4>. QED
          BY <4>5 DEF CallFits
      <3>. QED
        BY <2>6, <3>1, <3>2 DEF WorkFits
    <2>. QED
      BY <2>10, <2>11, <2>12, <2>15, <2>16 DEF AttemptsInv
  <1>. QED
    BY <1>5, <1>6

\* One cell of a table is replaced.
LEMMA CellReplaced ==
  ASSUME NEW A, NEW B, NEW V, NEW table \in [A -> [B -> V]],
         NEW a \in A, NEW b \in B, NEW q \in V, NEW after,
         after = [table EXCEPT ![a][b] = q]
  PROVE  /\ after[a][b] = q /\ after \in [A -> [B -> V]]
         /\ \A l \in A, d \in B : l # a \/ d # b => after[l][d] = table[l][d]
  <1>1. after = [table EXCEPT ![a] = [table[a] EXCEPT ![b] = q]]
    OBVIOUS
  <1>2. table[a] \in [B -> V]
    OBVIOUS
  <1>3. PICK col : col = [table[a] EXCEPT ![b] = q]
    OBVIOUS
  <1>4. col \in [B -> V] /\ col[b] = q /\ \A d \in B : d # b => col[d] = table[a][d]
    BY <1>2, <1>3
  <1>5. after \in [A -> [B -> V]] /\ after[a] = col /\ \A l \in A : l # a => after[l] = table[l]
    BY <1>1, <1>3, <1>4
  <1>. QED
    BY <1>4, <1>5

LEMMA AppendedTo ==
  ASSUME NEW S, NEW q \in Seq(S), NEW e \in S, NEW n, n = Len(q), NEW r, r = Append(q, e)
  PROVE  r \in Seq(S) /\ Len(r) = n + 1 /\ r[n + 1] = e /\ \A k \in 1..n : r[k] = q[k]
  BY AppendProperties

LEMMA OneMore ==
  ASSUME NEW n \in Nat
  PROVE  /\ n + 1 \in 1..(n + 1) /\ 1..n \subseteq 1..(n + 1)
         /\ \A k \in 1..(n + 1) : k \in 1..n \/ k = n + 1
  OBVIOUS

LEMMA AppendEndKeeps ==
  ASSUME AttemptsInv, NEW s \in Sessions, AppendEnd(s)
  PROVE  AttemptsInv'
  <1>. PICK c : c = work[s]
    OBVIOUS
  <1>1. c.step = "end" /\ c.step # "idle"
    BY DEF AppendEnd
  <1>2. /\ c \in Calls /\ CallFits(s, c)
        /\ c.line \in Lines /\ c.doc \in Docs /\ c.number \in Nat /\ c.attempt \in Nat
    BY <1>1, WorkTyped
  <1>3. AttemptsTypeOK /\ RowsFit /\ StartsFit /\ OwnFits /\ WorkFits
    BY DEF AttemptsInv
  <1>4. /\ starts' = starts /\ superseded' = superseded /\ consents' = consents
        /\ kept' = kept /\ pressed' = pressed
    BY DEF AppendEnd
  <1>5. CASE ~(c.latest /\ Extends(c))
    <2>1. Stops(s) /\ rows' = rows /\ pending' = pending
      BY <1>5 DEF AppendEnd
    <2>. QED
      BY <1>4, <2>1, StopKeeps
  <1>6. CASE c.latest /\ Extends(c)
    <2>0. PICK row : row = [status |-> c.status, start |-> c.attempt]
      OBVIOUS
    <2>. PICK l0, d0 : l0 = c.line /\ d0 = c.doc
      OBVIOUS
    <2>. PICK n : n = Len(rows[l0][d0])
      OBVIOUS
    <2>. PICK x : x = Idle
      OBVIOUS
    <2>1. /\ rows' = [rows EXCEPT ![l0][d0] = Append(@, row)]
          /\ pending' = [pending EXCEPT ![s] = @ \ {c.attempt}]
          /\ Overtakes(s, x)
      BY <1>6, <2>0 DEF AppendEnd, Settled
    <2>2. /\ c.status \in Usable \cup Retryable /\ c.attempt \in kept[s]
          /\ starts[c.attempt] = StartOf(c) /\ NoRow(c.attempt) /\ Ready(StartOf(c))
      BY <1>1, <1>2 DEF CallFits, Ongoing, Past
    <2>3. row \in Row /\ row.start = c.attempt /\ row.status = c.status
      BY <1>2, <2>0, <2>2 DEF Row
    <2>4. l0 \in Lines /\ d0 \in Docs /\ n \in Nat
      BY <1>2, <1>3, Lines2
    <2>5. /\ rows' \in [Lines -> [Docs -> Seq(Row)]]
          /\ Len(rows'[l0][d0]) = n + 1
          /\ rows'[l0][d0][n + 1] = row
          /\ \A k \in 1..n : rows'[l0][d0][k] = rows[l0][d0][k]
          /\ \A l \in Lines, d \in Docs : l # l0 \/ d # d0 => rows'[l][d] = rows[l][d]
      <3>1. rows \in [Lines -> [Docs -> Seq(Row)]] /\ rows[l0][d0] \in Seq(Row)
        BY <1>3, <2>4 DEF AttemptsTypeOK
      <3>2. PICK q0 : q0 = rows[l0][d0]
        OBVIOUS
      <3>3. PICK q : q = Append(q0, row)
        OBVIOUS
      <3>4. q0 \in Seq(Row) /\ row \in Row /\ n = Len(q0)
        BY <2>3, <3>1, <3>2
      <3>5. q \in Seq(Row) /\ Len(q) = n + 1 /\ q[n + 1] = row /\ \A k \in 1..n : q[k] = q0[k]
        BY <3>4, <3>3, AppendedTo
      <3>6. /\ rows'[l0][d0] = q /\ rows' \in [Lines -> [Docs -> Seq(Row)]]
            /\ \A l \in Lines, d \in Docs : l # l0 \/ d # d0 => rows'[l][d] = rows[l][d]
        <4>1. rows' = [rows EXCEPT ![l0][d0] = q]
          BY <2>1, <3>2, <3>3
        <4>2. q \in Seq(Row)
          BY <3>5
        <4>. QED
          BY <2>4, <3>1, <4>1, <4>2, CellReplaced
      <3>7. Len(rows'[l0][d0]) = n + 1 /\ rows'[l0][d0][n + 1] = row
        BY <3>6, <3>5
      <3>8. \A k \in 1..n : rows'[l0][d0][k] = rows[l0][d0][k]
        BY <3>6, <3>5, <3>2
      <3>. QED
        BY <3>6, <3>7, <3>8
    <2>6. c.number = n + 1
      BY <1>6 DEF Extends, Line
    <2>7. x \in Calls \cup {Idle}
      OBVIOUS
    <2>8. /\ work' \in [Sessions -> Calls \cup {Idle}] /\ work'[s] = x
          /\ \A t \in Sessions \ {s} : Carried(work[t], work'[t])
      BY <2>1, <2>7, OvertakenWork
    <2>9. /\ kept \in [Sessions -> SUBSET (1..Len(starts))] /\ pending \in [Sessions -> SUBSET (1..Len(starts))]
      BY <1>3 DEF AttemptsTypeOK
    <2>10. /\ pending' \in [Sessions -> SUBSET (1..Len(starts))] /\ pending'[s] = pending[s] \ {c.attempt}
           /\ \A t \in Sessions \ {s} : pending'[t] = pending[t]
      BY <2>1, <2>9
    <2>11. AttemptsTypeOK'
      BY <1>3, <1>4, <2>5, <2>8, <2>10 DEF AttemptsTypeOK
    <2>12. \A k \in 1..(n + 1) : k \in 1..n \/ k = n + 1
      BY <2>4, OneMore
    <2>13. n + 1 \in 1..(n + 1) /\ 1..n \subseteq 1..(n + 1)
      BY <2>4, OneMore
    \* What grew refuses what would have extended it before.
    <2>14. ASSUME NEW l \in Lines, NEW d \in Docs, NEW k \in Nat, ReadyFor(l, d, k)
           PROVE  ReadyFor(l, d, k)'
      <3>1. CASE l = l0 /\ d = d0
        <4>1. k >= 1 /\ k <= n + 1
          BY <2>14, <3>1 DEF ReadyFor
        <4>2. k <= (n + 1) + 1 /\ k # (n + 1) + 1
          BY <2>4, <4>1
        <4>. QED
          BY <2>5, <3>1, <4>1, <4>2 DEF ReadyFor
      <3>2. CASE l # l0 \/ d # d0
        <4>1. rows'[l][d] = rows[l][d]
          BY <2>5, <3>2
        <4>. QED
          BY <2>14, <4>1 DEF ReadyFor
      <3>. QED
        BY <3>1, <3>2
    <2>15. ASSUME NEW i, i # c.attempt, NoRow(i)
           PROVE  NoRow(i)'
      <3>1. ASSUME NEW l \in Lines, NEW d \in Docs, NEW k \in 1..Len(rows'[l][d])
            PROVE  rows'[l][d][k].start # i
        <4>1. CASE l = l0 /\ d = d0
          <5>1. k \in 1..n \/ k = n + 1
            BY <2>5, <2>12, <3>1, <4>1
          <5>2. CASE k \in 1..n
            <6>1. rows'[l][d][k] = rows[l][d][k] /\ k \in 1..Len(rows[l][d])
              BY <2>5, <4>1, <5>2
            <6>. QED
              BY <2>15, <6>1 DEF NoRow
          <5>3. CASE k = n + 1
            BY <2>3, <2>5, <2>15, <4>1, <5>3
          <5>. QED
            BY <5>1, <5>2, <5>3
        <4>2. CASE l # l0 \/ d # d0
          <5>1. rows'[l][d] = rows[l][d]
            BY <2>5, <4>2
          <5>. QED
            BY <2>15, <3>1, <5>1 DEF NoRow
        <4>. QED
          BY <4>1, <4>2
      <3>. QED
        BY <3>1 DEF NoRow
    <2>16. RowsFit'
      <3>1. ASSUME NEW l \in Lines, NEW d \in Docs, NEW k \in 1..Len(rows'[l][d])
            PROVE  /\ rows'[l][d][k].start \in 1..Len(starts)
                   /\ starts[rows'[l][d][k].start] = [line |-> l, doc |-> d, number |-> k]
        <4>1. CASE l = l0 /\ d = d0
          <5>1. k \in 1..n \/ k = n + 1
            BY <2>5, <2>12, <3>1, <4>1
          <5>2. CASE k \in 1..n
            <6>1. rows'[l][d][k] = rows[l][d][k] /\ k \in 1..Len(rows[l][d])
              BY <2>5, <4>1, <5>2
            <6>. QED
              BY <1>3, <6>1 DEF RowsFit, RecordsItsStart, Line
          <5>3. CASE k = n + 1
            <6>1. rows'[l][d][k].start = c.attempt
              BY <2>3, <2>5, <4>1, <5>3
            <6>2. c.attempt \in 1..Len(starts)
              BY <2>2, <2>9
            <6>3. StartOf(c) = [line |-> l, doc |-> d, number |-> k]
              BY <2>6, <4>1, <5>3 DEF StartOf
            <6>. QED
              BY <2>2, <6>1, <6>2, <6>3
          <5>. QED
            BY <5>1, <5>2, <5>3
        <4>2. CASE l # l0 \/ d # d0
          <5>1. rows'[l][d] = rows[l][d]
            BY <2>5, <4>2
          <5>. QED
            BY <1>3, <3>1, <5>1 DEF RowsFit, RecordsItsStart, Line
        <4>. QED
          BY <4>1, <4>2
      <3>2. RecordsItsStart'
        BY <1>4, <3>1 DEF RecordsItsStart, Line
      \* What is extended could be retried.
      <3>3. n > 0 => rows[l0][d0][n].status \in Retryable
        <4>1. ReadyFor(l0, d0, c.number)
          BY <2>2 DEF Ready, StartOf
        <4>2. n > 0 => c.number > 1 /\ c.number - 1 = n
          BY <2>4, <2>6
        <4>. QED
          BY <2>6, <4>1, <4>2 DEF ReadyFor
      <3>4. \A status \in Retryable : status \notin Usable
        BY DEF Retryable, Usable
      <3>5. ASSUME NEW l \in Lines, NEW d \in Docs, NEW k \in 1..Len(rows'[l][d]),
                   rows'[l][d][k].status \in Usable
            PROVE  k = Len(rows'[l][d])
        <4>1. CASE l = l0 /\ d = d0
          <5>1. k \in 1..n \/ k = n + 1
            BY <2>5, <2>12, <3>5, <4>1
          <5>2. CASE k \in 1..n
            <6>1. rows'[l][d][k] = rows[l][d][k] /\ k \in 1..Len(rows[l][d])
              BY <2>5, <4>1, <5>2
            <6>2. k = n
              BY <1>3, <3>5, <4>1, <6>1 DEF RowsFit, UsableIsLast, Line
            <6>3. n > 0
              BY <2>4, <5>2
            <6>. QED
              BY <3>3, <3>4, <3>5, <4>1, <6>1, <6>2, <6>3
          <5>3. CASE k = n + 1
            BY <2>5, <4>1, <5>3
          <5>. QED
            BY <5>1, <5>2, <5>3
        <4>2. CASE l # l0 \/ d # d0
          <5>1. rows'[l][d] = rows[l][d]
            BY <2>5, <4>2
          <5>. QED
            BY <1>3, <3>5, <5>1 DEF RowsFit, UsableIsLast, Line
        <4>. QED
          BY <4>1, <4>2
      <3>6. UsableIsLast'
        BY <3>5 DEF UsableIsLast, Line
      <3>7. ASSUME NEW d \in Docs, rows'["extraction"][d] # << >>
            PROVE  Latest("ingestion", d, Usable)'
        <4>0. "ingestion" \in Lines /\ "extraction" \in Lines /\ "ingestion" # "extraction"
          BY DEF Lines
        <4>1. CASE l0 = "ingestion" /\ d0 = d
          <5>1. rows["extraction"][d] # << >>
            BY <2>5, <3>7, <4>0, <4>1
          <5>2. Latest("ingestion", d, Usable)
            BY <1>3, <5>1 DEF RowsFit, ExtractionHasText, Line
          <5>3. rows[l0][d0] # << >> /\ rows[l0][d0][n].status \in Usable
            BY <4>1, <5>2 DEF Latest, Line
          <5>4. n > 0
            BY <1>3, <2>4, <5>3, Lines2
          <5>. QED
            BY <3>3, <3>4, <5>3, <5>4
        <4>2. CASE l0 # "ingestion" \/ d0 # d
          <5>1. rows'["ingestion"][d] = rows["ingestion"][d]
            BY <2>5, <4>0, <4>2
          <5>2. Latest("ingestion", d, Usable)
            <6>1. CASE l0 = "extraction" /\ d0 = d
              BY <1>6, <6>1 DEF Extends
            <6>2. CASE l0 # "extraction" \/ d0 # d
              <7>1. rows'["extraction"][d] = rows["extraction"][d]
                BY <2>5, <4>0, <6>2
              <7>. QED
                BY <1>3, <3>7, <7>1 DEF RowsFit, ExtractionHasText, Line
            <6>. QED
              BY <6>1, <6>2
          <5>. QED
            BY <5>1, <5>2 DEF Latest, Line
        <4>. QED
          BY <4>1, <4>2
      <3>8. ExtractionHasText'
        BY <3>7 DEF ExtractionHasText, Latest, Line
      <3>. QED
        BY <3>2, <3>6, <3>8 DEF RowsFit
    <2>17. StartsFit'
      <3>1. ASSUME NEW i \in 1..Len(starts) PROVE Ready(starts[i])'
        <4>1. starts[i] \in Start
          BY <1>3, <3>1 DEF AttemptsTypeOK
        <4>2. starts[i].line \in Lines /\ starts[i].doc \in Docs /\ starts[i].number \in Nat
          BY <4>1 DEF Start
        <4>. PICK l, d, k : l = starts[i].line /\ d = starts[i].doc /\ k = starts[i].number
          OBVIOUS
        <4>3. ReadyFor(l, d, k)
          BY <1>3 DEF StartsFit, Ready
        <4>4. ReadyFor(l, d, k)'
          BY <2>14, <4>2, <4>3
        <4>. QED
          BY <1>4, <4>4 DEF Ready
      <3>. QED
        BY <1>4, <3>1 DEF StartsFit
    <2>18. OwnFits'
      <3>1. \A t \in Sessions : pending'[t] \subseteq kept'[t]
        BY <1>3, <1>4, <2>10 DEF OwnFits
      <3>2. ASSUME NEW t \in Sessions, NEW i \in pending'[t]
            PROVE  starts[i].line = "extraction" /\ NoRow(i)'
        <4>1. i \in pending[t] /\ i \in kept[t]
          BY <1>3, <2>10 DEF OwnFits
        <4>2. i # c.attempt
          <5>1. CASE t = s
            BY <2>10, <5>1
          <5>2. CASE t # s
            BY <1>3, <2>2, <4>1, <5>2 DEF OwnFits
          <5>. QED
            BY <5>1, <5>2
        <4>3. starts[i].line = "extraction" /\ NoRow(i)
          BY <1>3, <4>1 DEF OwnFits
        <4>. QED
          BY <2>15, <4>2, <4>3
      <3>3. \A t, u \in Sessions : t # u => kept'[t] \cap kept'[u] = {}
        BY <1>3, <1>4 DEF OwnFits
      <3>. QED
        BY <1>4, <3>1, <3>2, <3>3 DEF OwnFits
    <2>19. WorkFits'
      <3>1. ASSUME NEW t \in Sessions \ {s} PROVE CallFits(t, work[t])'
        <4>. PICK c1 : c1 = work[t]
          OBVIOUS
        <4>. PICK c2 : c2 = work'[t]
          OBVIOUS
        <4>1. Carried(c1, c2) /\ kept'[t] = kept[t]
          BY <1>4, <2>8
        <4>2. \A i \in 1..Len(starts) : starts'[i] = starts[i]
          BY <1>4
        <4>3. \A l \in Lines, d \in Docs, k \in Nat : ReadyFor(l, d, k) => ReadyFor(l, d, k)'
          BY <2>14
        <4>4. \A i \in kept[t] : NoRow(i) => NoRow(i)'
          <5>1. \A i \in kept[t] : i # c.attempt
            BY <1>3, <2>2 DEF OwnFits
          <5>. QED
            BY <2>15, <5>1
        <4>5. CallFits(t, c2)'
          BY <4>1, <4>2, <4>3, <4>4, OtherFits
        <4>. QED
          BY <4>5 DEF CallFits
      <3>2. CallFits(s, work[s])'
        BY <2>8, IdleFits
      <3>. QED
        BY <3>1, <3>2 DEF WorkFits
    <2>. QED
      BY <2>11, <2>16, <2>17, <2>18, <2>19 DEF AttemptsInv
  <1>. QED
    BY <1>5, <1>6

LEMMA OtherEventKeeps == AttemptsInv /\ OtherEvent => AttemptsInv'
  <1> SUFFICES ASSUME AttemptsInv, OtherEvent PROVE AttemptsInv'
    OBVIOUS
  <1>1. /\ rows' = rows /\ starts' = starts /\ superseded' = superseded /\ consents' = consents
        /\ kept' = kept /\ pending' = pending /\ pressed' = pressed
        /\ work' = [z \in Sessions |-> IF work[z] = Idle THEN Idle ELSE [work[z] EXCEPT !.latest = FALSE]]
    BY DEF OtherEvent, sessionVars
  <1>2. work \in [Sessions -> Calls \cup {Idle}]
    BY DEF AttemptsInv, AttemptsTypeOK
  <1>3. ASSUME NEW t \in Sessions PROVE Carried(work[t], work'[t])
    <2>1. CASE work[t] = Idle
      BY <1>1, <2>1 DEF Carried
    <2>2. CASE work[t] # Idle
      <3>1. work[t] \in Calls /\ work'[t] = [work[t] EXCEPT !.latest = FALSE]
        BY <1>1, <1>2, <2>2
      <3>. QED
        BY <3>1 DEF Carried
    <2>. QED
      BY <2>1, <2>2
  <1>4. work' \in [Sessions -> Calls \cup {Idle}]
    <2>1. \A t \in Sessions : work'[t] \in Calls \cup {Idle}
      BY <1>2, <1>3, CarriedFits
    <2>2. work' = [t \in Sessions |-> work'[t]]
      BY <1>1
    <2>. QED
      BY <2>1, <2>2
  <1>5. AttemptsTypeOK'
    BY <1>1, <1>4 DEF AttemptsInv, AttemptsTypeOK
  <1>6. RowsFit' /\ StartsFit'
    BY <1>1, SameTables DEF AttemptsInv
  <1>7. OwnFits'
    BY <1>1 DEF AttemptsInv, OwnFits, NoRow
  <1>8. WorkFits'
    <2>1. ASSUME NEW t \in Sessions PROVE CallFits(t, work[t])'
      <3>. PICK c1 : c1 = work[t]
        OBVIOUS
      <3>. PICK c2 : c2 = work'[t]
        OBVIOUS
      <3>1. Carried(c1, c2) /\ kept'[t] = kept[t]
        BY <1>1, <1>3
      <3>2. \A i \in 1..Len(starts) : starts'[i] = starts[i]
        BY <1>1
      <3>3. \A l \in Lines, d \in Docs, k \in Nat : ReadyFor(l, d, k) => ReadyFor(l, d, k)'
        BY <1>1 DEF ReadyFor
      <3>4. \A i \in kept[t] : NoRow(i) => NoRow(i)'
        BY <1>1 DEF NoRow
      <3>5. CallFits(t, c2)'
        BY <3>1, <3>2, <3>3, <3>4, OtherFits
      <3>. QED
        BY <3>5 DEF CallFits
    <2>. QED
      BY <2>1 DEF WorkFits
  <1>. QED
    BY <1>5, <1>6, <1>7, <1>8 DEF AttemptsInv

LEMMA AttemptsInvHolds == AttemptsSpec => []AttemptsInv
  <1>1. ASSUME AttemptsInv, [AttemptsNext]_attemptVars PROVE AttemptsInv'
    <2>1. ASSUME NEW s \in Sessions, Click(s) PROVE AttemptsInv'
      BY <1>1, <2>1, UploadKeeps, ExtractKeeps, DeclareKeeps, AbandonKeeps DEF Click
    <2>2. ASSUME NEW s \in Sessions, Proceed(s) PROVE AttemptsInv'
      BY <1>1, <2>2, BeginKeeps, ReadEventKeeps, AppendStartKeeps, CheckConsentKeeps, PerformKeeps,
         InterruptKeeps, AppendEndKeeps DEF Proceed
    <2>3. ASSUME NEW s \in Sessions, Lose(s) PROVE AttemptsInv'
      BY <1>1, <2>3, LoseKeeps
    <2>4. ASSUME NEW d \in Docs, Supersede(d) PROVE AttemptsInv'
      BY <1>1, <2>4, SupersedeKeeps
    <2>5. CASE OtherEvent
      BY <1>1, <2>5, OtherEventKeeps
    <2>6. CASE UNCHANGED attemptVars
      <3>1. /\ rows' = rows /\ starts' = starts /\ superseded' = superseded /\ consents' = consents
            /\ kept' = kept /\ pending' = pending /\ pressed' = pressed /\ work' = work
        BY <2>6 DEF attemptVars
      <3>2. AttemptsTypeOK'
        BY <1>1, <3>1 DEF AttemptsInv, AttemptsTypeOK
      <3>3. RowsFit' /\ StartsFit'
        BY <1>1, <3>1, SameTables DEF AttemptsInv
      <3>4. OwnFits'
        BY <1>1, <3>1 DEF AttemptsInv, OwnFits, NoRow
      <3>5. WorkFits'
        BY <1>1, <3>1 DEF AttemptsInv, WorkFits, CallFits, Past, Ongoing, Ready, ReadyFor, StartOf, NoRow
      <3>. QED
        BY <3>2, <3>3, <3>4, <3>5 DEF AttemptsInv
    <2>. QED
      BY <1>1, <2>1, <2>2, <2>3, <2>4, <2>5, <2>6 DEF AttemptsNext
  <1>. QED
    BY AttemptsInitInv, <1>1, PTL DEF AttemptsSpec

\* The rows, starts and calls of the attempts keep their declared form.
THEOREM AttemptsTypeCorrect == AttemptsSpec => []AttemptsTypeOK
  <1>1. AttemptsInv => AttemptsTypeOK
    BY DEF AttemptsInv
  <1>. QED
    BY AttemptsInvHolds, <1>1, PTL

\* An attempt to read a document is recorded once, for the start it answers, and
\* what the page offers to abandon never was: begin, complete and abandon of
\* ingestion and extraction, for any sessions and documents.
THEOREM StartsSettleOnceHolds == AttemptsSpec => []StartsSettleOnce
  <1>1. ASSUME AttemptsInv PROVE StartsSettleOnce
    <2>1. RecordsItsStart
      BY <1>1 DEF AttemptsInv, RowsFit
    <2>2. ASSUME NEW s \in Sessions, NEW i \in pending[s], NEW n \in 1..Len(Line("extraction", starts[i].doc))
          PROVE  Line("extraction", starts[i].doc)[n].start # i
      <3>1. i \in 1..Len(starts) /\ NoRow(i)
        BY <1>1 DEF AttemptsInv, AttemptsTypeOK, OwnFits
      <3>2. starts[i] \in Start
        BY <1>1, <3>1 DEF AttemptsInv, AttemptsTypeOK
      <3>3. starts[i].doc \in Docs /\ "extraction" \in Lines
        BY <3>2 DEF Start, Lines
      <3>. QED
        BY <3>1, <3>3 DEF NoRow, Line
    <2>. QED
      BY <2>1, <2>2 DEF StartsSettleOnce, PendingHasNoRow
  <1>. QED
    BY AttemptsInvHolds, <1>1, PTL

\* What can be reviewed is there once and has its text: no late answer, retry
\* or abandonment follows a usable attempt, and an extraction keeps the usable
\* ingestion it cites.
THEOREM UsableSoundHolds == AttemptsSpec => []UsableSound
  <1>1. AttemptsInv => UsableSound
    BY DEF AttemptsInv, RowsFit, UsableSound
  <1>. QED
    BY AttemptsInvHolds, <1>1, PTL

-----------------------------------------------------------------------------
(***************************************************************************)
(* The sum of the sizes of documents.  A recursive function is what its    *)
(* defining equation says once a function that satisfies it is known to    *)
(* exist; that sums agree where their weights do follows from the least    *)
(* number at which they would not.                                         *)
(***************************************************************************)

LEMMA LeastOf ==
  ASSUME NEW T \in SUBSET Nat, T # {}
  PROVE  \E n \in T : \A m \in T : n <= m
  <1>1. IsWellFoundedOn(OpToRel(<, Nat), Nat)
    BY NatLessThanWellFounded
  <1>2. PICK R : R = OpToRel(<, Nat)
    OBVIOUS
  <1>3. \A m, n \in Nat : <<m, n>> \in R <=> m < n
    BY <1>2 DEF OpToRel
  <1>4. IsWellFoundedOn(R, Nat)
    BY <1>1, <1>2
  <1>5. PICK n \in T : \A m \in T : ~(<<m, n>> \in R)
    BY <1>4, WFMin
  <1>6. \A m \in T : ~(m < n)
    BY <1>3, <1>5
  <1>7. n \in Nat /\ \A m \in T : m \in Nat
    OBVIOUS
  <1>8. \A m \in T : n <= m
    BY <1>6, <1>7
  <1>. QED
    BY <1>5, <1>8

Prefix(w, g, n) == g \in [0..n -> Nat] /\ g[0] = 0 /\ \A k \in 1..n : g[k] = g[k - 1] + w[k]

LEMMA PrefixExists ==
  ASSUME NEW w \in [Nat -> Nat], NEW n \in Nat
  PROVE  \E g : Prefix(w, g, n)
  <1>. PICK T : T = {k \in Nat : ~ \E g : Prefix(w, g, k)}
    OBVIOUS
  <1>. SUFFICES ASSUME T # {} PROVE FALSE
    OBVIOUS
  <1>1. PICK k \in T : \A m \in T : k <= m
    BY LeastOf
  <1>2. k \in Nat /\ ~ \E g : Prefix(w, g, k)
    OBVIOUS
  <1>3. CASE k = 0
    <2>. PICK g : g = [i \in 0..0 |-> 0]
      OBVIOUS
    <2>1. Prefix(w, g, 0)
      BY DEF Prefix
    <2>. QED
      BY <1>2, <1>3, <2>1
  <1>4. CASE k # 0
    <2>1. k - 1 \in Nat /\ ~(k <= k - 1)
      BY <1>2, <1>4
    <2>2. k - 1 \notin T
      BY <1>1, <2>1
    <2>3. PICK g : Prefix(w, g, k - 1)
      BY <2>1, <2>2
    <2>4. PICK h : h = [i \in 0..k |-> IF i = k THEN g[k - 1] + w[k] ELSE g[i]]
      OBVIOUS
    <2>5. /\ g \in [0..(k - 1) -> Nat] /\ g[0] = 0
          /\ \A i \in 1..(k - 1) : g[i] = g[i - 1] + w[i]
      BY <2>3 DEF Prefix
    <2>6. /\ k - 1 \in 0..(k - 1) /\ w[k] \in Nat /\ 0 # k /\ 0 \in 0..k
          /\ \A i \in 0..k : i # k => i \in 0..(k - 1)
          /\ \A i \in 1..k : i - 1 \in 0..(k - 1) /\ i - 1 # k /\ i - 1 \in 0..k /\ i \in 0..k
                             /\ (i # k => i \in 1..(k - 1))
      BY <1>2, <1>4
    <2>7. g[k - 1] + w[k] \in Nat
      <3>1. g[k - 1] \in Nat
        BY <2>5, <2>6
      <3>. QED
        BY <2>6, <3>1
    <2>8. h \in [0..k -> Nat]
      <3>1. ASSUME NEW i \in 0..k PROVE h[i] \in Nat
        BY <2>4, <2>5, <2>6, <2>7
      <3>. QED
        BY <2>4, <3>1
    <2>9. h[0] = 0
      BY <2>4, <2>5, <2>6
    <2>10. ASSUME NEW i \in 1..k PROVE h[i] = h[i - 1] + w[i]
      <3>1. h[i - 1] = g[i - 1]
        BY <2>4, <2>6
      <3>2. CASE i = k
        BY <2>4, <2>6, <3>1, <3>2
      <3>3. CASE i # k
        BY <2>4, <2>5, <2>6, <3>1, <3>3
      <3>. QED
        BY <3>2, <3>3
    <2>11. Prefix(w, h, k)
      BY <2>8, <2>9, <2>10 DEF Prefix
    <2>. QED
      BY <1>2, <2>11
  <1>. QED
    BY <1>3, <1>4

\* Two such sums agree as far as their weights do.
LEMMA PrefixAgrees ==
  ASSUME NEW w \in [Nat -> Nat], NEW v \in [Nat -> Nat], NEW n \in Nat, NEW m \in Nat, NEW g, NEW h,
         Prefix(w, g, n), Prefix(v, h, m),
         NEW k \in Nat, k <= n, k <= m, \A i \in 1..k : w[i] = v[i]
  PROVE  g[k] = h[k]
  <1>. PICK T : T = {j \in Nat : j <= k /\ g[j] # h[j]}
    OBVIOUS
  <1>. SUFFICES ASSUME T # {} PROVE FALSE
    OBVIOUS
  <1>1. PICK j \in T : \A i \in T : j <= i
    BY LeastOf
  <1>2. j \in Nat /\ j <= k /\ g[j] # h[j]
    OBVIOUS
  <1>3. CASE j = 0
    BY <1>2, <1>3 DEF Prefix
  <1>4. CASE j # 0
    <2>1. /\ j - 1 \in Nat /\ j - 1 <= k /\ ~(j <= j - 1) /\ j \in 1..k
          /\ j \in 1..n /\ j \in 1..m
      BY <1>2, <1>4
    <2>2. g[j - 1] = h[j - 1]
      BY <1>1, <2>1
    <2>3. g[j] = g[j - 1] + w[j] /\ h[j] = h[j - 1] + v[j] /\ w[j] = v[j]
      BY <2>1 DEF Prefix
    <2>. QED
      BY <1>2, <2>2, <2>3
  <1>. QED
    BY <1>3, <1>4

Sums(w, f) == f = [k \in Nat |-> IF k = 0 THEN 0 ELSE f[k - 1] + w[k]]

LEMMA SumsExist ==
  ASSUME NEW w \in [Nat -> Nat]
  PROVE  \E f : Sums(w, f)
  <1>1. PICK G : G = [k \in Nat |-> CHOOSE g : Prefix(w, g, k)]
    OBVIOUS
  <1>2. ASSUME NEW k \in Nat PROVE Prefix(w, G[k], k)
    <2>1. \E g : Prefix(w, g, k)
      BY PrefixExists
    <2>. QED
      BY <1>1, <2>1
  <1>3. PICK F : F = [k \in Nat |-> G[k][k]]
    OBVIOUS
  <1>4. ASSUME NEW k \in Nat PROVE F[k] = IF k = 0 THEN 0 ELSE F[k - 1] + w[k]
    <2>1. CASE k = 0
      BY <1>2, <1>3, <2>1 DEF Prefix
    <2>2. CASE k # 0
      <3>1. k - 1 \in Nat /\ k - 1 <= k /\ k - 1 <= k - 1 /\ k \in 1..k
        BY <2>2
      <3>2. Prefix(w, G[k], k) /\ Prefix(w, G[k - 1], k - 1)
        BY <1>2, <3>1
      <3>3. G[k][k - 1] = G[k - 1][k - 1]
        BY <3>1, <3>2, PrefixAgrees
      <3>4. G[k][k] = G[k][k - 1] + w[k]
        BY <3>1, <3>2 DEF Prefix
      <3>. QED
        BY <1>3, <2>2, <3>1, <3>3, <3>4
    <2>. QED
      BY <2>1, <2>2
  <1>5. F = [k \in Nat |-> IF k = 0 THEN 0 ELSE F[k - 1] + w[k]]
    BY <1>3, <1>4
  <1>. QED
    BY <1>5 DEF Sums

LEMMA TotalIs ==
  ASSUME NEW w \in [Nat -> Nat]
  PROVE  \E f : Sums(w, f) /\ \A n : Total(w, n) = f[n]
  <1>1. PICK f : f = CHOOSE h : Sums(w, h)
    OBVIOUS
  <1>2. Sums(w, f)
    BY <1>1, SumsExist
  <1>3. f = CHOOSE h : h = [k \in Nat |-> IF k = 0 THEN 0 ELSE h[k - 1] + w[k]]
    BY <1>1 DEF Sums
  <1>4. \A n : Total(w, n) = f[n]
    BY <1>3 DEF Total
  <1>. QED
    BY <1>2, <1>4

LEMMA TotalOfNone ==
  ASSUME NEW w \in [Nat -> Nat]
  PROVE  Total(w, 0) = 0
  <1>1. PICK f : Sums(w, f) /\ \A n : Total(w, n) = f[n]
    BY TotalIs
  <1>. QED
    BY <1>1 DEF Sums

\* Two sums agree as far as their weights do.
LEMMA SumsAgree ==
  ASSUME NEW w \in [Nat -> Nat], NEW v \in [Nat -> Nat], NEW f, NEW h, Sums(w, f), Sums(v, h),
         NEW n \in Nat, \A i \in 1..n : w[i] = v[i]
  PROVE  f[n] = h[n]
  <1>1. /\ f[0] = 0 /\ h[0] = 0
        /\ \A k \in Nat : k # 0 => f[k] = f[k - 1] + w[k] /\ h[k] = h[k - 1] + v[k]
    BY DEF Sums
  <1>2. ASSUME NEW T, T = {j \in Nat : j <= n /\ f[j] # h[j]}, T # {} PROVE FALSE
    <2>0. T \in SUBSET Nat
      BY <1>2
    <2>1. PICK j \in T : \A i \in T : j <= i
      BY <1>2, <2>0, LeastOf
    <2>2. j \in Nat /\ j <= n /\ f[j] # h[j]
      BY <1>2
    <2>3. j # 0
      BY <1>1, <2>2
    <2>4. j - 1 \in Nat /\ j - 1 <= n /\ ~(j <= j - 1) /\ j \in 1..n
      BY <2>2, <2>3
    <2>5. f[j - 1] = h[j - 1]
      BY <1>2, <2>1, <2>4
    <2>6. w[j] = v[j]
      BY <2>4
    <2>. QED
      BY <1>1, <2>2, <2>3, <2>5, <2>6
  <1>3. n \in Nat /\ n <= n
    OBVIOUS
  <1>4. ASSUME f[n] # h[n] PROVE FALSE
    <2>1. n \in {j \in Nat : j <= n /\ f[j] # h[j]}
      BY <1>3, <1>4
    <2>. QED
      BY <1>2, <2>1
  <1>. QED
    BY <1>4

\* One weight more: what came before need only agree.
LEMMA TotalOfNext ==
  ASSUME NEW w \in [Nat -> Nat], NEW v \in [Nat -> Nat], NEW n \in Nat,
         \A i \in 1..n : w[i] = v[i]
  PROVE  Total(v, n + 1) = Total(w, n) + v[n + 1]
  <1>1. PICK f : Sums(w, f) /\ \A k : Total(w, k) = f[k]
    BY TotalIs
  <1>2. PICK h : Sums(v, h) /\ \A k : Total(v, k) = h[k]
    BY TotalIs
  <1>3. f[n] = h[n]
    <2>1. Sums(w, f) /\ Sums(v, h) /\ n \in Nat /\ \A i \in 1..n : w[i] = v[i]
      BY <1>1, <1>2
    <2>. QED
      BY <2>1, SumsAgree
  <1>4. n + 1 \in Nat /\ n + 1 # 0 /\ (n + 1) - 1 = n
    OBVIOUS
  <1>5. h[n + 1] = h[n] + v[n + 1]
    BY <1>2, <1>4 DEF Sums
  <1>. QED
    BY <1>1, <1>2, <1>3, <1>5

-----------------------------------------------------------------------------
(***************************************************************************)
(* The intake.  A call that found no duplicate of a content is counted with*)
(* the documents that have it, and a bound token stays bound.              *)
(***************************************************************************)

\* Which calls hold which answers: a rejected file goes one way, an accepted one
\* that is not the process source the other, and either replaces what is there.
UploadFits(x) ==
    x # NoUpload =>
      /\ x \in Uploads
      /\ x.request.over \in 0..Len(documents)
      /\ x.step \in {"seek rejection", "reject"} =>
           Inspect(x.request) # Accepted /\ Inspect(x.request) \in Blob
      /\ x.step \notin {"seek rejection", "reject"} =>
           Inspect(x.request) = Accepted /\ x.request.content # Source
      /\ x.step = "reuse" => x.found # 0

UploadsFit == \A s \in Uploaders : UploadFits(uploads[s])

\* The token of a document is bound, so no other document gets it.
TokensBound == \A i \in DOMAIN documents : requests[documents[i].token] # Unbound

\* The calls that looked for a content and found none, and may yet store it.
Holds(x, c) == x.step \in {"count", "store"} /\ x.request.content = c
Holding(c) == {s \in Uploaders : Holds(uploads[s], c)}

\* Every call that may yet store a content is counted with what is stored of it.
DuplicatesFit ==
    \A c \in Contents :
      Cardinality(SameContent(c)) + Cardinality(Holding(c)) <= Cardinality(Uploaders)

DocumentsType ==
    /\ documents \in Seq(Document)
    /\ \A i \in DOMAIN documents : documents[i].over < i

IntakeInv ==
    /\ blobs \in [Contents -> Blob] /\ requests \in [Tokens -> Binding]
    /\ DocumentsType
    /\ DOMAIN uploads = Uploaders
    /\ UploadsFit
    /\ LimitsHold
    /\ OneSuccessor
    /\ TokensBound /\ OneDocumentPerToken
    /\ DuplicatesFit
    /\ DocumentsAreReadable

LEMMA PdfOrder ==
  /\ DOMAIN PdfProblems = 1..6
  /\ \A k \in 1..6 : PdfProblems[k] \in {"ENCRYPTED", "PDF_PAGE_LIMIT_EXCEEDED", "ACTIVE_CONTENT",
                       "MALFORMED", "SCANNED_OR_NO_TEXT", "EXTRACTED_CHARACTER_LIMIT_EXCEEDED"}
  /\ PdfProblems[4] = "MALFORMED"
  <1>1. DOMAIN PdfProblems = 1..6
    BY DEF PdfProblems
  <1>2. ASSUME NEW k \in 1..6
        PROVE  PdfProblems[k] \in {"ENCRYPTED", "PDF_PAGE_LIMIT_EXCEEDED", "ACTIVE_CONTENT",
                       "MALFORMED", "SCANNED_OR_NO_TEXT", "EXTRACTED_CHARACTER_LIMIT_EXCEEDED"}
    <2>1. k = 1 \/ k = 2 \/ k = 3 \/ k = 4 \/ k = 5 \/ k = 6
      OBVIOUS
    <2>. QED
      BY <2>1 DEF PdfProblems
  <1>3. PdfProblems[4] = "MALFORMED"
    BY DEF PdfProblems
  <1>. QED
    BY <1>1, <1>2, <1>3

LEMMA TextOrder ==
  /\ DOMAIN TextProblems = 1..2
  /\ \A k \in 1..2 : TextProblems[k] \in {"MALFORMED", "EXTRACTED_CHARACTER_LIMIT_EXCEEDED"}
  <1>1. DOMAIN TextProblems = 1..2
    BY DEF TextProblems
  <1>2. ASSUME NEW k \in 1..2
        PROVE  TextProblems[k] \in {"MALFORMED", "EXTRACTED_CHARACTER_LIMIT_EXCEEDED"}
    <2>1. k = 1 \/ k = 2
      OBVIOUS
    <2>. QED
      BY <2>1 DEF TextProblems
  <1>. QED
    BY <1>1, <1>2

\* What an inspection says of the problems of a file: the first of its order,
\* or that it has none of them.
LEMMA FirstFound ==
  ASSUME NEW found, NEW order, NEW D \in SUBSET Nat, DOMAIN order = D,
         NEW k, k = FirstOf(found, order)
  PROVE  \/ k = Accepted /\ found \cap Range(order) = {}
         \/ \E i \in D : k = order[i]
  <1>1. PICK hits : hits = Findings(found, order)
    OBVIOUS
  <1>2. hits \in SUBSET D /\ hits \in SUBSET Nat
    BY <1>1 DEF Findings
  <1>3. CASE hits = {}
    <2>1. k = Accepted
      BY <1>1, <1>3 DEF FirstOf
    <2>2. found \cap Range(order) = {}
      BY <1>1, <1>3 DEF Findings, Range
    <2>. QED
      BY <2>1, <2>2
  <1>4. CASE hits # {}
    <2>1. PICK i \in hits : \A j \in hits : i <= j
      BY <1>2, <1>4, LeastOf
    <2>2. Min(hits) \in hits
      BY <2>1 DEF Min
    <2>3. k = order[Min(hits)]
      BY <1>1, <1>4 DEF FirstOf
    <2>. QED
      BY <1>2, <2>2, <2>3
  <1>. QED
    BY <1>3, <1>4

LEMMA InspectionIs ==
  ASSUME NEW r \in Requests
  PROVE  /\ Inspect(r) \in Blob \cup Unremembered
         /\ Inspect(r) # NoBlob
         /\ Inspect(r) = Accepted =>
              /\ ~Facts[r.content].oversized
              /\ r.extension \in {"pdf", "txt"}
              /\ Facts[r.content].magic = (IF r.extension = "pdf" THEN "pdf" ELSE "text")
              /\ r.extension = "pdf" => Facts[r.content].problems \cap Range(PdfProblems) = {}
              /\ r.extension = "txt" => Facts[r.content].problems \cap Range(TextProblems) = {}
  <1>0. r.content \in Contents
    BY DEF Requests
  <1>1. PICK fact : fact = Facts[r.content]
    OBVIOUS
  <1>2. fact \in Fact
    BY <1>0, <1>1, IntakeAssumption
  <1>3. fact.magic \in Magics
    BY <1>2 DEF Fact
  <1>4. PICK p : p = FirstOf(fact.problems, PdfProblems)
    OBVIOUS
  <1>5. PICK t : t = FirstOf(fact.problems, TextProblems)
    OBVIOUS
  <1>6. /\ p \in Range(PdfProblems) \cup {Accepted}
        /\ p # NoBlob
        /\ p = Accepted => fact.problems \cap Range(PdfProblems) = {}
    <2>1. 6 \in Nat /\ DOMAIN PdfProblems = 1..6
      BY PdfOrder
    <2>2. \/ p = Accepted /\ fact.problems \cap Range(PdfProblems) = {}
          \/ \E i \in 1..6 : p = PdfProblems[i]
      <3>1. PICK found : found = fact.problems
        OBVIOUS
      <3>2. PICK order : order = PdfProblems
        OBVIOUS
      <3>3. PICK D : D = 1..6
        OBVIOUS
      <3>4. /\ D \in SUBSET Nat /\ DOMAIN order = D
            /\ p = FirstOf(found, order)
        BY <1>4, <2>1, <3>1, <3>2, <3>3
      <3>5. \/ p = Accepted /\ found \cap Range(order) = {}
            \/ \E i \in D : p = order[i]
        BY <3>4, FirstFound
      <3>. QED
        BY <3>1, <3>2, <3>3, <3>5
    <2>3. ASSUME NEW i \in 1..6, p = PdfProblems[i]
          PROVE  p \in Range(PdfProblems) /\ p # NoBlob /\ p # Accepted
      BY <2>1, <2>3, PdfOrder DEF Range, NoBlob, Accepted
    <2>. QED
      BY <2>2, <2>3 DEF NoBlob, Accepted
  <1>7. /\ t \in Range(PdfProblems) \cup {Accepted}
        /\ t # NoBlob
        /\ t = Accepted => fact.problems \cap Range(TextProblems) = {}
    <2>1. 2 \in Nat /\ DOMAIN TextProblems = 1..2
      BY TextOrder
    <2>2. \/ t = Accepted /\ fact.problems \cap Range(TextProblems) = {}
          \/ \E i \in 1..2 : t = TextProblems[i]
      <3>1. PICK found : found = fact.problems
        OBVIOUS
      <3>2. PICK order : order = TextProblems
        OBVIOUS
      <3>3. PICK D : D = 1..2
        OBVIOUS
      <3>4. /\ D \in SUBSET Nat /\ DOMAIN order = D
            /\ t = FirstOf(found, order)
        BY <1>5, <2>1, <3>1, <3>2, <3>3
      <3>5. \/ t = Accepted /\ found \cap Range(order) = {}
            \/ \E i \in D : t = order[i]
        BY <3>4, FirstFound
      <3>. QED
        BY <3>1, <3>2, <3>3, <3>5
    <2>3. ASSUME NEW i \in 1..2, t = TextProblems[i]
          PROVE  t \in Range(PdfProblems) /\ t # NoBlob /\ t # Accepted
      <3>1. t = "MALFORMED" \/ t = "EXTRACTED_CHARACTER_LIMIT_EXCEEDED"
        BY <2>3, TextOrder
      <3>2. PdfProblems[4] = "MALFORMED" /\ PdfProblems[6] = "EXTRACTED_CHARACTER_LIMIT_EXCEEDED"
            /\ 4 \in DOMAIN PdfProblems /\ 6 \in DOMAIN PdfProblems
        BY DEF PdfProblems
      <3>. QED
        BY <3>1, <3>2 DEF Range, NoBlob, Accepted
    <2>. QED
      BY <2>2, <2>3 DEF NoBlob, Accepted
  <1>8. "MALFORMED" \in Range(PdfProblems)
    BY PdfOrder DEF Range
  <1>9. Inspect(r) = IF fact.oversized THEN "FILE_TOO_LARGE"
          ELSE IF r.extension \notin {"pdf", "txt"} THEN "UNSUPPORTED_FILE_TYPE"
          ELSE IF fact.magic \in {"EXECUTABLE", "ARCHIVE"} THEN fact.magic
          ELSE IF r.extension = "pdf"
               THEN IF fact.magic = "pdf" THEN p ELSE "MALFORMED"
               ELSE IF fact.magic = "pdf" THEN "UNSUPPORTED_FILE_TYPE" ELSE t
    BY <1>1, <1>4, <1>5 DEF Inspect
  <1>10. Inspect(r) \in Blob \cup Unremembered /\ Inspect(r) # NoBlob
    BY <1>3, <1>6, <1>7, <1>8, <1>9 DEF Blob, Unremembered, Magics, NoBlob, Accepted
  <1>11. Inspect(r) = Accepted =>
              /\ ~fact.oversized
              /\ r.extension \in {"pdf", "txt"}
              /\ fact.magic = (IF r.extension = "pdf" THEN "pdf" ELSE "text")
              /\ r.extension = "pdf" => fact.problems \cap Range(PdfProblems) = {}
              /\ r.extension = "txt" => fact.problems \cap Range(TextProblems) = {}
    BY <1>3, <1>6, <1>7, <1>9 DEF Magics, Accepted
  <1>. QED
    BY <1>1, <1>10, <1>11

LEMMA IntakeStarts ==
  ASSUME IntakeInit
  PROVE  IntakeInv
  <1>1. documents = << >> /\ DOMAIN documents = {} /\ Len(documents) = 0
    BY DEF IntakeInit
  <1>2. blobs \in [Contents -> Blob] /\ requests \in [Tokens -> Binding]
    BY DEF IntakeInit, Blob, Binding
  <1>3. DocumentsType /\ OneSuccessor /\ TokensBound /\ OneDocumentPerToken /\ DocumentsAreReadable
    BY <1>1 DEF DocumentsType, OneSuccessor, TokensBound, OneDocumentPerToken, DocumentsAreReadable
  <1>4. DOMAIN uploads = Uploaders /\ \A s \in Uploaders : uploads[s] = NoUpload
    BY DEF IntakeInit
  <1>5. UploadsFit
    BY <1>4 DEF UploadsFit, UploadFits
  <1>6. LimitsHold
    <2>1. Current = {} /\ Cardinality(Current) = 0
      BY <1>1, FS_EmptySet DEF Current
    <2>2. PICK w : w = Weight(Current)
      OBVIOUS
    <2>3. w \in [Nat -> Nat]
      BY <2>1, <2>2 DEF Weight
    <2>4. Bytes(Current) = 0
      BY <1>1, <2>2, <2>3, TotalOfNone DEF Bytes
    <2>5. MaxCurrent \in Nat /\ MaxBytes \in Nat
      BY IntakeAssumption
    <2>. QED
      BY <2>1, <2>4, <2>5 DEF LimitsHold
  <1>7. DuplicatesFit
    <2>1. ASSUME NEW c \in Contents
          PROVE  Cardinality(SameContent(c)) + Cardinality(Holding(c)) <= Cardinality(Uploaders)
      <3>1. SameContent(c) = {}
        BY <1>1 DEF SameContent
      <3>2. Holding(c) = {}
        BY <1>4 DEF Holding, Holds, NoUpload
      <3>3. Cardinality(Uploaders) \in Nat
        BY FS_CardinalityType, IntakeAssumption
      <3>. QED
        BY <3>1, <3>2, <3>3, FS_EmptySet
    <2>. QED
      BY <2>1 DEF DuplicatesFit
  <1>. QED
    BY <1>2, <1>3, <1>4, <1>5, <1>6, <1>7 DEF IntakeInv

LEMMA UpToFinite ==
  ASSUME NEW n \in Nat
  PROVE  IsFiniteSet(1..n)
  <1>1. 1 \in Int /\ n \in Int
    OBVIOUS
  <1>. QED
    BY <1>1, FS_Interval

LEMMA OneLess == ASSUME NEW a \in Nat, NEW b \in Nat, NEW c \in Nat, NEW d \in Nat,
                        a + b <= c, d <= b PROVE a + d <= c
  OBVIOUS

\* What a call holds of a content stays within the count when another state of
\* one call holds it too, or nothing is stored of it yet.
LEMMA HoldingMoves ==
  ASSUME DuplicatesFit, DocumentsType, NEW s \in Uploaders, NEW x,
         DOMAIN uploads = Uploaders, uploads' = [uploads EXCEPT ![s] = x],
         documents' = documents,
         \A c \in Contents : Holds(x, c) => Holds(uploads[s], c) \/ SameContent(c) = {}
  PROVE  DuplicatesFit'
  <1>1. IsFiniteSet(Uploaders) /\ Cardinality(Uploaders) \in Nat
    BY FS_CardinalityType, IntakeAssumption
  <1>2. \A u \in Uploaders : uploads'[u] = IF u = s THEN x ELSE uploads[u]
    OBVIOUS
  <1>3. ASSUME NEW c \in Contents
        PROVE  (Cardinality(SameContent(c)) + Cardinality(Holding(c)) <= Cardinality(Uploaders))'
    <2>1. PICK A : A = SameContent(c)
      OBVIOUS
    <2>2. PICK H : H = Holding(c)
      OBVIOUS
    <2>3. PICK G : G = (Holding(c))'
      OBVIOUS
    <2>4. SameContent(c)' = A
      BY <2>1 DEF SameContent
    <2>5. G = {u \in Uploaders : Holds(uploads'[u], c)}
      BY <2>3 DEF Holding, Holds
    <2>6. H = {u \in Uploaders : Holds(uploads[u], c)}
      BY <2>2 DEF Holding
    <2>7. H \in SUBSET Uploaders /\ G \in SUBSET Uploaders
      BY <2>5, <2>6
    <2>8. /\ IsFiniteSet(H) /\ Cardinality(H) \in Nat
          /\ IsFiniteSet(G) /\ Cardinality(G) \in Nat /\ Cardinality(G) <= Cardinality(Uploaders)
      BY <1>1, <2>7, FS_Subset, FS_CardinalityType
    <2>9. Cardinality(A) + Cardinality(H) <= Cardinality(Uploaders)
      BY <2>1, <2>2 DEF DuplicatesFit
    <2>10. IsFiniteSet(A) /\ Cardinality(A) \in Nat
      <3>1. DOMAIN documents = 1..Len(documents) /\ Len(documents) \in Nat
        BY LenProperties DEF DocumentsType
      <3>2. PICK D : D = 1..Len(documents)
        OBVIOUS
      <3>3. IsFiniteSet(D)
        BY <3>1, <3>2, UpToFinite
      <3>4. A \in SUBSET D
        BY <2>1, <3>1, <3>2 DEF SameContent
      <3>. QED
        BY <3>3, <3>4, FS_Subset, FS_CardinalityType
    <2>11. Cardinality(A) + Cardinality(G) <= Cardinality(Uploaders)
      <3>1. CASE A = {}
        <4>1. Cardinality(A) = 0
          BY <3>1, FS_EmptySet
        <4>. QED
          BY <2>8, <4>1
      <3>2. CASE A # {}
        <4>1. Holds(x, c) => Holds(uploads[s], c)
          BY <2>1, <3>2
        <4>2. G \in SUBSET H
          BY <1>2, <2>5, <2>6, <4>1
        <4>3. Cardinality(G) <= Cardinality(H)
          BY <2>8, <4>2, FS_Subset
        <4>. QED
          BY <1>1, <2>8, <2>9, <2>10, <4>3
      <3>. QED
        BY <3>1, <3>2
    <2>. QED
      BY <2>3, <2>4, <2>11
  <1>. QED
    BY <1>3 DEF DuplicatesFit

LEMMA DocumentsStay ==
  ASSUME DocumentsType, LimitsHold, OneSuccessor, OneDocumentPerToken, documents' = documents
  PROVE  DocumentsType' /\ LimitsHold' /\ OneSuccessor' /\ OneDocumentPerToken'
  <1>1. DocumentsType'
    BY DEF DocumentsType
  <1>2. LimitsHold'
    <2>1. Current' = Current
      BY DEF Current, Replaced
    <2>2. Bytes(Current)' = Bytes(Current)
      BY <2>1 DEF Bytes, Weight
    <2>. QED
      BY <2>1, <2>2 DEF LimitsHold
  <1>3. OneSuccessor'
    BY DEF OneSuccessor
  <1>4. OneDocumentPerToken'
    BY DEF OneDocumentPerToken
  <1>. QED
    BY <1>1, <1>2, <1>3, <1>4

\* A step that stores no document keeps the invariant when the state it leaves
\* its call in fits, no accepted blob changes and no token is unbound.
LEMMA IntakeMoves ==
  ASSUME IntakeInv, NEW s \in Uploaders, NEW x,
         uploads' = [uploads EXCEPT ![s] = x], UploadFits(x),
         \A c \in Contents : Holds(x, c) => Holds(uploads[s], c) \/ SameContent(c) = {},
         documents' = documents,
         blobs' \in [Contents -> Blob],
         \A c \in Contents : blobs[c] = Accepted => blobs'[c] = Accepted,
         requests' \in [Tokens -> Binding],
         \A t \in Tokens : requests[t] # Unbound => requests'[t] # Unbound
  PROVE  IntakeInv'
  <1>1. DocumentsType /\ LimitsHold /\ OneSuccessor /\ OneDocumentPerToken /\ DuplicatesFit
    BY DEF IntakeInv
  <1>2. DOMAIN uploads = Uploaders /\ DOMAIN uploads' = Uploaders
    BY DEF IntakeInv
  <1>3. DocumentsType' /\ LimitsHold' /\ OneSuccessor' /\ OneDocumentPerToken'
    BY <1>1, DocumentsStay
  <1>4. DuplicatesFit'
    BY <1>1, <1>2, HoldingMoves
  <1>5. UploadsFit'
    <2>1. ASSUME NEW u \in Uploaders PROVE (UploadFits(uploads[u]))'
      <3>1. uploads'[u] = IF u = s THEN x ELSE uploads[u]
        BY <1>2
      <3>2. UploadFits(uploads[u])
        BY DEF IntakeInv, UploadsFit
      <3>3. CASE u = s
        BY <3>1, <3>3 DEF UploadFits, Inspect
      <3>4. CASE u # s
        BY <3>1, <3>2, <3>4 DEF UploadFits, Inspect
      <3>. QED
        BY <3>3, <3>4
    <2>. QED
      BY <2>1 DEF UploadsFit
  <1>6. \A i \in DOMAIN documents : documents[i] \in Document
    BY <1>1, ElementOfSeq, LenProperties DEF DocumentsType
  <1>7. TokensBound'
    <2>1. TokensBound
      BY DEF IntakeInv
    <2>2. \A i \in DOMAIN documents : documents[i].token \in Tokens
      BY <1>6 DEF Document
    <2>. QED
      BY <2>1, <2>2 DEF TokensBound
  <1>8. DocumentsAreReadable'
    <2>1. DocumentsAreReadable
      BY DEF IntakeInv
    <2>2. \A i \in DOMAIN documents : documents[i].content \in Contents
      BY <1>6 DEF Document
    <2>. QED
      BY <2>1, <2>2 DEF DocumentsAreReadable
  <1>. QED
    BY <1>2, <1>3, <1>4, <1>5, <1>7, <1>8 DEF IntakeInv

UploadSteps == {"seek rejection", "reject", "seek duplicate", "reuse", "count", "store"}

LEMMA CallIs ==
  ASSUME IntakeInv, NEW s \in Uploaders, uploads[s].step # "idle"
  PROVE  uploads[s] # NoUpload /\ UploadFits(uploads[s]) /\ uploads[s] \in Uploads
  <1>1. UploadFits(uploads[s])
    BY DEF IntakeInv, UploadsFit
  <1>2. uploads[s] # NoUpload
    BY DEF NoUpload
  <1>. QED
    BY <1>1, <1>2 DEF UploadFits

LEMMA MovedOn ==
  ASSUME NEW x \in Uploads, NEW st \in UploadSteps, NEW y, y = [x EXCEPT !.step = st]
  PROVE  y \in Uploads /\ y.step = st /\ y.token = x.token /\ y.request = x.request
         /\ y.found = x.found
  BY DEF Uploads, UploadSteps

LEMMA EndedFits ==
  UploadFits(NoUpload) /\ \A c : ~Holds(NoUpload, c)
  BY DEF UploadFits, Holds, NoUpload

LEMMA StaysTyped ==
  ASSUME IntakeInv
  PROVE  blobs \in [Contents -> Blob] /\ requests \in [Tokens -> Binding]
  BY DEF IntakeInv

LEMMA EndsKeep ==
  ASSUME IntakeInv, NEW s \in Uploaders, EndsUpload(s), documents' = documents,
         blobs' \in [Contents -> Blob],
         \A c \in Contents : blobs[c] = Accepted => blobs'[c] = Accepted,
         requests' \in [Tokens -> Binding],
         \A t \in Tokens : requests[t] # Unbound => requests'[t] # Unbound
  PROVE  IntakeInv'
  <1>1. PICK x : x = NoUpload
    OBVIOUS
  <1>2. uploads' = [uploads EXCEPT ![s] = x]
    BY <1>1 DEF EndsUpload
  <1>3. UploadFits(x) /\ \A c \in Contents : Holds(x, c) => Holds(uploads[s], c) \/ SameContent(c) = {}
    BY <1>1, EndedFits
  <1>. QED
    BY <1>2, <1>3, IntakeMoves

LEMMA AcceptKeeps ==
  ASSUME IntakeInv, NEW s \in Uploaders, Accept(s)
  PROVE  IntakeInv'
  <1>1. /\ documents' = documents /\ blobs' = blobs /\ requests' = requests
    BY DEF Accept, LooksUp
  <1>2. PICK t \in Tokens, r \in Requests :
          /\ r.over \in 0..Len(documents)
          /\ Inspect(r) \notin Unremembered
          /\ Inspect(r) = Accepted => r.content # Source
          /\ uploads' = [uploads EXCEPT ![s] =
                [step |-> IF Inspect(r) # Accepted THEN "seek rejection" ELSE "seek duplicate",
                 token |-> t, request |-> r, found |-> 0, known |-> FALSE]]
    BY DEF Accept
  <1>3. PICK st : st = IF Inspect(r) # Accepted THEN "seek rejection" ELSE "seek duplicate"
    OBVIOUS
  <1>4. PICK x : x = [step |-> st, token |-> t, request |-> r, found |-> 0, known |-> FALSE]
    OBVIOUS
  <1>5. st \in {"seek rejection", "seek duplicate"}
    BY <1>3
  <1>6. x \in Uploads /\ x.step = st /\ x.request = r
    BY <1>4, <1>5 DEF Uploads
  <1>7. Inspect(r) \in Blob
    BY <1>2, InspectionIs
  <1>8. UploadFits(x)
    <2>1. CASE Inspect(r) = Accepted
      BY <1>2, <1>3, <1>6, <2>1 DEF UploadFits
    <2>2. CASE Inspect(r) # Accepted
      BY <1>2, <1>3, <1>6, <1>7, <2>2 DEF UploadFits
    <2>. QED
      BY <2>1, <2>2
  <1>9. \A c \in Contents : Holds(x, c) => Holds(uploads[s], c) \/ SameContent(c) = {}
    BY <1>5, <1>6 DEF Holds
  <1>10. uploads' = [uploads EXCEPT ![s] = x]
    BY <1>2, <1>3, <1>4
  <1>11. /\ blobs' \in [Contents -> Blob] /\ \A c \in Contents : blobs[c] = Accepted => blobs'[c] = Accepted
         /\ requests' \in [Tokens -> Binding]
         /\ \A u \in Tokens : requests[u] # Unbound => requests'[u] # Unbound
    BY <1>1, StaysTyped
  <1>. QED
    BY <1>1, <1>8, <1>9, <1>10, <1>11, IntakeMoves

LEMMA SeekRejectionKeeps ==
  ASSUME IntakeInv, NEW s \in Uploaders, SeekRejection(s)
  PROVE  IntakeInv'
  <1>1. documents' = documents /\ blobs' = blobs /\ requests' = requests
    BY DEF SeekRejection, LooksUp
  <1>2. PICK x : x = uploads[s]
    OBVIOUS
  <1>3. x.step = "seek rejection"
    BY <1>2 DEF SeekRejection
  <1>4. x \in Uploads /\ UploadFits(x) /\ x # NoUpload
    BY <1>2, <1>3, CallIs
  <1>5. PICK k \in BOOLEAN : k = (blobs[x.request.content] = Rejection(s))
    OBVIOUS
  <1>6. PICK y : y = [x EXCEPT !.step = "reject", !.known = k]
    OBVIOUS
  <1>7. y \in Uploads /\ y.step = "reject" /\ y.request = x.request
    <2>1. PICK st \in UploadSteps : st = "reject"
      BY DEF UploadSteps
    <2>2. y = [x EXCEPT !.step = st, !.known = k]
      BY <1>6, <2>1
    <2>. QED
      <3>1. x \in Uploads /\ st \in UploadSteps /\ k \in BOOLEAN
        BY <1>4, <1>5, <2>1
      <3>2. y.step = st /\ y.request = x.request
        BY <2>2, <3>1 DEF Uploads, UploadSteps
      <3>3. y \in Uploads
        BY <2>2, <3>1 DEF Uploads, UploadSteps
      <3>. QED
        BY <2>1, <3>2, <3>3
  <1>8. DOMAIN uploads = Uploaders
    BY DEF IntakeInv
  <1>9. uploads' = [uploads EXCEPT ![s] = y]
    BY <1>2, <1>5, <1>6, <1>8 DEF SeekRejection
  <1>10. UploadFits(y)
    BY <1>3, <1>4, <1>7 DEF UploadFits
  <1>11. \A c \in Contents : Holds(y, c) => Holds(uploads[s], c) \/ SameContent(c) = {}
    BY <1>7 DEF Holds
  <1>12. /\ blobs' \in [Contents -> Blob] /\ \A c \in Contents : blobs[c] = Accepted => blobs'[c] = Accepted
         /\ requests' \in [Tokens -> Binding]
         /\ \A u \in Tokens : requests[u] # Unbound => requests'[u] # Unbound
    BY <1>1, StaysTyped
  <1>. QED
    BY <1>1, <1>9, <1>10, <1>11, <1>12, IntakeMoves

LEMMA RejectKeeps ==
  ASSUME IntakeInv, NEW s \in Uploaders, Reject(s)
  PROVE  IntakeInv'
  <1>1. documents' = documents /\ EndsUpload(s)
    BY DEF Reject
  <1>2. PICK x : x = uploads[s]
    OBVIOUS
  <1>3. x.step = "reject"
    BY <1>2 DEF Reject
  <1>4. x \in Uploads /\ UploadFits(x) /\ x # NoUpload
    BY <1>2, <1>3, CallIs
  <1>5. PICK code : code = Inspect(x.request)
    OBVIOUS
  <1>6. code # Accepted /\ code \in Blob
    BY <1>3, <1>4, <1>5 DEF UploadFits
  <1>7. x.token \in Tokens /\ x.request.content \in Contents
    BY <1>4 DEF Uploads, Requests
  <1>8. \/ blobs' = blobs /\ requests' = requests
        \/ /\ blobs[x.request.content] \in {NoBlob, code}
           /\ blobs' = [blobs EXCEPT ![x.request.content] = code]
           /\ requests' = [requests EXCEPT ![x.token] = RejectedFile]
    BY <1>2, <1>5 DEF Reject, Rejection
  <1>9. blobs \in [Contents -> Blob] /\ requests \in [Tokens -> Binding]
    BY StaysTyped
  <1>10. RejectedFile \in Binding /\ RejectedFile # Unbound
    BY DEF RejectedFile, Binding, Unbound
  <1>11. /\ blobs' \in [Contents -> Blob] /\ \A c \in Contents : blobs[c] = Accepted => blobs'[c] = Accepted
         /\ requests' \in [Tokens -> Binding]
         /\ \A u \in Tokens : requests[u] # Unbound => requests'[u] # Unbound
    <2>1. CASE blobs' = blobs /\ requests' = requests
      BY <1>9, <2>1
    <2>2. CASE /\ blobs[x.request.content] \in {NoBlob, code}
               /\ blobs' = [blobs EXCEPT ![x.request.content] = code]
               /\ requests' = [requests EXCEPT ![x.token] = RejectedFile]
      <3>1. NoBlob # Accepted
        BY DEF NoBlob, Accepted
      <3>. QED
        BY <1>6, <1>7, <1>9, <1>10, <2>2, <3>1
    <2>. QED
      BY <1>8, <2>1, <2>2
  <1>. QED
    BY <1>1, <1>11, EndsKeep

LEMMA SeekDuplicateKeeps ==
  ASSUME IntakeInv, NEW s \in Uploaders, SeekDuplicate(s)
  PROVE  IntakeInv'
  <1>1. documents' = documents /\ blobs' = blobs /\ requests' = requests
    BY DEF SeekDuplicate, LooksUp
  <1>2. PICK x : x = uploads[s]
    OBVIOUS
  <1>3. x.step = "seek duplicate"
    BY <1>2 DEF SeekDuplicate
  <1>4. x \in Uploads /\ UploadFits(x) /\ x # NoUpload
    BY <1>2, <1>3, CallIs
  <1>5. DOMAIN uploads = Uploaders
    BY DEF IntakeInv
  <1>6. /\ blobs' \in [Contents -> Blob] /\ \A c \in Contents : blobs[c] = Accepted => blobs'[c] = Accepted
        /\ requests' \in [Tokens -> Binding]
        /\ \A u \in Tokens : requests[u] # Unbound => requests'[u] # Unbound
    BY <1>1, StaysTyped
  <1>7. PICK same : same = SameContent(x.request.content)
    OBVIOUS
  <1>8. same \in SUBSET Nat /\ same \in SUBSET (Nat \ {0})
    <2>1. DOMAIN documents = 1..Len(documents) /\ Len(documents) \in Nat
      BY LenProperties DEF IntakeInv, DocumentsType
    <2>. QED
      BY <1>7, <2>1 DEF SameContent
  <1>9. \/ same = {} /\ MovesTo(s, "count")
        \/ same # {} /\ uploads' = [uploads EXCEPT ![s].step = "reuse", ![s].found = Min(same)]
        \/ EndsUpload(s)
    <2>1. CASE same = {}
      BY <1>2, <1>7, <2>1 DEF SeekDuplicate
    <2>2. CASE same # {} /\ x.request.over = 0
      BY <1>2, <1>7, <2>2 DEF SeekDuplicate
    <2>3. CASE same # {} /\ x.request.over # 0
      BY <1>2, <1>7, <2>3 DEF SeekDuplicate
    <2>. QED
      BY <2>1, <2>2, <2>3
  <1>10. CASE same = {} /\ MovesTo(s, "count")
    <2>1. PICK st \in UploadSteps : st = "count"
      BY DEF UploadSteps
    <2>2. PICK y : y = [x EXCEPT !.step = st]
      OBVIOUS
    <2>3. y \in Uploads /\ y.step = st /\ y.request = x.request
      BY <1>4, <2>2, MovedOn
    <2>4. uploads' = [uploads EXCEPT ![s] = y]
      BY <1>2, <1>5, <1>10, <2>1, <2>2 DEF MovesTo
    <2>5. UploadFits(y)
      BY <1>3, <1>4, <2>1, <2>3 DEF UploadFits
    <2>6. \A c \in Contents : Holds(y, c) => Holds(uploads[s], c) \/ SameContent(c) = {}
      BY <1>7, <1>10, <2>3 DEF Holds
    <2>. QED
      BY <1>1, <1>6, <2>4, <2>5, <2>6, IntakeMoves
  <1>11. CASE same # {} /\ uploads' = [uploads EXCEPT ![s].step = "reuse", ![s].found = Min(same)]
    <2>1. PICK i \in same : \A j \in same : i <= j
      BY <1>8, <1>11, LeastOf
    <2>2. Min(same) \in same
      BY <2>1 DEF Min
    <2>3. PICK f \in Nat : f = Min(same) /\ f # 0
      BY <1>8, <2>2
    <2>4. PICK st \in UploadSteps : st = "reuse"
      BY DEF UploadSteps
    <2>5. PICK y : y = [x EXCEPT !.step = st, !.found = f]
      OBVIOUS
    <2>6. y \in Uploads /\ y.step = st /\ y.request = x.request /\ y.found = f
      BY <1>4, <2>3, <2>4, <2>5 DEF Uploads, UploadSteps
    <2>7. uploads' = [uploads EXCEPT ![s] = y]
      BY <1>2, <1>5, <1>11, <2>3, <2>4, <2>5
    <2>8. UploadFits(y)
      BY <1>3, <1>4, <2>3, <2>4, <2>6 DEF UploadFits
    <2>9. \A c \in Contents : Holds(y, c) => Holds(uploads[s], c) \/ SameContent(c) = {}
      BY <2>4, <2>6 DEF Holds
    <2>. QED
      BY <1>1, <1>6, <2>7, <2>8, <2>9, IntakeMoves
  <1>12. CASE EndsUpload(s)
    BY <1>1, <1>6, <1>12, EndsKeep
  <1>. QED
    BY <1>9, <1>10, <1>11, <1>12

LEMMA ReuseKeeps ==
  ASSUME IntakeInv, NEW s \in Uploaders, Reuse(s)
  PROVE  IntakeInv'
  <1>1. documents' = documents /\ blobs' = blobs /\ EndsUpload(s)
    BY DEF Reuse
  <1>2. PICK x : x = uploads[s]
    OBVIOUS
  <1>3. x.step = "reuse"
    BY <1>2 DEF Reuse
  <1>4. x \in Uploads /\ UploadFits(x) /\ x # NoUpload
    BY <1>2, <1>3, CallIs
  <1>5. x.token \in Tokens /\ x.found \in Nat \ {0}
    BY <1>3, <1>4 DEF Uploads, UploadFits
  <1>6. PICK b : b = <<x.found>>
    OBVIOUS
  <1>7. b \in Binding /\ b # Unbound
    BY <1>5, <1>6 DEF Binding, Unbound
  <1>8. requests' = requests \/ requests' = [requests EXCEPT ![x.token] = b]
    BY <1>2, <1>6 DEF Reuse, StoredAs
  <1>9. blobs \in [Contents -> Blob] /\ requests \in [Tokens -> Binding]
    BY StaysTyped
  <1>10. /\ blobs' \in [Contents -> Blob] /\ \A c \in Contents : blobs[c] = Accepted => blobs'[c] = Accepted
         /\ requests' \in [Tokens -> Binding]
         /\ \A u \in Tokens : requests[u] # Unbound => requests'[u] # Unbound
    BY <1>1, <1>5, <1>7, <1>8, <1>9
  <1>. QED
    BY <1>1, <1>10, EndsKeep

LEMMA UnchangedTables ==
  ASSUME IntakeInv, documents' = documents, blobs' = blobs, requests' = requests
  PROVE  /\ blobs' \in [Contents -> Blob] /\ \A c \in Contents : blobs[c] = Accepted => blobs'[c] = Accepted
         /\ requests' \in [Tokens -> Binding]
         /\ \A u \in Tokens : requests[u] # Unbound => requests'[u] # Unbound
  BY StaysTyped

LEMMA CountKeeps ==
  ASSUME IntakeInv, NEW s \in Uploaders, Count(s)
  PROVE  IntakeInv'
  <1>1. documents' = documents /\ blobs' = blobs /\ requests' = requests
    BY DEF Count, LooksUp
  <1>2. PICK x : x = uploads[s]
    OBVIOUS
  <1>3. x.step = "count"
    BY <1>2 DEF Count
  <1>4. x \in Uploads /\ UploadFits(x) /\ x # NoUpload
    BY <1>2, <1>3, CallIs
  <1>5. DOMAIN uploads = Uploaders
    BY DEF IntakeInv
  <1>6. /\ blobs' \in [Contents -> Blob] /\ \A c \in Contents : blobs[c] = Accepted => blobs'[c] = Accepted
        /\ requests' \in [Tokens -> Binding]
        /\ \A u \in Tokens : requests[u] # Unbound => requests'[u] # Unbound
    BY <1>1, UnchangedTables
  <1>7. MovesTo(s, "store") \/ EndsUpload(s)
    BY DEF Count
  <1>8. CASE MovesTo(s, "store")
    <2>1. PICK st \in UploadSteps : st = "store"
      BY DEF UploadSteps
    <2>2. PICK y : y = [x EXCEPT !.step = st]
      OBVIOUS
    <2>3. y \in Uploads /\ y.step = st /\ y.request = x.request
      BY <1>4, <2>2, MovedOn
    <2>4. uploads' = [uploads EXCEPT ![s] = y]
      BY <1>2, <1>5, <1>8, <2>1, <2>2 DEF MovesTo
    <2>5. UploadFits(y)
      BY <1>3, <1>4, <2>1, <2>3 DEF UploadFits
    <2>6. \A c \in Contents : Holds(y, c) => Holds(uploads[s], c) \/ SameContent(c) = {}
      BY <1>2, <1>3, <2>3 DEF Holds
    <2>. QED
      BY <1>1, <1>6, <2>4, <2>5, <2>6, IntakeMoves
  <1>9. CASE EndsUpload(s)
    BY <1>1, <1>6, <1>9, EndsKeep
  <1>. QED
    BY <1>7, <1>8, <1>9

LEMMA LoseUploadKeeps ==
  ASSUME IntakeInv, NEW s \in Uploaders, LoseUpload(s)
  PROVE  IntakeInv'
  <1>1. documents' = documents /\ blobs' = blobs /\ requests' = requests /\ EndsUpload(s)
    BY DEF LoseUpload, LooksUp
  <1>2. /\ blobs' \in [Contents -> Blob] /\ \A c \in Contents : blobs[c] = Accepted => blobs'[c] = Accepted
        /\ requests' \in [Tokens -> Binding]
        /\ \A u \in Tokens : requests[u] # Unbound => requests'[u] # Unbound
    BY <1>1, UnchangedTables
  <1>. QED
    BY <1>1, <1>2, EndsKeep

LEMMA NothingChanges ==
  ASSUME IntakeInv, UNCHANGED intakeVars
  PROVE  IntakeInv'
  <1>1. documents' = documents /\ blobs' = blobs /\ requests' = requests /\ uploads' = uploads
    BY DEF intakeVars
  <1>2. DocumentsType' /\ LimitsHold' /\ OneSuccessor' /\ OneDocumentPerToken'
    BY <1>1, DocumentsStay DEF IntakeInv
  <1>3. UploadsFit'
    <2>1. ASSUME NEW u \in Uploaders PROVE (UploadFits(uploads[u]))'
      <3>1. UploadFits(uploads[u])
        BY DEF IntakeInv, UploadsFit
      <3>. QED
        BY <1>1, <3>1 DEF UploadFits, Inspect
    <2>. QED
      BY <2>1 DEF UploadsFit
  <1>4. TokensBound' /\ DocumentsAreReadable'
    BY <1>1 DEF IntakeInv, TokensBound, DocumentsAreReadable
  <1>5. DuplicatesFit'
    <2>1. ASSUME NEW c \in Contents
          PROVE  SameContent(c)' = SameContent(c) /\ Holding(c)' = Holding(c)
      BY <1>1 DEF SameContent, Holding, Holds
    <2>. QED
      BY <2>1 DEF IntakeInv, DuplicatesFit
  <1>. QED
    BY <1>1, <1>2, <1>3, <1>4, <1>5 DEF IntakeInv

\* What storing a document does: it is the next one, and replaces at most one
\* that no other replaces.
Stored(s, x, d) ==
    /\ x = uploads[s] /\ x \in Uploads /\ x.step = "store"
    /\ x.request.over \in 0..Len(documents)
    /\ Inspect(x.request) = Accepted /\ x.request.content # Source
    /\ d = [content |-> x.request.content, extension |-> x.request.extension,
            over |-> x.request.over, token |-> x.token]
    /\ Bindable(x.token) /\ Retainable(x.request.content) /\ Insertable(x.request)
    /\ blobs' = [blobs EXCEPT ![d.content] = Accepted]
    /\ documents' = Append(documents, d)
    /\ requests' = [requests EXCEPT ![d.token] = StoredAs(Len(documents) + 1)]
    /\ uploads' = [uploads EXCEPT ![s] = NoUpload]

LEMMA StoreIs ==
  ASSUME IntakeInv, NEW s \in Uploaders, Store(s)
  PROVE  \/ \E x, d : Stored(s, x, d)
         \/ documents' = documents /\ blobs' = blobs /\ requests' = requests /\ EndsUpload(s)
  <1>1. PICK x : x = uploads[s]
    OBVIOUS
  <1>2. x.step = "store"
    BY <1>1 DEF Store
  <1>3. x \in Uploads /\ UploadFits(x) /\ x # NoUpload
    BY <1>1, <1>2, CallIs
  <1>4. PICK d : d = [content |-> x.request.content, extension |-> x.request.extension,
                      over |-> x.request.over, token |-> x.token]
    OBVIOUS
  <1>5. CASE Bindable(x.token) /\ Retainable(x.request.content) /\ Insertable(x.request)
    <2>1. /\ blobs' = [blobs EXCEPT ![x.request.content] = IF @ = NoBlob THEN Accepted ELSE @]
          /\ documents' = Append(documents, d)
          /\ requests' = [requests EXCEPT ![x.token] = StoredAs(Len(documents) + 1)]
      BY <1>1, <1>4, <1>5 DEF Store
    <2>2. d.content = x.request.content /\ d.token = x.token
      BY <1>4
    <2>3. blobs \in [Contents -> Blob] /\ blobs[x.request.content] \in {NoBlob, Accepted}
      BY <1>5, StaysTyped DEF Retainable
    <2>4. blobs' = [blobs EXCEPT ![d.content] = Accepted]
      BY <2>1, <2>2, <2>3
    <2>5. uploads' = [uploads EXCEPT ![s] = NoUpload]
      BY DEF Store, EndsUpload
    <2>6. /\ x.request.over \in 0..Len(documents)
          /\ Inspect(x.request) = Accepted /\ x.request.content # Source
      BY <1>2, <1>3 DEF UploadFits
    <2>7. requests' = [requests EXCEPT ![d.token] = StoredAs(Len(documents) + 1)]
      BY <2>1, <2>2
    <2>8. Stored(s, x, d)
      BY <1>1, <1>2, <1>3, <1>4, <1>5, <2>1, <2>4, <2>5, <2>6, <2>7 DEF Stored
    <2>. QED
      BY <2>8
  <1>6. CASE ~(Bindable(x.token) /\ Retainable(x.request.content) /\ Insertable(x.request))
    BY <1>1, <1>6 DEF Store
  <1>. QED
    BY <1>5, <1>6

\* The document a call stores, and the line it joins.
LEMMA StoredJoins ==
  ASSUME IntakeInv, NEW s \in Uploaders, NEW x, NEW d, Stored(s, x, d),
         NEW n, n = Len(documents)
  PROVE  /\ n \in Nat /\ DOMAIN documents = 1..n /\ DOMAIN documents' = 1..(n + 1)
         /\ d \in Document /\ d.over \in 0..n
         /\ \A i \in 1..n : documents'[i] = documents[i] /\ documents[i] \in Document
                            /\ documents[i].over < i
         /\ documents'[n + 1] = d
         /\ Len(documents') = n + 1
         /\ documents' \in Seq(Document)
         /\ d.content = x.request.content /\ d.extension = x.request.extension
         /\ d.over = x.request.over /\ d.token = x.token
  <1>1. documents \in Seq(Document) /\ \A i \in DOMAIN documents : documents[i].over < i
    BY DEF IntakeInv, DocumentsType
  <1>2. /\ d.content = x.request.content /\ d.extension = x.request.extension
        /\ d.over = x.request.over /\ d.token = x.token
    BY DEF Stored
  <1>3. d \in Document /\ d.over \in 0..n
    <2>1. x.request \in Requests /\ x.token \in Tokens
      BY DEF Stored, Uploads
    <2>2. x.request.content \in Contents /\ x.request.extension \in Extensions
      BY <2>1 DEF Requests
    <2>3. n \in Nat
      BY <1>1, LenProperties
    <2>4. x.request.over \in 0..n /\ x.request.over \in Nat
      BY <2>3 DEF Stored
    <2>5. d = [content |-> x.request.content, extension |-> x.request.extension,
            over |-> x.request.over, token |-> x.token]
      BY DEF Stored
    <2>. QED
      BY <1>2, <2>1, <2>2, <2>4, <2>5 DEF Document
  <1>4. documents' = Append(documents, d)
    BY DEF Stored
  <1>5. n \in Nat /\ DOMAIN documents = 1..n
    BY <1>1, LenProperties
  <1>6. \A i \in 1..n : documents[i] \in Document
    BY <1>1, <1>5, ElementOfSeq
  <1>7. /\ documents' \in Seq(Document) /\ Len(documents') = n + 1
        /\ \A i \in 1..n : documents'[i] = documents[i]
        /\ documents'[n + 1] = d
    BY <1>1, <1>3, <1>4, <1>5, AppendProperties
  <1>8. DOMAIN documents' = 1..(n + 1)
    BY <1>7, LenProperties
  <1>. QED
    BY <1>1, <1>2, <1>3, <1>5, <1>6, <1>7, <1>8

LEMMA SwapsOne ==
  ASSUME NEW C, IsFiniteSet(C), NEW o, NEW m, m \notin C,
         NEW D, D = (C \ {o}) \cup {m}, NEW M \in Nat, Cardinality(C) <= M,
         o \in C \/ Cardinality(C) + 1 <= M
  PROVE  Cardinality(D) <= M
  <1>1. PICK B : B = C \ {o}
    OBVIOUS
  <1>2. IsFiniteSet(B) /\ Cardinality(C) \in Nat
    BY <1>1, FS_CardinalityType, FS_Subset
  <1>3. Cardinality(B) \in Nat /\ m \notin B /\ D = B \cup {m}
    BY <1>1, <1>2, FS_CardinalityType
  <1>4. Cardinality(D) = Cardinality(B) + 1
    BY <1>2, <1>3, FS_AddElement
  <1>5. CASE o \in C
    <2>1. Cardinality(B) = Cardinality(C) - 1
      BY <1>1, <1>5, FS_RemoveElement
    <2>. QED
      BY <1>2, <1>3, <1>4, <2>1
  <1>6. CASE o \notin C
    <2>1. B = C
      BY <1>1, <1>6
    <2>. QED
      BY <1>4, <1>6, <2>1
  <1>. QED
    BY <1>5, <1>6

\* Its limits are those of the documents it was counted with.
LEMMA StoredWithinLimits ==
  ASSUME IntakeInv, NEW s \in Uploaders, NEW x, NEW d, Stored(s, x, d)
  PROVE  LimitsHold'
  <1>1. PICK n : n = Len(documents)
    OBVIOUS
  <1>2. /\ n \in Nat /\ DOMAIN documents = 1..n /\ DOMAIN documents' = 1..(n + 1)
        /\ d \in Document /\ d.over \in 0..n
        /\ \A i \in 1..n : documents'[i] = documents[i] /\ documents[i] \in Document
                           /\ documents[i].over < i
        /\ documents'[n + 1] = d
        /\ Len(documents') = n + 1
        /\ d.content = x.request.content /\ d.over = x.request.over
    BY <1>1, StoredJoins
  <1>3. MaxCurrent \in Nat /\ MaxBytes \in Nat
    BY IntakeAssumption
  <1>4. Insertable(x.request)
    BY DEF Stored
  <1>5. /\ Cardinality(Current) + (IF d.over = 0 THEN 1 ELSE 0) <= MaxCurrent
        /\ Bytes(Current \ {d.over}) + Facts[d.content].size <= MaxBytes
    BY <1>2, <1>4 DEF Insertable, Fits
  <1>6. d.over = 0 \/ ~Replaced(d.over)
    BY <1>2, <1>4 DEF Insertable
  <1>7. PICK C : C = Current
    OBVIOUS
  <1>8. PICK D : D = (C \ {d.over}) \cup {n + 1}
    OBVIOUS
  <1>9. C = {i \in 1..n : ~ \E j \in 1..n : documents[j].over = i}
    BY <1>2, <1>7 DEF Current, Replaced
  <1>10. Current' = D
    <2>1. Current' = {i \in 1..(n + 1) : ~ \E j \in 1..(n + 1) : documents'[j].over = i}
      BY <1>2 DEF Current, Replaced
    <2>2. 1..(n + 1) = (1..n) \cup {n + 1} /\ n + 1 \notin 1..n
      BY <1>2
    <2>3. \A i : (\E j \in 1..(n + 1) : documents'[j].over = i)
                   <=> (\E j \in 1..n : documents[j].over = i) \/ d.over = i
      BY <1>2, <2>2
    <2>4. ~ \E j \in 1..n : documents[j].over = n + 1
      <3>1. ASSUME NEW j \in 1..n PROVE documents[j].over # n + 1
        <4>1. documents[j].over < j /\ documents[j].over \in Nat
          BY <1>2 DEF Document
        <4>. QED
          BY <1>2, <4>1
      <3>. QED
        BY <3>1
    <2>5. d.over # n + 1
      BY <1>2
    <2>. QED
      BY <1>8, <1>9, <2>1, <2>2, <2>3, <2>4, <2>5
  <1>11. Cardinality(D) <= MaxCurrent
    <2>1. PICK A : A = 1..n
      OBVIOUS
    <2>2. IsFiniteSet(A) /\ C \in SUBSET A /\ n + 1 \notin A
      <3>1. IsFiniteSet(1..n)
        BY <1>2, UpToFinite
      <3>2. n + 1 \notin 1..n
        BY <1>2
      <3>. QED
        BY <1>9, <2>1, <3>1, <3>2
    <2>3. IsFiniteSet(C) /\ n + 1 \notin C
      BY <2>2, FS_Subset
    <2>4. Cardinality(C) \in Nat
      BY <2>3, FS_CardinalityType
    <2>5. Cardinality(C) <= MaxCurrent
      BY <1>7 DEF IntakeInv, LimitsHold
    <2>6. d.over \in C \/ Cardinality(C) + 1 <= MaxCurrent
      <3>1. CASE d.over = 0
        BY <1>5, <1>7, <3>1
      <3>2. CASE d.over # 0
        <4>1. d.over \in 1..n
          BY <1>2, <3>2
        <4>2. d.over \in C
          BY <1>2, <1>6, <1>7, <3>2, <4>1 DEF Current
        <4>. QED
          BY <4>2
      <3>. QED
        BY <3>1, <3>2
    <2>. QED
      BY <1>3, <1>8, <2>3, <2>5, <2>6, SwapsOne
  <1>12. (Bytes(Current))' <= MaxBytes
    <2>1. PICK w : w = Weight(C \ {d.over})
      OBVIOUS
    <2>2. PICK v : v = (Weight(Current))'
      OBVIOUS
    <2>3. \A c \in Contents : Facts[c].size \in Nat
      BY IntakeAssumption DEF Fact
    <2>4. w = [i \in Nat |-> IF i \in C \ {d.over} THEN Facts[documents[i].content].size ELSE 0]
      BY <2>1 DEF Weight
    <2>5. v = [i \in Nat |-> IF i \in D THEN Facts[documents'[i].content].size ELSE 0]
      BY <1>10, <2>2 DEF Weight
    <2>6. \A i \in 1..n : documents[i].content \in Contents
      BY <1>2 DEF Document
    <2>7. d.content \in Contents
      BY <1>2 DEF Document
    <2>8. C \in SUBSET (1..n)
      BY <1>9
    <2>9. w \in [Nat -> Nat]
      <3>1. ASSUME NEW i \in Nat PROVE w[i] \in Nat
        BY <2>3, <2>4, <2>6, <2>8
      <3>. QED
        BY <2>4, <3>1
    <2>10. v \in [Nat -> Nat]
      <3>1. ASSUME NEW i \in Nat PROVE v[i] \in Nat
        <4>1. CASE i \in D /\ i # n + 1
          <5>1. i \in 1..n
            BY <1>8, <2>8, <4>1
          <5>. QED
            BY <1>2, <2>3, <2>5, <2>6, <4>1, <5>1
        <4>2. CASE i = n + 1
          BY <1>2, <1>8, <2>3, <2>5, <2>7, <4>2
        <4>3. CASE i \notin D
          BY <2>5, <4>3
        <4>. QED
          BY <4>1, <4>2, <4>3
      <3>. QED
        BY <2>5, <3>1
    <2>11. ASSUME NEW i \in 1..n PROVE w[i] = v[i]
      <3>1. i \in Nat /\ i # n + 1
        BY <1>2
      <3>2. i \in D <=> i \in C \ {d.over}
        BY <1>8, <3>1
      <3>. QED
        BY <1>2, <2>4, <2>5, <3>1, <3>2
    <2>12. Total(v, n + 1) = Total(w, n) + v[n + 1]
      BY <1>2, <2>9, <2>10, <2>11, TotalOfNext
    <2>13. v[n + 1] = Facts[d.content].size
      BY <1>2, <1>8, <2>5
    <2>14. Bytes(Current \ {d.over}) = Total(w, n)
      BY <1>1, <1>7, <2>1 DEF Bytes
    <2>15. (Bytes(Current))' = Total(v, n + 1)
      BY <1>2, <2>2 DEF Bytes
    <2>. QED
      BY <1>5, <2>12, <2>13, <2>14, <2>15
  <1>. QED
    BY <1>10, <1>11, <1>12 DEF LimitsHold

LEMMA StoredOnce ==
  ASSUME IntakeInv, NEW s \in Uploaders, NEW x, NEW d, Stored(s, x, d)
  PROVE  OneSuccessor' /\ OneDocumentPerToken' /\ TokensBound' /\ DocumentsType'
  <1>1. PICK n : n = Len(documents)
    OBVIOUS
  <1>2. /\ n \in Nat /\ DOMAIN documents = 1..n /\ DOMAIN documents' = 1..(n + 1)
        /\ d \in Document /\ d.over \in 0..n
        /\ \A i \in 1..n : documents'[i] = documents[i] /\ documents[i] \in Document
                           /\ documents[i].over < i
        /\ documents'[n + 1] = d
        /\ documents' \in Seq(Document)
        /\ d.over = x.request.over /\ d.token = x.token
    BY <1>1, StoredJoins
  <1>3. \A i \in 1..(n + 1) : i \in 1..n \/ i = n + 1
    BY <1>2
  <1>4. OneSuccessor'
    <2>1. \A i, j \in 1..n : documents[i].over = documents[j].over => i = j \/ documents[i].over = 0
      BY <1>2 DEF IntakeInv, OneSuccessor
    <2>2. d.over = 0 \/ ~ \E j \in 1..n : documents[j].over = d.over
      BY <1>2 DEF Stored, Insertable, Replaced
    <2>3. ASSUME NEW i \in 1..(n + 1), NEW j \in 1..(n + 1), documents'[i].over = documents'[j].over
          PROVE  i = j \/ documents'[i].over = 0
      <3>1. CASE i \in 1..n /\ j \in 1..n
        BY <1>2, <2>1, <2>3, <3>1
      <3>2. CASE i = n + 1 \/ j = n + 1
        BY <1>2, <1>3, <2>2, <2>3, <3>2
      <3>. QED
        BY <1>3, <3>1, <3>2
    <2>. QED
      BY <1>2, <2>3 DEF OneSuccessor
  <1>5. /\ requests[d.token] = Unbound
        /\ requests' = [requests EXCEPT ![d.token] = StoredAs(Len(documents) + 1)]
    BY <1>2 DEF Stored, Bindable
  <1>6. \A i \in 1..n : requests[documents[i].token] # Unbound
    BY <1>2 DEF IntakeInv, TokensBound
  <1>7. OneDocumentPerToken'
    <2>1. \A i, j \in 1..n : documents[i].token = documents[j].token => i = j
      BY <1>2 DEF IntakeInv, OneDocumentPerToken
    <2>2. \A i \in 1..n : documents[i].token # d.token
      BY <1>5, <1>6
    <2>3. ASSUME NEW i \in 1..(n + 1), NEW j \in 1..(n + 1), documents'[i].token = documents'[j].token
          PROVE  i = j
      BY <1>2, <1>3, <2>1, <2>2, <2>3
    <2>. QED
      BY <1>2, <2>3 DEF OneDocumentPerToken
  <1>8. TokensBound'
    <2>1. requests \in [Tokens -> Binding]
      BY StaysTyped
    <2>2. requests'[d.token] # Unbound
      <3>1. d.token \in Tokens
        BY <1>2 DEF Document
      <3>2. requests'[d.token] = <<Len(documents) + 1>>
        BY <1>5, <2>1, <3>1 DEF StoredAs
      <3>. QED
        BY <3>2 DEF Unbound
    <2>3. \A i \in 1..n : documents[i].token \in Tokens
      BY <1>2 DEF Document
    <2>4. \A i \in 1..n : requests'[documents[i].token] # Unbound
      BY <1>5, <1>6, <2>1, <2>2, <2>3
    <2>5. ASSUME NEW i \in 1..(n + 1) PROVE requests'[documents'[i].token] # Unbound
      BY <1>2, <1>3, <2>2, <2>4
    <2>. QED
      BY <1>2, <2>5 DEF TokensBound
  <1>9. DocumentsType'
    <2>1. ASSUME NEW i \in 1..(n + 1) PROVE documents'[i].over < i
      BY <1>2, <1>3
    <2>. QED
      BY <1>2, <2>1 DEF DocumentsType
  <1>. QED
    BY <1>4, <1>7, <1>8, <1>9

LEMMA StoredReadable ==
  ASSUME IntakeInv, NEW s \in Uploaders, NEW x, NEW d, Stored(s, x, d)
  PROVE  DocumentsAreReadable'
  <1>1. PICK n : n = Len(documents)
    OBVIOUS
  <1>2. /\ n \in Nat /\ DOMAIN documents = 1..n /\ DOMAIN documents' = 1..(n + 1)
        /\ d \in Document
        /\ \A i \in 1..n : documents'[i] = documents[i] /\ documents[i] \in Document
        /\ documents'[n + 1] = d
        /\ d.content = x.request.content /\ d.extension = x.request.extension
    BY <1>1, StoredJoins
  <1>3. d.content \in Contents /\ \A i \in 1..n : documents[i].content \in Contents
    BY <1>2 DEF Document
  <1>4. blobs \in [Contents -> Blob] /\ blobs' = [blobs EXCEPT ![d.content] = Accepted]
    BY StaysTyped DEF Stored
  <1>5. ASSUME NEW i \in 1..n
        PROVE  LET fact == Facts[documents'[i].content] IN
               /\ blobs'[documents'[i].content] = Accepted
               /\ documents'[i].content # Source
               /\ ~fact.oversized
               /\ fact.magic = (IF documents'[i].extension = "pdf" THEN "pdf" ELSE "text")
               /\ documents'[i].extension = "pdf" => fact.problems \cap Range(PdfProblems) = {}
               /\ documents'[i].extension = "txt" => fact.problems \cap Range(TextProblems) = {}
    <2>1. blobs[documents[i].content] = Accepted
      BY <1>2 DEF IntakeInv, DocumentsAreReadable
    <2>2. blobs'[documents[i].content] = Accepted
      BY <1>3, <1>4, <2>1
    <2>3. LET fact == Facts[documents[i].content] IN
               /\ documents[i].content # Source
               /\ ~fact.oversized
               /\ fact.magic = (IF documents[i].extension = "pdf" THEN "pdf" ELSE "text")
               /\ documents[i].extension = "pdf" => fact.problems \cap Range(PdfProblems) = {}
               /\ documents[i].extension = "txt" => fact.problems \cap Range(TextProblems) = {}
      BY <1>2 DEF IntakeInv, DocumentsAreReadable
    <2>4. documents'[i] = documents[i]
      BY <1>2
    <2>. QED
      BY <2>2, <2>3, <2>4
  <1>6. LET fact == Facts[d.content] IN
               /\ blobs'[d.content] = Accepted
               /\ d.content # Source
               /\ ~fact.oversized
               /\ fact.magic = (IF d.extension = "pdf" THEN "pdf" ELSE "text")
               /\ d.extension = "pdf" => fact.problems \cap Range(PdfProblems) = {}
               /\ d.extension = "txt" => fact.problems \cap Range(TextProblems) = {}
    <2>1. x.request \in Requests /\ Inspect(x.request) = Accepted /\ x.request.content # Source
      BY DEF Stored, Uploads
    <2>2. PICK r \in Requests : r = x.request
      BY <2>1
    <2>3. /\ ~Facts[r.content].oversized
          /\ Facts[r.content].magic = (IF r.extension = "pdf" THEN "pdf" ELSE "text")
          /\ r.extension = "pdf" => Facts[r.content].problems \cap Range(PdfProblems) = {}
          /\ r.extension = "txt" => Facts[r.content].problems \cap Range(TextProblems) = {}
      BY <2>1, <2>2, InspectionIs
    <2>4. blobs'[d.content] = Accepted
      BY <1>3, <1>4
    <2>5. r.content = d.content /\ r.extension = d.extension
      BY <1>2, <2>2
    <2>. QED
      BY <2>1, <2>2, <2>3, <2>4, <2>5
  <1>7. \A i \in 1..(n + 1) : i \in 1..n \/ i = n + 1
    BY <1>2
  <1>8. ASSUME NEW i \in 1..(n + 1)
        PROVE  LET fact == Facts[documents'[i].content] IN
               /\ blobs'[documents'[i].content] = Accepted
               /\ documents'[i].content # Source
               /\ ~fact.oversized
               /\ fact.magic = (IF documents'[i].extension = "pdf" THEN "pdf" ELSE "text")
               /\ documents'[i].extension = "pdf" => fact.problems \cap Range(PdfProblems) = {}
               /\ documents'[i].extension = "txt" => fact.problems \cap Range(TextProblems) = {}
    <2>1. CASE i \in 1..n
      BY <1>5, <2>1
    <2>2. CASE i = n + 1
      BY <1>2, <1>6, <2>2
    <2>. QED
      BY <1>7, <2>1, <2>2
  <1>. QED
    BY <1>2, <1>8 DEF DocumentsAreReadable

\* A call that stores a content no longer may: the count stays.
LEMMA StoredCounts ==
  ASSUME IntakeInv, NEW s \in Uploaders, NEW x, NEW d, Stored(s, x, d)
  PROVE  DuplicatesFit'
  <1>1. PICK n : n = Len(documents)
    OBVIOUS
  <1>2. /\ n \in Nat /\ DOMAIN documents = 1..n /\ DOMAIN documents' = 1..(n + 1)
        /\ d \in Document
        /\ \A i \in 1..n : documents'[i] = documents[i] /\ documents[i] \in Document
        /\ documents'[n + 1] = d
        /\ d.content = x.request.content
    BY <1>1, StoredJoins
  <1>3. 1..(n + 1) = (1..n) \cup {n + 1} /\ n + 1 \notin 1..n
    BY <1>2
  <1>4. IsFiniteSet(Uploaders) /\ Cardinality(Uploaders) \in Nat
    BY FS_CardinalityType, IntakeAssumption
  <1>5. \A u \in Uploaders : uploads'[u] = IF u = s THEN NoUpload ELSE uploads[u]
    BY DEF Stored, IntakeInv
  <1>6. Holds(uploads[s], d.content)
    BY <1>2 DEF Holds, Stored
  <1>7. ASSUME NEW c \in Contents
        PROVE  (Cardinality(SameContent(c)) + Cardinality(Holding(c)) <= Cardinality(Uploaders))'
    <2>1. PICK A : A = SameContent(c)
      OBVIOUS
    <2>2. PICK H : H = Holding(c)
      OBVIOUS
    <2>3. PICK G : G = (Holding(c))'
      OBVIOUS
    <2>4. PICK B : B = SameContent(c)'
      OBVIOUS
    <2>5. A = {i \in 1..n : documents[i].content = c}
      BY <1>2, <2>1 DEF SameContent
    <2>6. B = {i \in 1..(n + 1) : documents'[i].content = c}
      BY <1>2, <2>4 DEF SameContent
    <2>7. H = {u \in Uploaders : Holds(uploads[u], c)}
      BY <2>2 DEF Holding
    <2>8. G = H \ {s}
      <3>1. G = {u \in Uploaders : Holds(uploads'[u], c)}
        BY <2>3 DEF Holding, Holds
      <3>2. ~Holds(NoUpload, c)
        BY EndedFits
      <3>. QED
        BY <1>5, <2>7, <3>1, <3>2
    <2>9. Cardinality(A) + Cardinality(H) <= Cardinality(Uploaders)
      BY <2>1, <2>2 DEF IntakeInv, DuplicatesFit
    <2>10. IsFiniteSet(A) /\ Cardinality(A) \in Nat /\ n + 1 \notin A
      <3>1. IsFiniteSet(1..n)
        BY <1>2, UpToFinite
      <3>2. A \in SUBSET (1..n)
        BY <2>5
      <3>. QED
        BY <1>3, <3>1, <3>2, FS_Subset, FS_CardinalityType
    <2>11. IsFiniteSet(H) /\ Cardinality(H) \in Nat
      BY <1>4, <2>7, FS_Subset, FS_CardinalityType
    <2>12. CASE d.content = c
      <3>1. B = A \cup {n + 1}
        BY <1>2, <1>3, <2>5, <2>6, <2>12
      <3>2. Cardinality(B) = Cardinality(A) + 1
        BY <2>10, <3>1, FS_AddElement
      <3>3. s \in H
        BY <1>6, <2>7, <2>12
      <3>4. Cardinality(G) = Cardinality(H) - 1
        BY <2>8, <2>11, <3>3, FS_RemoveElement
      <3>5. Cardinality(B) + Cardinality(G) <= Cardinality(Uploaders)
        BY <1>4, <2>9, <2>10, <2>11, <3>2, <3>4
      <3>. QED
        BY <2>3, <2>4, <3>5
    <2>13. CASE d.content # c
      <3>1. B = A
        BY <1>2, <1>3, <2>5, <2>6, <2>13
      <3>2. s \notin H
        BY <1>6, <2>7, <2>13 DEF Holds
      <3>3. G = H
        BY <2>8, <3>2
      <3>. QED
        BY <2>3, <2>4, <2>9, <3>1, <3>3
    <2>. QED
      BY <2>12, <2>13
  <1>. QED
    BY <1>7 DEF DuplicatesFit

LEMMA StoreKeeps ==
  ASSUME IntakeInv, NEW s \in Uploaders, Store(s)
  PROVE  IntakeInv'
  <1>1. CASE \E x, d : Stored(s, x, d)
    <2>1. PICK x, d : Stored(s, x, d)
      BY <1>1
    <2>2. LimitsHold'
      BY <2>1, StoredWithinLimits
    <2>3. OneSuccessor' /\ OneDocumentPerToken' /\ TokensBound' /\ DocumentsType'
      BY <2>1, StoredOnce
    <2>4. DocumentsAreReadable'
      BY <2>1, StoredReadable
    <2>5. DuplicatesFit'
      BY <2>1, StoredCounts
    <2>6. PICK n : n = Len(documents)
      OBVIOUS
    <2>7. n \in Nat /\ Len(documents') = n + 1 /\ d \in Document
      <3>1. /\ n \in Nat /\ DOMAIN documents = 1..n /\ DOMAIN documents' = 1..(n + 1)
            /\ d \in Document /\ d.over \in 0..n
            /\ \A i \in 1..n : documents'[i] = documents[i] /\ documents[i] \in Document
                               /\ documents[i].over < i
            /\ documents'[n + 1] = d
            /\ Len(documents') = n + 1
            /\ documents' \in Seq(Document)
            /\ d.content = x.request.content /\ d.extension = x.request.extension
            /\ d.over = x.request.over /\ d.token = x.token
        BY <2>1, <2>6, StoredJoins
      <3>. QED
        BY <3>1
    <2>8. d.content \in Contents /\ d.token \in Tokens
      BY <2>7 DEF Document
    <2>9. blobs' \in [Contents -> Blob] /\ requests' \in [Tokens -> Binding]
      <3>1. blobs' = [blobs EXCEPT ![d.content] = Accepted]
        BY <2>1 DEF Stored
      <3>2. requests' = [requests EXCEPT ![d.token] = <<n + 1>>]
        BY <2>1, <2>6 DEF Stored, StoredAs
      <3>3. n + 1 \in Nat \ {0}
        BY <2>7
      <3>4. <<n + 1>> \in Binding
        BY <3>3 DEF Binding
      <3>5. Accepted \in Blob
        BY DEF Blob
      <3>. QED
        BY <2>8, <3>1, <3>2, <3>4, <3>5, StaysTyped
    <2>10. DOMAIN uploads' = Uploaders /\ UploadsFit'
      <3>1. \A u \in Uploaders : uploads'[u] = IF u = s THEN NoUpload ELSE uploads[u]
        BY <2>1 DEF Stored, IntakeInv
      <3>2. DOMAIN uploads' = Uploaders
        BY <2>1 DEF Stored, IntakeInv
      <3>3. ASSUME NEW u \in Uploaders PROVE (UploadFits(uploads[u]))'
        <4>1. CASE u = s
          BY <3>1, <4>1 DEF UploadFits
        <4>2. CASE u # s
          <5>1. PICK y : y = uploads[u]
            OBVIOUS
          <5>2. UploadFits(y) /\ uploads'[u] = y
            BY <3>1, <4>2, <5>1 DEF IntakeInv, UploadsFit
          <5>3. y # NoUpload => y.request.over \in 0..Len(documents')
            <6>1. y # NoUpload => y.request.over \in 0..n
              BY <2>6, <5>2 DEF UploadFits
            <6>2. \A k \in 0..n : k \in 0..(n + 1)
              BY <2>7
            <6>. QED
              BY <2>7, <6>1, <6>2
          <5>4. (UploadFits(y))'
            BY <5>2, <5>3 DEF UploadFits, Inspect
          <5>5. (UploadFits(uploads[u]))' <=> (UploadFits(y))'
            BY <5>2 DEF UploadFits, Inspect
          <5>. QED
            BY <5>4, <5>5
        <4>. QED
          BY <4>1, <4>2
      <3>. QED
        BY <3>2, <3>3 DEF UploadsFit
    <2>. QED
      BY <2>2, <2>3, <2>4, <2>5, <2>9, <2>10 DEF IntakeInv
  <1>2. CASE documents' = documents /\ blobs' = blobs /\ requests' = requests /\ EndsUpload(s)
    <2>1. /\ blobs' \in [Contents -> Blob] /\ \A c \in Contents : blobs[c] = Accepted => blobs'[c] = Accepted
          /\ requests' \in [Tokens -> Binding]
          /\ \A u \in Tokens : requests[u] # Unbound => requests'[u] # Unbound
      BY <1>2, UnchangedTables
    <2>. QED
      BY <1>2, <2>1, EndsKeep
  <1>. QED
    BY <1>1, <1>2, StoreIs

LEMMA IntakeStepKeeps ==
  ASSUME IntakeInv, [IntakeNext]_intakeVars
  PROVE  IntakeInv'
  <1>1. CASE UNCHANGED intakeVars
    BY <1>1, NothingChanges
  <1>2. CASE IntakeNext
    <2>1. PICK s \in Uploaders : Answer(s) \/ Accept(s) \/ UploadStep(s) \/ LoseUpload(s)
      BY <1>2 DEF IntakeNext
    <2>2. CASE Answer(s)
      BY <2>2, NothingChanges DEF Answer
    <2>3. CASE Accept(s)
      BY <2>3, AcceptKeeps
    <2>4. CASE UploadStep(s)
      <3>1. CASE SeekRejection(s)
        BY <3>1, SeekRejectionKeeps
      <3>2. CASE Reject(s)
        BY <3>2, RejectKeeps
      <3>3. CASE SeekDuplicate(s)
        BY <3>3, SeekDuplicateKeeps
      <3>4. CASE Reuse(s)
        BY <3>4, ReuseKeeps
      <3>5. CASE Count(s)
        BY <3>5, CountKeeps
      <3>6. CASE Store(s)
        BY <3>6, StoreKeeps
      <3>. QED
        BY <2>4, <3>1, <3>2, <3>3, <3>4, <3>5, <3>6 DEF UploadStep
    <2>5. CASE LoseUpload(s)
      BY <2>5, LoseUploadKeeps
    <2>. QED
      BY <2>1, <2>2, <2>3, <2>4, <2>5
  <1>. QED
    BY <1>1, <1>2

LEMMA IntakeInvImplies ==
  ASSUME IntakeInv
  PROVE  IntakeTypeOK /\ IntakeSound
  <1>1. \A i \in DOMAIN documents : documents[i] \in Document /\ documents[i].over < i
    <2>1. documents \in Seq(Document) /\ \A i \in DOMAIN documents : documents[i].over < i
      BY DEF IntakeInv, DocumentsType
    <2>. QED
      BY <2>1, LenProperties, ElementOfSeq
  <1>2. \A s \in Uploaders : uploads[s] \in Uploads \cup {NoUpload}
    BY DEF IntakeInv, UploadsFit, UploadFits
  <1>3. IntakeTypeOK
    BY <1>1, <1>2 DEF IntakeInv, IntakeTypeOK
  <1>4. DuplicatesOverlap
    <2>1. IsFiniteSet(Uploaders) /\ Cardinality(Uploaders) \in Nat
      BY FS_CardinalityType, IntakeAssumption
    <2>2. DOMAIN documents = 1..Len(documents) /\ Len(documents) \in Nat
      BY LenProperties DEF IntakeInv, DocumentsType
    <2>3. ASSUME NEW c \in Contents
          PROVE  Cardinality({i \in DOMAIN documents : documents[i].content = c}) <= Cardinality(Uploaders)
      <3>1. PICK A : A = SameContent(c)
        OBVIOUS
      <3>2. PICK H : H = Holding(c)
        OBVIOUS
      <3>3. Cardinality(A) + Cardinality(H) <= Cardinality(Uploaders)
        BY <3>1, <3>2 DEF IntakeInv, DuplicatesFit
      <3>4. IsFiniteSet(1..Len(documents))
        BY <2>2, UpToFinite
      <3>5. A \in SUBSET (1..Len(documents)) /\ H \in SUBSET Uploaders
        BY <2>2, <3>1, <3>2 DEF SameContent, Holding
      <3>6. Cardinality(A) \in Nat /\ Cardinality(H) \in Nat
        BY <2>1, <3>4, <3>5, FS_Subset, FS_CardinalityType
      <3>7. Cardinality(A) <= Cardinality(Uploaders)
        BY <2>1, <3>3, <3>6
      <3>. QED
        BY <3>1, <3>7 DEF SameContent
    <2>. QED
      BY <2>3 DEF DuplicatesOverlap
  <1>. QED
    BY <1>3, <1>4 DEF IntakeInv, IntakeSound

LEMMA IntakeInvHolds == IntakeSpec => []IntakeInv
  <1>1. IntakeInit => IntakeInv
    BY IntakeStarts
  <1>2. IntakeInv /\ [IntakeNext]_intakeVars => IntakeInv'
    BY IntakeStepKeeps
  <1>. QED
    BY <1>1, <1>2, PTL DEF IntakeSpec

\* The tables and calls of the intake keep their declared form, for any contents,
\* tokens and uploaders.
THEOREM IntakeTypeCorrect == IntakeSpec => []IntakeTypeOK
  <1>1. IntakeInv => IntakeTypeOK
    BY IntakeInvImplies
  <1>. QED
    BY IntakeInvHolds, <1>1, PTL

\* Concurrent uploads never pass a limit, replace a document twice, store a
\* request twice or keep what an inspection rejects, whatever the limits are and
\* however many sessions upload: accept, its transactions and the triggers.
THEOREM IntakeSoundHolds == IntakeSpec => []IntakeSound
  <1>1. IntakeInv => IntakeSound
    BY IntakeInvImplies
  <1>. QED
    BY IntakeInvHolds, <1>1, PTL

-----------------------------------------------------------------------------
(***************************************************************************)
(* The preparation.  What was true of a candidate set when it was made stays*)
(* true of it; what is compared when it is shown makes it current.         *)
(***************************************************************************)

Cited == [kind : Kinds, refs : SUBSET (Proposals \X Nat)]

\* A review cites reviews there are, of other proposals, and a review that can
\* be mapped cites facts.
CitesFit(p, r) ==
    \A ref \in r.refs :
      /\ ref[1] \in Proposals /\ ref[1] # p /\ ref[2] \in 1..Len(reviews[ref[1]])
      /\ r.kind \in Approved => Kind(ref) = "FACT"

ReviewsFit ==
    /\ reviews \in [Proposals -> Seq(Cited)]
    /\ \A p \in Proposals : Len(reviews[p]) <= events
    /\ \A p \in Proposals : \A n \in 1..Len(reviews[p]) : CitesFit(p, reviews[p][n])

MapsFit ==
    /\ maps \in [Proposals -> Seq(Dispositions)]
    /\ \A p \in Proposals : maps[p] # << >> => Reviewed(p) /\ LastOf(reviews[p]).kind \in Approved

\* The proposals that a set of these documents includes.
IncludedBy(taken, excluded) ==
    {p \in Proposals : DocOf[p] \in DOMAIN taken \ excluded /\ taken[DocOf[p]] = "usable"}

DocumentsFit(taken, excluded) ==
    /\ DOMAIN taken \subseteq Documents
    /\ \A d \in DOMAIN taken \ excluded : taken[d] = "usable"

SeenFits(seen) == \A p \in DOMAIN seen : p \in Proposals /\ seen[p] \in 1..Len(reviews[p])

\* What was true of a candidate set when it was made, and stays true of it
\* whatever is reviewed and mapped later: it holds a review of each proposal of
\* its documents, and of each approved one the mapping that review had.
MappingFits(set, p) ==
    LET n == set.maps[p][1]
        value == set.maps[p][2]
    IN  /\ Len(reviews[p]) = set.reviews[p] =>
             n \in 1..Len(maps[p]) /\ maps[p][n] = value
        /\ value # "CONTEXT_ONLY" =>
             \A ref \in reviews[p][set.reviews[p]].refs :
               ref[1] \in DOMAIN set.reviews /\ set.reviews[ref[1]] = ref[2]

SetFits(set) ==
    /\ DocumentsFit(set.documents, set.excluded)
    /\ SeenFits(set.reviews)
    /\ DOMAIN set.reviews = IncludedBy(set.documents, set.excluded)
    /\ DOMAIN set.maps = {p \in DOMAIN set.reviews : reviews[p][set.reviews[p]].kind \in Approved}
    /\ \A p \in DOMAIN set.maps : MappingFits(set, p)

CandidateFits ==
    /\ candidate.number \in 0..events
    /\ candidate.number > 0 => SetFits(candidate)

ReadinessFits ==
    /\ readiness \in Readiness
    /\ candidate.number = 0 => readiness = NotEvaluated
    /\ readiness = "READY_TO_ATTEMPT" => Positive(candidate)

\* What a call read may be superseded when it writes; what it holds fits anyway.
ReviewCallFits(x) ==
    \E p \in Proposals, n \in Nat, kind \in Kinds, refs \in SUBSET (Proposals \X Nat) :
      /\ x = [step |-> "review", proposal |-> p, prior |-> n, kind |-> kind, refs |-> refs]
      /\ n <= Len(reviews[p])
      /\ kind = "FACT" => refs = {}
      /\ \A ref \in refs : ref[1] # p

MapCallFits(x) ==
    \E p \in Proposals, i \in Nat, n \in Nat, disposition \in Dispositions :
      /\ x = [step |-> "map", proposal |-> p, review |-> i, prior |-> n, disposition |-> disposition]
      /\ i \in 1..Len(reviews[p]) /\ reviews[p][i].kind \in Approved

PrepareCallFits(x) ==
    \E taken, excluded, seen :
      /\ x = [step |-> "prepare", documents |-> taken, excluded |-> excluded, seen |-> seen]
      /\ DocumentsFit(taken, excluded)
      /\ SeenFits(seen)

CandidateCallFits(x) ==
    \E set : x = [step |-> "candidate", set |-> set] /\ SetFits(set)

ReadinessCallFits(x) ==
    \E n \in Nat, status \in {"READY_TO_ATTEMPT", "NOT_READY"} :
      /\ x = [step |-> "readiness", number |-> n, status |-> status]
      /\ n \in 1..candidate.number
      /\ n = candidate.number /\ status = "READY_TO_ATTEMPT" => Positive(candidate)

PrepCallFits(x) ==
    \/ x = NoCall
    \/ ReviewCallFits(x) \/ MapCallFits(x) \/ PrepareCallFits(x)
    \/ CandidateCallFits(x) \/ ReadinessCallFits(x)

PrepCallsFit == DOMAIN calls = Reviewers /\ \A s \in Reviewers : PrepCallFits(calls[s])

PrepInv ==
    /\ docs \in [Documents -> DocStatuses] /\ events \in 0..MaxEvents
    /\ ReviewsFit /\ MapsFit /\ CandidateFits /\ ReadinessFits
    /\ PrepCallsFit

LEMMA PrepStarts ==
  ASSUME PrepInit
  PROVE  PrepInv
  <1>1. docs \in [Documents -> DocStatuses] /\ events = 0 /\ events \in 0..MaxEvents
    BY PreparationAssumption DEF PrepInit, DocStatuses
  <1>2. \A p \in Proposals : reviews[p] = << >> /\ maps[p] = << >>
    BY DEF PrepInit
  <1>3. ReviewsFit
    <2>1. << >> \in Seq(Cited) /\ Len(<< >>) = 0
      BY EmptySeq
    <2>2. reviews \in [Proposals -> Seq(Cited)]
      BY <2>1 DEF PrepInit
    <2>3. \A p \in Proposals : Len(reviews[p]) = 0
      BY <1>2, <2>1
    <2>. QED
      BY <1>1, <2>2, <2>3 DEF ReviewsFit
  <1>4. MapsFit
    <2>1. << >> \in Seq(Dispositions)
      BY EmptySeq
    <2>. QED
      BY <1>2, <2>1 DEF MapsFit, PrepInit
  <1>5. CandidateFits /\ ReadinessFits
    BY <1>1 DEF PrepInit, CandidateFits, ReadinessFits, NoCandidate, NotEvaluated, Readiness
  <1>6. PrepCallsFit
    BY DEF PrepInit, PrepCallsFit, PrepCallFits
  <1>. QED
    BY <1>1, <1>3, <1>4, <1>5, <1>6 DEF PrepInv

\* What the invariant says of what is shown.
LEMMA CurrentSet ==
  ASSUME PrepInv, CandidateCurrent, NEW p \in DOMAIN candidate.maps
  PROVE  /\ p \in Proposed /\ p \in DOMAIN candidate.reviews
         /\ candidate.reviews[p] = Len(reviews[p]) /\ Reviewed(p)
         /\ LastOf(reviews[p]) = reviews[p][candidate.reviews[p]]
         /\ LastOf(reviews[p]).kind \in Approved
         /\ maps[p] # << >>
         /\ candidate.maps[p][2] # "CONTEXT_ONLY" =>
              /\ LastOf(maps[p]) = candidate.maps[p][2]
              /\ \A ref \in LastOf(reviews[p]).refs : Citable(ref, "INFERENCE")
  <1>1. SetFits(candidate) /\ SnapshotCurrent(candidate)
    BY DEF PrepInv, CandidateFits, CandidateCurrent
  <1>2. p \in DOMAIN candidate.reviews /\ reviews[p][candidate.reviews[p]].kind \in Approved
    BY <1>1 DEF SetFits
  <1>3. /\ candidate.documents = DocsNow
        /\ DOMAIN candidate.reviews = IncludedBy(candidate.documents, candidate.excluded)
        /\ \A q \in DOMAIN candidate.reviews : candidate.reviews[q] = Len(reviews[q])
    BY <1>1 DEF SetFits, SnapshotCurrent
  <1>4. ASSUME NEW q \in DOMAIN candidate.reviews PROVE q \in Proposed /\ q \in Proposals
    BY <1>3 DEF IncludedBy, Proposed, DocsNow
  <1>5. \A q \in DOMAIN candidate.reviews : candidate.reviews[q] \in 1..Len(reviews[q])
    BY <1>1 DEF SetFits, SeenFits
  <1>6. p \in Proposed /\ p \in Proposals /\ candidate.reviews[p] = Len(reviews[p])
    BY <1>2, <1>3, <1>4
  <1>7. reviews \in [Proposals -> Seq(Cited)] /\ maps \in [Proposals -> Seq(Dispositions)]
    BY DEF PrepInv, ReviewsFit, MapsFit
  <1>8. Len(reviews[p]) \in Nat /\ Len(reviews[p]) \in 1..Len(reviews[p])
    BY <1>2, <1>5, <1>6, <1>7, LenProperties
  <1>9. Reviewed(p) /\ LastOf(reviews[p]) = reviews[p][candidate.reviews[p]]
    <2>1. Len(reviews[p]) # 0
      BY <1>8
    <2>2. reviews[p] # << >>
      BY <2>1, EmptySeq
    <2>. QED
      BY <1>6, <2>2 DEF Reviewed, LastOf
  <1>10. MappingFits(candidate, p)
    BY <1>1 DEF SetFits
  <1>11. PICK n, value : n = candidate.maps[p][1] /\ value = candidate.maps[p][2]
    OBVIOUS
  <1>12. n \in 1..Len(maps[p]) /\ maps[p][n] = value
    BY <1>6, <1>10, <1>11 DEF MappingFits
  <1>13. maps[p] # << >>
    <2>1. Len(maps[p]) \in Nat
      BY <1>6, <1>7, LenProperties
    <2>2. Len(maps[p]) # 0
      BY <1>12, <2>1
    <2>. QED
      BY <2>2, EmptySeq
  <1>14. ASSUME value # "CONTEXT_ONLY"
         PROVE  /\ LastOf(maps[p]) = value
                /\ \A ref \in LastOf(reviews[p]).refs : Citable(ref, "INFERENCE")
    <2>1. Len(maps[p]) = n
      BY <1>1, <1>11, <1>14 DEF SnapshotCurrent, MappingsCurrent
    <2>2. LastOf(maps[p]) = value
      BY <1>12, <2>1 DEF LastOf
    <2>3. ASSUME NEW ref \in LastOf(reviews[p]).refs PROVE Citable(ref, "INFERENCE")
      <3>1. ref[1] \in DOMAIN candidate.reviews /\ candidate.reviews[ref[1]] = ref[2]
        BY <1>9, <1>10, <1>11, <1>14 DEF MappingFits
      <3>2. ref[1] \in Proposed /\ ref[2] = Len(reviews[ref[1]]) /\ ref[2] \in 1..Len(reviews[ref[1]])
        BY <1>3, <1>4, <1>5, <3>1
      <3>3. ref[2] > 0
        BY <3>2
      <3>4. CitesFit(p, reviews[p][candidate.reviews[p]])
        BY <1>6, <1>8 DEF PrepInv, ReviewsFit
      <3>5. Kind(ref) = "FACT"
        BY <1>2, <1>9, <3>4 DEF CitesFit
      <3>. QED
        BY <3>2, <3>3, <3>5 DEF Citable, IsCurrent
    <2>. QED
      BY <2>2, <2>3
  <1>. QED
    BY <1>2, <1>6, <1>9, <1>11, <1>13, <1>14

LEMMA PrepInvImplies ==
  ASSUME PrepInv
  PROVE  PreparedIsCurrent /\ MappedFactsAreCurrent
  <1>1. MappedFactsAreCurrent
    <2>1. ASSUME CandidateCurrent, NEW p \in DOMAIN candidate.maps,
                 candidate.maps[p][2] # "CONTEXT_ONLY", NEW ref \in LastOf(reviews[p]).refs
          PROVE  Citable(ref, "INFERENCE")
      BY <2>1, CurrentSet
    <2>. QED
      BY <2>1 DEF MappedFactsAreCurrent
  <1>2. CurrentCandidateComplete
    <2>. SUFFICES ASSUME CandidateCurrent
                  PROVE  /\ \A d \in CurrentDocs \ candidate.excluded : docs[d] = "usable"
                         /\ \A p \in Proposed : DocOf[p] \notin candidate.excluded =>
                              /\ Reviewed(p) /\ p \in DOMAIN candidate.reviews
                              /\ LastOf(reviews[p]).kind \in Approved => maps[p] # << >>
      BY DEF CurrentCandidateComplete
    <2>1. SetFits(candidate) /\ SnapshotCurrent(candidate)
      BY DEF PrepInv, CandidateFits, CandidateCurrent
    <2>2. candidate.documents = DocsNow
      BY <2>1 DEF SnapshotCurrent
    <2>3. ASSUME NEW d \in CurrentDocs \ candidate.excluded PROVE docs[d] = "usable"
      <3>1. d \in DOMAIN DocsNow /\ DocsNow[d] = docs[d]
        BY DEF DocsNow
      <3>. QED
        BY <2>1, <2>2, <3>1 DEF SetFits, DocumentsFit
    <2>4. ASSUME NEW p \in Proposed, DocOf[p] \notin candidate.excluded
          PROVE  /\ Reviewed(p) /\ p \in DOMAIN candidate.reviews
                 /\ LastOf(reviews[p]).kind \in Approved => maps[p] # << >>
      <3>1. p \in Proposals /\ docs[DocOf[p]] = "usable" /\ DocOf[p] \in Documents
        BY PreparationAssumption DEF Proposed
      <3>2. DocOf[p] \in DOMAIN DocsNow /\ DocsNow[DocOf[p]] = "usable"
        BY <3>1 DEF DocsNow, CurrentDocs, CurrentStatuses
      <3>3. p \in DOMAIN candidate.reviews
        BY <2>1, <2>2, <2>4, <3>1, <3>2 DEF SetFits, IncludedBy
      <3>4. candidate.reviews[p] = Len(reviews[p]) /\ Len(reviews[p]) \in 1..Len(reviews[p])
        BY <2>1, <3>3 DEF SnapshotCurrent, SetFits, SeenFits
      <3>5. Reviewed(p)
        <4>1. Len(reviews[p]) \in Nat
          BY <3>1, LenProperties DEF PrepInv, ReviewsFit
        <4>2. Len(reviews[p]) # 0
          BY <3>4, <4>1
        <4>. QED
          BY <4>2, EmptySeq DEF Reviewed
      <3>6. ASSUME LastOf(reviews[p]).kind \in Approved PROVE maps[p] # << >>
        <4>1. p \in DOMAIN candidate.maps
          BY <2>1, <3>3, <3>4, <3>6 DEF SetFits, LastOf
        <4>. QED
          BY <4>1, CurrentSet
      <3>. QED
        BY <3>3, <3>5, <3>6
    <2>. QED
      BY <2>3, <2>4
  <1>3. ReadyHasValue
    <2>. SUFFICES ASSUME ShownReady
                  PROVE  \E p \in Proposed : /\ Reviewed(p) /\ LastOf(reviews[p]).kind \in Approved
                                             /\ maps[p] # << >> /\ LastOf(maps[p]) = "VALUE"
      BY DEF ReadyHasValue
    <2>1. CandidateCurrent /\ Positive(candidate)
      BY DEF ShownReady, PrepInv, ReadinessFits
    <2>2. PICK p \in DOMAIN candidate.maps : candidate.maps[p][2] = "VALUE"
      BY <2>1 DEF Positive
    <2>3. candidate.maps[p][2] # "CONTEXT_ONLY"
      BY <2>2
    <2>. QED
      BY <2>1, <2>2, <2>3, CurrentSet
  <1>. QED
    BY <1>1, <1>2, <1>3 DEF PreparedIsCurrent

\* What a step does to what others read: reviews are appended, and so are the
\* mappings of a review; another candidate set has a higher number.
Grows ==
    /\ \A p \in Proposals :
         /\ Len(reviews[p]) \in Nat /\ Len(reviews'[p]) \in Nat
         /\ Len(reviews[p]) <= Len(reviews'[p])
         /\ \A n \in 1..Len(reviews[p]) : reviews'[p][n] = reviews[p][n]
    /\ \A p \in Proposals : Len(reviews'[p]) = Len(reviews[p]) =>
         \A n \in 1..Len(maps[p]) : n \in 1..Len(maps'[p]) /\ maps'[p][n] = maps[p][n]

Succeeds ==
    /\ candidate.number \in Nat /\ candidate'.number \in Nat
    /\ candidate.number <= candidate'.number
    /\ candidate'.number = candidate.number => candidate' = candidate

LEMMA StillThere ==
  ASSUME Grows, NEW p \in Proposals, NEW n \in 1..Len(reviews[p])
  PROVE  n \in 1..Len(reviews'[p]) /\ reviews'[p][n] = reviews[p][n]
  BY DEF Grows

LEMMA SeenStays ==
  ASSUME Grows, NEW seen, SeenFits(seen)
  PROVE  (SeenFits(seen))'
  <1>1. ASSUME NEW p \in DOMAIN seen PROVE p \in Proposals /\ seen[p] \in 1..Len(reviews'[p])
    <2>1. p \in Proposals /\ seen[p] \in 1..Len(reviews[p])
      BY DEF SeenFits
    <2>. QED
      BY <2>1, StillThere
  <1>. QED
    BY <1>1 DEF SeenFits

LEMMA SetStays ==
  ASSUME Grows, NEW set, SetFits(set)
  PROVE  (SetFits(set))'
  <1>1. SeenFits(set.reviews) /\ (SeenFits(set.reviews))'
    BY SeenStays DEF SetFits
  <1>2. ASSUME NEW p \in DOMAIN set.reviews
        PROVE  /\ p \in Proposals /\ set.reviews[p] \in 1..Len(reviews[p])
               /\ reviews'[p][set.reviews[p]] = reviews[p][set.reviews[p]]
    <2>1. p \in Proposals /\ set.reviews[p] \in 1..Len(reviews[p])
      BY <1>1 DEF SeenFits
    <2>. QED
      BY <2>1, StillThere
  <1>3. DOMAIN set.maps = {p \in DOMAIN set.reviews : reviews'[p][set.reviews[p]].kind \in Approved}
    BY <1>2 DEF SetFits
  <1>4. ASSUME NEW p \in DOMAIN set.maps PROVE (MappingFits(set, p))'
    <2>1. p \in DOMAIN set.reviews /\ MappingFits(set, p)
      BY DEF SetFits
    <2>2. /\ p \in Proposals /\ set.reviews[p] \in 1..Len(reviews[p])
          /\ reviews'[p][set.reviews[p]] = reviews[p][set.reviews[p]]
      BY <1>2, <2>1
    <2>3. PICK n, value : n = set.maps[p][1] /\ value = set.maps[p][2]
      OBVIOUS
    <2>4. ASSUME Len(reviews'[p]) = set.reviews[p]
          PROVE  n \in 1..Len(maps'[p]) /\ maps'[p][n] = value
      <3>1. Len(reviews[p]) = set.reviews[p] /\ Len(reviews'[p]) = Len(reviews[p])
        BY <2>2, <2>4 DEF Grows
      <3>2. n \in 1..Len(maps[p]) /\ maps[p][n] = value
        BY <2>1, <2>3, <3>1 DEF MappingFits
      <3>. QED
        BY <2>2, <3>1, <3>2 DEF Grows
    <2>5. value # "CONTEXT_ONLY" =>
             \A ref \in reviews'[p][set.reviews[p]].refs :
               ref[1] \in DOMAIN set.reviews /\ set.reviews[ref[1]] = ref[2]
      BY <2>1, <2>2, <2>3 DEF MappingFits
    <2>. QED
      BY <2>3, <2>4, <2>5 DEF MappingFits
  <1>5. /\ DocumentsFit(set.documents, set.excluded)
        /\ DOMAIN set.reviews = IncludedBy(set.documents, set.excluded)
    BY DEF SetFits
  <1>. QED
    BY <1>1, <1>3, <1>4, <1>5 DEF SetFits

LEMMA CallStays ==
  ASSUME Grows, Succeeds, NEW x, PrepCallFits(x)
  PROVE  (PrepCallFits(x))'
  <1>1. CASE x = NoCall
    BY <1>1 DEF PrepCallFits
  <1>2. CASE ReviewCallFits(x)
    <2>1. PICK p \in Proposals, n \in Nat, kind \in Kinds, refs \in SUBSET (Proposals \X Nat) :
            /\ x = [step |-> "review", proposal |-> p, prior |-> n, kind |-> kind, refs |-> refs]
            /\ n <= Len(reviews[p])
            /\ kind = "FACT" => refs = {}
            /\ \A ref \in refs : ref[1] # p
      BY <1>2 DEF ReviewCallFits
    <2>2. n <= Len(reviews'[p])
      BY <2>1 DEF Grows
    <2>3. (ReviewCallFits(x))'
      BY <2>1, <2>2 DEF ReviewCallFits
    <2>. QED
      BY <2>3 DEF PrepCallFits
  <1>3. CASE MapCallFits(x)
    <2>1. PICK p \in Proposals, i \in Nat, n \in Nat, disposition \in Dispositions :
            /\ x = [step |-> "map", proposal |-> p, review |-> i, prior |-> n, disposition |-> disposition]
            /\ i \in 1..Len(reviews[p]) /\ reviews[p][i].kind \in Approved
      BY <1>3 DEF MapCallFits
    <2>2. i \in 1..Len(reviews'[p]) /\ reviews'[p][i] = reviews[p][i]
      BY <2>1, StillThere
    <2>3. (MapCallFits(x))'
      BY <2>1, <2>2 DEF MapCallFits
    <2>. QED
      BY <2>3 DEF PrepCallFits
  <1>4. CASE PrepareCallFits(x)
    <2>1. PICK taken, excluded, seen :
            /\ x = [step |-> "prepare", documents |-> taken, excluded |-> excluded, seen |-> seen]
            /\ DocumentsFit(taken, excluded)
            /\ SeenFits(seen)
      BY <1>4 DEF PrepareCallFits
    <2>2. (SeenFits(seen))'
      BY <2>1, SeenStays
    <2>3. (PrepareCallFits(x))'
      BY <2>1, <2>2 DEF PrepareCallFits
    <2>. QED
      BY <2>3 DEF PrepCallFits
  <1>5. CASE CandidateCallFits(x)
    <2>1. PICK set : x = [step |-> "candidate", set |-> set] /\ SetFits(set)
      BY <1>5 DEF CandidateCallFits
    <2>2. (SetFits(set))'
      BY <2>1, SetStays
    <2>3. (CandidateCallFits(x))'
      BY <2>1, <2>2 DEF CandidateCallFits
    <2>. QED
      BY <2>3 DEF PrepCallFits
  <1>6. CASE ReadinessCallFits(x)
    <2>1. PICK n \in Nat, status \in {"READY_TO_ATTEMPT", "NOT_READY"} :
            /\ x = [step |-> "readiness", number |-> n, status |-> status]
            /\ n \in 1..candidate.number
            /\ n = candidate.number /\ status = "READY_TO_ATTEMPT" => Positive(candidate)
      BY <1>6 DEF ReadinessCallFits
    <2>2. n \in 1..candidate'.number
      BY <2>1 DEF Succeeds
    <2>3. n = candidate'.number /\ status = "READY_TO_ATTEMPT" => Positive(candidate')
      <3>1. ASSUME n = candidate'.number PROVE n = candidate.number /\ candidate' = candidate
        BY <2>1, <3>1 DEF Succeeds
      <3>. QED
        BY <2>1, <3>1
    <2>4. (ReadinessCallFits(x))'
      BY <2>1, <2>2, <2>3 DEF ReadinessCallFits, Positive
    <2>. QED
      BY <2>4 DEF PrepCallFits
  <1>. QED
    BY <1>1, <1>2, <1>3, <1>4, <1>5, <1>6 DEF PrepCallFits

LEMMA FitsNext ==
  ASSUME NEW x, NEW r, calls'[r] = x, (PrepCallFits(x))'
  PROVE  (PrepCallFits(calls[r]))'
  <1>1. (ReviewCallFits(x))' => (ReviewCallFits(calls[r]))'
    BY DEF ReviewCallFits
  <1>2. (MapCallFits(x))' => (MapCallFits(calls[r]))'
    BY DEF MapCallFits
  <1>3. (PrepareCallFits(x))' => (PrepareCallFits(calls[r]))'
    BY DEF PrepareCallFits
  <1>4. (CandidateCallFits(x))' => (CandidateCallFits(calls[r]))'
    BY DEF CandidateCallFits
  <1>5. (ReadinessCallFits(x))' => (ReadinessCallFits(calls[r]))'
    BY DEF ReadinessCallFits
  <1>. QED
    BY <1>1, <1>2, <1>3, <1>4, <1>5 DEF PrepCallFits

LEMMA CallsStay ==
  ASSUME PrepInv, Grows, Succeeds, NEW s \in Reviewers, NEW x,
         calls' = [calls EXCEPT ![s] = x], (PrepCallFits(x))'
  PROVE  PrepCallsFit'
  <1>1. DOMAIN calls = Reviewers
    BY DEF PrepInv, PrepCallsFit
  <1>2. ASSUME NEW r \in Reviewers PROVE (PrepCallFits(calls[r]))'
    <2>2. CASE r = s
      <3>1. calls'[r] = x
        BY <1>1, <2>2
      <3>2. (PrepCallFits(x))'
        OBVIOUS
      <3>. QED
        BY <3>1, <3>2, FitsNext
    <2>3. CASE r # s
      <3>1. PICK y : y = calls[r]
        OBVIOUS
      <3>2. PrepCallFits(y)
        BY <3>1 DEF PrepInv, PrepCallsFit
      <3>3. (PrepCallFits(y))'
        BY <3>2, CallStays
      <3>4. calls'[r] = y
        BY <1>1, <2>3, <3>1
      <3>. QED
        BY <3>3, <3>4, FitsNext
    <2>. QED
      BY <2>2, <2>3
  <1>. QED
    BY <1>1, <1>2 DEF PrepCallsFit

LEMMA NothingMoved ==
  ASSUME PrepInv, reviews' = reviews, maps' = maps, candidate' = candidate
  PROVE  Grows /\ Succeeds
  <1>1. \A p \in Proposals : Len(reviews[p]) \in Nat /\ Len(maps[p]) \in Nat
    BY LenProperties DEF PrepInv, ReviewsFit, MapsFit
  <1>2. candidate.number \in Nat
    BY DEF PrepInv, CandidateFits
  <1>. QED
    BY <1>1, <1>2 DEF Grows, Succeeds

LEMMA TablesStay ==
  ASSUME PrepInv, reviews' = reviews, maps' = maps, candidate' = candidate, readiness' = readiness,
         events' = events
  PROVE  ReviewsFit' /\ MapsFit' /\ CandidateFits' /\ ReadinessFits' /\ events' \in 0..MaxEvents
  <1>1. ReviewsFit'
    <2>1. ReviewsFit
      BY DEF PrepInv
    <2>. QED
      BY <2>1 DEF ReviewsFit, CitesFit, Kind
  <1>2. MapsFit'
    BY DEF PrepInv, MapsFit, Reviewed, LastOf
  <1>3. CandidateFits'
    <2>1. PICK c : c = candidate
      OBVIOUS
    <2>2. c.number > 0 => SetFits(c)
      BY <2>1 DEF PrepInv, CandidateFits
    <2>3. Grows
      BY NothingMoved
    <2>4. c.number > 0 => (SetFits(c))'
      BY <2>2, <2>3, SetStays
    <2>5. (SetFits(c))' <=> (SetFits(candidate))'
      BY <2>1 DEF SetFits, SeenFits, MappingFits
    <2>. QED
      BY <2>1, <2>4, <2>5 DEF PrepInv, CandidateFits
  <1>4. ReadinessFits'
    BY DEF PrepInv, ReadinessFits, Positive
  <1>5. events' \in 0..MaxEvents
    BY DEF PrepInv
  <1>. QED
    BY <1>1, <1>2, <1>3, <1>4, <1>5

\* A step that only moves a call, or a document, keeps the invariant.
LEMMA ReviewerMoves ==
  ASSUME PrepInv, NEW s \in Reviewers, NEW x, calls' = [calls EXCEPT ![s] = x],
         PrepCallFits(x), UNCHANGED evidence
  PROVE  PrepInv'
  <1>1. /\ docs' = docs /\ reviews' = reviews /\ maps' = maps /\ candidate' = candidate
        /\ readiness' = readiness /\ events' = events
    BY DEF evidence
  <1>2. Grows /\ Succeeds
    BY <1>1, NothingMoved
  <1>3. ReviewsFit' /\ MapsFit' /\ CandidateFits' /\ ReadinessFits' /\ events' \in 0..MaxEvents
    BY <1>1, TablesStay
  <1>4. (PrepCallFits(x))'
    BY <1>2, CallStays
  <1>5. PrepCallsFit'
    BY <1>2, <1>4, CallsStay
  <1>6. docs' \in [Documents -> DocStatuses]
    BY <1>1 DEF PrepInv
  <1>. QED
    BY <1>3, <1>5, <1>6 DEF PrepInv

LEMMA DocumentMoves ==
  ASSUME PrepInv, docs' \in [Documents -> DocStatuses],
         UNCHANGED <<reviews, maps, candidate, readiness, events, calls>>
  PROVE  PrepInv'
  <1>1. /\ reviews' = reviews /\ maps' = maps /\ candidate' = candidate
        /\ readiness' = readiness /\ events' = events /\ calls' = calls
    OBVIOUS
  <1>2. Grows /\ Succeeds
    BY <1>1, NothingMoved
  <1>3. ReviewsFit' /\ MapsFit' /\ CandidateFits' /\ ReadinessFits' /\ events' \in 0..MaxEvents
    BY <1>1, TablesStay
  <1>4. PrepCallsFit'
    <2>1. DOMAIN calls' = Reviewers
      BY <1>1 DEF PrepInv, PrepCallsFit
    <2>2. ASSUME NEW r \in Reviewers PROVE (PrepCallFits(calls[r]))'
      <3>1. PICK y : y = calls[r]
        OBVIOUS
      <3>2. PrepCallFits(y)
        BY <3>1 DEF PrepInv, PrepCallsFit
      <3>3. (PrepCallFits(y))'
        BY <1>2, <3>2, CallStays
      <3>4. calls'[r] = y
        BY <1>1, <3>1
      <3>. QED
        BY <3>3, <3>4, FitsNext
    <2>. QED
      BY <2>1, <2>2 DEF PrepCallsFit
  <1>. QED
    BY <1>3, <1>4 DEF PrepInv

LEMMA ReviewsAre ==
  ASSUME PrepInv, NEW p \in Proposals
  PROVE  /\ Len(reviews[p]) \in Nat /\ Len(maps[p]) \in Nat
         /\ reviews[p] \in Seq(Cited) /\ maps[p] \in Seq(Dispositions)
         /\ Reviewed(p) => Len(reviews[p]) \in 1..Len(reviews[p])
         /\ maps[p] # << >> => Len(maps[p]) \in 1..Len(maps[p])
         /\ \A n \in 1..Len(reviews[p]) : reviews[p][n] \in Cited
         /\ \A n \in 1..Len(maps[p]) : maps[p][n] \in Dispositions
  <1>1. reviews[p] \in Seq(Cited) /\ maps[p] \in Seq(Dispositions)
    BY DEF PrepInv, ReviewsFit, MapsFit
  <1>2. Len(reviews[p]) \in Nat /\ Len(maps[p]) \in Nat
    BY <1>1, LenProperties
  <1>3. Reviewed(p) => Len(reviews[p]) # 0
    BY <1>1, EmptySeq DEF Reviewed
  <1>4. maps[p] # << >> => Len(maps[p]) # 0
    BY <1>1, EmptySeq
  <1>5. /\ \A n \in 1..Len(reviews[p]) : reviews[p][n] \in Cited
        /\ \A n \in 1..Len(maps[p]) : maps[p][n] \in Dispositions
    BY <1>1, ElementOfSeq
  <1>. QED
    BY <1>1, <1>2, <1>3, <1>4, <1>5

\* What a review cites when a call begins, by its kind.
LEMMA ReferencesAre ==
  ASSUME PrepInv, NEW p \in Proposals, NEW kind \in Kinds, NEW refs \in ReferencesFor(p, kind)
  PROVE  /\ refs \in SUBSET (Proposals \X Nat)
         /\ kind = "FACT" => refs = {}
         /\ \A ref \in refs : ref[1] # p
  <1>1. PICK citable :
          citable = {<<q, Len(reviews[q])>> :
                       q \in {o \in Proposals \ {p} : Citable(<<o, Len(reviews[o])>>, kind)}}
    OBVIOUS
  <1>2. ASSUME NEW ref \in citable PROVE ref \in Proposals \X Nat /\ ref[1] # p
    <2>1. PICK q \in Proposals \ {p} : ref = <<q, Len(reviews[q])>>
      BY <1>1, <1>2
    <2>2. Len(reviews[q]) \in Nat
      BY <2>1, ReviewsAre
    <2>. QED
      BY <2>1, <2>2
  <1>3. refs \in SUBSET citable /\ (kind = "FACT" => refs = {})
    <2>1. CASE kind = "INFERENCE"
      BY <1>1, <2>1 DEF ReferencesFor
    <2>2. CASE kind = "CONFLICT"
      BY <1>1, <2>2 DEF ReferencesFor
    <2>3. CASE kind \notin {"INFERENCE", "CONFLICT"}
      BY <1>1, <2>3 DEF ReferencesFor
    <2>. QED
      BY <2>1, <2>2, <2>3
  <1>. QED
    BY <1>2, <1>3

LEMMA DocumentsNow ==
  ASSUME PrepInv, NEW excluded \in SUBSET CurrentDocs, Processed(excluded)
  PROVE  DocumentsFit(DocsNow, excluded)
  BY DEF DocumentsFit, DocsNow, Processed, CurrentDocs

LEMMA ServiceCallFits ==
  ASSUME PrepInv, NEW x \in PrepCalls
  PROVE  PrepCallFits(x)
  <1>1. CASE x \in ReviewCalls
    <2>1. PICK p \in Proposed, kind \in Kinds : \E refs \in ReferencesFor(p, kind) :
            x = [step |-> "review", proposal |-> p, prior |-> Len(reviews[p]), kind |-> kind, refs |-> refs]
      BY <1>1 DEF ReviewCalls
    <2>2. PICK refs \in ReferencesFor(p, kind) :
            x = [step |-> "review", proposal |-> p, prior |-> Len(reviews[p]), kind |-> kind, refs |-> refs]
      BY <2>1
    <2>3. p \in Proposals
      BY <2>1 DEF Proposed
    <2>4. /\ refs \in SUBSET (Proposals \X Nat)
          /\ kind = "FACT" => refs = {}
          /\ \A ref \in refs : ref[1] # p
      BY <2>1, <2>2, <2>3, ReferencesAre
    <2>5. Len(reviews[p]) \in Nat /\ Len(reviews[p]) <= Len(reviews[p])
      BY <2>3, ReviewsAre
    <2>6. ReviewCallFits(x)
      BY <2>2, <2>3, <2>4, <2>5 DEF ReviewCallFits
    <2>. QED
      BY <2>6 DEF PrepCallFits
  <1>2. CASE x \in MapCalls
    <2>1. PICK p \in Proposed, disposition \in Dispositions :
            /\ Reviewed(p) /\ LastOf(reviews[p]).kind \in Approved
            /\ x = [step |-> "map", proposal |-> p, review |-> Len(reviews[p]),
                    prior |-> Len(maps[p]), disposition |-> disposition]
      BY <1>2 DEF MapCalls
    <2>2. p \in Proposals
      BY <2>1 DEF Proposed
    <2>3. /\ Len(reviews[p]) \in Nat /\ Len(maps[p]) \in Nat
          /\ Len(reviews[p]) \in 1..Len(reviews[p])
      BY <2>1, <2>2, ReviewsAre
    <2>4. reviews[p][Len(reviews[p])].kind \in Approved
      BY <2>1 DEF LastOf
    <2>5. MapCallFits(x)
      BY <2>1, <2>2, <2>3, <2>4 DEF MapCallFits
    <2>. QED
      BY <2>5 DEF PrepCallFits
  <1>3. CASE x \in PrepareCalls
    <2>1. PICK excluded \in SUBSET CurrentDocs :
            /\ Processed(excluded)
            /\ x = [step |-> "prepare", documents |-> DocsNow, excluded |-> excluded, seen |-> [p \in {} |-> 0]]
      BY <1>3 DEF PrepareCalls
    <2>2. PICK taken, seen : taken = DocsNow /\ seen = [p \in {} |-> 0]
      OBVIOUS
    <2>3. DocumentsFit(taken, excluded)
      BY <2>1, <2>2, DocumentsNow
    <2>4. SeenFits(seen)
      BY <2>2 DEF SeenFits
    <2>5. PrepareCallFits(x)
      BY <2>1, <2>2, <2>3, <2>4 DEF PrepareCallFits
    <2>. QED
      BY <2>5 DEF PrepCallFits
  <1>4. CASE x \in ReadinessCalls
    <2>1. /\ CandidateCurrent
          /\ x = [step |-> "readiness", number |-> candidate.number,
                  status |-> IF Positive(candidate) THEN "READY_TO_ATTEMPT" ELSE "NOT_READY"]
      BY <1>4 DEF ReadinessCalls
    <2>2. PICK status \in {"READY_TO_ATTEMPT", "NOT_READY"} :
            status = IF Positive(candidate) THEN "READY_TO_ATTEMPT" ELSE "NOT_READY"
      OBVIOUS
    <2>3. candidate.number \in Nat /\ candidate.number > 0
      BY <2>1 DEF PrepInv, CandidateFits, CandidateCurrent
    <2>4. candidate.number \in 1..candidate.number
      BY <2>3
    <2>5. ReadinessCallFits(x)
      BY <2>1, <2>2, <2>3, <2>4 DEF ReadinessCallFits
    <2>. QED
      BY <2>5 DEF PrepCallFits
  <1>. QED
    BY <1>1, <1>2, <1>3, <1>4 DEF PrepCalls

LEMMA ReviewerCallFits ==
  ASSUME PrepInv, NEW s \in Reviewers
  PROVE  PrepCallFits(calls[s])
  BY DEF PrepInv, PrepCallsFit

LEMMA StartsKeeps ==
  ASSUME PrepInv, NEW s \in Reviewers, NEW x \in PrepCalls, Starts(s, x)
  PROVE  PrepInv'
  <1>1. calls' = [calls EXCEPT ![s] = x] /\ UNCHANGED evidence
    BY DEF Starts, Calling
  <1>2. PrepCallFits(x)
    BY ServiceCallFits
  <1>. QED
    BY <1>1, <1>2, ReviewerMoves

LEMMA GiveUpKeeps ==
  ASSUME PrepInv, NEW s \in Reviewers, GiveUp(s)
  PROVE  PrepInv'
  <1>1. PICK x : x = NoCall
    OBVIOUS
  <1>2. calls' = [calls EXCEPT ![s] = x] /\ UNCHANGED evidence
    BY <1>1 DEF GiveUp, Calling
  <1>3. PrepCallFits(x)
    BY <1>1 DEF PrepCallFits
  <1>. QED
    BY <1>2, <1>3, ReviewerMoves

LEMMA SeeReviewKeeps ==
  ASSUME PrepInv, NEW s \in Reviewers, SeeReview(s)
  PROVE  PrepInv'
  <1>1. PICK x : x = calls[s]
    OBVIOUS
  <1>2. x.step = "prepare" /\ PrepCallFits(x)
    BY <1>1, ReviewerCallFits DEF SeeReview
  <1>3. PrepareCallFits(x)
    BY <1>2 DEF PrepCallFits, NoCall, ReviewCallFits, MapCallFits, CandidateCallFits, ReadinessCallFits
  <1>4. PICK taken, excluded, seen :
          /\ x = [step |-> "prepare", documents |-> taken, excluded |-> excluded, seen |-> seen]
          /\ DocumentsFit(taken, excluded)
          /\ SeenFits(seen)
    BY <1>3 DEF PrepareCallFits
  <1>5. PICK p \in Proposals :
          /\ Reviewable(p)
          /\ Calling(s, [x EXCEPT !.seen = [q \in DOMAIN @ \cup {p} |->
                                              IF q = p THEN Len(reviews[p]) ELSE @[q]]])
    <2>1. \A i \in DOMAIN Order : Order[i] \in Proposals
      BY PreparationAssumption, ElementOfSeq, LenProperties
    <2>. QED
      BY <1>1, <2>1 DEF SeeReview
  <1>6. PICK now : now = [q \in DOMAIN seen \cup {p} |-> IF q = p THEN Len(reviews[p]) ELSE seen[q]]
    OBVIOUS
  <1>7. PICK y : y = [step |-> "prepare", documents |-> taken, excluded |-> excluded, seen |-> now]
    OBVIOUS
  <1>8. Len(reviews[p]) \in 1..Len(reviews[p])
    BY <1>5, ReviewsAre DEF Reviewable
  <1>9. SeenFits(now)
    BY <1>4, <1>6, <1>8 DEF SeenFits
  <1>10. PrepareCallFits(y)
    BY <1>4, <1>7, <1>9 DEF PrepareCallFits
  <1>11. PrepCallFits(y)
    BY <1>10 DEF PrepCallFits
  <1>12. calls' = [calls EXCEPT ![s] = y]
    <2>1. x.seen = seen
      BY <1>4
    <2>2. [x EXCEPT !.seen = now] = y
      BY <1>4, <1>7
    <2>3. [x EXCEPT !.seen = [q \in DOMAIN @ \cup {p} |-> IF q = p THEN Len(reviews[p]) ELSE @[q]]]
            = [x EXCEPT !.seen = now]
      BY <1>6, <2>1
    <2>. QED
      BY <1>5, <2>2, <2>3 DEF Calling
  <1>13. UNCHANGED evidence
    BY DEF SeeReview
  <1>. QED
    BY <1>11, <1>12, <1>13, ReviewerMoves

LEMMA SeeMappingsKeeps ==
  ASSUME PrepInv, NEW s \in Reviewers, SeeMappings(s)
  PROVE  PrepInv'
  <1>1. PICK x : x = calls[s]
    OBVIOUS
  <1>2. x.step = "prepare" /\ PrepCallFits(x)
    BY <1>1, ReviewerCallFits DEF SeeMappings
  <1>3. PrepareCallFits(x)
    BY <1>2 DEF PrepCallFits, NoCall, ReviewCallFits, MapCallFits, CandidateCallFits, ReadinessCallFits
  <1>4. PICK taken, excluded, seen :
          /\ x = [step |-> "prepare", documents |-> taken, excluded |-> excluded, seen |-> seen]
          /\ DocumentsFit(taken, excluded)
          /\ SeenFits(seen)
    BY <1>3 DEF PrepareCallFits
  <1>5. x.documents = taken /\ x.excluded = excluded /\ x.seen = seen
    BY <1>4
  <1>6. /\ DOMAIN seen = Included(x) /\ Mappable(seen)
        /\ Calling(s, [step |-> "candidate", set |-> SetOf(taken, excluded, seen)])
        /\ UNCHANGED evidence
    BY <1>1, <1>5 DEF SeeMappings
  <1>7. DOMAIN seen = IncludedBy(taken, excluded)
    BY <1>5, <1>6 DEF Included, IncludedBy
  <1>8. PICK set : set = SetOf(taken, excluded, seen)
    OBVIOUS
  <1>9. PICK M : M = {q \in ApprovedOf(seen) : maps[q] # << >>}
    OBVIOUS
  <1>10. /\ set.documents = taken /\ set.excluded = excluded /\ set.reviews = seen
         /\ set.maps = [p \in M |-> <<Len(maps[p]), LastOf(maps[p])>>]
    BY <1>8, <1>9 DEF SetOf
  <1>11. \A p \in DOMAIN seen : p \in Proposals /\ seen[p] = Len(reviews[p]) /\ seen[p] \in 1..Len(reviews[p])
    BY <1>4, <1>6 DEF SeenFits, Mappable
  <1>12. \A p \in DOMAIN seen : Reviewed(p)
    <2>1. ASSUME NEW p \in DOMAIN seen PROVE reviews[p] # << >>
      <3>1. Len(reviews[p]) \in Nat /\ Len(reviews[p]) \in 1..Len(reviews[p])
        BY <1>11, ReviewsAre
      <3>2. Len(reviews[p]) # 0
        BY <3>1
      <3>. QED
        BY <3>2, EmptySeq
    <2>. QED
      BY <2>1 DEF Reviewed
  <1>13. M = {p \in DOMAIN seen : reviews[p][seen[p]].kind \in Approved}
    <2>1. M = ApprovedOf(seen)
      BY <1>6, <1>9 DEF Mappable, Mapped
    <2>. QED
      BY <1>11, <1>12, <2>1 DEF ApprovedOf, LastOf
  <1>14. ASSUME NEW p \in M PROVE MappingFits(set, p)
    <2>1. p \in DOMAIN seen /\ p \in Proposals /\ maps[p] # << >> /\ p \in ApprovedOf(seen)
      BY <1>9, <1>11, <1>13
    <2>2. set.maps[p] = <<Len(maps[p]), LastOf(maps[p])>>
      BY <1>10
    <2>3. set.maps[p][1] = Len(maps[p]) /\ set.maps[p][2] = LastOf(maps[p])
      BY <2>2
    <2>4. Len(maps[p]) \in 1..Len(maps[p])
      BY <2>1, ReviewsAre
    <2>5. LastOf(maps[p]) # "CONTEXT_ONLY" =>
             \A ref \in reviews[p][seen[p]].refs : ref[1] \in DOMAIN seen /\ seen[ref[1]] = ref[2]
      BY <1>6, <1>11, <2>1 DEF Mappable, FactsWithin, LastOf
    <2>. QED
      BY <1>10, <2>3, <2>4, <2>5 DEF MappingFits, LastOf
  <1>15. SetFits(set)
    <2>1. DOMAIN set.maps = M
      BY <1>10
    <2>. QED
      BY <1>4, <1>7, <1>10, <1>13, <1>14, <2>1 DEF SetFits
  <1>16. PICK y : y = [step |-> "candidate", set |-> set]
    OBVIOUS
  <1>17. PrepCallFits(y)
    BY <1>15, <1>16 DEF PrepCallFits, CandidateCallFits
  <1>18. calls' = [calls EXCEPT ![s] = y] /\ UNCHANGED evidence
    BY <1>6, <1>8, <1>16 DEF Calling
  <1>. QED
    BY <1>17, <1>18, ReviewerMoves

\* The end of a call that wrote.
LEMMA WroteCall ==
  ASSUME PrepInv, NEW s \in Reviewers, Calling(s, NoCall), Grows, Succeeds
  PROVE  PrepCallsFit'
  <1>1. PICK x : x = NoCall
    OBVIOUS
  <1>2. calls' = [calls EXCEPT ![s] = x]
    BY <1>1 DEF Calling
  <1>3. (PrepCallFits(x))'
    BY <1>1 DEF PrepCallFits
  <1>. QED
    BY <1>2, <1>3, CallsStay

LEMMA CandidateStays ==
  ASSUME PrepInv, Grows, candidate' = candidate, readiness' = readiness, events' \in Nat, events <= events'
  PROVE  CandidateFits' /\ ReadinessFits' /\ Succeeds
  <1>1. PICK c : c = candidate
    OBVIOUS
  <1>2. c.number > 0 => SetFits(c)
    BY <1>1 DEF PrepInv, CandidateFits
  <1>3. c.number > 0 => (SetFits(c))'
    BY <1>2, SetStays
  <1>4. (SetFits(c))' <=> (SetFits(candidate))'
    BY <1>1 DEF SetFits, SeenFits, MappingFits
  <1>5. c.number \in 0..events /\ events \in Nat
    BY <1>1 DEF PrepInv, CandidateFits
  <1>6. c.number \in 0..events'
    BY <1>5
  <1>7. CandidateFits'
    BY <1>1, <1>3, <1>4, <1>6 DEF CandidateFits
  <1>8. ReadinessFits'
    BY DEF PrepInv, ReadinessFits, Positive
  <1>9. Succeeds
    BY <1>1, <1>5 DEF Succeeds
  <1>. QED
    BY <1>7, <1>8, <1>9

LEMMA OneEvent ==
  ASSUME PrepInv, AddsEvent
  PROVE  events \in Nat /\ events' = events + 1 /\ events' \in 0..MaxEvents /\ events' \in Nat
         /\ events <= events'
  BY PreparationAssumption DEF PrepInv, AddsEvent

\* A review is appended: what was cited before is as it was.
LEMMA AppendReviewKeeps ==
  ASSUME PrepInv, NEW s \in Reviewers, AppendReview(calls[s]), Calling(s, NoCall)
  PROVE  PrepInv'
  <1>1. PICK x : x = calls[s]
    OBVIOUS
  <1>2. x.step = "review" /\ PrepCallFits(x)
    BY <1>1, ReviewerCallFits DEF AppendReview
  <1>3. ReviewCallFits(x)
    BY <1>2 DEF PrepCallFits, NoCall, PrepareCallFits, MapCallFits, CandidateCallFits, ReadinessCallFits
  <1>4. PICK p \in Proposals, n \in Nat, kind \in Kinds, refs \in SUBSET (Proposals \X Nat) :
          /\ x = [step |-> "review", proposal |-> p, prior |-> n, kind |-> kind, refs |-> refs]
          /\ n <= Len(reviews[p])
          /\ kind = "FACT" => refs = {}
          /\ \A ref \in refs : ref[1] # p
    BY <1>3 DEF ReviewCallFits
  <1>5. x.proposal = p /\ x.kind = kind /\ x.refs = refs
    BY <1>4
  <1>6. PICK r : r = [kind |-> kind, refs |-> refs]
    OBVIOUS
  <1>7. /\ Rests(x)
        /\ reviews' = [reviews EXCEPT ![p] = Append(@, r)]
        /\ maps' = [maps EXCEPT ![p] = << >>]
        /\ AddsEvent
        /\ docs' = docs /\ candidate' = candidate /\ readiness' = readiness
    BY <1>1, <1>5, <1>6 DEF AppendReview, Unmapped
  <1>8. reviews \in [Proposals -> Seq(Cited)] /\ maps \in [Proposals -> Seq(Dispositions)]
    BY DEF PrepInv, ReviewsFit, MapsFit
  <1>9. r \in Cited /\ r.kind = kind /\ r.refs = refs
    BY <1>6 DEF Cited
  <1>10. PICK old : old = reviews[p]
    OBVIOUS
  <1>11. PICK new : new = Append(old, r)
    OBVIOUS
  <1>12. /\ old \in Seq(Cited) /\ new \in Seq(Cited) /\ Len(old) \in Nat /\ Len(new) = Len(old) + 1
         /\ \A i \in 1..Len(old) : new[i] = old[i]
         /\ new[Len(new)] = r
    BY <1>8, <1>9, <1>10, <1>11, AppendProperties, LenProperties
  <1>13. /\ reviews' = [reviews EXCEPT ![p] = new] /\ reviews'[p] = new
         /\ \A q \in Proposals : q # p => reviews'[q] = reviews[q]
    BY <1>7, <1>8, <1>10, <1>11
  <1>14. \A q \in Proposals : Len(reviews[q]) \in Nat /\ Len(maps[q]) \in Nat
    BY ReviewsAre
  <1>15. /\ maps'[p] = << >> /\ \A q \in Proposals : q # p => maps'[q] = maps[q]
         /\ maps' \in [Proposals -> Seq(Dispositions)]
    <2>1. << >> \in Seq(Dispositions)
      BY EmptySeq
    <2>. QED
      BY <1>7, <1>8, <2>1
  <1>16. Grows
    <2>1. ASSUME NEW q \in Proposals
          PROVE  /\ Len(reviews[q]) \in Nat /\ Len(reviews'[q]) \in Nat
                 /\ Len(reviews[q]) <= Len(reviews'[q])
                 /\ \A i \in 1..Len(reviews[q]) : reviews'[q][i] = reviews[q][i]
                 /\ Len(reviews'[q]) = Len(reviews[q]) =>
                      \A i \in 1..Len(maps[q]) : i \in 1..Len(maps'[q]) /\ maps'[q][i] = maps[q][i]
      <3>1. CASE q = p
        BY <1>10, <1>12, <1>13, <3>1
      <3>2. CASE q # p
        BY <1>13, <1>14, <1>15, <3>2
      <3>. QED
        BY <3>1, <3>2
    <2>. QED
      BY <2>1 DEF Grows
  <1>17. /\ events \in Nat /\ events' = events + 1 /\ events' \in 0..MaxEvents /\ events' \in Nat
         /\ events <= events'
    BY <1>7, OneEvent
  <1>18. CandidateFits' /\ ReadinessFits' /\ Succeeds
    BY <1>7, <1>16, <1>17, CandidateStays
  <1>19. ReviewsFit'
    <2>1. reviews' \in [Proposals -> Seq(Cited)]
      BY <1>8, <1>12, <1>13
    <2>2. ASSUME NEW q \in Proposals PROVE Len(reviews'[q]) <= events'
      <3>1. Len(reviews[q]) <= events /\ Len(reviews[p]) <= events
        BY DEF PrepInv, ReviewsFit
      <3>. QED
        BY <1>10, <1>12, <1>13, <1>14, <1>17, <3>1
    <2>3. ASSUME NEW q \in Proposals, NEW i \in 1..Len(reviews[q]) PROVE (CitesFit(q, reviews[q][i]))'
      <3>1. PICK w : w = reviews[q][i]
        OBVIOUS
      <3>2. CitesFit(q, w)
        BY <3>1 DEF PrepInv, ReviewsFit
      <3>3. reviews'[q][i] = w
        BY <1>16, <3>1, StillThere
      <3>4. ASSUME NEW ref \in w.refs
            PROVE  /\ ref[1] \in Proposals /\ ref[1] # q /\ ref[2] \in 1..Len(reviews'[ref[1]])
                   /\ w.kind \in Approved => reviews'[ref[1]][ref[2]].kind = "FACT"
        <4>1. /\ ref[1] \in Proposals /\ ref[1] # q /\ ref[2] \in 1..Len(reviews[ref[1]])
              /\ w.kind \in Approved => reviews[ref[1]][ref[2]].kind = "FACT"
          BY <3>2 DEF CitesFit, Kind
        <4>2. PICK a \in Proposals : a = ref[1] /\ ref[2] \in 1..Len(reviews[a])
          BY <4>1
        <4>3. PICK b \in 1..Len(reviews[a]) : b = ref[2]
          BY <4>2
        <4>4. b \in 1..Len(reviews'[a]) /\ reviews'[a][b] = reviews[a][b]
          BY <1>16, <4>2, <4>3, StillThere
        <4>. QED
          BY <4>1, <4>2, <4>3, <4>4
      <3>. QED
        BY <3>3, <3>4 DEF CitesFit, Kind
    <2>4. (CitesFit(p, reviews[p][Len(reviews[p])]))'
      <3>1. reviews'[p][Len(reviews'[p])] = r
        BY <1>12, <1>13
      <3>2. ASSUME NEW ref \in r.refs
            PROVE  /\ ref[1] \in Proposals /\ ref[1] # p /\ ref[2] \in 1..Len(reviews'[ref[1]])
                   /\ r.kind \in Approved => reviews'[ref[1]][ref[2]].kind = "FACT"
        <4>1. ref \in refs /\ ref \in Proposals \X Nat /\ ref[1] # p
          BY <1>4, <1>9
        <4>2. PICK a \in Proposals, b \in Nat : ref = <<a, b>>
          BY <4>1
        <4>3. ref[1] = a /\ ref[2] = b
          BY <4>2
        <4>4. Citable(ref, kind)
          BY <1>5, <1>7, <4>1 DEF Rests
        <4>5. b = Len(reviews[a]) /\ b > 0 /\ reviews[a][b].kind \in (IF kind = "INFERENCE" THEN {"FACT"} ELSE Approved)
          BY <4>3, <4>4 DEF Citable, IsCurrent, Kind
        <4>6. b \in 1..Len(reviews[a])
          BY <4>2, <4>5
        <4>7. b \in 1..Len(reviews'[a]) /\ reviews'[a][b] = reviews[a][b]
          BY <1>16, <4>2, <4>6, StillThere
        <4>8. kind # "FACT"
          BY <1>4, <4>1
        <4>9. kind \in Approved => kind = "INFERENCE"
          BY <4>8 DEF Approved
        <4>. QED
          BY <1>9, <4>1, <4>2, <4>3, <4>5, <4>7, <4>9
      <3>. QED
        BY <3>1, <3>2 DEF CitesFit, Kind
    <2>5. ASSUME NEW q \in Proposals, NEW i \in 1..Len(reviews'[q]) PROVE (CitesFit(q, reviews[q][i]))'
      <3>1. CASE i \in 1..Len(reviews[q])
        BY <2>3, <3>1
      <3>2. CASE i \notin 1..Len(reviews[q])
        <4>1. q = p
          BY <1>13, <3>2
        <4>2. i = Len(reviews'[p])
          BY <1>10, <1>12, <1>13, <3>2, <4>1
        <4>. QED
          BY <2>4, <4>1, <4>2
      <3>. QED
        BY <3>1, <3>2
    <2>. QED
      BY <2>1, <2>2, <2>5 DEF ReviewsFit
  <1>20. MapsFit'
    <2>1. ASSUME NEW q \in Proposals, maps'[q] # << >>
          PROVE  reviews'[q] # << >> /\ reviews'[q][Len(reviews'[q])].kind \in Approved
      <3>1. q # p /\ maps[q] # << >> /\ reviews'[q] = reviews[q]
        BY <1>13, <1>15, <2>1
      <3>. QED
        BY <3>1 DEF PrepInv, MapsFit, Reviewed, LastOf
    <2>. QED
      BY <1>15, <2>1 DEF MapsFit, Reviewed, LastOf
  <1>21. PrepCallsFit'
    BY <1>16, <1>18, WroteCall
  <1>22. docs' \in [Documents -> DocStatuses]
    BY <1>7 DEF PrepInv
  <1>. QED
    BY <1>17, <1>18, <1>19, <1>20, <1>21, <1>22 DEF PrepInv

\* A mapping is appended to those of the latest review of its proposal.
LEMMA AppendMappingKeeps ==
  ASSUME PrepInv, NEW s \in Reviewers, AppendMapping(calls[s]), Calling(s, NoCall)
  PROVE  PrepInv'
  <1>1. PICK x : x = calls[s]
    OBVIOUS
  <1>2. x.step = "map" /\ PrepCallFits(x)
    BY <1>1, ReviewerCallFits DEF AppendMapping
  <1>3. MapCallFits(x)
    BY <1>2 DEF PrepCallFits, NoCall, PrepareCallFits, ReviewCallFits, CandidateCallFits, ReadinessCallFits
  <1>4. PICK p \in Proposals, i \in Nat, n \in Nat, disposition \in Dispositions :
          /\ x = [step |-> "map", proposal |-> p, review |-> i, prior |-> n, disposition |-> disposition]
          /\ i \in 1..Len(reviews[p]) /\ reviews[p][i].kind \in Approved
    BY <1>3 DEF MapCallFits
  <1>5. x.proposal = p /\ x.review = i /\ x.disposition = disposition
    BY <1>4
  <1>6. /\ MapRests(x)
        /\ maps' = [maps EXCEPT ![p] = Append(@, disposition)]
        /\ AddsEvent
        /\ docs' = docs /\ reviews' = reviews /\ candidate' = candidate /\ readiness' = readiness
    BY <1>1, <1>5 DEF AppendMapping
  <1>7. maps \in [Proposals -> Seq(Dispositions)]
    BY DEF PrepInv, MapsFit
  <1>8. PICK old : old = maps[p]
    OBVIOUS
  <1>9. PICK new : new = Append(old, disposition)
    OBVIOUS
  <1>10. /\ old \in Seq(Dispositions) /\ new \in Seq(Dispositions)
         /\ Len(old) \in Nat /\ Len(new) = Len(old) + 1
         /\ \A j \in 1..Len(old) : new[j] = old[j]
    BY <1>7, <1>8, <1>9, AppendProperties, LenProperties
  <1>11. /\ maps' = [maps EXCEPT ![p] = new] /\ maps'[p] = new
         /\ \A q \in Proposals : q # p => maps'[q] = maps[q]
         /\ maps' \in [Proposals -> Seq(Dispositions)]
    BY <1>6, <1>7, <1>8, <1>9, <1>10
  <1>12. \A q \in Proposals : Len(reviews[q]) \in Nat /\ Len(maps[q]) \in Nat
    BY ReviewsAre
  <1>13. Grows
    <2>1. ASSUME NEW q \in Proposals, NEW j \in 1..Len(maps[q])
          PROVE  j \in 1..Len(maps'[q]) /\ maps'[q][j] = maps[q][j]
      <3>1. CASE q = p
        BY <1>8, <1>10, <1>11, <3>1
      <3>2. CASE q # p
        BY <1>11, <3>2
      <3>. QED
        BY <3>1, <3>2
    <2>. QED
      BY <1>6, <1>12, <2>1 DEF Grows
  <1>14. /\ events \in Nat /\ events' = events + 1 /\ events' \in 0..MaxEvents /\ events' \in Nat
         /\ events <= events'
    BY <1>6, OneEvent
  <1>15. CandidateFits' /\ ReadinessFits' /\ Succeeds
    BY <1>6, <1>13, <1>14, CandidateStays
  <1>16. ReviewsFit'
    <2>1. ReviewsFit
      BY DEF PrepInv
    <2>2. \A q \in Proposals : Len(reviews[q]) <= events'
      BY <1>12, <1>14, <2>1 DEF ReviewsFit
    <2>. QED
      BY <1>6, <2>1, <2>2 DEF ReviewsFit, CitesFit, Kind
  <1>17. MapsFit'
    <2>1. i = Len(reviews[p])
      BY <1>5, <1>6 DEF MapRests, IsCurrent
    <2>2. LastOf(reviews[p]).kind \in Approved
      BY <1>4, <2>1 DEF LastOf
    <2>3. Reviewed(p)
      <3>1. Len(reviews[p]) # 0
        BY <1>4, <2>1
      <3>. QED
        BY <3>1, EmptySeq DEF Reviewed
    <2>4. ASSUME NEW q \in Proposals, maps'[q] # << >>
          PROVE  reviews'[q] # << >> /\ reviews'[q][Len(reviews'[q])].kind \in Approved
      <3>1. CASE q = p
        BY <1>6, <2>2, <2>3, <3>1 DEF Reviewed, LastOf
      <3>2. CASE q # p
        BY <1>6, <1>11, <2>4, <3>2 DEF PrepInv, MapsFit, Reviewed, LastOf
      <3>. QED
        BY <3>1, <3>2
    <2>. QED
      BY <1>11, <2>4 DEF MapsFit, Reviewed, LastOf
  <1>18. PrepCallsFit'
    BY <1>13, <1>15, WroteCall
  <1>19. docs' \in [Documents -> DocStatuses]
    BY <1>6 DEF PrepInv
  <1>. QED
    BY <1>14, <1>15, <1>16, <1>17, <1>18, <1>19 DEF PrepInv

\* The reviews and mappings are those they were.
LEMMA LogsStay ==
  ASSUME PrepInv, reviews' = reviews, maps' = maps, events' \in Nat, events \in Nat, events <= events'
  PROVE  Grows /\ ReviewsFit' /\ MapsFit'
  <1>1. \A q \in Proposals : Len(reviews[q]) \in Nat /\ Len(maps[q]) \in Nat
    BY ReviewsAre
  <1>2. Grows
    BY <1>1 DEF Grows
  <1>3. ReviewsFit'
    <2>1. ReviewsFit
      BY DEF PrepInv
    <2>2. \A q \in Proposals : Len(reviews[q]) <= events'
      BY <1>1, <2>1 DEF ReviewsFit
    <2>. QED
      BY <2>1, <2>2 DEF ReviewsFit, CitesFit, Kind
  <1>4. MapsFit'
    BY DEF PrepInv, MapsFit, Reviewed, LastOf
  <1>. QED
    BY <1>2, <1>3, <1>4

LEMMA AppendCandidateKeeps ==
  ASSUME PrepInv, NEW s \in Reviewers, AppendCandidate(calls[s]), Calling(s, NoCall)
  PROVE  PrepInv'
  <1>1. PICK x : x = calls[s]
    OBVIOUS
  <1>2. x.step = "candidate" /\ PrepCallFits(x)
    BY <1>1, ReviewerCallFits DEF AppendCandidate
  <1>3. CandidateCallFits(x)
    BY <1>2 DEF PrepCallFits, NoCall, PrepareCallFits, ReviewCallFits, MapCallFits, ReadinessCallFits
  <1>4. PICK set : x = [step |-> "candidate", set |-> set] /\ SetFits(set)
    BY <1>3 DEF CandidateCallFits
  <1>5. x.set = set
    BY <1>4
  <1>6. /\ set.number = candidate.number + 1
        /\ candidate' = set /\ readiness' = NotEvaluated /\ AddsEvent
        /\ docs' = docs /\ reviews' = reviews /\ maps' = maps
    BY <1>1, <1>5 DEF AppendCandidate
  <1>7. /\ events \in Nat /\ events' = events + 1 /\ events' \in 0..MaxEvents /\ events' \in Nat
        /\ events <= events'
    BY <1>6, OneEvent
  <1>8. Grows /\ ReviewsFit' /\ MapsFit'
    BY <1>6, <1>7, LogsStay
  <1>9. candidate.number \in 0..events
    BY DEF PrepInv, CandidateFits
  <1>10. Succeeds
    BY <1>6, <1>7, <1>9 DEF Succeeds
  <1>11. CandidateFits'
    <2>1. (SetFits(set))'
      BY <1>4, <1>8, SetStays
    <2>2. (SetFits(set))' => (SetFits(candidate))'
      BY <1>6 DEF SetFits, SeenFits, MappingFits
    <2>3. set.number \in 0..events'
      BY <1>6, <1>7, <1>9
    <2>. QED
      BY <1>6, <2>1, <2>2, <2>3 DEF CandidateFits
  <1>12. ReadinessFits'
    BY <1>6 DEF ReadinessFits, Readiness, NotEvaluated
  <1>13. PrepCallsFit'
    BY <1>8, <1>10, WroteCall
  <1>14. docs' \in [Documents -> DocStatuses]
    BY <1>6 DEF PrepInv
  <1>. QED
    BY <1>7, <1>8, <1>11, <1>12, <1>13, <1>14 DEF PrepInv

LEMMA AppendReadinessKeeps ==
  ASSUME PrepInv, NEW s \in Reviewers, AppendReadiness(calls[s]), Calling(s, NoCall)
  PROVE  PrepInv'
  <1>1. PICK x : x = calls[s]
    OBVIOUS
  <1>2. x.step = "readiness" /\ PrepCallFits(x)
    BY <1>1, ReviewerCallFits DEF AppendReadiness
  <1>3. ReadinessCallFits(x)
    BY <1>2 DEF PrepCallFits, NoCall, PrepareCallFits, ReviewCallFits, MapCallFits, CandidateCallFits
  <1>4. PICK n \in Nat, status \in {"READY_TO_ATTEMPT", "NOT_READY"} :
          /\ x = [step |-> "readiness", number |-> n, status |-> status]
          /\ n \in 1..candidate.number
          /\ n = candidate.number /\ status = "READY_TO_ATTEMPT" => Positive(candidate)
    BY <1>3 DEF ReadinessCallFits
  <1>5. x.number = n /\ x.status = status
    BY <1>4
  <1>6. /\ n = candidate.number
        /\ readiness' = status /\ AddsEvent
        /\ docs' = docs /\ reviews' = reviews /\ maps' = maps /\ candidate' = candidate
    BY <1>1, <1>5 DEF AppendReadiness
  <1>7. /\ events \in Nat /\ events' = events + 1 /\ events' \in 0..MaxEvents /\ events' \in Nat
        /\ events <= events'
    BY <1>6, OneEvent
  <1>8. Grows /\ ReviewsFit' /\ MapsFit'
    BY <1>6, <1>7, LogsStay
  <1>9. candidate.number \in 0..events
    BY DEF PrepInv, CandidateFits
  <1>10. Succeeds
    BY <1>6, <1>9 DEF Succeeds
  <1>11. CandidateFits'
    <2>1. PICK c : c = candidate
      OBVIOUS
    <2>2. c.number > 0 => SetFits(c)
      BY <2>1 DEF PrepInv, CandidateFits
    <2>3. c.number > 0 => (SetFits(c))'
      BY <1>8, <2>2, SetStays
    <2>4. (SetFits(c))' => (SetFits(candidate))'
      BY <1>6, <2>1 DEF SetFits, SeenFits, MappingFits
    <2>5. c.number \in 0..events'
      BY <1>7, <1>9, <2>1
    <2>. QED
      BY <1>6, <2>1, <2>3, <2>4, <2>5 DEF CandidateFits
  <1>12. ReadinessFits'
    <2>1. status = "READY_TO_ATTEMPT" => Positive(candidate)
      BY <1>4, <1>6
    <2>2. candidate.number # 0
      BY <1>4, <1>6
    <2>. QED
      BY <1>6, <2>1, <2>2 DEF ReadinessFits, Readiness, Positive
  <1>13. PrepCallsFit'
    BY <1>8, <1>10, WroteCall
  <1>14. docs' \in [Documents -> DocStatuses]
    BY <1>6 DEF PrepInv
  <1>. QED
    BY <1>7, <1>8, <1>11, <1>12, <1>13, <1>14 DEF PrepInv

LEMMA DocumentKeeps ==
  ASSUME PrepInv, NEW d \in Documents, StoreDocument(d) \/ EndAttempt(d)
  PROVE  PrepInv'
  <1>1. docs \in [Documents -> DocStatuses] /\ CurrentDocs \in SUBSET Documents
    BY DEF PrepInv, CurrentDocs
  <1>2. CASE StoreDocument(d)
    <2>1. docs' \in [Documents -> DocStatuses]
      BY <1>1, <1>2 DEF StoreDocument, DocStatuses, CurrentStatuses
    <2>. QED
      BY <1>2, <2>1, DocumentMoves DEF StoreDocument
  <1>3. CASE EndAttempt(d)
    <2>1. docs' \in [Documents -> DocStatuses]
      BY <1>1, <1>3 DEF EndAttempt, DocStatuses, CurrentStatuses
    <2>. QED
      BY <1>3, <2>1, DocumentMoves DEF EndAttempt
  <1>. QED
    BY <1>2, <1>3

LEMMA PrepStepKeeps ==
  ASSUME PrepInv, [PrepNext]_prepVars
  PROVE  PrepInv'
  <1>1. CASE UNCHANGED prepVars
    <2>1. docs' = docs /\ UNCHANGED <<reviews, maps, candidate, readiness, events, calls>>
      BY <1>1 DEF prepVars
    <2>2. docs' \in [Documents -> DocStatuses]
      BY <2>1 DEF PrepInv
    <2>. QED
      BY <2>1, <2>2, DocumentMoves
  <1>2. ASSUME NEW s \in Reviewers, NEW call \in PrepCalls, Starts(s, call)
        PROVE  PrepInv'
    BY <1>2, StartsKeeps
  <1>3. ASSUME NEW s \in Reviewers, SeeReview(s) PROVE PrepInv'
    BY <1>3, SeeReviewKeeps
  <1>4. ASSUME NEW s \in Reviewers, SeeMappings(s) PROVE PrepInv'
    BY <1>4, SeeMappingsKeeps
  <1>5. ASSUME NEW s \in Reviewers, Write(s) PROVE PrepInv'
    <2>1. Calling(s, NoCall) /\ Appends(calls[s])
      BY <1>5 DEF Write
    <2>2. CASE AppendReview(calls[s])
      BY <2>1, <2>2, AppendReviewKeeps
    <2>3. CASE AppendMapping(calls[s])
      BY <2>1, <2>3, AppendMappingKeeps
    <2>4. CASE AppendCandidate(calls[s])
      BY <2>1, <2>4, AppendCandidateKeeps
    <2>5. CASE AppendReadiness(calls[s])
      BY <2>1, <2>5, AppendReadinessKeeps
    <2>. QED
      BY <2>1, <2>2, <2>3, <2>4, <2>5 DEF Appends
  <1>6. ASSUME NEW s \in Reviewers, GiveUp(s) PROVE PrepInv'
    BY <1>6, GiveUpKeeps
  <1>7. ASSUME NEW d \in Documents, StoreDocument(d) \/ EndAttempt(d) PROVE PrepInv'
    BY <1>7, DocumentKeeps
  <1>. QED
    BY <1>1, <1>2, <1>3, <1>4, <1>5, <1>6, <1>7 DEF PrepNext

LEMMA PrepIsTyped ==
  ASSUME PrepInv
  PROVE  PrepTypeOK
  <1>1. ASSUME NEW p \in Proposals, NEW n \in 1..Len(reviews[p])
        PROVE  /\ reviews[p][n] \in Review
               /\ \A ref \in reviews[p][n].refs : ref[1] # p /\ ref[2] \in 1..Len(reviews[ref[1]])
    <2>1. PICK r : r = reviews[p][n]
      OBVIOUS
    <2>2. r \in Cited /\ CitesFit(p, r)
      BY <2>1, ReviewsAre DEF PrepInv, ReviewsFit
    <2>3. r.kind \in Kinds /\ r.refs \in SUBSET (Proposals \X Nat) /\ r = [kind |-> r.kind, refs |-> r.refs]
      BY <2>2 DEF Cited
    <2>4. ASSUME NEW ref \in r.refs PROVE ref \in Proposals \X (1..MaxEvents)
      <3>1. PICK q \in Proposals, m \in Nat : ref = <<q, m>>
        BY <2>3
      <3>2. ref[1] = q /\ ref[2] = m
        BY <3>1
      <3>3. m \in 1..Len(reviews[q])
        BY <2>2, <3>2 DEF CitesFit
      <3>4. Len(reviews[q]) <= events /\ events \in 0..MaxEvents /\ Len(reviews[q]) \in Nat
        BY <3>1, ReviewsAre DEF PrepInv, ReviewsFit
      <3>5. m \in 1..MaxEvents
        BY <3>3, <3>4, PreparationAssumption
      <3>. QED
        BY <3>1, <3>5
    <2>5. r \in Review
      BY <2>3, <2>4 DEF Review
    <2>. QED
      BY <2>1, <2>2, <2>5 DEF CitesFit
  <1>2. \A p \in Proposals : \A n \in 1..Len(maps[p]) : maps[p][n] \in Dispositions
    BY ReviewsAre
  <1>3. \A p \in Proposals : maps[p] # << >> => Reviewed(p) /\ LastOf(reviews[p]).kind \in Approved
    BY DEF PrepInv, MapsFit
  <1>. QED
    BY <1>1, <1>2, <1>3 DEF PrepTypeOK, PrepInv, CandidateFits, ReadinessFits

LEMMA PrepInvHolds == PrepSpec => []PrepInv
  <1>1. PrepInit => PrepInv
    BY PrepStarts
  <1>2. PrepInv /\ [PrepNext]_prepVars => PrepInv'
    BY PrepStepKeeps
  <1>. QED
    BY <1>1, <1>2, PTL DEF PrepSpec

\* Reviews, mappings, candidate sets and their readiness keep their declared form.
THEOREM PreparationTypeCorrect == PrepSpec => []PrepTypeOK
  <1>1. PrepInv => PrepTypeOK
    BY PrepIsTyped
  <1>. QED
    BY PrepInvHolds, <1>1, PTL

\* What the page shows as prepared is complete now, and what it shows as ready
\* has a mapping with a value now, while any reviewers review and map under it
\* and documents come and are replaced: get_current_preparation_state.
THEOREM PreparedIsCurrentHolds == PrepSpec => []PreparedIsCurrent
  <1>1. PrepInv => PreparedIsCurrent
    BY PrepInvImplies
  <1>. QED
    BY PrepInvHolds, <1>1, PTL

\* An inference that a current candidate set maps rests on current facts.
THEOREM MappedFactsAreCurrentHolds == PrepSpec => []MappedFactsAreCurrent
  <1>1. PrepInv => MappedFactsAreCurrent
    BY PrepInvImplies
  <1>. QED
    BY PrepInvHolds, <1>1, PTL

\* What NothingRestsOnStale says of one step.
RestsOnCurrent ==
    \A p \in Proposals :
      /\ reviews'[p] # reviews[p] => \A ref \in LastOf(reviews'[p]).refs : IsCurrent(ref)
      /\ (maps'[p] # maps[p] /\ maps'[p] # << >> /\ LastOf(maps'[p]) # "CONTEXT_ONLY")
           => \A ref \in LastOf(reviews[p]).refs : IsCurrent(ref)

LEMMA ReviewRestsOnCurrent ==
  ASSUME PrepInv, NEW x, ReviewCallFits(x), AppendReview(x)
  PROVE  RestsOnCurrent
  <1>1. PICK p \in Proposals, n \in Nat, kind \in Kinds, refs \in SUBSET (Proposals \X Nat) :
          /\ x = [step |-> "review", proposal |-> p, prior |-> n, kind |-> kind, refs |-> refs]
          /\ n <= Len(reviews[p])
          /\ kind = "FACT" => refs = {}
          /\ \A ref \in refs : ref[1] # p
    BY DEF ReviewCallFits
  <1>2. x.proposal = p /\ x.kind = kind /\ x.refs = refs
    BY <1>1
  <1>3. PICK r : r = [kind |-> kind, refs |-> refs]
    OBVIOUS
  <1>4. /\ Rests(x)
        /\ reviews' = [reviews EXCEPT ![p] = Append(@, r)]
        /\ maps' = [maps EXCEPT ![p] = << >>]
    BY <1>2, <1>3 DEF AppendReview, Unmapped
  <1>5. reviews \in [Proposals -> Seq(Cited)] /\ maps \in [Proposals -> Seq(Dispositions)]
    BY DEF PrepInv, ReviewsFit, MapsFit
  <1>6. r \in Cited /\ r.refs = refs
    BY <1>3 DEF Cited
  <1>7. PICK old, new : old = reviews[p] /\ new = Append(old, r)
    OBVIOUS
  <1>8. Len(old) \in Nat /\ Len(new) = Len(old) + 1 /\ new[Len(new)] = r
    BY <1>5, <1>6, <1>7, AppendProperties, LenProperties
  <1>9. reviews'[p] = new /\ \A q \in Proposals : q # p => reviews'[q] = reviews[q]
    BY <1>4, <1>5, <1>7
  <1>10. maps'[p] = << >> /\ \A q \in Proposals : q # p => maps'[q] = maps[q]
    BY <1>4, <1>5
  <1>11. \A ref \in r.refs : IsCurrent(ref)
    BY <1>2, <1>4, <1>6 DEF Rests, Citable
  <1>12. LastOf(reviews'[p]) = r
    BY <1>8, <1>9 DEF LastOf
  <1>. QED
    BY <1>9, <1>10, <1>11, <1>12 DEF RestsOnCurrent

LEMMA MappingRestsOnCurrent ==
  ASSUME PrepInv, NEW x, MapCallFits(x), AppendMapping(x)
  PROVE  RestsOnCurrent
  <1>1. PICK p \in Proposals, i \in Nat, n \in Nat, disposition \in Dispositions :
          /\ x = [step |-> "map", proposal |-> p, review |-> i, prior |-> n, disposition |-> disposition]
          /\ i \in 1..Len(reviews[p]) /\ reviews[p][i].kind \in Approved
    BY DEF MapCallFits
  <1>2. x.proposal = p /\ x.review = i /\ x.disposition = disposition
    BY <1>1
  <1>3. /\ MapRests(x)
        /\ maps' = [maps EXCEPT ![p] = Append(@, disposition)]
        /\ reviews' = reviews
    BY <1>2 DEF AppendMapping
  <1>4. maps \in [Proposals -> Seq(Dispositions)]
    BY DEF PrepInv, MapsFit
  <1>5. PICK old, new : old = maps[p] /\ new = Append(old, disposition)
    OBVIOUS
  <1>6. Len(old) \in Nat /\ Len(new) = Len(old) + 1 /\ new[Len(new)] = disposition
    BY <1>4, <1>5, AppendProperties, LenProperties
  <1>7. maps'[p] = new /\ \A q \in Proposals : q # p => maps'[q] = maps[q]
    BY <1>3, <1>4, <1>5
  <1>8. LastOf(maps'[p]) = disposition
    BY <1>6, <1>7 DEF LastOf
  <1>9. disposition = "CONTEXT_ONLY" \/ \A ref \in LastOf(reviews[p]).refs : IsCurrent(ref)
    <2>1. i = Len(reviews[p])
      BY <1>2, <1>3 DEF MapRests, IsCurrent
    <2>. QED
      BY <1>2, <1>3, <2>1 DEF MapRests, Citable, LastOf
  <1>. QED
    BY <1>3, <1>7, <1>8, <1>9 DEF RestsOnCurrent

LEMMA StepRestsOnCurrent ==
  ASSUME PrepInv, [PrepNext]_prepVars
  PROVE  RestsOnCurrent
  <1>1. CASE reviews' = reviews /\ maps' = maps
    BY <1>1 DEF RestsOnCurrent
  <1>2. ASSUME NEW s \in Reviewers, Write(s) PROVE RestsOnCurrent
    <2>1. PICK x : x = calls[s]
      OBVIOUS
    <2>2. Appends(x) /\ PrepCallFits(x)
      BY <1>2, <2>1, ReviewerCallFits DEF Write
    <2>3. CASE AppendReview(x)
      <3>1. ReviewCallFits(x)
        BY <2>2, <2>3 DEF AppendReview, PrepCallFits, NoCall, PrepareCallFits, MapCallFits, CandidateCallFits, ReadinessCallFits
      <3>. QED
        BY <2>3, <3>1, ReviewRestsOnCurrent
    <2>4. CASE AppendMapping(x)
      <3>1. MapCallFits(x)
        BY <2>2, <2>4 DEF AppendMapping, PrepCallFits, NoCall, PrepareCallFits, ReviewCallFits, CandidateCallFits, ReadinessCallFits
      <3>. QED
        BY <2>4, <3>1, MappingRestsOnCurrent
    <2>5. CASE AppendCandidate(x)
      BY <1>1, <2>5 DEF AppendCandidate
    <2>6. CASE AppendReadiness(x)
      BY <1>1, <2>6 DEF AppendReadiness
    <2>. QED
      BY <2>2, <2>3, <2>4, <2>5, <2>6 DEF Appends
  <1>3. CASE UNCHANGED prepVars
    BY <1>1, <1>3 DEF prepVars
  <1>4. ASSUME NEW s \in Reviewers, NEW call, Starts(s, call) \/ SeeReview(s) \/ SeeMappings(s) \/ GiveUp(s)
        PROVE  RestsOnCurrent
    BY <1>1, <1>4 DEF Starts, SeeReview, SeeMappings, GiveUp, evidence
  <1>5. ASSUME NEW d \in Documents, StoreDocument(d) \/ EndAttempt(d) PROVE RestsOnCurrent
    BY <1>1, <1>5 DEF StoreDocument, EndAttempt
  <1>. QED
    BY <1>2, <1>3, <1>4, <1>5 DEF PrepNext

\* No review or mapping is written on a review that had been superseded before:
\* append_review_revision and append_formal_mapping read again what they rest on.
THEOREM NothingRestsOnStaleHolds == PrepSpec => NothingRestsOnStale
  <1>1. PrepInv /\ [PrepNext]_prepVars => [RestsOnCurrent]_prepVars
    BY StepRestsOnCurrent
  <1>2. [][RestsOnCurrent]_prepVars => NothingRestsOnStale
    BY PTL DEF RestsOnCurrent, NothingRestsOnStale
  <1>. QED
    BY PrepInvHolds, <1>1, <1>2, PTL DEF PrepSpec
=============================================================================
