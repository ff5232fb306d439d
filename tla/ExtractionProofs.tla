-------------------------- MODULE ExtractionProofs --------------------------
(***************************************************************************)
(* What an extraction promises, proved for every document, every limit of  *)
(* a chunk, every response of the provider and every way answers overlap.  *)
(***************************************************************************)
EXTENDS ProcessExtraction, Integers, SequenceTheorems, FiniteSetTheorems,
        WellFoundedInduction, TLAPS

\* Least numbers stand in for induction: what fails, fails for a least one.
LEMMA LeastNumber ==
  ASSUME NEW T \in SUBSET Nat, T # {}
  PROVE  \E n \in T : \A m \in T : n <= m
  <1>1. PICK R : R = OpToRel(<, Nat)
    OBVIOUS
  <1>2. \A m, n \in Nat : <<m, n>> \in R <=> m < n
    BY <1>1 DEF OpToRel
  <1>3. IsWellFoundedOn(R, Nat)
    BY <1>1, NatLessThanWellFounded
  <1>4. PICK n \in T : \A m \in T : ~(<<m, n>> \in R)
    BY <1>3, WFMin
  <1>5. \A m \in T : ~(m < n)
    BY <1>2, <1>4
  <1>6. \A m \in T : n <= m
    BY <1>5
  <1>. QED
    BY <1>4, <1>6

-----------------------------------------------------------------------------
(***************************************************************************)
(* The characters of a chunk: a recursive function is what its equation    *)
(* says once one that satisfies it is known to exist.                      *)
(***************************************************************************)

SliceType == [block : Nat, from : Nat, to : Nat]

SumsUp(slices, f) ==
  f = [n \in 0 .. Len(slices) |-> IF n = 0 THEN 0 ELSE f[n - 1] + (slices[n].to - slices[n].from)]

LEMMA SumUnique ==
  ASSUME NEW s \in Seq(SliceType), NEW t \in Seq(SliceType), NEW f, NEW g,
         SumsUp(s, f), SumsUp(t, g), NEW k \in Nat, k <= Len(s), k <= Len(t),
         \A i \in 1..k : s[i] = t[i]
  PROVE  f[k] = g[k]
  <1>. PICK T : T = {j \in Nat : j <= k /\ f[j] # g[j]}
    OBVIOUS
  <1>. SUFFICES ASSUME T # {} PROVE FALSE
    OBVIOUS
  <1>1. PICK j \in T : \A i \in T : j <= i
    BY LeastNumber
  <1>2. j \in Nat /\ j <= k /\ f[j] # g[j]
    OBVIOUS
  <1>3. Len(s) \in Nat /\ Len(t) \in Nat
    OBVIOUS
  <1>4. CASE j = 0
    BY <1>2, <1>3, <1>4 DEF SumsUp
  <1>5. CASE j # 0
    <2>1. /\ j - 1 \in Nat /\ j - 1 <= k /\ ~(j <= j - 1) /\ j \in 1..k
          /\ j \in 0 .. Len(s) /\ j \in 0 .. Len(t)
      BY <1>2, <1>3, <1>5
    <2>2. f[j - 1] = g[j - 1]
      BY <1>1, <2>1
    <2>3. f[j] = f[j - 1] + (s[j].to - s[j].from)
      BY <1>5, <2>1 DEF SumsUp
    <2>4. g[j] = g[j - 1] + (t[j].to - t[j].from)
      BY <1>5, <2>1 DEF SumsUp
    <2>5. s[j] = t[j]
      BY <2>1
    <2>. QED
      BY <1>2, <2>2, <2>3, <2>4, <2>5
  <1>. QED
    BY <1>4, <1>5

LEMMA SumExtended ==
  ASSUME NEW s \in Seq(SliceType), NEW x \in SliceType, NEW f, SumsUp(s, f)
  PROVE  \E g : SumsUp(Append(s, x), g) /\ g[Len(s) + 1] = f[Len(s)] + (x.to - x.from)
  <1>1. Len(s) \in Nat
    OBVIOUS
  <1>2. PICK t : t = Append(s, x)
    OBVIOUS
  <1>3. Len(t) = Len(s) + 1 /\ t[Len(s) + 1] = x /\ \A i \in 1 .. Len(s) : t[i] = s[i]
    BY <1>2
  <1>4. PICK g : g = [n \in 0 .. Len(t) |-> IF n = Len(t) THEN f[Len(s)] + (x.to - x.from) ELSE f[n]]
    OBVIOUS
  <1>5. ASSUME NEW n \in 0 .. Len(t)
        PROVE  g[n] = IF n = 0 THEN 0 ELSE g[n - 1] + (t[n].to - t[n].from)
    <2>1. CASE n = Len(t)
      <3>1. n # 0 /\ n - 1 = Len(s) /\ n - 1 \in 0 .. Len(t) /\ n - 1 # Len(t)
        BY <1>1, <1>3, <2>1
      <3>2. g[n - 1] = f[Len(s)] /\ g[n] = f[Len(s)] + (x.to - x.from) /\ t[n] = x
        BY <1>3, <1>4, <2>1, <3>1
      <3>. QED
        BY <3>1, <3>2
    <2>2. CASE n # Len(t)
      <3>1. n \in 0 .. Len(s)
        BY <1>1, <1>3, <2>2
      <3>2. g[n] = f[n]
        BY <1>4, <2>2
      <3>3. f[n] = IF n = 0 THEN 0 ELSE f[n - 1] + (s[n].to - s[n].from)
        BY <3>1 DEF SumsUp
      <3>4. CASE n = 0
        BY <3>2, <3>3, <3>4
      <3>5. CASE n # 0
        <4>1. n - 1 \in 0 .. Len(t) /\ n - 1 # Len(t) /\ n \in 1 .. Len(s)
          BY <1>1, <1>3, <3>1, <3>5
        <4>2. g[n - 1] = f[n - 1] /\ t[n] = s[n]
          BY <1>3, <1>4, <4>1
        <4>. QED
          BY <3>2, <3>3, <3>5, <4>2
      <3>. QED
        BY <3>4, <3>5
    <2>. QED
      BY <2>1, <2>2
  <1>6. SumsUp(t, g)
    BY <1>4, <1>5 DEF SumsUp
  <1>7. g[Len(s) + 1] = f[Len(s)] + (x.to - x.from)
    BY <1>1, <1>3, <1>4
  <1>. QED
    BY <1>2, <1>6, <1>7

LEMMA SumExists ==
  ASSUME NEW s \in Seq(SliceType)
  PROVE  \E f : SumsUp(s, f) /\ f[Len(s)] \in Int
  <1>. DEFINE Summed(t) == \E f : SumsUp(t, f) /\ f[Len(t)] \in Int
  <1>. PICK T : T = {n \in Nat : \E t \in Seq(SliceType) : Len(t) = n /\ ~Summed(t)}
    OBVIOUS
  <1>. SUFFICES ASSUME T # {} PROVE FALSE
    <2>1. Len(s) \in Nat
      OBVIOUS
    <2>. QED
      BY <2>1
  <1>1. PICK n \in T : \A m \in T : n <= m
    BY LeastNumber
  <1>2. PICK t \in Seq(SliceType) : Len(t) = n /\ ~Summed(t)
    OBVIOUS
  <1>3. CASE t = << >>
    <2>1. Len(t) = 0
      BY <1>3
    <2>2. PICK f : f = [i \in 0 .. 0 |-> 0]
      OBVIOUS
    <2>3. SumsUp(t, f)
      BY <2>1, <2>2 DEF SumsUp
    <2>4. f[Len(t)] \in Int
      BY <2>1, <2>2
    <2>. QED
      BY <1>2, <2>3, <2>4
  <1>4. CASE t # << >>
    <2>1. PICK r \in Seq(SliceType), x \in SliceType : t = Append(r, x)
      BY <1>4, SequenceEmptyOrAppend
    <2>2. Len(r) \in Nat /\ Len(t) = Len(r) + 1
      BY <2>1
    <2>3. Len(r) \notin T
      BY <1>1, <1>2, <2>2
    <2>4. Summed(r)
      BY <2>2, <2>3
    <2>5. PICK f : SumsUp(r, f) /\ f[Len(r)] \in Int
      BY <2>4
    <2>6. PICK g : SumsUp(t, g) /\ g[Len(r) + 1] = f[Len(r)] + (x.to - x.from)
      BY <2>1, <2>5, SumExtended
    <2>7. x.to - x.from \in Int
      BY DEF SliceType
    <2>8. g[Len(t)] \in Int
      BY <2>2, <2>5, <2>6, <2>7
    <2>. QED
      BY <1>2, <2>6, <2>8
  <1>. QED
    BY <1>3, <1>4

\* What Characters returns: the last of the partial sums.
LEMMA CharactersAre ==
  ASSUME NEW s \in Seq(SliceType)
  PROVE  \E f : SumsUp(s, f) /\ f[Len(s)] \in Int /\ Characters(s) = f[Len(s)]
  <1>1. PICK f : f = CHOOSE h : SumsUp(s, h)
    OBVIOUS
  <1>2. SumsUp(s, f)
    BY <1>1, SumExists
  <1>3. f = CHOOSE h : h = [n \in 0 .. Len(s) |->
                 IF n = 0 THEN 0 ELSE h[n - 1] + (s[n].to - s[n].from)]
    BY <1>1 DEF SumsUp
  <1>4. Characters(s) = f[Len(s)]
    BY <1>3 DEF Characters
  <1>5. PICK g : SumsUp(s, g) /\ g[Len(s)] \in Int
    BY SumExists
  <1>6. Len(s) \in Nat /\ Len(s) <= Len(s)
    OBVIOUS
  <1>7. f[Len(s)] = g[Len(s)]
    BY <1>2, <1>5, <1>6, SumUnique
  <1>. QED
    BY <1>2, <1>4, <1>5, <1>7

LEMMA CharactersType ==
  ASSUME NEW s \in Seq(SliceType)
  PROVE  Characters(s) \in Int
  BY CharactersAre

LEMMA CharactersOfNone == Characters(<< >>) = 0
  <1>1. << >> \in Seq(SliceType) /\ Len(<< >>) = 0
    OBVIOUS
  <1>2. PICK f : SumsUp(<< >>, f) /\ Characters(<< >>) = f[0]
    BY <1>1, CharactersAre
  <1>. QED
    BY <1>1, <1>2 DEF SumsUp

LEMMA CharactersOfOneMore ==
  ASSUME NEW s \in Seq(SliceType), NEW x \in SliceType
  PROVE  Characters(Append(s, x)) = Characters(s) + (x.to - x.from)
  <1>1. PICK t : t = Append(s, x)
    OBVIOUS
  <1>2. t \in Seq(SliceType) /\ Len(t) = Len(s) + 1 /\ Len(s) \in Nat
    BY <1>1
  <1>3. PICK f : SumsUp(s, f) /\ Characters(s) = f[Len(s)]
    BY CharactersAre
  <1>4. PICK g : SumsUp(t, g) /\ g[Len(s) + 1] = f[Len(s)] + (x.to - x.from)
    BY <1>1, <1>3, SumExtended
  <1>5. PICK h : SumsUp(t, h) /\ Characters(t) = h[Len(t)]
    BY <1>2, CharactersAre
  <1>6. Len(t) \in Nat /\ Len(t) <= Len(t)
    BY <1>2
  <1>7. h[Len(t)] = g[Len(t)]
    BY <1>2, <1>4, <1>5, <1>6, SumUnique
  <1>. QED
    BY <1>1, <1>2, <1>3, <1>4, <1>5, <1>7

-----------------------------------------------------------------------------
(***************************************************************************)
(* The plan.  What the planned chunks and the open one show is all the     *)
(* text up to the place that is read next; every chunk keeps the limits    *)
(* and continues the one before it.                                        *)
(***************************************************************************)

Plan == Seq(Seq(SliceType))

\* The positions of a slice, and those of a document before a place in it.
Shows(slice) ==
  {p \in Nat \X Nat : p[1] = slice.block /\ slice.from <= p[2] /\ p[2] < slice.to}
TextUpTo(document, b, at) ==
  {p \in Nat \X Nat : /\ p[1] \in 1 .. Len(document) /\ p[2] < document[p[1]].size
                      /\ p[1] < b \/ (p[1] = b /\ p[2] < at)}

Limited(document, chunk) ==
  /\ Len(chunk) <= MaxBlocks
  /\ Characters(chunk) <= MaxCharacters
     \/ (Len(chunk) = 1 /\ Characters(chunk) = MaxCharacters + 1
         /\ chunk[1].to - 1 \in document[chunk[1].block].breaks)

Continues(earlier, later) ==
  /\ Seen(later) \ Seen(earlier) # {}
  /\ \A p \in Seen(later) \ Seen(earlier), q \in Seen(earlier) : Before(q, p)

AllSeen(plan) == UNION {Seen(plan[n]) : n \in 1 .. Len(plan)}

PlanUpTo(document, plan, text) ==
  /\ plan \in Plan
  /\ AllSeen(plan) = text
  /\ \A n \in 1 .. Len(plan) : Limited(document, plan[n])
  /\ \A n \in 2 .. Len(plan) : Continues(plan[n - 1], plan[n])

LEMMA SeenOfChunk ==
  ASSUME NEW chunk \in Seq(SliceType), NEW p
  PROVE  p \in Seen(chunk) <=> \E i \in 1 .. Len(chunk) : p \in Shows(chunk[i])
  <1>1. DOMAIN chunk = 1 .. Len(chunk) /\ Len(chunk) \in Nat
    OBVIOUS
  <1>2. ASSUME NEW i \in 1 .. Len(chunk)
        PROVE  p \in {<<chunk[i].block, at>> : at \in chunk[i].from .. (chunk[i].to - 1)}
               <=> p \in Shows(chunk[i])
    <2>1. chunk[i] \in SliceType
      BY <1>1
    <2>2. chunk[i].block \in Nat /\ chunk[i].from \in Nat /\ chunk[i].to \in Nat
      BY <2>1 DEF SliceType
    <2>3. ASSUME p \in Shows(chunk[i])
          PROVE  p \in {<<chunk[i].block, at>> : at \in chunk[i].from .. (chunk[i].to - 1)}
      <3>1. /\ p \in Nat \X Nat /\ p[1] = chunk[i].block
            /\ chunk[i].from <= p[2] /\ p[2] < chunk[i].to
        BY <2>3 DEF Shows
      <3>2. p[2] \in chunk[i].from .. (chunk[i].to - 1) /\ p = <<chunk[i].block, p[2]>>
        BY <2>2, <3>1
      <3>. QED
        BY <3>2
    <2>4. ASSUME p \in {<<chunk[i].block, at>> : at \in chunk[i].from .. (chunk[i].to - 1)}
          PROVE  p \in Shows(chunk[i])
      <3>1. PICK at \in chunk[i].from .. (chunk[i].to - 1) : p = <<chunk[i].block, at>>
        BY <2>4
      <3>2. at \in Nat /\ chunk[i].from <= at /\ at < chunk[i].to
        BY <2>2
      <3>. QED
        BY <2>2, <3>1, <3>2 DEF Shows
    <2>. QED
      BY <2>3, <2>4
  <1>3. p \in Seen(chunk) <=>
          \E i \in 1 .. Len(chunk) :
             p \in {<<chunk[i].block, at>> : at \in chunk[i].from .. (chunk[i].to - 1)}
    BY <1>1 DEF Seen
  <1>. QED
    BY <1>2, <1>3

LEMMA SeenOfOneMore ==
  ASSUME NEW chunk \in Seq(SliceType), NEW x \in SliceType
  PROVE  /\ Append(chunk, x) \in Seq(SliceType)
         /\ Seen(Append(chunk, x)) = Seen(chunk) \cup Shows(x)
  <1>1. PICK d : d = Append(chunk, x)
    OBVIOUS
  <1>2. /\ d \in Seq(SliceType) /\ Len(d) = Len(chunk) + 1 /\ Len(chunk) \in Nat
        /\ d[Len(chunk) + 1] = x /\ \A i \in 1 .. Len(chunk) : d[i] = chunk[i]
    BY <1>1
  <1>3. ASSUME NEW p PROVE p \in Seen(d) <=> p \in Seen(chunk) \/ p \in Shows(x)
    <2>1. p \in Seen(d) <=> \E i \in 1 .. Len(d) : p \in Shows(d[i])
      BY <1>2, SeenOfChunk
    <2>2. p \in Seen(chunk) <=> \E i \in 1 .. Len(chunk) : p \in Shows(chunk[i])
      BY SeenOfChunk
    <2>3. ASSUME NEW i \in 1 .. Len(d), p \in Shows(d[i])
          PROVE  p \in Shows(x) \/ \E j \in 1 .. Len(chunk) : p \in Shows(chunk[j])
      <3>1. CASE i = Len(chunk) + 1
        BY <1>2, <2>3, <3>1
      <3>2. CASE i # Len(chunk) + 1
        <4>1. i \in 1 .. Len(chunk)
          BY <1>2, <3>2
        <4>. QED
          BY <1>2, <2>3, <4>1
      <3>. QED
        BY <3>1, <3>2
    <2>4. ASSUME NEW i \in 1 .. Len(chunk), p \in Shows(chunk[i])
          PROVE  i \in 1 .. Len(d) /\ p \in Shows(d[i])
      BY <1>2, <2>4
    <2>5. Len(chunk) + 1 \in 1 .. Len(d)
      BY <1>2
    <2>. QED
      BY <1>2, <2>1, <2>2, <2>3, <2>4, <2>5
  <1>4. Seen(d) = Seen(chunk) \cup Shows(x)
    BY <1>3
  <1>. QED
    BY <1>1, <1>2, <1>4

LEMMA SeenOfNone == Seen(<< >>) = {} /\ << >> \in Seq(SliceType)
  BY DEF Seen

LEMMA SeenOfOne ==
  ASSUME NEW x \in SliceType
  PROVE  /\ <<x>> \in Seq(SliceType) /\ Len(<<x>>) = 1 /\ <<x>>[1] = x
         /\ Seen(<<x>>) = Shows(x) /\ Characters(<<x>>) = x.to - x.from
  <1>1. <<x>> = Append(<< >>, x)
    OBVIOUS
  <1>2. x.to - x.from \in Int
    BY DEF SliceType
  <1>3. Characters(Append(<< >>, x)) = Characters(<< >>) + (x.to - x.from)
    BY SeenOfNone, CharactersOfOneMore
  <1>4. Characters(<<x>>) = x.to - x.from
    BY <1>1, <1>2, <1>3, CharactersOfNone
  <1>5. Seen(Append(<< >>, x)) = Seen(<< >>) \cup Shows(x)
    BY SeenOfNone, SeenOfOneMore
  <1>6. Seen(<<x>>) = Shows(x)
    BY <1>1, <1>5, SeenOfNone
  <1>7. <<x>> \in Seq(SliceType) /\ Len(<<x>>) = 1 /\ <<x>>[1] = x
    OBVIOUS
  <1>. QED
    BY <1>4, <1>6, <1>7

\* The text of the next slice follows all the text before it.
LEMMA TextOfSlice ==
  ASSUME NEW document \in Seq(Block), NEW b \in 1 .. Len(document), NEW from \in Nat, NEW to \in Nat,
         from < to, to <= document[b].size
  PROVE  LET x == Slice(b, from, to) IN
         /\ x \in SliceType /\ Shows(x) # {}
         /\ \A p \in Shows(x), q \in TextUpTo(document, b, from) : Before(q, p)
         /\ Shows(x) \cap TextUpTo(document, b, from) = {}
         /\ TextUpTo(document, b, to) = TextUpTo(document, b, from) \cup Shows(x)
  <1>0. document[b] \in Block
    OBVIOUS
  <1>1. Len(document) \in Nat /\ b \in Nat /\ document[b].size \in Nat
    BY <1>0 DEF Block
  <1>2. PICK x : x = Slice(b, from, to)
    OBVIOUS
  <1>3. x \in SliceType /\ x.block = b /\ x.from = from /\ x.to = to
    BY <1>1, <1>2 DEF SliceType, Slice
  <1>4. <<b, from>> \in Shows(x)
    BY <1>1, <1>3 DEF Shows
  <1>5. ASSUME NEW p \in Shows(x), NEW q \in TextUpTo(document, b, from)
        PROVE  Before(q, p) /\ p # q
    <2>1. p \in Nat \X Nat /\ p[1] = b /\ from <= p[2]
      BY <1>3 DEF Shows
    <2>2. q \in Nat \X Nat /\ (q[1] < b \/ (q[1] = b /\ q[2] < from))
      BY DEF TextUpTo
    <2>. QED
      BY <1>1, <2>1, <2>2 DEF Before
  <1>6. ASSUME NEW p
        PROVE  p \in TextUpTo(document, b, to)
               <=> p \in TextUpTo(document, b, from) \/ p \in Shows(x)
    <2>1. CASE p \in Nat \X Nat
      <3>1. CASE p[1] = b
        <4>1. p[2] \in Nat /\ p[1] \in 1 .. Len(document) /\ ~(p[1] < b)
          BY <1>1, <2>1, <3>1
        <4>2. p \in TextUpTo(document, b, to) <=> p[2] < document[b].size /\ p[2] < to
          BY <2>1, <3>1, <4>1 DEF TextUpTo
        <4>3. p \in TextUpTo(document, b, from) <=> p[2] < document[b].size /\ p[2] < from
          BY <2>1, <3>1, <4>1 DEF TextUpTo
        <4>4. p \in Shows(x) <=> from <= p[2] /\ p[2] < to
          BY <1>3, <2>1, <3>1 DEF Shows
        <4>. QED
          BY <1>1, <4>1, <4>2, <4>3, <4>4
      <3>2. CASE p[1] # b
        BY <1>3, <3>2 DEF Shows, TextUpTo
      <3>. QED
        BY <3>1, <3>2
    <2>2. CASE p \notin Nat \X Nat
      BY <2>2 DEF Shows, TextUpTo
    <2>. QED
      BY <2>1, <2>2
  <1>7. TextUpTo(document, b, to) = TextUpTo(document, b, from) \cup Shows(x)
    BY <1>6
  <1>8. /\ Shows(x) # {} /\ \A p \in Shows(x), q \in TextUpTo(document, b, from) : Before(q, p)
        /\ Shows(x) \cap TextUpTo(document, b, from) = {}
    BY <1>4, <1>5
  <1>. QED
    BY <1>2, <1>3, <1>7, <1>8

\* Has a block been read to its end, the next one is read from its beginning.
LEMMA TextOfBlock ==
  ASSUME NEW document \in Seq(Block), NEW b \in 1 .. Len(document)
  PROVE  TextUpTo(document, b + 1, 0) = TextUpTo(document, b, document[b].size)
  <1>0. document[b] \in Block
    OBVIOUS
  <1>1. Len(document) \in Nat /\ b \in Nat /\ document[b].size \in Nat
    BY <1>0 DEF Block
  <1>2. ASSUME NEW p \in Nat \X Nat
        PROVE  p \in TextUpTo(document, b + 1, 0) <=> p \in TextUpTo(document, b, document[b].size)
    <2>1. p[1] \in Nat /\ p[2] \in Nat
      OBVIOUS
    <2>2. p[1] < b + 1 <=> p[1] < b \/ p[1] = b
      BY <1>1, <2>1
    <2>3. ~(p[2] < 0)
      BY <2>1
    <2>. QED
      BY <2>2, <2>3 DEF TextUpTo
  <1>. QED
    BY <1>2 DEF TextUpTo

LEMMA NoTextYet ==
  ASSUME NEW document \in Seq(Block)
  PROVE  TextUpTo(document, 1, 0) = {} /\ PlanUpTo(document, << >>, {})
  <1>1. ASSUME NEW p \in TextUpTo(document, 1, 0) PROVE FALSE
    BY DEF TextUpTo
  <1>2. << >> \in Plan /\ Len(<< >>) = 0
    BY DEF Plan
  <1>3. AllSeen(<< >>) = {}
    BY <1>2 DEF AllSeen
  <1>. QED
    BY <1>1, <1>2, <1>3 DEF PlanUpTo

-----------------------------------------------------------------------------
(* A plan is extended by a chunk, or its last chunk by a slice. *)

LEMMA SeenOfPlan ==
  ASSUME NEW plan, NEW p
  PROVE  p \in AllSeen(plan) <=> \E n \in 1 .. Len(plan) : p \in Seen(plan[n])
  BY DEF AllSeen

LEMMA PlanOneMore ==
  ASSUME NEW document, NEW plan, NEW text, PlanUpTo(document, plan, text),
         NEW chunk \in Seq(SliceType), NEW new,
         new # {}, new \cap text = {}, \A p \in new, q \in text : Before(q, p),
         new \subseteq Seen(chunk), Seen(chunk) \subseteq text \cup new,
         Len(plan) > 0 => Seen(chunk) \cap text \subseteq Seen(plan[Len(plan)]),
         Limited(document, chunk)
  PROVE  PlanUpTo(document, Append(plan, chunk), text \cup new)
  <1>1. PICK later : later = Append(plan, chunk)
    OBVIOUS
  <1>2. plan \in Plan /\ AllSeen(plan) = text
    BY DEF PlanUpTo
  <1>3. /\ later \in Plan /\ Len(later) = Len(plan) + 1 /\ Len(plan) \in Nat
        /\ later[Len(plan) + 1] = chunk /\ \A n \in 1 .. Len(plan) : later[n] = plan[n]
    BY <1>1, <1>2 DEF Plan
  <1>4. ASSUME NEW p PROVE p \in AllSeen(later) <=> p \in text \cup new
    <2>1. ASSUME p \in AllSeen(later) PROVE p \in text \cup new
      <3>1. PICK n \in 1 .. Len(later) : p \in Seen(later[n])
        BY <2>1, SeenOfPlan
      <3>2. CASE n = Len(plan) + 1
        BY <1>3, <3>1, <3>2
      <3>3. CASE n # Len(plan) + 1
        <4>1. n \in 1 .. Len(plan)
          BY <1>3, <3>3
        <4>2. p \in Seen(plan[n])
          BY <1>3, <3>1, <4>1
        <4>. QED
          BY <1>2, <4>1, <4>2, SeenOfPlan
      <3>. QED
        BY <3>2, <3>3
    <2>2. ASSUME p \in text PROVE p \in AllSeen(later)
      <3>1. PICK n \in 1 .. Len(plan) : p \in Seen(plan[n])
        BY <1>2, <2>2, SeenOfPlan
      <3>2. n \in 1 .. Len(later) /\ p \in Seen(later[n])
        BY <1>3, <3>1
      <3>. QED
        BY <3>2, SeenOfPlan
    <2>3. ASSUME p \in new PROVE p \in AllSeen(later)
      <3>1. Len(plan) + 1 \in 1 .. Len(later) /\ p \in Seen(later[Len(plan) + 1])
        BY <1>3, <2>3
      <3>. QED
        BY <3>1, SeenOfPlan
    <2>. QED
      BY <2>1, <2>2, <2>3
  <1>5. AllSeen(later) = text \cup new
    BY <1>4
  <1>6. ASSUME NEW n \in 1 .. Len(later) PROVE Limited(document, later[n])
    <2>1. CASE n = Len(plan) + 1
      BY <1>3, <2>1
    <2>2. CASE n # Len(plan) + 1
      <3>1. n \in 1 .. Len(plan)
        BY <1>3, <2>2
      <3>. QED
        BY <1>3, <3>1 DEF PlanUpTo
    <2>. QED
      BY <2>1, <2>2
  <1>7. ASSUME NEW n \in 2 .. Len(later) PROVE Continues(later[n - 1], later[n])
    <2>1. CASE n = Len(plan) + 1
      <3>1. Len(plan) > 0 /\ Len(plan) \in 1 .. Len(plan) /\ n - 1 = Len(plan)
        BY <1>3, <2>1
      <3>2. PICK last : last = plan[Len(plan)]
        OBVIOUS
      <3>3. later[n - 1] = last /\ later[n] = chunk
        BY <1>3, <2>1, <3>1, <3>2
      <3>4. Seen(last) \subseteq text
        BY <1>2, <3>1, <3>2, SeenOfPlan
      <3>5. Seen(chunk) \cap text \subseteq Seen(last)
        BY <3>1, <3>2
      <3>6. Seen(chunk) \ Seen(last) = new
        BY <3>4, <3>5
      <3>7. Continues(last, chunk)
        BY <3>4, <3>6 DEF Continues
      <3>. QED
        BY <3>3, <3>7
    <2>2. CASE n # Len(plan) + 1
      <3>1. n \in 2 .. Len(plan) /\ n - 1 \in 1 .. Len(plan) /\ n \in 1 .. Len(plan)
        BY <1>3, <2>2
      <3>2. Continues(plan[n - 1], plan[n])
        BY <3>1 DEF PlanUpTo
      <3>. QED
        BY <1>3, <3>1, <3>2
    <2>. QED
      BY <2>1, <2>2
  <1>8. PlanUpTo(document, later, text \cup new)
    BY <1>3, <1>5, <1>6, <1>7 DEF PlanUpTo
  <1>. QED
    BY <1>1, <1>8

LEMMA PlanFilled ==
  ASSUME NEW document, NEW plan \in Plan, NEW chunk \in Seq(SliceType), NEW text,
         PlanUpTo(document, Append(plan, chunk), text),
         NEW fuller \in Seq(SliceType), NEW new,
         \A p \in new, q \in text : Before(q, p), new \cap text = {},
         Seen(fuller) = Seen(chunk) \cup new, Limited(document, fuller)
  PROVE  PlanUpTo(document, Append(plan, fuller), text \cup new)
  <1>1. PICK old : old = Append(plan, chunk)
    OBVIOUS
  <1>2. PICK later : later = Append(plan, fuller)
    OBVIOUS
  <1>3. /\ old \in Plan /\ Len(old) = Len(plan) + 1 /\ Len(plan) \in Nat
        /\ old[Len(plan) + 1] = chunk /\ \A n \in 1 .. Len(plan) : old[n] = plan[n]
    BY <1>1 DEF Plan
  <1>4. /\ later \in Plan /\ Len(later) = Len(plan) + 1
        /\ later[Len(plan) + 1] = fuller /\ \A n \in 1 .. Len(plan) : later[n] = plan[n]
    BY <1>2 DEF Plan
  <1>5. /\ AllSeen(old) = text /\ \A n \in 1 .. Len(old) : Limited(document, old[n])
        /\ \A n \in 2 .. Len(old) : Continues(old[n - 1], old[n])
    BY <1>1 DEF PlanUpTo
  <1>6. \A n \in 1 .. Len(old) : n = Len(plan) + 1 \/ n \in 1 .. Len(plan)
    BY <1>3
  <1>7. Len(plan) + 1 \in 1 .. Len(old) /\ 1 .. Len(later) = 1 .. Len(old) /\ 2 .. Len(later) = 2 .. Len(old)
    BY <1>3, <1>4
  <1>8. ASSUME NEW p PROVE p \in AllSeen(later) <=> p \in text \cup new
    <2>1. p \in AllSeen(later) <=> \E n \in 1 .. Len(later) : p \in Seen(later[n])
      BY SeenOfPlan
    <2>2. p \in text <=> \E n \in 1 .. Len(old) : p \in Seen(old[n])
      BY <1>5, SeenOfPlan
    <2>3. \A n \in 1 .. Len(plan) : n \in 1 .. Len(old) /\ Seen(later[n]) = Seen(old[n])
      BY <1>3, <1>4
    <2>4. Seen(later[Len(plan) + 1]) = Seen(old[Len(plan) + 1]) \cup new
      BY <1>3, <1>4
    <2>. QED
      BY <1>6, <1>7, <2>1, <2>2, <2>3, <2>4
  <1>9. AllSeen(later) = text \cup new
    BY <1>8
  <1>10. ASSUME NEW n \in 1 .. Len(later) PROVE Limited(document, later[n])
    BY <1>3, <1>4, <1>5, <1>6, <1>7
  <1>11. ASSUME NEW n \in 2 .. Len(later) PROVE Continues(later[n - 1], later[n])
    <2>1. n - 1 \in 1 .. Len(plan) /\ later[n - 1] = plan[n - 1] /\ old[n - 1] = plan[n - 1]
          /\ n - 1 \in 1 .. Len(old)
      BY <1>3, <1>4
    <2>2. Continues(old[n - 1], old[n])
      BY <1>5, <1>7
    <2>3. CASE n = Len(plan) + 1
      <3>1. PICK last : last = plan[n - 1]
        OBVIOUS
      <3>2. Continues(last, chunk)
        BY <1>3, <2>1, <2>2, <2>3, <3>1
      <3>3. Seen(last) \subseteq text
        BY <1>5, <2>1, <3>1, SeenOfPlan
      <3>4. Seen(fuller) \ Seen(last) = (Seen(chunk) \ Seen(last)) \cup new
        BY <3>3
      <3>5. Continues(last, fuller)
        BY <3>2, <3>3, <3>4 DEF Continues
      <3>. QED
        BY <1>4, <2>1, <2>3, <3>1, <3>5
    <2>4. CASE n # Len(plan) + 1
      <3>1. n \in 1 .. Len(plan)
        BY <1>4, <2>4
      <3>2. later[n] = old[n]
        BY <1>3, <1>4, <3>1
      <3>. QED
        BY <2>1, <2>2, <3>2
    <2>. QED
      BY <2>3, <2>4
  <1>12. PlanUpTo(document, later, text \cup new)
    BY <1>4, <1>9, <1>10, <1>11 DEF PlanUpTo
  <1>. QED
    BY <1>2, <1>12

-----------------------------------------------------------------------------
(* Where a slice ends. *)

LEMMA MaxOfBounded ==
  ASSUME NEW T \in SUBSET Nat, T # {}, NEW n \in Nat, \A x \in T : x <= n
  PROVE  Max(T) \in T /\ \A x \in T : x <= Max(T)
  <1>1. PICK U : U = {k \in Nat : k <= n /\ n - k \in T}
    OBVIOUS
  <1>2. PICK y : y \in T
    OBVIOUS
  <1>3. n - y \in Nat /\ n - y <= n /\ n - (n - y) = y
    BY <1>2
  <1>4. n - y \in U
    BY <1>1, <1>2, <1>3
  <1>5. U \in SUBSET Nat /\ U # {}
    BY <1>1, <1>4
  <1>6. PICK k \in U : \A j \in U : k <= j
    BY <1>5, LeastNumber
  <1>7. k \in Nat /\ n - k \in T
    BY <1>1, <1>6
  <1>8. ASSUME NEW x \in T PROVE n - k >= x
    <2>1. x \in Nat /\ x <= n /\ n - x \in Nat /\ n - x <= n /\ n - (n - x) = x
      OBVIOUS
    <2>2. n - x \in U
      BY <1>1, <2>1
    <2>3. k <= n - x
      BY <1>6, <2>2
    <2>. QED
      BY <1>7, <2>1, <2>3
  <1>9. \E x \in T : \A z \in T : x >= z
    BY <1>7, <1>8
  <1>10. Max(T) \in T /\ \A z \in T : Max(T) >= z
    BY <1>9 DEF Max
  <1>. QED
    BY <1>10

LEMMA MaxOfTwo ==
  ASSUME NEW m \in Nat, NEW n \in Nat
  PROVE  Max({m, n}) = IF m >= n THEN m ELSE n
  <1>1. {m, n} \in SUBSET Nat /\ {m, n} # {} /\ m + n \in Nat /\ \A x \in {m, n} : x <= m + n
    OBVIOUS
  <1>2. Max({m, n}) \in {m, n} /\ \A x \in {m, n} : x <= Max({m, n})
    BY <1>1, MaxOfBounded
  <1>. QED
    BY <1>2

LEMMA MinOfTwo ==
  ASSUME NEW m \in Nat, NEW n \in Nat
  PROVE  Min({m, n}) = IF m <= n THEN m ELSE n
  <1>1. \E x \in {m, n} : \A y \in {m, n} : x <= y
    OBVIOUS
  <1>2. Min({m, n}) \in {m, n} /\ \A y \in {m, n} : Min({m, n}) <= y
    BY <1>1 DEF Min
  <1>. QED
    BY <1>2

\* A slice ends behind its beginning and within the block, at the limit or one
\* character behind it, which then is a blank.
LEMMA SliceEnds ==
  ASSUME source \in Seq(Block), NEW b \in 1 .. Len(source), NEW from \in Nat, from < source[b].size
  PROVE  LET end == SliceEnd(b, from) IN
         /\ end \in Nat /\ from < end /\ end <= source[b].size
         /\ end - from <= MaxCharacters
            \/ (end - from = MaxCharacters + 1 /\ end - 1 \in source[b].breaks)
  <1>1. source[b] \in Block
    OBVIOUS
  <1>2. source[b].size \in Nat /\ source[b].breaks \in SUBSET Nat
    BY <1>1 DEF Block
  <1>3. MaxCharacters \in Nat /\ MaxCharacters > 0 /\ from + MaxCharacters \in Nat
    BY ConfigAssumption
  <1>4. PICK hard : hard = Min({from + MaxCharacters, source[b].size})
    OBVIOUS
  <1>5. /\ hard \in Nat /\ from < hard /\ hard <= source[b].size
        /\ hard - from <= MaxCharacters
    BY <1>2, <1>3, <1>4, MinOfTwo
  <1>6. PICK blanks : blanks = {p \in source[b].breaks : from < p /\ p <= hard}
    OBVIOUS
  <1>7. SliceEnd(b, from) = IF hard < source[b].size /\ blanks # {} THEN Max(blanks) + 1 ELSE hard
    BY <1>4, <1>6 DEF SliceEnd
  <1>8. CASE hard < source[b].size /\ blanks # {}
    <2>1. blanks \in SUBSET Nat /\ \A p \in blanks : p <= hard
      BY <1>2, <1>6
    <2>2. Max(blanks) \in blanks
      BY <1>5, <1>8, <2>1, MaxOfBounded
    <2>3. /\ Max(blanks) \in Nat /\ Max(blanks) \in source[b].breaks
          /\ from < Max(blanks) /\ Max(blanks) <= hard
      BY <1>2, <1>6, <2>2
    <2>4. PICK last, end, size : last = Max(blanks) /\ end = last + 1 /\ size = source[b].size
      OBVIOUS
    <2>5. /\ last \in Nat /\ from < last /\ last <= hard /\ hard < size
          /\ hard \in Nat /\ size \in Nat /\ hard - from <= MaxCharacters
      BY <1>2, <1>5, <1>8, <2>3, <2>4
    <2>6. end \in Nat /\ from < end /\ end <= size /\ end - 1 = last
      BY <2>4, <2>5
    <2>7. end - from <= MaxCharacters \/ end - from = MaxCharacters + 1
      BY <1>3, <2>4, <2>5
    <2>. QED
      BY <1>7, <1>8, <2>3, <2>4, <2>6, <2>7
  <1>9. CASE ~(hard < source[b].size /\ blanks # {})
    BY <1>5, <1>7, <1>9
  <1>. QED
    BY <1>8, <1>9

-----------------------------------------------------------------------------
(***************************************************************************)
(* The invariant of the plan.                                              *)
(***************************************************************************)
PlanInv ==
  /\ source \in Seq(Block) /\ block \in 1 .. (Len(source) + 1) /\ start \in Nat
  /\ chunks \in Plan /\ open \in Seq(SliceType)
  /\ PlanUpTo(source, Chunks, TextUpTo(source, block, start))
  /\ Len(open) <= MaxBlocks /\ Characters(open) <= MaxCharacters
  /\ start # 0 => /\ open = << >> /\ block <= Len(source)
                  /\ Oversized(block) /\ start < source[block].size

LEMMA PlanInitially ==
  ASSUME PlanInit
  PROVE  PlanInv
  <1>1. source \in Seq(Block) /\ chunks = << >> /\ open = << >> /\ block = 1 /\ start = 0
    BY SourcesAssumption DEF PlanInit
  <1>2. Len(source) \in Nat /\ block \in 1 .. (Len(source) + 1) /\ start \in Nat
    BY <1>1
  <1>3. Chunks = << >>
    BY <1>1 DEF Chunks, Flushed
  <1>4. PlanUpTo(source, Chunks, TextUpTo(source, block, start))
    BY <1>1, <1>3, NoTextYet
  <1>5. chunks \in Plan /\ open \in Seq(SliceType) /\ Len(open) = 0
    BY <1>1 DEF Plan
  <1>6. Characters(open) = 0
    BY <1>1, CharactersOfNone
  <1>7. Len(open) <= MaxBlocks /\ Characters(open) <= MaxCharacters
    BY <1>5, <1>6, ConfigAssumption
  <1>. QED
    BY <1>1, <1>2, <1>4, <1>5, <1>7 DEF PlanInv

\* What the plan rests on at a block that has not been read to its end.
LEMMA PlanAtBlock ==
  ASSUME PlanInv, ~Planned
  PROVE  /\ block \in 1 .. Len(source) /\ block + 1 \in 1 .. (Len(source) + 1)
         /\ source[block] \in Block /\ source[block].size \in Nat
  <1>1. block \in 1 .. (Len(source) + 1) /\ Len(source) \in Nat /\ ~(block > Len(source))
    BY DEF PlanInv, Planned
  <1>2. block \in 1 .. Len(source) /\ block + 1 \in 1 .. (Len(source) + 1)
    BY <1>1
  <1>3. source[block] \in Block
    BY <1>2 DEF PlanInv
  <1>. QED
    BY <1>2, <1>3 DEF Block

LEMMA SkipKeepsPlan ==
  ASSUME PlanInv, SkipBlock
  PROVE  PlanInv'
  <1>1. /\ block \in 1 .. Len(source) /\ block + 1 \in 1 .. (Len(source) + 1)
        /\ source[block].size \in Nat
    BY PlanAtBlock DEF SkipBlock
  <1>2. source[block].size = 0
    BY <1>1 DEF SkipBlock, HasText
  <1>3. start = 0
    BY <1>2 DEF PlanInv
  <1>4. /\ source' = source /\ chunks' = chunks /\ open' = open /\ start' = start
        /\ block' = block + 1
    BY DEF SkipBlock
  <1>5. TextUpTo(source, block + 1, 0) = TextUpTo(source, block, 0)
    BY <1>1, <1>2, TextOfBlock DEF PlanInv
  <1>6. Chunks' = Chunks
    BY <1>4 DEF Chunks, Flushed
  <1>7. PlanUpTo(source, Chunks, TextUpTo(source, block + 1, 0))
    BY <1>3, <1>5 DEF PlanInv
  <1>8. PlanUpTo(source, Chunks, TextUpTo(source, block, start))'
    BY <1>3, <1>4, <1>6, <1>7
  <1>. QED
    BY <1>1, <1>3, <1>4, <1>8 DEF PlanInv

\* What is repeated is a part of the open chunk, shorter than a chunk may be.
LEMMA RepeatedIsPart ==
  ASSUME PlanInv, open # << >>
  PROVE  /\ Repeated \in Seq(SliceType) /\ Len(Repeated) < MaxBlocks
         /\ Seen(Repeated) \subseteq Seen(open)
  <1>1. /\ open \in Seq(SliceType) /\ Len(open) \in Nat /\ Len(open) > 0
        /\ Len(open) <= MaxBlocks /\ DOMAIN open = 1 .. Len(open)
    BY DEF PlanInv
  <1>2. MaxBlocks \in Nat /\ OverlapBlocks \in Nat /\ OverlapBlocks < MaxBlocks
    BY ConfigAssumption
  <1>3. PICK low : low = Max({1, Len(open) - OverlapBlocks + 1})
    OBVIOUS
  <1>4. low \in 1 .. (Len(open) + 1) /\ Len(open) - low + 1 <= OverlapBlocks
    <2>1. CASE Len(open) - OverlapBlocks + 1 \in Nat
      BY <1>1, <1>2, <1>3, <2>1, MaxOfTwo
    <2>2. CASE Len(open) - OverlapBlocks + 1 \notin Nat
      <3>1. PICK k \in Int : k = Len(open) - OverlapBlocks + 1 /\ k < 1
        BY <1>1, <1>2, <2>2
      <3>2. \E x \in {1, k} : \A y \in {1, k} : x >= y
        BY <3>1
      <3>3. Max({1, k}) \in {1, k} /\ \A y \in {1, k} : Max({1, k}) >= y
        BY <3>2 DEF Max
      <3>4. low = 1
        BY <1>3, <3>1, <3>3
      <3>. QED
        BY <1>1, <1>2, <3>1, <3>4
    <2>. QED
      BY <2>1, <2>2
  <1>5. PICK r : r = SubSeq(open, low, Len(open))
    OBVIOUS
  <1>6. low \in Int /\ Len(open) \in Int /\ \A i \in low .. Len(open) : open[i] \in SliceType
    BY <1>1, <1>4
  <1>7. /\ r \in Seq(SliceType)
        /\ Len(r) = IF low <= Len(open) THEN Len(open) - low + 1 ELSE 0
        /\ \A i \in 1 .. (Len(open) - low + 1) : r[i] = open[low + i - 1]
    BY <1>5, <1>6, SubSeqProperties
  <1>8. ASSUME NEW p \in Seen(r) PROVE p \in Seen(open)
    <2>1. PICK i \in 1 .. Len(r) : p \in Shows(r[i])
      BY <1>7, SeenOfChunk
    <2>2. i \in 1 .. (Len(open) - low + 1) /\ low + i - 1 \in 1 .. Len(open)
      BY <1>1, <1>4, <1>7
    <2>3. p \in Shows(open[low + i - 1])
      BY <1>7, <2>1, <2>2
    <2>. QED
      BY <1>1, <2>2, <2>3, SeenOfChunk
  <1>9. Len(r) < MaxBlocks
    BY <1>1, <1>2, <1>4, <1>7
  <1>10. Repeated = r
    BY <1>3, <1>5 DEF Repeated
  <1>. QED
    BY <1>7, <1>8, <1>9, <1>10

LEMMA PlaceKeepsPlan ==
  ASSUME PlanInv, PlaceBlock
  PROVE  PlanInv'
  <1>1. /\ block \in 1 .. Len(source) /\ block + 1 \in 1 .. (Len(source) + 1)
        /\ source[block].size \in Nat
    BY PlanAtBlock DEF PlaceBlock
  <1>2. source[block].size > 0 /\ source[block].size <= MaxCharacters
    BY <1>1, ConfigAssumption DEF PlaceBlock, HasText, Oversized
  <1>3. start = 0
    BY DEF PlanInv, PlaceBlock
  <1>4. /\ source \in Seq(Block) /\ chunks \in Plan /\ open \in Seq(SliceType)
        /\ Len(open) \in Nat /\ DOMAIN open = 1 .. Len(open)
        /\ PlanUpTo(source, Chunks, TextUpTo(source, block, 0))
        /\ Len(open) <= MaxBlocks /\ Characters(open) <= MaxCharacters
    BY <1>3 DEF PlanInv
  <1>5. PICK x : x = Whole(block)
    OBVIOUS
  <1>6. PICK text : text = TextUpTo(source, block, 0)
    OBVIOUS
  <1>7. x = Slice(block, 0, source[block].size)
    BY <1>5 DEF Whole
  <1>8. /\ x \in SliceType /\ Shows(x) # {} /\ \A p \in Shows(x), q \in text : Before(q, p)
        /\ Shows(x) \cap text = {}
        /\ TextUpTo(source, block, source[block].size) = text \cup Shows(x)
    BY <1>1, <1>2, <1>4, <1>6, <1>7, TextOfSlice
  <1>9. TextUpTo(source, block + 1, 0) = text \cup Shows(x)
    BY <1>1, <1>4, <1>8, TextOfBlock
  <1>10. x.to - x.from = source[block].size
    BY <1>1, <1>7 DEF Slice
  <1>11. MaxBlocks \in Nat \ {0} /\ MaxCharacters \in Nat
    BY ConfigAssumption
  <1>12. block' = block + 1 /\ source' = source /\ start' = 0
    BY <1>3 DEF PlaceBlock
  <1>13. SUFFICES /\ chunks' \in Plan /\ open' \in Seq(SliceType)
                  /\ Len(open') <= MaxBlocks /\ Characters(open') <= MaxCharacters
                  /\ PlanUpTo(source, Chunks', text \cup Shows(x))
    <2>1. PlanUpTo(source, Chunks, TextUpTo(source, block, start))'
      BY <1>9, <1>12, <1>13
    <2>. QED
      BY <1>1, <1>4, <1>12, <1>13, <2>1 DEF PlanInv
  <1>14. CASE open = << >>
    <2>1. open' = Append(open, x) /\ chunks' = chunks
      BY <1>5, <1>14 DEF PlaceBlock
    <2>2. open' = <<x>>
      BY <1>14, <2>1
    <2>3. /\ <<x>> \in Seq(SliceType) /\ Len(<<x>>) = 1 /\ Seen(<<x>>) = Shows(x)
          /\ Characters(<<x>>) = source[block].size
      BY <1>8, <1>10, SeenOfOne
    <2>4. Limited(source, <<x>>)
      BY <1>2, <1>11, <2>3 DEF Limited
    <2>5. PlanUpTo(source, chunks, text)
      BY <1>4, <1>6, <1>14 DEF Chunks, Flushed
    <2>6. PlanUpTo(source, Append(chunks, <<x>>), text \cup Shows(x))
      <3>1. Len(chunks) > 0 => Seen(<<x>>) \cap text \subseteq Seen(chunks[Len(chunks)])
        BY <1>8, <2>3
      <3>2. Shows(x) \subseteq Seen(<<x>>) /\ Seen(<<x>>) \subseteq text \cup Shows(x)
        BY <2>3
      <3>. QED
        BY <1>8, <2>3, <2>4, <2>5, <3>1, <3>2, PlanOneMore
    <2>7. Chunks' = Append(chunks, <<x>>)
      BY <2>1, <2>2 DEF Chunks, Flushed
    <2>. QED
      BY <1>2, <1>4, <1>11, <2>1, <2>2, <2>3, <2>6, <2>7
  <1>15. CASE open # << >> /\ Fits(block)
    <2>1. open' = Append(open, x) /\ chunks' = chunks
      BY <1>5, <1>15 DEF PlaceBlock
    <2>2. PICK fuller : fuller = Append(open, x)
      OBVIOUS
    <2>3. fuller \in Seq(SliceType) /\ Seen(fuller) = Seen(open) \cup Shows(x)
      BY <1>4, <1>8, <2>2, SeenOfOneMore
    <2>4. Len(fuller) = Len(open) + 1 /\ fuller # << >>
      BY <1>4, <1>8, <2>2
    <2>5. Characters(fuller) = Characters(open) + source[block].size
      BY <1>4, <1>8, <1>10, <2>2, CharactersOfOneMore
    <2>6. Len(fuller) <= MaxBlocks /\ Characters(fuller) <= MaxCharacters
      BY <1>4, <1>11, <1>15, <2>4, <2>5 DEF Fits
    <2>7. Limited(source, fuller)
      BY <2>6 DEF Limited
    <2>8. PlanUpTo(source, Append(chunks, open), text)
      BY <1>4, <1>6, <1>15 DEF Chunks, Flushed
    <2>9. PlanUpTo(source, Append(chunks, fuller), text \cup Shows(x))
      BY <1>4, <1>8, <2>3, <2>7, <2>8, PlanFilled
    <2>10. Chunks' = Append(chunks, fuller)
      BY <2>1, <2>2, <2>4 DEF Chunks, Flushed
    <2>. QED
      BY <1>4, <2>1, <2>2, <2>3, <2>6, <2>9, <2>10
  <1>16. CASE open # << >> /\ ~Fits(block)
    <2>1. PICK r : r = RepeatedBeside(block)
      OBVIOUS
    <2>2. open' = Append(r, x) /\ chunks' = Flushed
      BY <1>5, <1>16, <2>1 DEF PlaceBlock
    <2>3. /\ r \in Seq(SliceType) /\ Len(r) < MaxBlocks /\ Seen(r) \subseteq Seen(open)
          /\ Characters(r) + source[block].size <= MaxCharacters
      <3>1. /\ Repeated \in Seq(SliceType) /\ Len(Repeated) < MaxBlocks
            /\ Seen(Repeated) \subseteq Seen(open)
        BY <1>16, RepeatedIsPart
      <3>2. CASE Characters(Repeated) + source[block].size > MaxCharacters
        <4>1. r = << >>
          BY <2>1, <3>2 DEF RepeatedBeside
        <4>2. Len(r) = 0 /\ Seen(r) = {} /\ Characters(r) = 0 /\ r \in Seq(SliceType)
          BY <4>1, SeenOfNone, CharactersOfNone
        <4>. QED
          BY <1>1, <1>2, <1>11, <4>2
      <3>3. CASE ~(Characters(Repeated) + source[block].size > MaxCharacters)
        <4>1. r = Repeated
          BY <2>1, <3>3 DEF RepeatedBeside
        <4>2. Characters(Repeated) \in Int
          BY <3>1, CharactersType
        <4>3. Characters(Repeated) + source[block].size <= MaxCharacters
          BY <1>1, <1>11, <3>3, <4>2
        <4>. QED
          BY <3>1, <4>1, <4>3
      <3>. QED
        BY <3>2, <3>3
    <2>4. PICK next : next = Append(r, x)
      OBVIOUS
    <2>5. next \in Seq(SliceType) /\ Seen(next) = Seen(r) \cup Shows(x)
      BY <1>8, <2>3, <2>4, SeenOfOneMore
    <2>6. Len(next) = Len(r) + 1 /\ next # << >> /\ Len(r) \in Nat
      BY <1>8, <2>3, <2>4
    <2>7. Characters(next) = Characters(r) + source[block].size
      BY <1>8, <1>10, <2>3, <2>4, CharactersOfOneMore
    <2>8. Len(next) <= MaxBlocks /\ Characters(next) <= MaxCharacters
      BY <1>11, <2>3, <2>6, <2>7
    <2>9. Limited(source, next)
      BY <2>8 DEF Limited
    <2>10. PICK plan : plan = Append(chunks, open)
      OBVIOUS
    <2>11. Chunks = plan /\ Flushed = plan
      BY <1>16, <2>10 DEF Chunks, Flushed
    <2>12. plan \in Plan /\ Len(plan) = Len(chunks) + 1 /\ Len(chunks) \in Nat
           /\ plan[Len(plan)] = open
      BY <1>4, <2>10 DEF Plan
    <2>13. PlanUpTo(source, plan, text)
      BY <1>4, <1>6, <2>11
    <2>14. Seen(open) \subseteq text
      <3>1. AllSeen(plan) = text
        BY <2>13 DEF PlanUpTo
      <3>2. Len(plan) \in 1 .. Len(plan)
        BY <2>12
      <3>. QED
        BY <2>12, <3>1, <3>2, SeenOfPlan
    <2>15. PlanUpTo(source, Append(plan, next), text \cup Shows(x))
      <3>1. Seen(next) \cap text \subseteq Seen(plan[Len(plan)])
        BY <1>8, <2>3, <2>5, <2>12
      <3>2. Shows(x) \subseteq Seen(next) /\ Seen(next) \subseteq text \cup Shows(x)
        BY <2>3, <2>5, <2>14
      <3>. QED
        BY <1>8, <2>5, <2>9, <2>13, <3>1, <3>2, PlanOneMore
    <2>16. Chunks' = Append(plan, next)
      BY <2>2, <2>4, <2>6, <2>11 DEF Chunks, Flushed
    <2>. QED
      BY <2>2, <2>4, <2>5, <2>8, <2>11, <2>12, <2>15, <2>16
  <1>. QED
    BY <1>14, <1>15, <1>16

LEMMA CutKeepsPlan ==
  ASSUME PlanInv, CutBlock
  PROVE  PlanInv'
  <1>1. /\ block \in 1 .. Len(source) /\ block + 1 \in 1 .. (Len(source) + 1)
        /\ source[block].size \in Nat
    BY PlanAtBlock DEF CutBlock
  <1>2. MaxCharacters \in Nat \ {0} /\ MaxBlocks \in Nat \ {0}
    BY ConfigAssumption
  <1>3. source[block].size > MaxCharacters /\ start \in Nat /\ start < source[block].size
    BY <1>1, <1>2 DEF PlanInv, CutBlock, Oversized
  <1>4. /\ source \in Seq(Block) /\ chunks \in Plan /\ open \in Seq(SliceType)
        /\ PlanUpTo(source, Chunks, TextUpTo(source, block, start))
    BY DEF PlanInv
  <1>5. PICK end : end = SliceEnd(block, start)
    OBVIOUS
  <1>6. /\ end \in Nat /\ start < end /\ end <= source[block].size
        /\ end - start <= MaxCharacters
           \/ (end - start = MaxCharacters + 1 /\ end - 1 \in source[block].breaks)
    BY <1>1, <1>3, <1>4, <1>5, SliceEnds
  <1>7. PICK x : x = Slice(block, start, end)
    OBVIOUS
  <1>8. PICK text : text = TextUpTo(source, block, start)
    OBVIOUS
  <1>9. /\ x \in SliceType /\ Shows(x) # {} /\ \A p \in Shows(x), q \in text : Before(q, p)
        /\ Shows(x) \cap text = {} /\ TextUpTo(source, block, end) = text \cup Shows(x)
    BY <1>1, <1>3, <1>4, <1>6, <1>7, <1>8, TextOfSlice
  <1>10. x.to = end /\ x.from = start /\ x.block = block
    BY <1>7 DEF Slice
  <1>11. /\ <<x>> \in Seq(SliceType) /\ Len(<<x>>) = 1 /\ <<x>>[1] = x /\ Seen(<<x>>) = Shows(x)
         /\ Characters(<<x>>) = end - start
    BY <1>9, <1>10, SeenOfOne
  <1>12. Limited(source, <<x>>)
    BY <1>2, <1>6, <1>10, <1>11 DEF Limited
  <1>13. PICK plan : plan = Flushed
    OBVIOUS
  <1>14. PlanUpTo(source, plan, text) /\ plan \in Plan
    BY <1>4, <1>8, <1>13 DEF Chunks, PlanUpTo
  <1>15. PlanUpTo(source, Append(plan, <<x>>), text \cup Shows(x))
    <2>1. Len(plan) > 0 => Seen(<<x>>) \cap text \subseteq Seen(plan[Len(plan)])
      BY <1>9, <1>11
    <2>2. Shows(x) \subseteq Seen(<<x>>) /\ Seen(<<x>>) \subseteq text \cup Shows(x)
      BY <1>11
    <2>. QED
      BY <1>9, <1>11, <1>12, <1>14, <2>1, <2>2, PlanOneMore
  <1>16. /\ chunks' = Append(plan, <<x>>) /\ open' = << >> /\ source' = source
         /\ IF end = source[block].size THEN block' = block + 1 /\ start' = 0
            ELSE block' = block /\ start' = end
    BY <1>5, <1>7, <1>13 DEF CutBlock
  <1>17. Chunks' = Append(plan, <<x>>)
    BY <1>16 DEF Chunks, Flushed
  <1>18. chunks' \in Plan
    BY <1>15, <1>16 DEF PlanUpTo
  <1>19. open' \in Seq(SliceType) /\ Len(open') <= MaxBlocks /\ Characters(open') <= MaxCharacters
    <2>1. Len(<< >>) = 0 /\ << >> \in Seq(SliceType) /\ Characters(<< >>) = 0
      BY CharactersOfNone
    <2>. QED
      BY <1>2, <1>16, <2>1
  <1>20. CASE end = source[block].size
    <2>1. block' = block + 1 /\ start' = 0
      BY <1>16, <1>20
    <2>2. TextUpTo(source, block + 1, 0) = text \cup Shows(x)
      BY <1>1, <1>4, <1>9, <1>20, TextOfBlock
    <2>3. PlanUpTo(source, Chunks, TextUpTo(source, block, start))'
      BY <1>15, <1>16, <1>17, <2>1, <2>2
    <2>. QED
      BY <1>1, <1>4, <1>16, <1>18, <1>19, <2>1, <2>3 DEF PlanInv
  <1>21. CASE end # source[block].size
    <2>1. block' = block /\ start' = end
      BY <1>16, <1>21
    <2>2. PlanUpTo(source, Chunks, TextUpTo(source, block, start))'
      BY <1>9, <1>15, <1>16, <1>17, <2>1
    <2>3. Oversized(block)' /\ block' <= Len(source') /\ start' < source'[block'].size
      BY <1>1, <1>3, <1>6, <1>16, <1>21, <2>1 DEF Oversized
    <2>4. Len(source) \in Nat
      BY <1>4
    <2>5. block' \in 1 .. (Len(source') + 1) /\ start' \in Nat
      BY <1>1, <1>6, <1>16, <2>1, <2>4
    <2>. QED
      BY <1>4, <1>16, <1>18, <1>19, <2>2, <2>3, <2>5 DEF PlanInv
  <1>. QED
    BY <1>20, <1>21

LEMMA PlanStepKeepsPlan ==
  ASSUME PlanInv, PlanStep
  PROVE  PlanInv'
  BY SkipKeepsPlan, PlaceKeepsPlan, CutKeepsPlan DEF PlanStep

LEMMA PlanUnchanged ==
  ASSUME PlanInv, UNCHANGED planVars
  PROVE  PlanInv' /\ Chunks' = Chunks /\ Planned' = Planned
  BY DEF PlanInv, planVars, Planned, Chunks, Flushed, Oversized

\* Planning is done once heard is not empty, so only plan steps plan.
LEMMA PlanStepEffect ==
  ASSUME ExtractionNext
  PROVE  \/ PlanStep /\ UNCHANGED <<heard, result>>
         \/ (Call \/ Finish) /\ UNCHANGED planVars
  BY DEF ExtractionNext, Call, Finish

\* However the document is cut: what was planned so far shows its text up to the
\* place that is read next, in order and within the limits.
THEOREM PlanKept == ExtractionSpec => []PlanInv
  <1>1. ExtractionInit => PlanInv
    BY PlanInitially DEF ExtractionInit
  <1>2. PlanInv /\ [ExtractionNext]_extractionVars => PlanInv'
    <2>. SUFFICES ASSUME PlanInv, [ExtractionNext]_extractionVars PROVE PlanInv'
      OBVIOUS
    <2>1. CASE ExtractionNext
      BY <2>1, PlanStepEffect, PlanStepKeepsPlan, PlanUnchanged
    <2>2. CASE UNCHANGED extractionVars
      BY <2>2, PlanUnchanged DEF extractionVars
    <2>. QED
      BY <2>1, <2>2
  <1>. QED
    BY <1>1, <1>2, PTL DEF ExtractionSpec

LEMMA AllTextIsRead ==
  ASSUME PlanInv, Planned
  PROVE  Text = TextUpTo(source, block, start)
  <1>1. /\ block = Len(source) + 1 /\ Len(source) \in Nat /\ start = 0
        /\ source \in Seq(Block) /\ DOMAIN source = 1 .. Len(source)
    BY DEF PlanInv, Planned
  <1>2. ASSUME NEW p
        PROVE  p \in Text <=> p \in TextUpTo(source, block, start)
    <2>1. ASSUME p \in Text PROVE p \in TextUpTo(source, block, start)
      <3>1. PICK b \in 1 .. Len(source) : p \in {<<b, at>> : at \in 0 .. (source[b].size - 1)}
        BY <1>1, <2>1 DEF Text
      <3>2. PICK at \in 0 .. (source[b].size - 1) : p = <<b, at>>
        BY <3>1
      <3>3. source[b] \in Block
        BY <1>1
      <3>4. source[b].size \in Nat
        BY <3>3 DEF Block
      <3>5. p \in Nat \X Nat /\ p[1] = b /\ p[2] = at /\ at < source[b].size /\ b < block
        BY <1>1, <3>2, <3>4
      <3>. QED
        BY <3>5 DEF TextUpTo
    <2>2. ASSUME p \in TextUpTo(source, block, start) PROVE p \in Text
      <3>1. p \in Nat \X Nat /\ p[1] \in 1 .. Len(source) /\ p[2] < source[p[1]].size
        BY <2>2 DEF TextUpTo
      <3>2. source[p[1]] \in Block
        BY <1>1, <3>1
      <3>3. source[p[1]].size \in Nat
        BY <3>2 DEF Block
      <3>4. p[2] \in 0 .. (source[p[1]].size - 1) /\ p = <<p[1], p[2]>>
        BY <3>1, <3>3
      <3>5. p \in {<<p[1], at>> : at \in 0 .. (source[p[1]].size - 1)}
        BY <3>4
      <3>. QED
        BY <1>1, <3>1, <3>5 DEF Text
    <2>. QED
      BY <2>1, <2>2
  <1>. QED
    BY <1>2

LEMMA PlanCoversText == PlanInv => PlanCovers
  <1>. SUFFICES ASSUME PlanInv, Planned PROVE PlanCovers
    BY DEF PlanCovers
  <1>1. PICK plan : plan = Chunks
    OBVIOUS
  <1>2. PlanUpTo(source, plan, Text)
    BY <1>1, AllTextIsRead DEF PlanInv
  <1>3. plan \in Plan
    BY <1>2 DEF PlanUpTo
  <1>4. DOMAIN plan = 1 .. Len(plan) /\ Len(plan) \in Nat
    BY <1>3 DEF Plan
  <1>5. UNION {Seen(plan[n]) : n \in DOMAIN plan} = Text
    BY <1>2, <1>4 DEF PlanUpTo, AllSeen
  <1>6. ASSUME NEW n \in DOMAIN plan
        PROVE  /\ Len(plan[n]) <= MaxBlocks
               /\ Characters(plan[n]) <= MaxCharacters
                  \/ (Len(plan[n]) = 1 /\ Characters(plan[n]) = MaxCharacters + 1
                      /\ plan[n][1].to - 1 \in source[plan[n][1].block].breaks)
               /\ n > 1 => /\ Seen(plan[n]) \ Seen(plan[n - 1]) # {}
                           /\ \A p \in Seen(plan[n]) \ Seen(plan[n - 1]),
                                 q \in Seen(plan[n - 1]) : Before(q, p)
    <2>1. Limited(source, plan[n])
      BY <1>2, <1>4 DEF PlanUpTo
    <2>2. n > 1 => Continues(plan[n - 1], plan[n])
      <3>1. n > 1 => n \in 2 .. Len(plan)
        BY <1>4
      <3>. QED
        BY <1>2, <3>1 DEF PlanUpTo
    <2>. QED
      BY <2>1, <2>2 DEF Limited, Continues
  <1>. QED
    BY <1>1, <1>5, <1>6 DEF PlanCovers

\* Every position of the text is shown to the provider, in order, by chunks that
\* keep their limits and go on where the one before them ended, for every document
\* and every configuration (extraction/chunking.py plan_chunks).
THEOREM ChunksCoverTheText == ExtractionSpec => []PlanCovers
  BY PlanKept, PlanCoversText, PTL

-----------------------------------------------------------------------------
(***************************************************************************)
(* Finite sets in a strict order R, a set of pairs: the last element, the  *)
(* rank of an element, and a subset without conflicts.                     *)
(***************************************************************************)

Ordered(R, S) ==
  /\ \A x \in S : <<x, x>> \notin R
  /\ \A x, y \in S : x # y => <<x, y>> \in R \/ <<y, x>> \in R
  /\ \A x, y, z \in S : <<x, y>> \in R /\ <<y, z>> \in R => <<x, z>> \in R

\* What fails of a finite set, fails of a subset all of whose parts it holds of.
LEMMA SmallestSubset ==
  ASSUME NEW S, IsFiniteSet(S), NEW T \in SUBSET (SUBSET S), T # {}
  PROVE  \E U \in T : \A V \in T : ~(V \subseteq U /\ V # U)
  <1>1. PICK R : R = StrictSubsetOrdering(S)
    OBVIOUS
  <1>2. PICK F : F = FiniteSubsetsOf(S)
    OBVIOUS
  <1>3. IsWellFoundedOn(R, F)
    BY <1>1, <1>2, FS_StrictSubsetOrderingWellFounded
  <1>4. F = SUBSET S
    BY <1>2, FS_FiniteSubsetsOfFinite
  <1>5. PICK U \in T : \A V \in T : ~(<<V, U>> \in R)
    BY <1>3, <1>4, WFMin
  <1>6. ASSUME NEW V \in T, V \subseteq U, V # U PROVE FALSE
    <2>1. V \in SUBSET S /\ U \in SUBSET S
      OBVIOUS
    <2>2. <<V, U>> \in R
      BY <1>1, <1>6, <2>1 DEF StrictSubsetOrdering
    <2>. QED
      BY <1>5, <2>2
  <1>. QED
    BY <1>5, <1>6

LEMMA LastElement ==
  ASSUME NEW S, IsFiniteSet(S), S # {}, NEW R, Ordered(R, S)
  PROVE  \E m \in S : \A x \in S \ {m} : <<x, m>> \in R
  <1>. DEFINE HasLast(U) == \E m \in U : \A x \in U \ {m} : <<x, m>> \in R
  <1>. PICK T : T = {U \in SUBSET S : U # {} /\ ~HasLast(U)}
    OBVIOUS
  <1>. SUFFICES ASSUME T # {} PROVE FALSE
    OBVIOUS
  <1>. T \in SUBSET (SUBSET S)
    OBVIOUS
  <1>. HIDE DEF HasLast
  <1>1. PICK U \in T : \A V \in T : ~(V \subseteq U /\ V # U)
    BY SmallestSubset
  <1>2. U \in SUBSET S /\ U # {} /\ ~HasLast(U)
    OBVIOUS
  <1>3. PICK x \in U : TRUE
    BY <1>2
  <1>4. PICK V : V = U \ {x}
    OBVIOUS
  <1>5. V \subseteq U /\ V # U /\ V \in SUBSET S
    BY <1>2, <1>3, <1>4
  <1>6. V \notin T
    BY <1>1, <1>5
  <1>7. CASE V = {}
    <2>1. \A y \in U \ {x} : <<y, x>> \in R
      BY <1>4, <1>7
    <2>. QED
      BY <1>2, <1>3, <2>1 DEF HasLast
  <1>8. CASE V # {}
    <2>1. HasLast(V)
      BY <1>5, <1>6, <1>8
    <2>2. PICK m \in V : \A y \in V \ {m} : <<y, m>> \in R
      BY <2>1 DEF HasLast
    <2>3. m \in S /\ x \in S /\ m # x /\ m \in U
      BY <1>2, <1>3, <1>4, <2>2
    <2>4. CASE <<x, m>> \in R
      <3>1. \A y \in U \ {m} : <<y, m>> \in R
        BY <1>4, <2>2, <2>4
      <3>. QED
        BY <1>2, <2>3, <3>1 DEF HasLast
    <2>5. CASE <<m, x>> \in R
      <3>1. ASSUME NEW y \in U \ {x} PROVE <<y, x>> \in R
        <4>1. y \in S /\ (y = m \/ <<y, m>> \in R)
          BY <1>2, <1>4, <2>2, <3>1
        <4>. QED
          BY <2>3, <2>5, <4>1 DEF Ordered
      <3>. QED
        BY <1>2, <1>3, <3>1 DEF HasLast
    <2>. QED
      BY <2>3, <2>4, <2>5 DEF Ordered
  <1>. QED
    BY <1>7, <1>8

LEMMA OrderedSubset ==
  ASSUME NEW S, NEW R, Ordered(R, S), NEW U \in SUBSET S
  PROVE  Ordered(R, U)
  BY DEF Ordered

ConflictFree(C, S, K) == \A p \in S : p \in K <=> ~ \E q \in K : <<q, p>> \in C

\* Elements that conflict only with earlier ones: there is a subset of those that
\* conflict with no earlier one of it.
LEMMA WithoutConflicts ==
  ASSUME NEW S, IsFiniteSet(S), NEW R, Ordered(R, S), NEW C, C \subseteq R
  PROVE  \E K \in SUBSET S : ConflictFree(C, S, K)
  <1>. DEFINE Free(U) == \E K \in SUBSET U : ConflictFree(C, U, K)
  <1>. PICK T : T = {U \in SUBSET S : ~Free(U)}
    OBVIOUS
  <1>. HIDE DEF Free
  <1>0. SUFFICES ASSUME T # {} PROVE FALSE
    <2>. SUFFICES ASSUME ~Free(S) PROVE T # {}
      BY DEF Free
    <2>. QED
      OBVIOUS
  <1>. T \in SUBSET (SUBSET S)
    OBVIOUS
  <1>1. PICK U \in T : \A V \in T : ~(V \subseteq U /\ V # U)
    BY <1>0, SmallestSubset
  <1>2. U \in SUBSET S /\ ~Free(U)
    OBVIOUS
  <1>3. U # {}
    BY <1>2 DEF Free, ConflictFree
  <1>4. IsFiniteSet(U)
    BY <1>2, FS_Subset
  <1>5. Ordered(R, U)
    BY <1>2, OrderedSubset
  <1>6. PICK m \in U : \A x \in U \ {m} : <<x, m>> \in R
    BY <1>3, <1>4, <1>5, LastElement
  <1>7. PICK V : V = U \ {m}
    OBVIOUS
  <1>8. V \subseteq U /\ V # U /\ V \in SUBSET S
    BY <1>2, <1>6, <1>7
  <1>9. Free(V)
    BY <1>1, <1>8
  <1>10. PICK K \in SUBSET V : \A p \in V : p \in K <=> ~ \E q \in K : <<q, p>> \in C
    BY <1>9 DEF Free, ConflictFree
  <1>11. ASSUME NEW p \in U PROVE <<m, p>> \notin C
    <2>1. <<m, p>> \notin R
      BY <1>5, <1>6 DEF Ordered
    <2>. QED
      BY <2>1
  <1>12. CASE \E q \in K : <<q, m>> \in C
    <2>1. ASSUME NEW p \in U PROVE p \in K <=> ~ \E q \in K : <<q, p>> \in C
      BY <1>7, <1>10, <1>12
    <2>2. K \in SUBSET U
      BY <1>7
    <2>. QED
      BY <1>2, <2>1, <2>2 DEF Free, ConflictFree
  <1>13. CASE ~ \E q \in K : <<q, m>> \in C
    <2>1. PICK L : L = K \cup {m}
      OBVIOUS
    <2>2. ASSUME NEW p \in U PROVE p \in L <=> ~ \E q \in L : <<q, p>> \in C
      <3>1. (\E q \in L : <<q, p>> \in C) <=> \E q \in K : <<q, p>> \in C
        BY <1>11, <2>1
      <3>2. CASE p = m
        BY <1>13, <2>1, <3>1, <3>2
      <3>3. CASE p # m
        BY <1>7, <1>10, <2>1, <3>1, <3>3
      <3>. QED
        BY <3>2, <3>3
    <2>3. L \in SUBSET U
      BY <1>7, <2>1
    <2>. QED
      BY <1>2, <2>2, <2>3 DEF Free, ConflictFree
  <1>. QED
    BY <1>12, <1>13

Smaller(R, S, x) == {y \in S : <<y, x>> \in R}

\* Ranks: every number below that of the elements is that of one element.
LEMMA RanksAreDistinct ==
  ASSUME NEW S, IsFiniteSet(S), NEW R, Ordered(R, S), NEW x \in S, NEW y \in S
  PROVE  /\ Cardinality(Smaller(R, S, x)) \in Nat
         /\ Cardinality(Smaller(R, S, x)) < Cardinality(S)
         /\ <<x, y>> \in R => Cardinality(Smaller(R, S, x)) < Cardinality(Smaller(R, S, y))
  <1>1. PICK U : U = Smaller(R, S, x)
    OBVIOUS
  <1>2. PICK V : V = Smaller(R, S, y)
    OBVIOUS
  <1>3. U \in SUBSET S /\ V \in SUBSET S /\ x \notin U
    BY <1>1, <1>2 DEF Smaller, Ordered
  <1>4. /\ IsFiniteSet(U) /\ Cardinality(U) <= Cardinality(S)
        /\ Cardinality(S) = Cardinality(U) => S = U
    BY <1>3, FS_Subset
  <1>5. IsFiniteSet(V)
    BY <1>3, FS_Subset
  <1>6. Cardinality(U) \in Nat /\ Cardinality(V) \in Nat /\ Cardinality(S) \in Nat
    BY <1>4, <1>5, FS_CardinalityType
  <1>7. Cardinality(U) < Cardinality(S)
    BY <1>3, <1>4, <1>6
  <1>8. ASSUME <<x, y>> \in R PROVE Cardinality(U) < Cardinality(V)
    <2>1. U \in SUBSET V /\ x \in V /\ x \notin U
      BY <1>1, <1>2, <1>3, <1>8 DEF Smaller, Ordered
    <2>2. Cardinality(U) <= Cardinality(V) /\ (Cardinality(V) = Cardinality(U) => V = U)
      BY <1>5, <2>1, FS_Subset
    <2>. QED
      BY <1>6, <2>1, <2>2
  <1>. QED
    BY <1>1, <1>2, <1>6, <1>7, <1>8

LEMMA EveryRank ==
  ASSUME NEW S, IsFiniteSet(S), NEW R, Ordered(R, S), NEW n \in 1 .. Cardinality(S)
  PROVE  \E x \in S : Cardinality(Smaller(R, S, x)) = n - 1
  <1>1. Cardinality(S) \in Nat
    BY FS_CardinalityType
  <1>2. PICK I : I = 1 .. Cardinality(S)
    OBVIOUS
  <1>3. IsFiniteSet(I) /\ Cardinality(I) = Cardinality(S)
    <2>1. IsFiniteSet(I) /\ Cardinality(I) = IF 1 > Cardinality(S) THEN 0 ELSE Cardinality(S) - 1 + 1
      BY <1>1, <1>2, FS_Interval
    <2>. QED
      BY <1>1, <2>1
  <1>4. PICK f : f = [x \in S |-> Cardinality(Smaller(R, S, x)) + 1]
    OBVIOUS
  <1>5. ASSUME NEW x \in S PROVE f[x] \in I
    <2>1. Cardinality(Smaller(R, S, x)) \in Nat /\ Cardinality(Smaller(R, S, x)) < Cardinality(S)
      BY RanksAreDistinct
    <2>. QED
      BY <1>1, <1>2, <1>4, <2>1
  <1>6. f \in [S -> I]
    BY <1>4, <1>5
  <1>7. ASSUME NEW x \in S, NEW y \in S, f[x] = f[y] PROVE x = y
    <2>1. /\ Cardinality(Smaller(R, S, x)) \in Nat /\ Cardinality(Smaller(R, S, y)) \in Nat
          /\ <<x, y>> \in R => Cardinality(Smaller(R, S, x)) < Cardinality(Smaller(R, S, y))
          /\ <<y, x>> \in R => Cardinality(Smaller(R, S, y)) < Cardinality(Smaller(R, S, x))
      BY RanksAreDistinct
    <2>2. Cardinality(Smaller(R, S, x)) = Cardinality(Smaller(R, S, y))
      BY <1>4, <1>7, <2>1
    <2>3. <<x, y>> \notin R /\ <<y, x>> \notin R
      BY <2>1, <2>2
    <2>. QED
      BY <2>3 DEF Ordered
  <1>8. f \in Injection(S, I)
    BY <1>6, <1>7 DEF Injection, IsInjective
  <1>9. f \in Surjection(S, I)
    BY <1>3, <1>8, FS_Injection
  <1>10. PICK x \in S : f[x] = n
    BY <1>2, <1>9 DEF Surjection
  <1>11. Cardinality(Smaller(R, S, x)) \in Nat
    BY RanksAreDistinct
  <1>12. Cardinality(Smaller(R, S, x)) + 1 = n
    BY <1>4, <1>10
  <1>. QED
    BY <1>11, <1>12

-----------------------------------------------------------------------------
(***************************************************************************)
(* The merge, for any drafts that cite something, wherever they were read. *)
(***************************************************************************)

SpanType == Nat \X Nat \X Nat

IsDraft(d) == d.cites \in SUBSET SpanType /\ d.cites # {} /\ d.order \in Nat
DraftsFit(drafts) ==
  /\ IsFiniteSet(DOMAIN drafts) /\ DOMAIN drafts \subseteq Nat \X Nat
  /\ \A p \in DOMAIN drafts : IsDraft(drafts[p])

\* Before is a strict order of what begins with two numbers.
IsPosition(p) == p[1] \in Nat /\ p[2] \in Nat

LEMMA BeforeIsOrder ==
  ASSUME NEW p, NEW q, NEW r, IsPosition(p), IsPosition(q), IsPosition(r)
  PROVE  /\ ~Before(p, p)
         /\ Before(p, q) => ~Before(q, p)
         /\ Before(p, q) /\ Before(q, r) => Before(p, r)
         /\ ~Before(p, q) /\ ~Before(q, r) => ~Before(p, r)
  BY DEF Before, IsPosition

LEMMA PlacesAreOrdered ==
  ASSUME NEW p \in Nat \X Nat, NEW q \in Nat \X Nat
  PROVE  IsPosition(p) /\ IsPosition(q) /\ (p = q \/ Before(p, q) \/ Before(q, p))
  BY DEF Before, IsPosition

LEMMA SpansArePositions ==
  ASSUME NEW p \in SpanType
  PROVE  IsPosition(p)
  BY DEF SpanType, IsPosition

LEMMA EarliestIs ==
  ASSUME NEW d, IsDraft(d)
  PROVE  /\ Earliest(d) \in d.cites /\ IsPosition(Earliest(d))
         /\ \A q \in d.cites : ~Before(q, Earliest(d))
  <1>1. \A q \in d.cites : q \in SpanType
    BY DEF IsDraft
  <1>2. \A q \in d.cites : IsPosition(q)
    BY <1>1, SpansArePositions
  <1>3. PICK T : T = {b \in Nat : \E q \in d.cites : q[1] = b}
    OBVIOUS
  <1>4. T # {}
    <2>1. PICK q \in d.cites : TRUE
      BY DEF IsDraft
    <2>2. q[1] \in T
      BY <1>2, <1>3, <2>1 DEF IsPosition
    <2>. QED
      BY <2>2
  <1>5. PICK b \in T : \A c \in T : b <= c
    BY <1>3, <1>4, LeastNumber
  <1>6. PICK U : U = {at \in Nat : \E q \in d.cites : q[1] = b /\ q[2] = at}
    OBVIOUS
  <1>7. U # {}
    <2>1. PICK q \in d.cites : q[1] = b
      BY <1>3, <1>5
    <2>2. q[2] \in U
      BY <1>2, <1>6, <2>1 DEF IsPosition
    <2>. QED
      BY <2>2
  <1>8. PICK at \in U : \A o \in U : at <= o
    BY <1>6, <1>7, LeastNumber
  <1>9. PICK p \in d.cites : p[1] = b /\ p[2] = at
    BY <1>6, <1>8
  <1>10. ASSUME NEW q \in d.cites PROVE ~Before(q, p)
    <2>1. q[1] \in Nat /\ q[2] \in Nat /\ b \in Nat /\ at \in Nat
      BY <1>2, <1>3, <1>5, <1>6, <1>8 DEF IsPosition
    <2>2. b <= q[1]
      BY <1>3, <1>5, <2>1
    <2>3. q[1] = b => at <= q[2]
      BY <1>6, <1>8, <2>1
    <2>. QED
      BY <1>9, <2>1, <2>2, <2>3 DEF Before
  <1>11. Earliest(d) \in d.cites /\ \A q \in d.cites : ~Before(q, Earliest(d))
    BY <1>9, <1>10 DEF Earliest
  <1>. QED
    BY <1>2, <1>11

LEMMA RetainedIs ==
  ASSUME NEW drafts, DraftsFit(drafts)
  PROVE  \E places \in SUBSET DOMAIN drafts :
            Retains(drafts, places) /\ Retained(drafts) = [p \in places |-> drafts[p]]
  <1>1. PICK S : S = DOMAIN drafts
    OBVIOUS
  <1>2. IsFiniteSet(S) /\ S \subseteq Nat \X Nat
    BY <1>1 DEF DraftsFit
  <1>3. PICK R : R = {z \in S \X S : Before(z[1], z[2])}
    OBVIOUS
  <1>4. \A p, q \in S : <<p, q>> \in R <=> Before(p, q)
    BY <1>3
  <1>5. Ordered(R, S)
    <2>1. ASSUME NEW p \in S, NEW q \in S, NEW r \in S
          PROVE  /\ <<p, p>> \notin R /\ (p # q => <<p, q>> \in R \/ <<q, p>> \in R)
                 /\ (<<p, q>> \in R /\ <<q, r>> \in R => <<p, r>> \in R)
      <3>1. p \in Nat \X Nat /\ q \in Nat \X Nat /\ r \in Nat \X Nat
        BY <1>2
      <3>2. IsPosition(p) /\ IsPosition(q) /\ IsPosition(r) /\ (p = q \/ Before(p, q) \/ Before(q, p))
        BY <3>1, PlacesAreOrdered
      <3>3. ~Before(p, p) /\ (Before(p, q) /\ Before(q, r) => Before(p, r))
        BY <3>2, BeforeIsOrder
      <3>. QED
        BY <1>4, <3>2, <3>3
    <2>. QED
      BY <2>1 DEF Ordered
  <1>6. PICK C : C = {z \in S \X S : Before(z[1], z[2]) /\ SameActivity(drafts[z[1]], drafts[z[2]])}
    OBVIOUS
  <1>7. C \subseteq R
    BY <1>3, <1>6
  <1>8. PICK K \in SUBSET S : ConflictFree(C, S, K)
    BY <1>2, <1>5, <1>7, WithoutConflicts
  <1>9. \A p, q \in S : <<q, p>> \in C <=> Before(q, p) /\ SameActivity(drafts[q], drafts[p])
    BY <1>6
  <1>10. Retains(drafts, K)
    BY <1>1, <1>8, <1>9 DEF Retains, ConflictFree
  <1>11. PICK places : places = CHOOSE L \in SUBSET DOMAIN drafts : Retains(drafts, L)
    OBVIOUS
  <1>12. places \in SUBSET DOMAIN drafts /\ Retains(drafts, places)
    BY <1>1, <1>10, <1>11
  <1>13. Retained(drafts) = [p \in places |-> drafts[p]]
    BY <1>11 DEF Retained, Restrict
  <1>. QED
    BY <1>12, <1>13

\* A step is the same activity as itself, and sameness goes both ways.
LEMMA SameIsSymmetric ==
  ASSUME NEW d, NEW e, IsDraft(d)
  PROVE  SameActivity(d, d) /\ (SameActivity(d, e) <=> SameActivity(e, d))
  BY DEF SameActivity, IsDraft

\* What is retained: every draft or one that is the same activity, and none twice.
LEMMA RetainedRepresents ==
  ASSUME NEW drafts, DraftsFit(drafts), NEW places \in SUBSET DOMAIN drafts,
         Retains(drafts, places)
  PROVE  /\ \A p \in DOMAIN drafts : \E q \in places : SameActivity(drafts[q], drafts[p])
         /\ \A p, q \in places : p # q => ~SameActivity(drafts[p], drafts[q])
  <1>1. ASSUME NEW p \in DOMAIN drafts
        PROVE  \E q \in places : SameActivity(drafts[q], drafts[p])
    <2>1. IsDraft(drafts[p])
      BY DEF DraftsFit
    <2>2. CASE p \in places
      BY <2>1, <2>2, SameIsSymmetric
    <2>3. CASE p \notin places
      BY <2>3 DEF Retains
    <2>. QED
      BY <2>2, <2>3
  <1>2. ASSUME NEW p \in places, NEW q \in places, p # q, SameActivity(drafts[p], drafts[q])
        PROVE  FALSE
    <2>1. p \in Nat \X Nat /\ q \in Nat \X Nat /\ IsDraft(drafts[p])
      BY DEF DraftsFit
    <2>2. Before(p, q) \/ Before(q, p)
      BY <1>2, <2>1, PlacesAreOrdered
    <2>3. SameActivity(drafts[q], drafts[p])
      BY <1>2, <2>1, SameIsSymmetric
    <2>. QED
      BY <1>2, <2>2, <2>3 DEF Retains
  <1>. QED
    BY <1>1, <1>2

\* The order of the steps is one: by their own numbers or by what they cite, and
\* where that is the same, by where they were read.
LEMMA FirstIsWeakOrder ==
  ASSUME NEW kept, DraftsFit(kept), NEW p \in DOMAIN kept, NEW q \in DOMAIN kept,
         NEW r \in DOMAIN kept
  PROVE  /\ ~First(kept, p, p)
         /\ First(kept, p, q) => ~First(kept, q, p)
         /\ First(kept, p, q) /\ First(kept, q, r) => First(kept, p, r)
         /\ ~First(kept, p, q) /\ ~First(kept, q, r) => ~First(kept, p, r)
  <1>1. IsDraft(kept[p]) /\ IsDraft(kept[q]) /\ IsDraft(kept[r])
    BY DEF DraftsFit
  <1>2. CASE ExplicitlyOrdered(kept)
    <2>1. kept[p].order \in Nat /\ kept[q].order \in Nat /\ kept[r].order \in Nat
      BY <1>1 DEF IsDraft
    <2>. QED
      BY <1>2, <2>1 DEF First
  <1>3. CASE ~ExplicitlyOrdered(kept)
    <2>1. /\ IsPosition(Earliest(kept[p])) /\ IsPosition(Earliest(kept[q]))
          /\ IsPosition(Earliest(kept[r]))
      BY <1>1, EarliestIs
    <2>2. PICK a, b, c : a = Earliest(kept[p]) /\ b = Earliest(kept[q]) /\ c = Earliest(kept[r])
      OBVIOUS
    <2>3. /\ ~Before(a, a) /\ (Before(a, b) => ~Before(b, a))
          /\ (Before(a, b) /\ Before(b, c) => Before(a, c))
          /\ (~Before(a, b) /\ ~Before(b, c) => ~Before(a, c))
      BY <2>1, <2>2, BeforeIsOrder
    <2>. QED
      BY <1>3, <2>2, <2>3 DEF First
  <1>. QED
    BY <1>2, <1>3

LEMMA PrecedesIsOrder ==
  ASSUME NEW kept, DraftsFit(kept), NEW R,
         \A p, q \in DOMAIN kept : <<p, q>> \in R <=> Precedes(kept, p, q)
  PROVE  Ordered(R, DOMAIN kept)
  <1>. PICK S : S = DOMAIN kept
    OBVIOUS
  <1>1. S \subseteq Nat \X Nat
    BY DEF DraftsFit
  <1>2. ASSUME NEW p \in S, NEW q \in S, NEW r \in S
        PROVE  /\ ~Precedes(kept, p, p)
               /\ p # q => Precedes(kept, p, q) \/ Precedes(kept, q, p)
               /\ Precedes(kept, p, q) /\ Precedes(kept, q, r) => Precedes(kept, p, r)
    <2>1. p \in Nat \X Nat /\ q \in Nat \X Nat /\ r \in Nat \X Nat
      BY <1>1
    <2>2. IsPosition(p) /\ IsPosition(q) /\ IsPosition(r) /\ (p = q \/ Before(p, q) \/ Before(q, p))
      BY <2>1, PlacesAreOrdered
    <2>3. ~Before(p, p) /\ (Before(p, q) /\ Before(q, r) => Before(p, r))
      BY <2>2, BeforeIsOrder
    <2>4. /\ ~First(kept, p, p) /\ (First(kept, p, q) => ~First(kept, q, p))
          /\ (First(kept, p, q) /\ First(kept, q, r) => First(kept, p, r))
      BY FirstIsWeakOrder
    <2>5. ~First(kept, r, q) /\ ~First(kept, q, p) => ~First(kept, r, p)
      BY FirstIsWeakOrder
    <2>6. First(kept, p, r) => ~First(kept, r, p)
      BY FirstIsWeakOrder
    <2>7. ~First(kept, p, r) /\ ~First(kept, r, q) => ~First(kept, p, q)
      BY FirstIsWeakOrder
    <2>8. ~First(kept, q, p) /\ ~First(kept, p, r) => ~First(kept, q, r)
      BY FirstIsWeakOrder
    <2>9. First(kept, q, r) => ~First(kept, r, q)
      BY FirstIsWeakOrder
    <2>. QED
      BY <2>2, <2>3, <2>4, <2>5, <2>6, <2>7, <2>8, <2>9 DEF Precedes
  <1>. QED
    BY <1>2 DEF Ordered

\* The steps are what is retained, each once and in this order.
Arranged(kept, steps, place) ==
  /\ place \in [DOMAIN steps -> DOMAIN kept]
  /\ \A n \in DOMAIN steps : steps[n] = kept[place[n]]
  /\ \A p \in DOMAIN kept : \E n \in DOMAIN steps : place[n] = p
  /\ \A m, n \in DOMAIN steps : m # n => place[m] # place[n]
  /\ \A m, n \in DOMAIN steps : m < n => Precedes(kept, place[m], place[n])

LEMMA SortedIs ==
  ASSUME NEW kept, DraftsFit(kept)
  PROVE  /\ Cardinality(DOMAIN kept) \in Nat
         /\ DOMAIN Sorted(kept) = 1 .. Cardinality(DOMAIN kept)
         /\ \E place : Arranged(kept, Sorted(kept), place)
  <1>1. PICK S : S = DOMAIN kept
    OBVIOUS
  <1>2. IsFiniteSet(S)
    BY <1>1 DEF DraftsFit
  <1>3. Cardinality(S) \in Nat
    BY <1>2, FS_CardinalityType
  <1>4. PICK R : R = {z \in S \X S : Precedes(kept, z[1], z[2])}
    OBVIOUS
  <1>5. \A p, q \in S : <<p, q>> \in R <=> Precedes(kept, p, q)
    BY <1>4
  <1>6. Ordered(R, S)
    BY <1>1, <1>5, PrecedesIsOrder
  <1>7. ASSUME NEW p \in S PROVE Preceding(kept, p) = Smaller(R, S, p)
    BY <1>1, <1>5 DEF Preceding, Smaller
  <1>8. PICK I : I = 1 .. Cardinality(S)
    OBVIOUS
  <1>9. PICK place : place = [n \in I |-> CHOOSE p \in S : Cardinality(Preceding(kept, p)) = n - 1]
    OBVIOUS
  <1>10. ASSUME NEW n \in I
         PROVE  place[n] \in S /\ Cardinality(Smaller(R, S, place[n])) = n - 1
    <2>1. PICK x \in S : Cardinality(Smaller(R, S, x)) = n - 1
      BY <1>2, <1>6, <1>8, EveryRank
    <2>2. Cardinality(Preceding(kept, x)) = n - 1
      BY <1>7, <2>1
    <2>3. place[n] \in S /\ Cardinality(Preceding(kept, place[n])) = n - 1
      BY <1>9, <2>2
    <2>. QED
      BY <1>7, <2>3
  <1>11. PICK steps : steps = Sorted(kept)
    OBVIOUS
  <1>12. steps = [n \in I |-> kept[place[n]]]
    BY <1>1, <1>8, <1>9, <1>11 DEF Sorted
  <1>13. DOMAIN steps = I /\ \A n \in I : steps[n] = kept[place[n]]
    BY <1>12
  <1>14. place \in [I -> S]
    BY <1>9, <1>10
  <1>15. ASSUME NEW p \in S PROVE \E n \in I : place[n] = p
    <2>1. PICK k : k = Cardinality(Smaller(R, S, p))
      OBVIOUS
    <2>2. k \in Nat /\ k < Cardinality(S)
      BY <1>2, <1>6, <2>1, RanksAreDistinct
    <2>3. k + 1 \in I /\ (k + 1) - 1 = k
      BY <1>3, <1>8, <2>2
    <2>4. PICK q : q = place[k + 1]
      OBVIOUS
    <2>5. q \in S /\ Cardinality(Smaller(R, S, q)) = k
      BY <1>10, <2>3, <2>4
    <2>6. <<p, q>> \notin R /\ <<q, p>> \notin R
      <3>1. <<p, q>> \in R => Cardinality(Smaller(R, S, p)) < Cardinality(Smaller(R, S, q))
        BY <1>2, <1>6, <2>5, RanksAreDistinct
      <3>2. <<q, p>> \in R => Cardinality(Smaller(R, S, q)) < Cardinality(Smaller(R, S, p))
        BY <1>2, <1>6, <2>5, RanksAreDistinct
      <3>. QED
        BY <2>1, <2>2, <2>5, <3>1, <3>2
    <2>7. p = q
      BY <1>6, <2>5, <2>6 DEF Ordered
    <2>. QED
      BY <2>3, <2>4, <2>7
  <1>16. \A m, n \in I : m \in Nat /\ n \in Nat
    BY <1>8
  <1>17. ASSUME NEW m \in I, NEW n \in I, m # n PROVE place[m] # place[n]
    <2>1. Cardinality(Smaller(R, S, place[m])) = m - 1 /\ Cardinality(Smaller(R, S, place[n])) = n - 1
      BY <1>10
    <2>2. m - 1 # n - 1
      BY <1>16, <1>17
    <2>. QED
      BY <2>1, <2>2
  <1>18. ASSUME NEW m \in I, NEW n \in I, m < n PROVE Precedes(kept, place[m], place[n])
    <2>1. PICK p, q : p = place[m] /\ q = place[n]
      OBVIOUS
    <2>2. /\ p \in S /\ Cardinality(Smaller(R, S, p)) = m - 1
          /\ q \in S /\ Cardinality(Smaller(R, S, q)) = n - 1
      BY <1>10, <2>1
    <2>3. <<q, p>> \in R => Cardinality(Smaller(R, S, q)) < Cardinality(Smaller(R, S, p))
      BY <1>2, <1>6, <2>2, RanksAreDistinct
    <2>4. <<q, p>> \notin R
      BY <1>16, <1>18, <2>2, <2>3
    <2>5. p # q
      BY <1>16, <1>17, <1>18, <2>1
    <2>6. <<p, q>> \in R
      BY <1>6, <2>2, <2>4, <2>5 DEF Ordered
    <2>. QED
      BY <1>5, <2>1, <2>2, <2>6
  <1>19. Arranged(kept, steps, place)
    BY <1>1, <1>13, <1>14, <1>15, <1>17, <1>18 DEF Arranged
  <1>20. Cardinality(DOMAIN kept) \in Nat /\ DOMAIN steps = 1 .. Cardinality(DOMAIN kept)
    BY <1>1, <1>3, <1>8, <1>13
  <1>. QED
    BY <1>11, <1>19, <1>20

\* A dependency is on the only other step with its label.
LEMMA TargetIsUnique ==
  ASSUME NEW steps, IsFiniteSet(DOMAIN steps), NEW self, NEW label,
         NEW t \in Target(steps, self, label)
  PROVE  \E j \in DOMAIN steps :
            /\ t = StepId(steps[j]) /\ t # self /\ steps[j].label = label
            /\ \A k \in DOMAIN steps \ {j} : steps[k].label # label
  <1>1. PICK named : named = {i \in DOMAIN steps : steps[i].label = label}
    OBVIOUS
  <1>2. Target(steps, self, label) =
          IF Cardinality(named) = 1 THEN {StepId(steps[i]) : i \in named} \ {self} ELSE {}
    BY <1>1 DEF Target
  <1>3. Cardinality(named) = 1 /\ t \in {StepId(steps[i]) : i \in named} /\ t # self
    BY <1>2
  <1>4. IsFiniteSet(named)
    <2>1. named \in SUBSET DOMAIN steps
      BY <1>1
    <2>. QED
      BY <2>1, FS_Subset
  <1>5. PICK x : named = {x}
    BY <1>3, <1>4, FS_Singleton
  <1>6. PICK j \in named : t = StepId(steps[j])
    BY <1>3
  <1>7. j = x
    BY <1>5
  <1>8. \A k \in DOMAIN steps \ {j} : steps[k].label # label
    BY <1>1, <1>5, <1>7
  <1>. QED
    BY <1>1, <1>3, <1>6, <1>8

\* What the steps of a candidate say of the drafts they were made of.
FromDrafts(drafts, steps) ==
  \A n \in DOMAIN steps : \E p \in DOMAIN drafts :
     steps[n].cites = drafts[p].cites /\ steps[n].inputs = drafts[p].inputs
Represents(drafts, steps) ==
  \A p \in DOMAIN drafts : \E n \in DOMAIN steps : SameActivity(steps[n], drafts[p])
NoneTwice(steps) == \A m, n \in DOMAIN steps : m # n => ~SameActivity(steps[m], steps[n])
Depends(steps, n, l, t) ==
  \E j \in DOMAIN steps \ {n} : /\ steps[j].id = t /\ steps[j].label = l
                                /\ \A k \in DOMAIN steps \ {j} : steps[k].label # l
DependenciesFit(steps) ==
  \A n \in DOMAIN steps : \A l \in DOMAIN steps[n].needs : \A t \in steps[n].needs[l] :
     Depends(steps, n, l, t)
InOrder(steps) ==
  \/ \A m, n \in DOMAIN steps : m < n => 0 < steps[m].order /\ steps[m].order < steps[n].order
  \/ \A m, n \in DOMAIN steps : m < n => ~Before(Earliest(steps[n]), Earliest(steps[m]))

MergedWell(drafts, steps) ==
  /\ FromDrafts(drafts, steps) /\ Represents(drafts, steps) /\ NoneTwice(steps)
  /\ StepsAccepted(steps) /\ DependenciesFit(steps) /\ InOrder(steps)

\* Whatever drafts are merged, and whatever they cite, order and depend on: every
\* draft is represented once, steps are in one of the two orders, identifiers are
\* their own and a dependency leads to the only other step with its label
\* (extraction/merge.py merge_chunks).
THEOREM MergeIsSound ==
  ASSUME NEW drafts, DraftsFit(drafts)
  PROVE  MergedWell(drafts, Merged(drafts))
  <1>1. PICK places \in SUBSET DOMAIN drafts :
          Retains(drafts, places) /\ Retained(drafts) = [p \in places |-> drafts[p]]
    BY RetainedIs
  <1>2. PICK kept : kept = Retained(drafts)
    OBVIOUS
  <1>3. DOMAIN kept = places /\ \A p \in places : kept[p] = drafts[p]
    BY <1>1, <1>2
  <1>4. DraftsFit(kept)
    <2>1. IsFiniteSet(places)
      BY <1>1, FS_Subset DEF DraftsFit
    <2>. QED
      BY <1>1, <1>3, <2>1 DEF DraftsFit
  <1>5. PICK sorted : sorted = Sorted(kept)
    OBVIOUS
  <1>6. Cardinality(places) \in Nat /\ DOMAIN sorted = 1 .. Cardinality(places)
    BY <1>3, <1>4, <1>5, SortedIs
  <1>7. PICK place : Arranged(kept, sorted, place)
    BY <1>4, <1>5, SortedIs
  <1>8. PICK steps : steps = Merged(drafts)
    OBVIOUS
  <1>9. steps = [n \in DOMAIN sorted |-> CandidateStep(sorted, n)]
    BY <1>2, <1>5, <1>8 DEF Merged
  <1>10. PICK I : I = DOMAIN sorted
    OBVIOUS
  <1>11. DOMAIN steps = I /\ IsFiniteSet(I) /\ I \subseteq Nat
    <2>1. IsFiniteSet(1 .. Cardinality(places))
      BY <1>6, FS_Interval
    <2>. QED
      BY <1>6, <1>9, <1>10, <2>1
  <1>12. ASSUME NEW n \in I
         PROVE  /\ place[n] \in places /\ sorted[n] = drafts[place[n]]
                /\ place[n] \in DOMAIN drafts /\ IsDraft(drafts[place[n]])
    BY <1>1, <1>3, <1>7, <1>10 DEF Arranged, DraftsFit
  <1>13. ASSUME NEW n \in I
         PROVE  /\ steps[n].label = sorted[n].label /\ steps[n].cites = sorted[n].cites
                /\ steps[n].order = sorted[n].order /\ steps[n].inputs = sorted[n].inputs
    <2>1. steps[n] = CandidateStep(sorted, n)
      BY <1>9, <1>10
    <2>. QED
      BY <2>1 DEF CandidateStep
  <1>13a. ASSUME NEW n \in I PROVE steps[n].id = StepId(sorted[n])
    <2>1. steps[n] = CandidateStep(sorted, n)
      BY <1>9, <1>10
    <2>. QED
      BY <2>1 DEF CandidateStep
  <1>13b. ASSUME NEW n \in I
         PROVE  steps[n].needs = [l \in sorted[n].needs |-> Target(sorted, StepId(sorted[n]), l)]
    <2>1. steps[n] = CandidateStep(sorted, n)
      BY <1>9, <1>10
    <2>. QED
      BY <2>1 DEF CandidateStep
  <1>14. /\ \A p \in DOMAIN drafts : \E q \in places : SameActivity(drafts[q], drafts[p])
         /\ \A p, q \in places : p # q => ~SameActivity(drafts[p], drafts[q])
    BY <1>1, RetainedRepresents
  <1>15. ASSUME NEW n \in I
         PROVE  \E p \in DOMAIN drafts :
                   steps[n].cites = drafts[p].cites /\ steps[n].inputs = drafts[p].inputs
    BY <1>12, <1>13
  <1>16. ASSUME NEW p \in DOMAIN drafts
         PROVE  \E n \in I : SameActivity(steps[n], drafts[p])
    <2>1. PICK q \in places : SameActivity(drafts[q], drafts[p])
      BY <1>14
    <2>2. PICK n \in I : place[n] = q
      BY <1>3, <1>7, <1>10, <2>1 DEF Arranged
    <2>3. steps[n].label = drafts[q].label /\ steps[n].cites = drafts[q].cites
      BY <1>12, <1>13, <2>2
    <2>. QED
      BY <2>1, <2>3 DEF SameActivity
  <1>17. ASSUME NEW m \in I, NEW n \in I, m # n PROVE ~SameActivity(steps[m], steps[n])
    <2>1. place[m] # place[n] /\ place[m] \in places /\ place[n] \in places
      BY <1>7, <1>10, <1>12, <1>17 DEF Arranged
    <2>2. ~SameActivity(drafts[place[m]], drafts[place[n]])
      BY <1>14, <2>1
    <2>3. /\ steps[m].label = drafts[place[m]].label /\ steps[m].cites = drafts[place[m]].cites
          /\ steps[n].label = drafts[place[n]].label /\ steps[n].cites = drafts[place[n]].cites
      BY <1>12, <1>13
    <2>. QED
      BY <2>2, <2>3 DEF SameActivity
  <1>18. ASSUME NEW m \in I, NEW n \in I, steps[m].id = steps[n].id PROVE m = n
    <2>1. StepId(sorted[m]) = StepId(sorted[n])
      BY <1>13a, <1>18
    <2>2. sorted[m].label = sorted[n].label /\ sorted[m].cites = sorted[n].cites
      BY <2>1 DEF StepId
    <2>3. steps[m].label = steps[n].label /\ steps[m].cites = steps[n].cites /\ steps[n].cites # {}
      BY <1>12, <1>13, <2>2 DEF IsDraft
    <2>4. SameActivity(steps[m], steps[n])
      BY <2>3 DEF SameActivity
    <2>. QED
      BY <1>17, <2>4
  <1>19. ASSUME NEW n \in I, NEW l \in DOMAIN steps[n].needs, NEW t \in steps[n].needs[l]
         PROVE  Depends(steps, n, l, t)
    <2>1. PICK self : self = StepId(sorted[n])
      OBVIOUS
    <2>2. steps[n].needs = [m \in sorted[n].needs |-> Target(sorted, self, m)]
      BY <1>13b, <2>1
    <2>3. t \in Target(sorted, self, l)
      BY <1>19, <2>2
    <2>4. IsFiniteSet(DOMAIN sorted)
      BY <1>10, <1>11
    <2>5. PICK j \in DOMAIN sorted :
            /\ t = StepId(sorted[j]) /\ t # self /\ sorted[j].label = l
            /\ \A k \in DOMAIN sorted \ {j} : sorted[k].label # l
      BY <2>3, <2>4, TargetIsUnique
    <2>6. j \in I /\ j # n /\ steps[j].id = t /\ steps[j].label = l
      BY <1>10, <1>13, <1>13a, <2>1, <2>5
    <2>7. \A k \in I \ {j} : steps[k].label # l
      BY <1>10, <1>13, <2>5
    <2>. QED
      BY <1>11, <2>6, <2>7 DEF Depends
  <1>20. InOrder(steps)
    <2>1. ASSUME NEW m \in I, NEW n \in I, m < n
          PROVE  /\ place[m] \in places /\ place[n] \in places /\ place[m] # place[n]
                 /\ Precedes(kept, place[m], place[n])
      <3>1. m # n
        BY <1>11, <2>1
      <3>. QED
        BY <1>7, <1>10, <1>12, <2>1, <3>1 DEF Arranged
    <2>2. CASE ExplicitlyOrdered(kept)
      <3>1. ASSUME NEW m \in I, NEW n \in I, m < n
            PROVE  0 < steps[m].order /\ steps[m].order < steps[n].order
        <4>1. PICK p, q : p = place[m] /\ q = place[n]
          OBVIOUS
        <4>2. p \in places /\ q \in places /\ p # q /\ Precedes(kept, p, q)
          BY <2>1, <3>1, <4>1
        <4>3. kept[p].order > 0 /\ kept[p].order # kept[q].order
          BY <1>3, <2>2, <4>2 DEF ExplicitlyOrdered
        <4>4. kept[p].order \in Nat /\ kept[q].order \in Nat
          BY <1>3, <1>12, <3>1, <4>1, <4>2 DEF IsDraft
        <4>5. kept[p].order < kept[q].order
          BY <2>2, <4>2, <4>3, <4>4 DEF Precedes, First
        <4>6. steps[m].order = kept[p].order /\ steps[n].order = kept[q].order
          BY <1>3, <1>12, <1>13, <4>1, <4>2
        <4>. QED
          BY <4>3, <4>4, <4>5, <4>6
      <3>. QED
        BY <1>11, <3>1 DEF InOrder
    <2>3. CASE ~ExplicitlyOrdered(kept)
      <3>1. ASSUME NEW m \in I, NEW n \in I, m < n
            PROVE  ~Before(Earliest(steps[n]), Earliest(steps[m]))
        <4>1. PICK p, q : p = place[m] /\ q = place[n]
          OBVIOUS
        <4>2. p \in places /\ q \in places /\ Precedes(kept, p, q)
          BY <2>1, <3>1, <4>1
        <4>3. IsDraft(kept[p]) /\ IsDraft(kept[q])
          BY <1>3, <1>4, <4>2 DEF DraftsFit
        <4>4. PICK a, b : a = Earliest(kept[p]) /\ b = Earliest(kept[q])
          OBVIOUS
        <4>5. IsPosition(a) /\ IsPosition(b)
          BY <4>3, <4>4, EarliestIs
        <4>6. ~Before(b, a)
          <5>1. Before(a, b) => ~Before(b, a)
            BY <4>5, BeforeIsOrder
          <5>2. Before(a, b) \/ ~Before(b, a)
            BY <2>3, <4>2, <4>4 DEF Precedes, First
          <5>. QED
            BY <5>1, <5>2
        <4>7. steps[m].cites = kept[p].cites /\ steps[n].cites = kept[q].cites
          BY <1>3, <1>12, <1>13, <4>1, <4>2
        <4>8. Earliest(steps[m]) = a /\ Earliest(steps[n]) = b
          BY <4>4, <4>7 DEF Earliest
        <4>. QED
          BY <4>6, <4>8
      <3>. QED
        BY <1>11, <3>1 DEF InOrder
    <2>. QED
      BY <2>2, <2>3
  <1>21. MergedWell(drafts, steps)
    <2>1. FromDrafts(drafts, steps)
      BY <1>11, <1>15 DEF FromDrafts
    <2>2. Represents(drafts, steps)
      BY <1>11, <1>16 DEF Represents
    <2>3. NoneTwice(steps)
      BY <1>11, <1>17 DEF NoneTwice
    <2>4. StepsAccepted(steps)
      BY <1>11, <1>18 DEF StepsAccepted
    <2>5. DependenciesFit(steps)
      BY <1>11, <1>19 DEF DependenciesFit
    <2>. QED
      BY <1>20, <2>1, <2>2, <2>3, <2>4, <2>5 DEF MergedWell
  <1>. QED
    BY <1>8, <1>21

-----------------------------------------------------------------------------
(***************************************************************************)
(* The dialogue.  What was heard of a chunk are one or two answers of the  *)
(* schema; none of them was refused, unless that is what extract raised;   *)
(* and what it returned was made of all of them.                           *)
(***************************************************************************)

Saying == [kind : {"answer", "invalid", "error"}, steps : Seq(RawStep)]
Raised == [status |-> "RAISED", steps |-> << >>]

HeardFits ==
  /\ heard \in Seq(Seq(Saying)) /\ Len(heard) <= Len(Chunks)
  /\ \A n \in 1 .. Len(heard) : Len(heard[n]) \in 1 .. (Repairs + 1)
  /\ \A n \in 1 .. Len(heard) : \A i \in 1 .. Len(heard[n]) :
        IsAnswer(heard[n][i]) => SchemaAccepts(heard[n][i].steps)

NoneRefused ==
  \A n \in 1 .. Len(heard) : \A i \in 1 .. Len(heard[n]) :
     IsAnswer(heard[n][i]) => ~Refused(Chunks[n], heard[n][i].steps)

Outcome ==
  [status |-> IF \E n \in DOMAIN heard : ErrorIssue(Chunks[n], heard[n])
              THEN "PARTIAL" ELSE "SUCCESS",
   steps |-> Merged(Drafts)]

ResultFits ==
  \/ result \in {NoResult, Failed, Raised}
  \/ AllAsked /\ Places # {} /\ result = Outcome

ExtractionInv ==
  /\ PlanInv
  /\ (heard # << >> \/ result # NoResult) => Planned
  /\ HeardFits /\ ResultFits
  /\ result # Raised => NoneRefused

LEMMA HeardIs ==
  ASSUME NEW response \in Responses
  PROVE  /\ Heard(response) \in Saying
         /\ IsAnswer(Heard(response)) => SchemaAccepts(Heard(response).steps)
  <1>1. response.steps \in Seq(RawStep) /\ << >> \in Seq(RawStep)
    BY ResponsesAssumption
  <1>2. /\ Said("error", << >>) \in Saying /\ ~IsAnswer(Said("error", << >>))
        /\ Said("invalid", << >>) \in Saying /\ ~IsAnswer(Said("invalid", << >>))
        /\ Said("answer", response.steps) \in Saying
        /\ Said("answer", response.steps).steps = response.steps
    BY <1>1 DEF Said, Saying, IsAnswer
  <1>3. \/ Heard(response) \in {Said("error", << >>), Said("invalid", << >>)}
        \/ Heard(response) = Said("answer", response.steps) /\ SchemaAccepts(response.steps)
    BY DEF Heard
  <1>. QED
    BY <1>2, <1>3

LEMMA ExtractionInitially ==
  ASSUME ExtractionInit
  PROVE  ExtractionInv
  <1>1. PlanInv /\ heard = << >> /\ result = NoResult
    BY PlanInitially DEF ExtractionInit
  <1>2. Len(heard) = 0 /\ heard \in Seq(Seq(Saying))
    BY <1>1
  <1>3. Len(Chunks) \in Nat
    BY <1>1 DEF PlanInv, PlanUpTo, Plan
  <1>4. HeardFits /\ NoneRefused
    BY <1>2, <1>3 DEF HeardFits, NoneRefused
  <1>. QED
    BY <1>1, <1>4 DEF ExtractionInv, ResultFits

LEMMA PlanStepKeepsExtraction ==
  ASSUME ExtractionInv, PlanStep, UNCHANGED <<heard, result>>
  PROVE  ExtractionInv'
  <1>1. PlanInv'
    BY PlanStepKeepsPlan DEF ExtractionInv
  <1>2. ~Planned
    BY DEF PlanStep, SkipBlock, PlaceBlock, CutBlock
  <1>3. heard' = << >> /\ result' = NoResult
    BY <1>2 DEF ExtractionInv
  <1>4. Len(heard') = 0 /\ heard' \in Seq(Seq(Saying))
    BY <1>3
  <1>5. Len(Chunks') \in Nat
    BY <1>1 DEF PlanInv, PlanUpTo, Plan
  <1>6. HeardFits' /\ NoneRefused'
    BY <1>4, <1>5 DEF HeardFits, NoneRefused
  <1>7. NoResult' = NoResult
    BY DEF NoResult
  <1>8. ResultFits'
    BY <1>3, <1>7 DEF ResultFits
  <1>. QED
    BY <1>1, <1>3, <1>6, <1>7, <1>8 DEF ExtractionInv

LEMMA CallKeepsExtraction ==
  ASSUME ExtractionInv, Call
  PROVE  ExtractionInv'
  <1>1. Running /\ ~AllAsked /\ UNCHANGED planVars
    BY DEF Call
  <1>2. PlanInv' /\ Chunks' = Chunks /\ Planned' = Planned
    BY <1>1, PlanUnchanged DEF ExtractionInv
  <1>3. Planned /\ result = NoResult
    BY <1>1 DEF Running
  <1>4. NoResult # Raised /\ NoResult # Failed
    BY DEF NoResult, Raised, Failed
  <1>5. HeardFits /\ NoneRefused
    BY <1>3, <1>4 DEF ExtractionInv
  <1>6. PICK plan : plan = Chunks
    OBVIOUS
  <1>7. /\ heard \in Seq(Seq(Saying)) /\ Len(heard) \in Nat /\ Len(heard) <= Len(plan)
        /\ \A n \in 1 .. Len(heard) : heard[n] \in Seq(Saying)
    BY <1>5, <1>6 DEF HeardFits
  <1>8. PICK n : n = IF Settled THEN Asking + 1 ELSE Asking
    OBVIOUS
  <1>9. PICK response \in Responses :
          LET said == Heard(response)
          IN /\ heard' = IF Settled THEN Append(heard, <<said>>)
                         ELSE [heard EXCEPT ![n] = Append(@, said)]
             /\ result' = IF IsAnswer(said) /\ Refused(Chunks[n], said.steps)
                          THEN [status |-> "RAISED", steps |-> << >>] ELSE NoResult
    BY <1>8 DEF Call
  <1>10. PICK said : said = Heard(response)
    OBVIOUS
  <1>11. /\ heard' = IF Settled THEN Append(heard, <<said>>)
                     ELSE [heard EXCEPT ![n] = Append(@, said)]
         /\ result' = IF IsAnswer(said) /\ Refused(plan[n], said.steps) THEN Raised ELSE NoResult
    BY <1>6, <1>9, <1>10 DEF Raised
  <1>12. said \in Saying /\ (IsAnswer(said) => SchemaAccepts(said.steps))
    BY <1>10, HeardIs
  <1>13. Repairs \in Nat
    BY RepairsAssumption
  \* What is heard after the call: the new answer is the last one of chunk n.
  <1>14. /\ heard' \in Seq(Seq(Saying)) /\ Len(heard') <= Len(plan) /\ n \in 1 .. Len(heard')
         /\ \A m \in 1 .. Len(heard') : m # n => m \in 1 .. Len(heard) /\ heard'[m] = heard[m]
         /\ Len(heard'[n]) \in 1 .. (Repairs + 1)
         /\ \A i \in 1 .. Len(heard'[n]) :
               heard'[n][i] = said
               \/ (n \in 1 .. Len(heard) /\ i \in 1 .. Len(heard[n]) /\ heard'[n][i] = heard[n][i])
    <2>1. CASE Settled
      <3>1. heard' = Append(heard, <<said>>) /\ n = Len(heard) + 1
        BY <1>8, <1>11, <2>1 DEF Asking
      <3>2. <<said>> \in Seq(Saying) /\ Len(<<said>>) = 1 /\ <<said>>[1] = said
        BY <1>12
      <3>3. /\ heard' \in Seq(Seq(Saying)) /\ Len(heard') = Len(heard) + 1
            /\ heard'[n] = <<said>> /\ \A m \in 1 .. Len(heard) : heard'[m] = heard[m]
        BY <1>7, <3>1, <3>2
      <3>4. Len(heard) # Len(plan)
        BY <1>1, <1>6, <2>1 DEF AllAsked, Asking
      <3>5. Len(plan) \in Nat
        BY <1>6 DEF ExtractionInv, PlanInv, PlanUpTo, Plan
      <3>6. Len(heard') <= Len(plan) /\ n \in 1 .. Len(heard')
        BY <1>7, <3>1, <3>3, <3>4, <3>5
      <3>7. \A m \in 1 .. Len(heard') : m # n => m \in 1 .. Len(heard) /\ heard'[m] = heard[m]
        BY <1>7, <3>1, <3>3
      <3>8. Len(heard'[n]) \in 1 .. (Repairs + 1)
        BY <1>13, <3>2, <3>3
      <3>9. \A i \in 1 .. Len(heard'[n]) : heard'[n][i] = said
        BY <3>2, <3>3
      <3>. QED
        BY <3>3, <3>6, <3>7, <3>8, <3>9
    <2>2. CASE ~Settled
      <3>1. n = Len(heard) /\ heard # << >> /\ NeedsRepair(Chunks[n], heard[n])
        BY <1>8, <2>2 DEF Settled, Asking
      <3>2. n \in 1 .. Len(heard) /\ Len(heard[n]) = 1 /\ Repairs = 1
        BY <1>7, <3>1 DEF NeedsRepair
      <3>3. PICK both : both = Append(heard[n], said)
        OBVIOUS
      <3>4. /\ both \in Seq(Saying) /\ Len(both) = 2 /\ both[2] = said /\ both[1] = heard[n][1]
        BY <1>7, <1>12, <3>2, <3>3
      <3>5. heard' = [heard EXCEPT ![n] = both]
        BY <1>11, <2>2, <3>3
      <3>6. /\ heard' \in Seq(Seq(Saying)) /\ Len(heard') = Len(heard)
            /\ \A m \in 1 .. Len(heard) : heard'[m] = IF m = n THEN both ELSE heard[m]
        BY <1>7, <3>2, <3>4, <3>5, ExceptSeq
      <3>7. heard'[n] = both
        BY <3>2, <3>6
      <3>8. \A i \in 1 .. Len(heard'[n]) :
              heard'[n][i] = said
              \/ (n \in 1 .. Len(heard) /\ i \in 1 .. Len(heard[n]) /\ heard'[n][i] = heard[n][i])
        <4>1. Len(heard'[n]) = 2
          BY <3>4, <3>7
        <4>2. heard'[n][2] = said
          BY <3>4, <3>7
        <4>3. heard'[n][1] = heard[n][1]
          BY <3>4, <3>7
        <4>4. 1 \in 1 .. Len(heard[n])
          BY <3>2
        <4>5. ASSUME NEW i \in 1 .. Len(heard'[n])
              PROVE  heard'[n][i] = said
                     \/ (n \in 1 .. Len(heard) /\ i \in 1 .. Len(heard[n]) /\ heard'[n][i] = heard[n][i])
          <5>1. i = 1 \/ i = 2
            BY <4>1
          <5>2. CASE i = 1
            BY <3>2, <4>3, <4>4, <5>2
          <5>3. CASE i = 2
            BY <4>2, <5>3
          <5>. QED
            BY <5>1, <5>2, <5>3
        <4>. QED
          BY <4>5
      <3>9. Len(heard'[n]) \in 1 .. (Repairs + 1)
        <4>1. Len(heard'[n]) = 2
          BY <3>4, <3>7
        <4>2. Repairs = 1
          BY <3>2
        <4>. QED
          BY <4>1, <4>2
      <3>10. \A m \in 1 .. Len(heard') : m # n => m \in 1 .. Len(heard) /\ heard'[m] = heard[m]
        BY <3>6
      <3>. QED
        BY <1>7, <3>2, <3>6, <3>8, <3>9, <3>10
    <2>. QED
      BY <2>1, <2>2
  <1>15. HeardFits'
    <2>1. ASSUME NEW m \in 1 .. Len(heard')
          PROVE  /\ Len(heard'[m]) \in 1 .. (Repairs + 1)
                 /\ \A i \in 1 .. Len(heard'[m]) :
                       IsAnswer(heard'[m][i]) => SchemaAccepts(heard'[m][i].steps)
      <3>1. CASE m = n
        BY <1>5, <1>12, <1>14, <3>1 DEF HeardFits
      <3>2. CASE m # n
        BY <1>5, <1>14, <3>2 DEF HeardFits
      <3>. QED
        BY <3>1, <3>2
    <2>. QED
      BY <1>2, <1>6, <1>14, <2>1 DEF HeardFits, IsAnswer, SchemaAccepts
  <1>16. result' = NoResult => NoneRefused'
    <2>. SUFFICES ASSUME result' = NoResult PROVE NoneRefused'
      OBVIOUS
    <2>1. IsAnswer(said) => ~Refused(plan[n], said.steps)
      BY <1>4, <1>11
    <2>2. ASSUME NEW m \in 1 .. Len(heard'), NEW i \in 1 .. Len(heard'[m]), IsAnswer(heard'[m][i])
          PROVE  ~Refused(plan[m], heard'[m][i].steps)
      <3>1. CASE m = n /\ heard'[m][i] = said
        BY <2>1, <2>2, <3>1
      <3>2. CASE m # n \/ heard'[m][i] # said
        <4>1. m \in 1 .. Len(heard) /\ i \in 1 .. Len(heard[m]) /\ heard'[m][i] = heard[m][i]
          BY <1>14, <2>2, <3>2
        <4>. QED
          BY <1>5, <1>6, <2>2, <4>1 DEF NoneRefused
      <3>. QED
        BY <3>1, <3>2
    <2>. QED
      BY <1>2, <1>6, <2>2 DEF NoneRefused, IsAnswer
  <1>17. result' \in {NoResult, Raised}
    BY <1>11
  <1>18. /\ NoResult' = NoResult /\ Raised' = Raised
    BY DEF NoResult, Raised
  <1>19. ResultFits'
    BY <1>17, <1>18 DEF ResultFits
  <1>20. Planned'
    BY <1>2, <1>3
  <1>. QED
    BY <1>2, <1>15, <1>16, <1>17, <1>18, <1>19, <1>20 DEF ExtractionInv

\* What was drafted and asked depends on the plan and what was heard.
LEMMA DraftsUnchanged ==
  ASSUME Chunks' = Chunks, heard' = heard
  PROVE  /\ Places' = Places /\ Drafts' = Drafts /\ AllAsked' = AllAsked /\ Outcome' = Outcome
         /\ HeardFits' = HeardFits /\ NoneRefused' = NoneRefused
  <1>1. Places' = Places
    BY DEF Places
  <1>2. Drafts' = Drafts
    BY <1>1 DEF Drafts
  <1>3. AllAsked' = AllAsked
    BY DEF AllAsked, Asking, Settled
  <1>4. Outcome' = Outcome
    BY <1>2 DEF Outcome
  <1>5. HeardFits' = HeardFits
    BY DEF HeardFits
  <1>6. NoneRefused' = NoneRefused
    BY DEF NoneRefused
  <1>. QED
    BY <1>1, <1>2, <1>3, <1>4, <1>5, <1>6

LEMMA FinishKeepsExtraction ==
  ASSUME ExtractionInv, Finish
  PROVE  ExtractionInv'
  <1>1. Running /\ AllAsked /\ UNCHANGED planVars /\ heard' = heard
    BY DEF Finish
  <1>2. PlanInv' /\ Chunks' = Chunks /\ Planned' = Planned
    BY <1>1, PlanUnchanged DEF ExtractionInv
  <1>3. Planned /\ result = NoResult
    BY <1>1 DEF Running
  <1>4. /\ Places' = Places /\ AllAsked' = AllAsked /\ Outcome' = Outcome
        /\ HeardFits' = HeardFits /\ NoneRefused' = NoneRefused
    BY <1>1, <1>2, DraftsUnchanged
  <1>5. NoResult # Raised
    BY DEF NoResult, Raised
  <1>6. HeardFits' /\ NoneRefused' /\ Planned'
    BY <1>2, <1>3, <1>4, <1>5 DEF ExtractionInv
  <1>7. result' = IF Places = {} THEN Failed ELSE Outcome
    BY DEF Finish, Outcome
  <1>8. Failed' = Failed
    BY DEF Failed
  <1>9. ResultFits'
    <2>1. CASE Places = {}
      BY <1>7, <1>8, <2>1 DEF ResultFits
    <2>2. CASE Places # {}
      BY <1>1, <1>4, <1>7, <2>2 DEF ResultFits
    <2>. QED
      BY <2>1, <2>2
  <1>. QED
    BY <1>2, <1>6, <1>9 DEF ExtractionInv

LEMMA ExtractionUnchanged ==
  ASSUME ExtractionInv, UNCHANGED extractionVars
  PROVE  ExtractionInv'
  <1>1. UNCHANGED planVars /\ heard' = heard /\ result' = result
    BY DEF extractionVars
  <1>2. PlanInv' /\ Chunks' = Chunks /\ Planned' = Planned
    BY <1>1, PlanUnchanged DEF ExtractionInv
  <1>3. /\ Places' = Places /\ AllAsked' = AllAsked /\ Outcome' = Outcome
        /\ HeardFits' = HeardFits /\ NoneRefused' = NoneRefused
    BY <1>1, <1>2, DraftsUnchanged
  <1>4. NoResult' = NoResult /\ Failed' = Failed /\ Raised' = Raised
    BY DEF NoResult, Failed, Raised
  <1>5. ResultFits'
    BY <1>1, <1>3, <1>4 DEF ResultFits, ExtractionInv
  <1>. QED
    BY <1>1, <1>2, <1>3, <1>4, <1>5 DEF ExtractionInv

\* The plan holds, the provider was heard for a part of it, at most twice for a
\* chunk, and the result is what its answers make (extraction/service.py extract).
THEOREM ExtractionKept == ExtractionSpec => []ExtractionInv
  <1>1. ExtractionInit => ExtractionInv
    BY ExtractionInitially
  <1>2. ExtractionInv /\ [ExtractionNext]_extractionVars => ExtractionInv'
    <2>. SUFFICES ASSUME ExtractionInv, [ExtractionNext]_extractionVars PROVE ExtractionInv'
      OBVIOUS
    <2>1. CASE PlanStep /\ UNCHANGED <<heard, result>>
      BY <2>1, PlanStepKeepsExtraction
    <2>2. CASE Call
      BY <2>2, CallKeepsExtraction
    <2>3. CASE Finish
      BY <2>3, FinishKeepsExtraction
    <2>4. CASE UNCHANGED extractionVars
      BY <2>4, ExtractionUnchanged
    <2>. QED
      BY <2>1, <2>2, <2>3, <2>4 DEF ExtractionNext
  <1>. QED
    BY <1>1, <1>2, PTL DEF ExtractionSpec

-----------------------------------------------------------------------------
(***************************************************************************)
(* What is drafted: the supported steps of the last answer for each chunk. *)
(***************************************************************************)

LEMMA UsedIs ==
  ASSUME NEW said \in Seq(Saying)
  PROVE  \/ Used(said) = << >> /\ \A i \in 1 .. Len(said) : ~IsAnswer(said[i])
         \/ \E i \in 1 .. Len(said) :
               /\ IsAnswer(said[i]) /\ Used(said) = said[i].steps
               /\ \A j \in 1 .. Len(said) : IsAnswer(said[j]) => j <= i
  <1>1. DOMAIN said = 1 .. Len(said) /\ Len(said) \in Nat
    OBVIOUS
  <1>2. PICK T : T = Answers(said)
    OBVIOUS
  <1>3. T = {i \in 1 .. Len(said) : IsAnswer(said[i])}
    BY <1>1, <1>2 DEF Answers
  <1>4. CASE T = {}
    BY <1>2, <1>3, <1>4 DEF Used
  <1>5. CASE T # {}
    <2>1. T \in SUBSET Nat /\ \A i \in T : i <= Len(said)
      BY <1>1, <1>3
    <2>2. Max(T) \in T /\ \A i \in T : i <= Max(T)
      BY <1>1, <1>5, <2>1, MaxOfBounded
    <2>3. Used(said) = said[Max(T)].steps
      BY <1>2, <1>5 DEF Used
    <2>. QED
      BY <1>3, <2>2, <2>3
  <1>. QED
    BY <1>4, <1>5

LEMMA UsedType ==
  ASSUME NEW said \in Seq(Saying)
  PROVE  Used(said) \in Seq(RawStep)
  <1>1. << >> \in Seq(RawStep)
    OBVIOUS
  <1>2. \A i \in 1 .. Len(said) : said[i] \in Saying
    OBVIOUS
  <1>3. \A i \in 1 .. Len(said) : said[i].steps \in Seq(RawStep)
    BY <1>2 DEF Saying
  <1>. QED
    BY <1>1, <1>3, UsedIs

\* What a pointer is resolved to was shown.
LEMMA CitesAreShown ==
  ASSUME NEW chunk, NEW pointers \in Pointers
  PROVE  /\ Cites(chunk, pointers) \in SUBSET SpanType
         /\ \A span \in Cites(chunk, pointers) : Shown(chunk, span)
  <1>1. ASSUME NEW span \in Cites(chunk, pointers)
        PROVE  span \in SpanType /\ Shown(chunk, span)
    <2>1. PICK p \in pointers : span \in PointerSpan(chunk, p)
      BY DEF Cites
    <2>2. p \in Pointer
      BY DEF Pointers
    <2>3. p.block \in Nat /\ p.length \in Nat /\ p.starts \in SUBSET Nat
      BY <2>2 DEF Pointer
    <2>4. Shown(chunk, span) /\ \E at \in Meant(chunk, p) : span = Span(p, at)
      BY <2>1 DEF PointerSpan
    <2>5. PICK at \in Meant(chunk, p) : span = Span(p, at)
      BY <2>4
    <2>6. Meant(chunk, p) \subseteq p.starts
      BY DEF Meant
    <2>7. at \in Nat /\ at + p.length \in Nat
      BY <2>3, <2>5, <2>6
    <2>8. span = <<p.block, at, at + p.length>>
      BY <2>5 DEF Span
    <2>. QED
      BY <2>3, <2>4, <2>7, <2>8 DEF SpanType
  <1>. QED
    BY <1>1

\* A supported step cites something.
LEMMA SupportedCites ==
  ASSUME NEW chunk, NEW raw, Supported(chunk, raw)
  PROVE  Cites(chunk, raw.activity) # {}
  <1>1. PICK p \in raw.activity : PointerSpan(chunk, p) # {}
    BY DEF Supported, Verified
  <1>. QED
    BY <1>1 DEF Cites

LEMMA ResolvedIsDraft ==
  ASSUME NEW chunk, NEW raw \in RawStep, Supported(chunk, raw)
  PROVE  IsDraft(ResolvedStep(chunk, raw))
  <1>1. raw.activity \in Pointers /\ raw.order \in Nat
    BY DEF RawStep
  <1>2. PICK d : d = ResolvedStep(chunk, raw)
    OBVIOUS
  <1>3. /\ d.cites = Cites(chunk, raw.activity)
        /\ d.order = IF Verified(chunk, raw.at) THEN raw.order ELSE 0
    BY <1>2 DEF ResolvedStep
  <1>4. d.cites \in SUBSET SpanType
    BY <1>1, <1>3, CitesAreShown
  <1>5. d.cites # {}
    BY <1>3, SupportedCites
  <1>6. d.order \in Nat
    BY <1>1, <1>3
  <1>. QED
    BY <1>2, <1>4, <1>5, <1>6 DEF IsDraft

\* The steps of the answer that is used of a chunk.
Row(n) == {n} \X {k \in DOMAIN Used(heard[n]) : Supported(Chunks[n], Used(heard[n])[k])}

LEMMA PlaceIs ==
  ASSUME HeardFits, NEW p \in Places
  PROVE  /\ p[1] \in 1 .. Len(heard) /\ p \in Nat \X Nat
         /\ p[2] \in 1 .. Len(Used(heard[p[1]]))
         /\ Used(heard[p[1]])[p[2]] \in RawStep
         /\ Supported(Chunks[p[1]], Used(heard[p[1]])[p[2]])
  <1>1. heard \in Seq(Seq(Saying)) /\ DOMAIN heard = 1 .. Len(heard) /\ Len(heard) \in Nat
    BY DEF HeardFits
  <1>2. PICK n \in 1 .. Len(heard) :
          p \in {n} \X {k \in DOMAIN Used(heard[n]) : Supported(Chunks[n], Used(heard[n])[k])}
    BY <1>1 DEF Places
  <1>3. PICK used : used = Used(heard[n])
    OBVIOUS
  <1>4. used \in Seq(RawStep)
    <2>1. heard[n] \in Seq(Saying)
      BY <1>1
    <2>. QED
      BY <1>3, <2>1, UsedType
  <1>5. DOMAIN used = 1 .. Len(used) /\ Len(used) \in Nat /\ \A k \in 1 .. Len(used) : used[k] \in RawStep
    BY <1>4
  <1>6. PICK k \in 1 .. Len(used) : p = <<n, k>> /\ Supported(Chunks[n], used[k])
    BY <1>2, <1>3, <1>5
  <1>. QED
    BY <1>1, <1>3, <1>5, <1>6

LEMMA PlacesAreFinite ==
  ASSUME HeardFits
  PROVE  IsFiniteSet(Places)
  <1>1. heard \in Seq(Seq(Saying)) /\ DOMAIN heard = 1 .. Len(heard) /\ Len(heard) \in Nat
    BY DEF HeardFits
  <1>2. PICK I : I = 1 .. Len(heard)
    OBVIOUS
  <1>3. IsFiniteSet(I)
    BY <1>1, <1>2, FS_Interval
  <1>4. PICK T : T = {Row(n) : n \in I}
    OBVIOUS
  <1>5. PICK f : f = [n \in I |-> Row(n)]
    OBVIOUS
  <1>6. f \in Surjection(I, T)
    BY <1>4, <1>5 DEF Surjection
  <1>7. IsFiniteSet(T)
    BY <1>3, <1>6, FS_Surjection
  <1>8. ASSUME NEW R \in T PROVE IsFiniteSet(R)
    <2>1. PICK n \in I : R = Row(n)
      BY <1>4
    <2>2. heard[n] \in Seq(Saying)
      BY <1>1, <1>2
    <2>3. Used(heard[n]) \in Seq(RawStep)
      BY <2>2, UsedType
    <2>4. PICK D : D = DOMAIN Used(heard[n])
      OBVIOUS
    <2>5. IsFiniteSet(D)
      <3>1. D = 1 .. Len(Used(heard[n])) /\ Len(Used(heard[n])) \in Nat
        BY <2>3, <2>4
      <3>. QED
        BY <3>1, FS_Interval
    <2>6. PICK E : E = {k \in D : Supported(Chunks[n], Used(heard[n])[k])}
      OBVIOUS
    <2>7. IsFiniteSet(E)
      BY <2>5, <2>6, FS_Subset
    <2>8. IsFiniteSet({n})
      BY FS_Singleton
    <2>9. IsFiniteSet({n} \X E)
      BY <2>7, <2>8, FS_Product
    <2>. QED
      BY <2>1, <2>4, <2>6, <2>9 DEF Row
  <1>9. IsFiniteSet(UNION T)
    BY <1>7, <1>8, FS_UNION
  <1>10. Places = UNION T
    BY <1>1, <1>2, <1>4 DEF Places, Row
  <1>. QED
    BY <1>9, <1>10

LEMMA DraftIs ==
  ASSUME NEW p \in Places
  PROVE  Drafts[p] = ResolvedStep(Chunks[p[1]], Used(heard[p[1]])[p[2]])
  BY DEF Drafts

LEMMA DraftsAreFit ==
  ASSUME HeardFits
  PROVE  DraftsFit(Drafts)
  <1>1. DOMAIN Drafts = Places
    BY DEF Drafts
  <1>2. ASSUME NEW p \in Places PROVE IsDraft(Drafts[p]) /\ p \in Nat \X Nat
    <2>1. PICK raw : raw = Used(heard[p[1]])[p[2]]
      OBVIOUS
    <2>2. raw \in RawStep /\ Supported(Chunks[p[1]], raw) /\ p \in Nat \X Nat
      BY <2>1, PlaceIs
    <2>3. IsDraft(ResolvedStep(Chunks[p[1]], raw))
      BY <2>2, ResolvedIsDraft
    <2>. QED
      BY <2>1, <2>2, <2>3, DraftIs
  <1>. QED
    BY <1>1, <1>2, PlacesAreFinite DEF DraftsFit

-----------------------------------------------------------------------------
(***************************************************************************)
(* The candidate.                                                          *)
(***************************************************************************)

\* A draft cites what was shown, and its collections are accepted unless the
\* answer was refused.
LEMMA DraftsAreSupported ==
  ASSUME PlanInv, HeardFits, NoneRefused, NEW p \in Places
  PROVE  /\ \A span \in Drafts[p].cites : \E n \in DOMAIN Chunks : Shown(Chunks[n], span)
         /\ CollectionAccepted(Drafts[p].inputs)
  <1>1. PICK n, k : n = p[1] /\ k = p[2]
    OBVIOUS
  <1>2. PICK said, used : said = heard[n] /\ used = Used(said)
    OBVIOUS
  <1>3. /\ n \in 1 .. Len(heard) /\ k \in 1 .. Len(used)
        /\ used[k] \in RawStep /\ Supported(Chunks[n], used[k])
    BY <1>1, <1>2, PlaceIs
  <1>4. said \in Seq(Saying)
    BY <1>2, <1>3 DEF HeardFits
  <1>5. PICK raw : raw = used[k]
    OBVIOUS
  <1>6. PICK draft : draft = Drafts[p]
    OBVIOUS
  <1>7. draft = ResolvedStep(Chunks[n], raw)
    BY <1>1, <1>2, <1>5, <1>6, DraftIs
  <1>8. /\ draft.cites = Cites(Chunks[n], raw.activity)
        /\ draft.inputs = ResolvedCollection(Chunks[n], raw.inputs)
    BY <1>7 DEF ResolvedStep
  <1>9. n \in DOMAIN Chunks
    <2>1. Chunks \in Seq(Seq(SliceType))
      BY DEF PlanInv, PlanUpTo, Plan
    <2>2. Len(heard) \in Nat /\ Len(heard) <= Len(Chunks) /\ Len(Chunks) \in Nat
      BY <2>1 DEF HeardFits
    <2>. QED
      BY <1>3, <2>1, <2>2
  <1>10. \A span \in draft.cites : Shown(Chunks[n], span)
    <2>1. raw.activity \in Pointers
      BY <1>3, <1>5 DEF RawStep
    <2>. QED
      BY <1>8, <2>1, CitesAreShown
  <1>11. ~Refused(Chunks[n], used)
    <2>1. used # << >>
      <3>1. used \in Seq(RawStep)
        BY <1>2, <1>4, UsedType
      <3>. QED
        BY <1>3, <3>1
    <2>2. PICK i \in 1 .. Len(said) : IsAnswer(said[i]) /\ used = said[i].steps
      BY <1>2, <1>4, <2>1, UsedIs
    <2>. QED
      BY <1>2, <1>3, <2>2 DEF NoneRefused
  <1>12. k \in DOMAIN used
    <2>1. used \in Seq(RawStep)
      BY <1>2, <1>4, UsedType
    <2>. QED
      BY <1>3, <2>1
  <1>13. CollectionAccepted(ResolvedCollection(Chunks[n], raw.inputs))
    BY <1>3, <1>5, <1>11, <1>12 DEF Refused
  <1>. QED
    BY <1>6, <1>8, <1>9, <1>10, <1>13

\* A candidate is what the drafts were merged to.
LEMMA ResultIsMerged ==
  ASSUME ExtractionInv, result \notin {NoResult, Failed, Raised}
  PROVE  /\ AllAsked /\ Places # {} /\ result = Outcome
         /\ PlanInv /\ HeardFits /\ NoneRefused
         /\ result.steps = Merged(Drafts) /\ MergedWell(Drafts, result.steps)
  <1>1. AllAsked /\ Places # {} /\ result = Outcome
    BY DEF ExtractionInv, ResultFits
  <1>2. PlanInv /\ HeardFits /\ NoneRefused
    BY DEF ExtractionInv
  <1>3. result.steps = Merged(Drafts)
    BY <1>1 DEF Outcome
  <1>4. MergedWell(Drafts, Merged(Drafts))
    BY <1>2, DraftsAreFit, MergeIsSound
  <1>. QED
    BY <1>1, <1>2, <1>3, <1>4

LEMMA CandidateIsSound == ExtractionInv => CandidateSound
  <1>. SUFFICES ASSUME ExtractionInv, Finished PROVE CandidateSound
    BY DEF CandidateSound
  <1>1. result \notin {NoResult, Failed, Raised}
    BY DEF Finished, NoResult, Failed, Raised
  <1>2. PICK steps : steps = result.steps
    OBVIOUS
  <1>3. PlanInv /\ HeardFits /\ NoneRefused /\ MergedWell(Drafts, steps)
    BY <1>1, <1>2, ResultIsMerged
  <1>4. /\ FromDrafts(Drafts, steps) /\ Represents(Drafts, steps) /\ NoneTwice(steps)
        /\ StepsAccepted(steps) /\ DependenciesFit(steps) /\ InOrder(steps)
    BY <1>3 DEF MergedWell
  <1>5. ASSUME NEW i \in DOMAIN steps
        PROVE  /\ \A span \in steps[i].cites : \E n \in DOMAIN Chunks : Shown(Chunks[n], span)
               /\ CollectionAccepted(steps[i].inputs)
    <2>1. DOMAIN Drafts = Places
      BY DEF Drafts
    <2>2. PICK p \in Places :
            steps[i].cites = Drafts[p].cites /\ steps[i].inputs = Drafts[p].inputs
      BY <1>4, <2>1 DEF FromDrafts
    <2>3. /\ \A span \in Drafts[p].cites : \E n \in DOMAIN Chunks : Shown(Chunks[n], span)
          /\ CollectionAccepted(Drafts[p].inputs)
      BY <1>3, DraftsAreSupported
    <2>. QED
      BY <2>2, <2>3
  <1>6. \A d \in DOMAIN Drafts : \E i \in DOMAIN steps : SameActivity(steps[i], Drafts[d])
    BY <1>4 DEF Represents
  <1>7. \A i, j \in DOMAIN steps : i # j => ~SameActivity(steps[i], steps[j])
    BY <1>4 DEF NoneTwice
  <1>8. \A i \in DOMAIN steps : \A l \in DOMAIN steps[i].needs : \A t \in steps[i].needs[l] :
          \E j \in DOMAIN steps \ {i} : /\ steps[j].id = t /\ steps[j].label = l
                                        /\ \A k \in DOMAIN steps \ {j} : steps[k].label # l
    BY <1>4 DEF DependenciesFit, Depends
  <1>9. \/ \A i, j \in DOMAIN steps : i < j => 0 < steps[i].order /\ steps[i].order < steps[j].order
        \/ \A i, j \in DOMAIN steps :
             i < j => ~Before(Earliest(steps[j]), Earliest(steps[i]))
    BY <1>4 DEF InOrder
  <1>. QED
    BY <1>2, <1>4, <1>5, <1>6, <1>7, <1>8, <1>9 DEF CandidateSound

\* Whatever the provider answers, a candidate cites what was shown, misses nothing
\* that was read and is a process: its steps are distinct, in order, and depend
\* on each other unambiguously (extraction/merge.py, extraction/evidence.py).
THEOREM CandidatesAreSound == ExtractionSpec => []CandidateSound
  BY ExtractionKept, CandidateIsSound, PTL

-----------------------------------------------------------------------------
(***************************************************************************)
(* The status.                                                             *)
(***************************************************************************)

\* No issue is reported of a step if all that it points to was found.
Clean(chunk, raw) == \A p \in PointersOf(raw) : PointerSpan(chunk, p) # {}

LEMMA PointersAre ==
  ASSUME NEW raw, NEW p
  PROVE  p \in PointersOf(raw)
         <=> \/ p \in raw.activity \/ p \in raw.at \/ p \in raw.inputs.evidence
             \/ \E item \in raw.inputs.items : p \in item
             \/ \E need \in raw.needs : p \in need[2]
  BY DEF PointersOf

LEMMA CleanIs ==
  ASSUME NEW chunk, NEW raw, raw.activity # {}
  PROVE  Clean(chunk, raw)
         <=> ~ \/ ~Supported(chunk, raw) \/ ~Verified(chunk, raw.at) \/ Lost(chunk, raw.inputs)
               \/ \E need \in raw.needs : ~Verified(chunk, need[2])
  <1>1. Supported(chunk, raw) <=> Verified(chunk, raw.activity)
    BY DEF Supported
  <1>2. ~Lost(chunk, raw.inputs)
        <=> /\ \A item \in raw.inputs.items : Verified(chunk, item)
            /\ Verified(chunk, raw.inputs.evidence)
    BY DEF Lost
  <1>3. Clean(chunk, raw)
        <=> /\ Verified(chunk, raw.activity) /\ Verified(chunk, raw.at)
            /\ Verified(chunk, raw.inputs.evidence)
            /\ \A item \in raw.inputs.items : Verified(chunk, item)
            /\ \A need \in raw.needs : Verified(chunk, need[2])
    BY PointersAre DEF Clean, Verified
  <1>. QED
    BY <1>1, <1>2, <1>3

LEMMA IssuesAre ==
  ASSUME NEW chunk, NEW answer, SchemaAccepts(answer)
  PROVE  HasIssues(chunk, answer) <=> \E raw \in Range(answer) : ~Clean(chunk, raw)
  <1>1. ASSUME NEW n \in DOMAIN answer
        PROVE  LET raw == answer[n]
               IN ~Clean(chunk, raw)
                  <=> \/ ~Supported(chunk, raw) \/ ~Verified(chunk, raw.at) \/ Lost(chunk, raw.inputs)
                      \/ \E need \in raw.needs : ~Verified(chunk, need[2])
    <2>1. answer[n].activity # {}
      BY DEF SchemaAccepts
    <2>. QED
      BY <2>1, CleanIs
  <1>2. HasIssues(chunk, answer) <=> \E n \in DOMAIN answer : ~Clean(chunk, answer[n])
    BY <1>1 DEF HasIssues
  <1>3. Range(answer) = {answer[n] : n \in DOMAIN answer}
    BY DEF Range
  <1>. QED
    BY <1>2, <1>3

\* The answer that is used is the last one, if that is an answer.
LEMMA LastIsUsed ==
  ASSUME HeardFits, NEW n \in 1 .. Len(heard), IsAnswer(LastWord(n))
  PROVE  Used(heard[n]) = LastWord(n).steps /\ SchemaAccepts(LastWord(n).steps)
  <1>1. PICK said : said = heard[n]
    OBVIOUS
  <1>2. said \in Seq(Saying) /\ Len(said) \in 1 .. (Repairs + 1) /\ Repairs \in Nat
    BY <1>1, RepairsAssumption DEF HeardFits
  <1>3. Len(said) \in 1 .. Len(said) /\ LastWord(n) = said[Len(said)]
    BY <1>1, <1>2 DEF LastWord
  <1>4. PICK i \in 1 .. Len(said) : /\ IsAnswer(said[i]) /\ Used(said) = said[i].steps
                                    /\ \A j \in 1 .. Len(said) : IsAnswer(said[j]) => j <= i
    BY <1>2, <1>3, UsedIs
  <1>5. i = Len(said)
    BY <1>2, <1>3, <1>4
  <1>6. SchemaAccepts(said[Len(said)].steps)
    BY <1>1, <1>3 DEF HeardFits
  <1>. QED
    BY <1>1, <1>3, <1>4, <1>5, <1>6

\* A chunk was answered without an issue.
Answered(n) == IsAnswer(LastWord(n)) /\ \A raw \in Claims(n) : Clean(Chunks[n], raw)

LEMMA AnsweredIs ==
  ASSUME HeardFits, NEW n \in 1 .. Len(heard)
  PROVE  ErrorIssue(Chunks[n], heard[n]) <=> ~Answered(n)
  <1>1. CASE ~IsAnswer(LastWord(n))
    BY <1>1 DEF ErrorIssue, LastWord, Answered
  <1>2. CASE IsAnswer(LastWord(n))
    <2>1. PICK answer : answer = LastWord(n).steps
      OBVIOUS
    <2>2. Used(heard[n]) = answer /\ SchemaAccepts(answer)
      BY <1>2, <2>1, LastIsUsed
    <2>3. Claims(n) = Range(answer)
      BY <1>2, <2>1 DEF Claims
    <2>4. HasIssues(Chunks[n], answer) <=> \E raw \in Range(answer) : ~Clean(Chunks[n], raw)
      BY <2>2, IssuesAre
    <2>5. ErrorIssue(Chunks[n], heard[n]) <=> HasIssues(Chunks[n], answer)
      BY <1>2, <2>2 DEF ErrorIssue, LastWord
    <2>. QED
      BY <1>2, <2>3, <2>4, <2>5 DEF Answered
  <1>. QED
    BY <1>1, <1>2

\* What an answer claims is in the candidate.
Contained(n, raw) ==
  \E i \in DOMAIN result.steps :
     result.steps[i].label = raw.label
     /\ result.steps[i].cites \cap Cites(Chunks[n], raw.activity) # {}

LEMMA ClaimsAreContained ==
  ASSUME HeardFits, Represents(Drafts, result.steps),
         NEW n \in 1 .. Len(heard), Answered(n), NEW raw \in Claims(n)
  PROVE  Contained(n, raw)
  <1>1. IsAnswer(LastWord(n)) /\ Clean(Chunks[n], raw)
    BY DEF Answered
  <1>2. PICK used : used = Used(heard[n])
    OBVIOUS
  <1>3. used = LastWord(n).steps /\ SchemaAccepts(used)
    BY <1>1, <1>2, LastIsUsed
  <1>4. PICK k \in DOMAIN used : raw = used[k]
    BY <1>1, <1>3 DEF Claims, Range
  <1>5. raw.activity # {}
    BY <1>3, <1>4 DEF SchemaAccepts
  <1>6. Supported(Chunks[n], raw)
    BY <1>1, <1>5, CleanIs
  <1>7. PICK p : p = <<n, k>>
    OBVIOUS
  <1>8. DOMAIN heard = 1 .. Len(heard)
    BY DEF HeardFits
  <1>9. p \in Places
    BY <1>2, <1>4, <1>6, <1>7, <1>8 DEF Places
  <1>10. PICK draft : draft = Drafts[p]
    OBVIOUS
  <1>11. draft = ResolvedStep(Chunks[n], raw)
    BY <1>2, <1>4, <1>7, <1>9, <1>10, DraftIs
  <1>12. draft.label = raw.label /\ draft.cites = Cites(Chunks[n], raw.activity)
    BY <1>11 DEF ResolvedStep
  <1>13. PICK i \in DOMAIN result.steps : SameActivity(result.steps[i], draft)
    BY <1>9, <1>10 DEF Represents, Drafts
  <1>. QED
    BY <1>12, <1>13 DEF SameActivity, Contained

Told ==
  /\ AllAsked /\ \E n \in DOMAIN heard : Claims(n) # {}
  /\ \A n \in DOMAIN heard : IsAnswer(LastWord(n))
  /\ \A n \in DOMAIN heard : \A raw \in Claims(n) : Contained(n, raw) /\ Clean(Chunks[n], raw)

LEMMA StatusIsTold ==
  ASSUME ExtractionInv, result # NoResult
  PROVE  result.status = "SUCCESS" <=> Told
  <1>1. HeardFits /\ DOMAIN heard = 1 .. Len(heard)
    BY DEF ExtractionInv, HeardFits
  <1>2. CASE result \in {Failed, Raised}
    <2>1. result.status # "SUCCESS" /\ result.steps = << >>
      BY <1>2 DEF Failed, Raised
    <2>2. DOMAIN result.steps = {}
      BY <2>1
    <2>3. ~Told
      BY <2>2 DEF Told, Contained
    <2>. QED
      BY <2>1, <2>3
  <1>3. CASE result \notin {Failed, Raised}
    <2>1. /\ AllAsked /\ Places # {} /\ result = Outcome
          /\ MergedWell(Drafts, result.steps)
      BY <1>3, ResultIsMerged
    <2>2. result.status = "SUCCESS" <=> \A n \in DOMAIN heard : ~ErrorIssue(Chunks[n], heard[n])
      BY <2>1 DEF Outcome
    <2>3. result.status = "SUCCESS" <=> \A n \in DOMAIN heard : Answered(n)
      BY <1>1, <2>2, AnsweredIs
    <2>4. Told => \A n \in DOMAIN heard : Answered(n)
      BY DEF Told, Answered
    <2>5. ASSUME \A n \in DOMAIN heard : Answered(n) PROVE Told
      <3>1. Represents(Drafts, result.steps)
        BY <2>1 DEF MergedWell
      <3>2. \A n \in DOMAIN heard : \A raw \in Claims(n) : Contained(n, raw)
        BY <1>1, <2>5, <3>1, ClaimsAreContained
      <3>3. \E n \in DOMAIN heard : Claims(n) # {}
        <4>1. PICK p \in Places : TRUE
          BY <2>1
        <4>2. PICK n, k, used : n = p[1] /\ k = p[2] /\ used = Used(heard[n])
          OBVIOUS
        <4>3. n \in 1 .. Len(heard) /\ k \in 1 .. Len(used)
          BY <1>1, <4>1, <4>2, PlaceIs
        <4>4. IsAnswer(LastWord(n))
          BY <1>1, <2>5, <4>3 DEF Answered
        <4>5. used = LastWord(n).steps
          BY <1>1, <4>2, <4>3, <4>4, LastIsUsed
        <4>6. k \in DOMAIN used
          <5>1. heard[n] \in Seq(Saying)
            BY <1>1, <4>3 DEF HeardFits
          <5>2. used \in Seq(RawStep)
            BY <4>2, <5>1, UsedType
          <5>. QED
            BY <4>3, <5>2
        <4>7. used[k] \in Claims(n)
          BY <4>4, <4>5, <4>6 DEF Claims, Range
        <4>. QED
          BY <1>1, <4>3, <4>7
      <3>. QED
        BY <2>1, <2>5, <3>2, <3>3 DEF Told, Answered
    <2>. QED
      BY <2>3, <2>4, <2>5
  <1>. QED
    BY <1>2, <1>3

LEMMA StatusIsSound == ExtractionInv => StatusTells
  <1>. SUFFICES ASSUME ExtractionInv PROVE StatusTells
    OBVIOUS
  <1>1. \A n \in DOMAIN heard : Len(heard[n]) <= Repairs + 1
    <2>1. HeardFits /\ DOMAIN heard = 1 .. Len(heard) /\ Repairs \in Nat
      BY RepairsAssumption DEF ExtractionInv, HeardFits
    <2>. QED
      BY <2>1 DEF HeardFits
  <1>2. result # NoResult => (result.status = "SUCCESS" <=> Told)
    BY StatusIsTold
  <1>. QED
    BY <1>1, <1>2 DEF StatusTells, Told, Contained, Clean

\* SUCCESS is returned if and only if every chunk was answered and everything its
\* last answer claims is in the candidate and can be looked up
\* (extraction/service.py extract).
THEOREM StatusIsHonest == ExtractionSpec => []StatusTells
  BY ExtractionKept, StatusIsSound, PTL
=============================================================================
