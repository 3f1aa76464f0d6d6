---- MODULE ParagraphBuilderProofs ----
(***************************************************************************)
(* The context is made of the newest paragraphs, for events and histories  *)
(* of any length: what the loop over the lines has after n of them, by     *)
(* induction over n.  Induction is over a set of numbers that has 0 and    *)
(* the successor of each of its elements.                                  *)
(***************************************************************************)
EXTENDS ParagraphBuilder, FiniteSetTheorems, SequenceTheorems, WellFoundedInduction, TLAPS

LEMMA SetInduction ==
    ASSUME NEW T \in SUBSET Nat, 0 \in T, \A n \in T : n + 1 \in T
    PROVE  T = Nat
  <1> DEFINE R == OpToRel(<, Nat)
  <1>1. IsWellFoundedOn(R, Nat)
    BY NatLessThanWellFounded
  <1>2. R = {ss \in Nat \X Nat : ss[1] < ss[2]}
    BY DEF OpToRel
  <1> HIDE DEF R
  <1>3. SUFFICES ASSUME Nat \ T # {}
                 PROVE  FALSE
    OBVIOUS
  <1>4. PICK x \in Nat \ T : \A y \in Nat \ T : ~(<<y, x>> \in R)
    BY <1>1, <1>3, WFMin
  <1>5. \A y \in Nat \ T : ~(y < x)
    BY <1>2, <1>4
  <1>6. x # 0 /\ x - 1 \in Nat /\ x - 1 < x
    BY <1>4
  <1>7. x - 1 \in T
    BY <1>5, <1>6
  <1> QED
    BY <1>4, <1>6, <1>7

-----------------------------------------------------------------------------
(* Runs, and which of them are over when n lines have been read. *)
Over(e, n) == {r \in Runs(e) : r[2] < n}
Piece(e, r) == SubSeq(e, r[1], r[2])

LEMMA RunsFinite ==
    ASSUME NEW X, NEW e \in Seq(X)
    PROVE  /\ IsFiniteSet(Runs(e)) /\ Cardinality(Runs(e)) \in Nat
           /\ \A n : IsFiniteSet(Over(e, n)) /\ Cardinality(Over(e, n)) \in Nat
  <1>1. DOMAIN e = 1..Len(e) /\ Len(e) \in Nat
    OBVIOUS
  <1>2. IsFiniteSet(DOMAIN e)
    BY <1>1, FS_Interval
  <1>3. IsFiniteSet((DOMAIN e) \X (DOMAIN e))
    BY <1>2, FS_Product
  <1>4. IsFiniteSet(Runs(e))
    BY <1>3, FS_Subset DEF Runs
  <1>5. \A n : IsFiniteSet(Over(e, n))
    BY <1>4, FS_Subset DEF Over
  <1> QED
    BY <1>4, <1>5, FS_CardinalityType

LEMMA RunFacts ==
    ASSUME NEW X, NEW e \in Seq(X), NEW r \in Runs(e)
    PROVE  /\ r = <<r[1], r[2]>> /\ r[1] \in 1..Len(e) /\ r[2] \in 1..Len(e)
           /\ r[1] <= r[2] /\ \A k \in r[1]..r[2] : e[k] # Blank
           /\ r[1] = 1 \/ e[r[1] - 1] = Blank
           /\ r[2] = Len(e) \/ e[r[2] + 1] = Blank
  BY DEF Runs, IsRun

(* Of two runs the one that begins first is over before the other begins. *)
LEMMA RunsApart ==
    ASSUME NEW X, NEW e \in Seq(X), NEW r \in Runs(e), NEW q \in Runs(e),
           q[1] <= r[1]
    PROVE  q = r \/ q[2] < r[2]
  <1>1. CASE q[1] < r[1]
    <2>1. e[r[1] - 1] = Blank /\ r[1] - 1 \in Nat
      BY <1>1, RunFacts
    <2>2. ~(r[1] - 1 \in q[1]..q[2])
      BY <2>1, RunFacts
    <2> QED
      BY <1>1, <2>2, RunFacts
  <1>2. CASE q[1] = r[1]
    <2>1. ASSUME r[2] < q[2]
          PROVE  FALSE
      <3>1. e[r[2] + 1] = Blank /\ r[2] + 1 \in q[1]..q[2]
        BY <1>2, <2>1, RunFacts
      <3> QED
        BY <3>1, RunFacts
    <2>2. q[2] <= r[2]
      BY <2>1, RunFacts
    <2>3. q[2] = r[2] => q = r
      BY <1>2, RunFacts
    <2> QED
      BY <2>2, <2>3, RunFacts
  <1> QED
    BY <1>1, <1>2, RunFacts

(* A line that is read into a paragraph ends no run, nor does a blank one    *)
(* that follows none.                                                      *)
LEMMA NoneEnds ==
    ASSUME NEW X, NEW e \in Seq(X), NEW n \in 0..Len(e),
           \/ n < Len(e) /\ e[n + 1] # Blank
           \/ n = 0
           \/ e[n] = Blank
    PROVE  Over(e, n + 1) = Over(e, n)
  <1>1. \A r \in Runs(e) : r[2] # n
    BY RunFacts
  <1> QED
    BY <1>1, RunFacts DEF Over

Opens(e, b, n) ==
    /\ \A k \in b..n : e[k] # Blank
    /\ b = 1 \/ e[b - 1] = Blank

(* The lines from b on, up to the last or one before a blank one, are a run, *)
(* and its rank is the number of runs that are over then.                  *)
LEMMA OneEnds ==
    ASSUME NEW X, NEW e \in Seq(X), NEW n \in 1..Len(e), NEW b \in 1..n,
           Opens(e, b, n), n = Len(e) \/ e[n + 1] = Blank
    PROVE  /\ <<b, n>> \in Runs(e) /\ <<b, n>> \notin Over(e, n)
           /\ Over(e, n + 1) = Over(e, n) \union {<<b, n>>}
           /\ Cardinality(Over(e, n + 1)) = Cardinality(Over(e, n)) + 1
           /\ Rank(e, <<b, n>>) = Cardinality(Over(e, n)) + 1
  <1> DEFINE run == <<b, n>>
  <1>1. run \in Runs(e) /\ run[1] = b /\ run[2] = n
    BY DEF Opens, Runs, IsRun
  <1> HIDE DEF run
  <1>2. run \notin Over(e, n)
    BY <1>1 DEF Over
  <1>3. \A q \in Runs(e) : q[1] <= b => q = run \/ q[2] < n
    BY <1>1, RunsApart
  <1>4. \A q \in Runs(e) : b <= q[1] => q = run \/ n < q[2]
    BY <1>1, RunsApart
  <1>5. \A q \in Runs(e) : q[1] \in Nat /\ q[2] \in Nat
    BY RunFacts
  <1>6. Over(e, n + 1) = Over(e, n) \union {run}
    BY <1>1, <1>3, <1>4, <1>5 DEF Over
  <1>7. {q \in Runs(e) : q[1] <= b} = Over(e, n + 1)
    BY <1>1, <1>3, <1>4, <1>5 DEF Over
  <1>8. Cardinality(Over(e, n + 1)) = Cardinality(Over(e, n)) + 1
    BY <1>2, <1>6, RunsFinite, FS_AddElement
  <1>9. Rank(e, run) = Cardinality(Over(e, n)) + 1
    BY <1>1, <1>7, <1>8 DEF Rank
  <1> QED
    BY <1>1, <1>2, <1>6, <1>8, <1>9 DEF run

-----------------------------------------------------------------------------
(* The loop of split_into_paragraphs: it has each run that is over, in its  *)
(* place, and the lines of the one that is not.                            *)
Placed(e, n, paras) ==
    /\ Len(paras) = Cardinality(Over(e, n))
    /\ \A r \in Over(e, n) :
          Rank(e, r) \in 1..Len(paras) /\ paras[Rank(e, r)] = Piece(e, r)
    /\ \A k \in 1..Len(paras) : \E r \in Over(e, n) : Rank(e, r) = k

Pending(e, n, cur) ==
    \/ cur = <<>> /\ (n = 0 \/ e[n] = Blank)
    \/ \E b \in 1..n : Opens(e, b, n) /\ cur = SubSeq(e, b, n)

Accs(X) == [paras: Seq(Seq(X)), cur: Seq(X)]
Loop(e, n, acc) == Placed(e, n, acc.paras) /\ Pending(e, n, acc.cur)

(* The end of a paragraph, at a blank line or after the last one. *)
LEMMA EndStep ==
    ASSUME NEW X, NEW e \in Seq(X), NEW n \in 0..Len(e), NEW acc \in Accs(X),
           Loop(e, n, acc), n = Len(e) \/ e[n + 1] = Blank
    PROVE  /\ EndParagraph(acc) \in Accs(X) /\ EndParagraph(acc).cur = <<>>
           /\ Placed(e, n + 1, EndParagraph(acc).paras)
  <1> DEFINE paras == acc.paras
             cur == acc.cur
  <1>1. paras \in Seq(Seq(X)) /\ cur \in Seq(X) /\ Placed(e, n, paras)
    BY DEF Accs, Loop
  <1>2. CASE cur = <<>> /\ (n = 0 \/ e[n] = Blank)
    <2>1. EndParagraph(acc) = acc
      BY <1>2 DEF EndParagraph
    <2>2. Over(e, n + 1) = Over(e, n)
      BY <1>2, NoneEnds
    <2> QED
      BY <1>1, <1>2, <2>1, <2>2 DEF Placed
  <1>3. ASSUME NEW b \in 1..n, Opens(e, b, n), cur = SubSeq(e, b, n)
        PROVE  /\ EndParagraph(acc) \in Accs(X) /\ EndParagraph(acc).cur = <<>>
               /\ Placed(e, n + 1, EndParagraph(acc).paras)
    <2> DEFINE run == <<b, n>>
               new == Append(paras, cur)
    <2>1. cur # <<>>
      BY <1>3
    <2>2. EndParagraph(acc) = [paras |-> new, cur |-> <<>>]
      BY <2>1 DEF EndParagraph
    <2>3. EndParagraph(acc) \in Accs(X) /\ EndParagraph(acc).cur = <<>>
      BY <1>1, <2>2 DEF Accs
    <2>4. n \in 1..Len(e)
      BY <1>3
    <2>5. /\ Over(e, n + 1) = Over(e, n) \union {run}
          /\ Cardinality(Over(e, n + 1)) = Cardinality(Over(e, n)) + 1
          /\ Rank(e, run) = Cardinality(Over(e, n)) + 1
      BY <1>3, <2>4, OneEnds
    <2>6. Piece(e, run) = cur
      BY <1>3 DEF Piece
    <2> HIDE DEF run
    <2>7. /\ Len(new) = Len(paras) + 1 /\ new[Len(paras) + 1] = cur
          /\ \A k \in 1..Len(paras) : new[k] = paras[k]
          /\ Len(paras) \in Nat
      BY <1>1
    <2> HIDE DEF new
    <2>8. Len(paras) = Cardinality(Over(e, n))
      BY <1>1 DEF Placed
    <2>9. \A r \in Over(e, n + 1) :
             Rank(e, r) \in 1..Len(new) /\ new[Rank(e, r)] = Piece(e, r)
      <3>1. ASSUME NEW r \in Over(e, n)
            PROVE  Rank(e, r) \in 1..Len(new) /\ new[Rank(e, r)] = Piece(e, r)
        <4>1. Rank(e, r) \in 1..Len(paras) /\ paras[Rank(e, r)] = Piece(e, r)
          BY <1>1 DEF Placed
        <4> QED
          BY <2>7, <4>1
      <3>2. Rank(e, run) \in 1..Len(new) /\ new[Rank(e, run)] = Piece(e, run)
        BY <2>5, <2>6, <2>7, <2>8
      <3> QED
        BY <2>5, <3>1, <3>2
    <2>10. \A k \in 1..Len(new) : \E r \in Over(e, n + 1) : Rank(e, r) = k
      <3>1. ASSUME NEW k \in 1..Len(new)
            PROVE  \E r \in Over(e, n + 1) : Rank(e, r) = k
        <4>1. CASE k = Len(new)
          BY <2>5, <2>7, <2>8, <4>1
        <4>2. CASE k # Len(new)
          <5>1. k \in 1..Len(paras)
            BY <2>7, <4>2
          <5> QED
            BY <1>1, <2>5, <5>1 DEF Placed
        <4> QED
          BY <4>1, <4>2
      <3> QED
        BY <3>1
    <2>11. Placed(e, n + 1, new)
      BY <2>5, <2>7, <2>8, <2>9, <2>10 DEF Placed
    <2> QED
      BY <2>2, <2>3, <2>11
  <1> QED
    BY <1>2, <1>3 DEF Loop, Pending

(* One iteration. *)
LEMMA LineStep ==
    ASSUME NEW X, NEW e \in Seq(X), NEW n \in 0..(Len(e) - 1), NEW acc \in Accs(X),
           Loop(e, n, acc)
    PROVE  /\ TakeLine(acc, e[n + 1]) \in Accs(X)
           /\ Loop(e, n + 1, TakeLine(acc, e[n + 1]))
  <1>1. n \in 0..Len(e) /\ n + 1 \in 1..Len(e) /\ e[n + 1] \in X
    OBVIOUS
  <1>2. CASE e[n + 1] = Blank
    <2>1. TakeLine(acc, e[n + 1]) = EndParagraph(acc)
      BY <1>2 DEF TakeLine
    <2> QED
      BY <1>1, <1>2, <2>1, EndStep DEF Loop, Pending
  <1>3. CASE e[n + 1] # Blank
    <2> DEFINE cur == acc.cur
               new == Append(cur, e[n + 1])
    <2>1. TakeLine(acc, e[n + 1]) = [acc EXCEPT !.cur = new]
      BY <1>3 DEF TakeLine
    <2>2. cur \in Seq(X) /\ acc.paras \in Seq(Seq(X))
      BY DEF Accs
    <2>3. TakeLine(acc, e[n + 1]) = [paras |-> acc.paras, cur |-> new]
      BY <2>1 DEF Accs
    <2>4. TakeLine(acc, e[n + 1]) \in Accs(X)
      BY <1>1, <2>2, <2>3 DEF Accs
    <2>5. Over(e, n + 1) = Over(e, n)
      BY <1>1, <1>3, NoneEnds
    <2>6. Placed(e, n + 1, acc.paras)
      BY <2>5 DEF Loop, Placed
    <2>7. \E b \in 1..(n + 1) : Opens(e, b, n + 1) /\ new = SubSeq(e, b, n + 1)
      <3>1. CASE cur = <<>> /\ (n = 0 \/ e[n] = Blank)
        <4>1. Opens(e, n + 1, n + 1)
          BY <1>3, <3>1 DEF Opens
        <4>2. new \in Seq(X) /\ Len(new) = 1 /\ new[1] = e[n + 1]
          BY <1>1, <2>2, <3>1
        <4>3. /\ SubSeq(e, n + 1, n + 1) \in Seq(X)
              /\ Len(SubSeq(e, n + 1, n + 1)) = 1
              /\ SubSeq(e, n + 1, n + 1)[1] = e[n + 1]
          BY <1>1
        <4>4. new = SubSeq(e, n + 1, n + 1)
          BY <4>2, <4>3, SeqEqual
        <4> QED
          BY <4>1, <4>4
      <3>2. ASSUME NEW b \in 1..n, Opens(e, b, n), cur = SubSeq(e, b, n)
            PROVE  Opens(e, b, n + 1) /\ new = SubSeq(e, b, n + 1) /\ b \in 1..(n + 1)
        <4>1. Opens(e, b, n + 1)
          BY <1>3, <3>2 DEF Opens
        <4>2. new = SubSeq(e, b, n + 1)
          BY <1>1, <3>2
        <4> QED
          BY <4>1, <4>2
      <3> QED
        BY <3>1, <3>2 DEF Loop, Pending
    <2>8. Pending(e, n + 1, new)
      BY <2>7 DEF Pending
    <2> QED
      BY <2>3, <2>4, <2>6, <2>8 DEF Loop
  <1> QED
    BY <1>2, <1>3

-----------------------------------------------------------------------------
(* The fold over the lines is a function of sets of line numbers, the one on *)
(* 1..n having gone through the first n lines.                             *)
First == [paras |-> <<>>, cur |-> <<>>]
Fold(g, e, s) == IF s = {} THEN First ELSE TakeLine(g[s \ {Max(s)}], e[Max(s)])

LEMMA HasMax ==
    ASSUME NEW n \in Nat, NEW s \in SUBSET (1..n), s # {}
    PROVE  \E m \in s : \A y \in s : m >= y
  <1> DEFINE T == {k \in Nat : \A u \in SUBSET (1..k) :
                       u # {} => \E m \in u : \A y \in u : m >= y}
  <1>1. 0 \in T
    <2>1. 1..0 = {}
      OBVIOUS
    <2> QED
      BY <2>1
  <1>2. ASSUME NEW k \in T
        PROVE  k + 1 \in T
    <2>1. ASSUME NEW u \in SUBSET (1..(k + 1)), u # {}
          PROVE  \E m \in u : \A y \in u : m >= y
      <3>1. CASE k + 1 \in u
        BY <3>1
      <3>2. CASE k + 1 \notin u
        <4>1. u \in SUBSET (1..k)
          BY <3>2
        <4> QED
          BY <2>1, <4>1
      <3> QED
        BY <3>1, <3>2
    <2> QED
      BY <2>1
  <1> HIDE DEF T
  <1>3. T \in SUBSET Nat
    BY DEF T
  <1>4. T = Nat
    BY <1>1, <1>2, <1>3, SetInduction
  <1> QED
    BY <1>4 DEF T

LEMMA FoldsUp ==
    ASSUME NEW X, NEW e \in Seq(X)
    PROVE  \E g : g = [s \in SUBSET DOMAIN e |-> Fold(g, e, s)]
  <1> DEFINE Upto(n) == {s \in SUBSET DOMAIN e : s \subseteq 1..n}
             T == {n \in Nat : \E g : g = [s \in Upto(n) |-> Fold(g, e, s)]}
  <1>1. 0 \in T
    <2>1. Upto(0) = {{}}
      OBVIOUS
    <2>2. [s \in {{}} |-> First] = [s \in Upto(0) |-> Fold([u \in {{}} |-> First], e, s)]
      BY <2>1 DEF Fold
    <2> QED
      BY <2>2
  <1>2. ASSUME NEW n \in T
        PROVE  n + 1 \in T
    <2>1. PICK g : g = [s \in Upto(n) |-> Fold(g, e, s)]
      OBVIOUS
    <2> DEFINE h == [s \in Upto(n + 1) |->
                       IF s \in Upto(n) THEN g[s] ELSE TakeLine(g[s \ {n + 1}], e[n + 1])]
    <2>2. ASSUME NEW s \in Upto(n + 1)
          PROVE  h[s] = Fold(h, e, s)
      <3>1. CASE s = {}
        BY <2>1, <3>1 DEF Fold
      <3>2. CASE s # {} /\ s \in Upto(n)
        <4>1. Max(s) \in s /\ s \ {Max(s)} \in Upto(n) /\ s \ {Max(s)} \in Upto(n + 1)
          <5>1. \E m \in s : \A y \in s : m >= y
            BY <3>2, HasMax
          <5>2. Max(s) \in s
            BY <5>1 DEF Max
          <5> QED
            BY <3>2, <5>2
        <4> QED
          BY <2>1, <3>2, <4>1 DEF Fold
      <3>3. CASE s \notin Upto(n)
        <4>1. n + 1 \in s /\ \A y \in s : y \in Nat /\ n + 1 >= y
          BY <3>3
        <4>2. Max(s) = n + 1
          BY <4>1 DEF Max
        <4>3. s \ {n + 1} \in Upto(n) /\ s \ {n + 1} \in Upto(n + 1)
          BY <4>1
        <4> QED
          BY <2>1, <3>3, <4>1, <4>2, <4>3 DEF Fold
      <3> QED
        BY <3>1, <3>2, <3>3
    <2>3. h = [s \in Upto(n + 1) |-> Fold(h, e, s)]
      BY <2>2
    <2> HIDE DEF h
    <2>4. \E f : f = [s \in Upto(n + 1) |-> Fold(f, e, s)]
      BY <2>3
    <2>5. n + 1 \in Nat
      OBVIOUS
    <2> HIDE DEF Upto
    <2> QED
      BY <2>4, <2>5
  <1>3. T = Nat
    <2> HIDE DEF T
    <2>1. T \in SUBSET Nat
      BY DEF T
    <2> QED
      BY <1>1, <1>2, <2>1, SetInduction
  <1>4. Len(e) \in Nat /\ DOMAIN e = 1..Len(e)
    OBVIOUS
  <1>5. Upto(Len(e)) = SUBSET DOMAIN e
    BY <1>4
  <1> HIDE DEF Upto
  <1>6. \E g : g = [s \in Upto(Len(e)) |-> Fold(g, e, s)]
    BY <1>3, <1>4
  <1> QED
    BY <1>5, <1>6

(* What the loop has read is in it. *)
LEMMA LoopHolds ==
    ASSUME NEW X, NEW e \in Seq(X)
    PROVE  /\ FoldLeft(TakeLine, First, e) \in Accs(X)
           /\ Loop(e, Len(e), FoldLeft(TakeLine, First, e))
  <1> DEFINE g == CHOOSE f : f = [s \in SUBSET DOMAIN e |-> Fold(f, e, s)]
  <1>1. FoldLeft(TakeLine, First, e) = g[DOMAIN e]
    BY DEF FoldLeft, MapThenFoldSet, Fold
  <1>2. g = [s \in SUBSET DOMAIN e |-> Fold(g, e, s)]
    BY FoldsUp
  <1>3. Len(e) \in Nat /\ DOMAIN e = 1..Len(e)
    OBVIOUS
  <1> HIDE DEF g
  <1> DEFINE T == {n \in Nat : n <= Len(e) => g[1..n] \in Accs(X) /\ Loop(e, n, g[1..n])}
  <1>4. 0 \in T
    <2>1. 1..0 = {}
      OBVIOUS
    <2>2. g[1..0] = First
      BY <1>2, <2>1 DEF Fold
    <2>3. First \in Accs(X) /\ First.cur = <<>> /\ First.paras = <<>>
      BY DEF First, Accs
    <2>4. Over(e, 0) = {} /\ Cardinality(Over(e, 0)) = 0
      <3>1. \A r \in Runs(e) : ~(r[2] < 0)
        BY RunFacts
      <3> QED
        BY <3>1, FS_EmptySet DEF Over
    <2>5. Loop(e, 0, First)
      BY <2>3, <2>4 DEF Loop, Placed, Pending
    <2> QED
      BY <2>2, <2>3, <2>5
  <1>5. ASSUME NEW n \in T
        PROVE  n + 1 \in T
    <2>1. SUFFICES ASSUME n + 1 <= Len(e)
                   PROVE  g[1..(n + 1)] \in Accs(X) /\ Loop(e, n + 1, g[1..(n + 1)])
      OBVIOUS
    <2>2. n \in 0..(Len(e) - 1) /\ g[1..n] \in Accs(X) /\ Loop(e, n, g[1..n])
      BY <1>3, <2>1
    <2>3. Max(1..(n + 1)) = n + 1
      BY DEF Max
    <2>4. (1..(n + 1)) \ {n + 1} = 1..n /\ 1 \in 1..(n + 1)
      OBVIOUS
    <2>5. 1..(n + 1) \in SUBSET DOMAIN e
      BY <1>3, <2>1
    <2>6. g[1..(n + 1)] = TakeLine(g[1..n], e[n + 1])
      BY <1>2, <2>3, <2>4, <2>5 DEF Fold
    <2> QED
      BY <2>2, <2>6, LineStep
  <1> HIDE DEF T
  <1>6. T \in SUBSET Nat
    BY DEF T
  <1>7. T = Nat
    BY <1>4, <1>5, <1>6, SetInduction
  <1>8. g[1..Len(e)] \in Accs(X) /\ Loop(e, Len(e), g[1..Len(e)])
    BY <1>3, <1>7 DEF T
  <1> QED
    BY <1>1, <1>3, <1>8

(* The paragraphs that the loop returns are the runs of the lines that are   *)
(* not blank, in their order.                                              *)
THEOREM SplitsIntoRuns ==
    ASSUME NEW X, NEW e \in Seq(X)
    PROVE  Split(e) = RunsOf(e) /\ Split(e) \in Seq(Seq(X))
  <1> DEFINE acc == FoldLeft(TakeLine, First, e)
  <1>1. acc \in Accs(X) /\ Loop(e, Len(e), acc)
    BY LoopHolds
  <1>2. Split(e) = EndParagraph(acc).paras
    BY DEF Split, First
  <1> HIDE DEF acc
  <1>3. EndParagraph(acc) \in Accs(X) /\ Placed(e, Len(e) + 1, Split(e))
    BY <1>1, <1>2, EndStep
  <1>4. Split(e) \in Seq(Seq(X))
    BY <1>2, <1>3 DEF Accs
  <1>5. Over(e, Len(e) + 1) = Runs(e)
    BY RunFacts DEF Over
  <1>6. /\ Len(Split(e)) = Cardinality(Runs(e))
        /\ \A r \in Runs(e) : Split(e)[Rank(e, r)] = Piece(e, r)
        /\ \A k \in 1..Len(Split(e)) : \E r \in Runs(e) : Rank(e, r) = k
    BY <1>3, <1>5 DEF Placed
  <1>7. ASSUME NEW k \in 1..Len(Split(e))
        PROVE  Split(e)[k] = Piece(e, RunAt(e, k))
    <2>1. RunAt(e, k) \in Runs(e) /\ Rank(e, RunAt(e, k)) = k
      BY <1>6 DEF RunAt
    <2> QED
      BY <1>6, <2>1
  <1>8. RunsOf(e) = [k \in 1..Len(Split(e)) |-> Piece(e, RunAt(e, k))]
    BY <1>6 DEF RunsOf, Piece
  <1>9. Split(e) = [k \in 1..Len(Split(e)) |-> Split(e)[k]]
    BY <1>4, LenProperties
  <1> QED
    BY <1>4, <1>7, <1>8, <1>9

-----------------------------------------------------------------------------
(* The paragraphs of a history in one sequence. *)
Joined(g, ss, i) == IF i = 1 THEN ss[i] ELSE g[i - 1] \o ss[i]

LEMMA FlattenType ==
    ASSUME NEW Y, NEW ss \in Seq(Seq(Y))
    PROVE  FlattenSeq(ss) \in Seq(Y)
  <1>1. CASE Len(ss) = 0
    BY <1>1 DEF FlattenSeq
  <1>2. CASE Len(ss) # 0
    <2> DEFINE g == CHOOSE f : f = [i \in 1..Len(ss) |-> Joined(f, ss, i)]
    <2>1. FlattenSeq(ss) = g[Len(ss)]
      BY <1>2 DEF FlattenSeq, Joined
    <2>2. \E f : f = [i \in 1..Len(ss) |-> Joined(f, ss, i)]
      <3> DEFINE T == {n \in Nat : n <= Len(ss) =>
                          \E f : f = [i \in 1..n |-> Joined(f, ss, i)]}
      <3>1. 0 \in T
        <4>1. 1..0 = {}
          OBVIOUS
        <4>2. [i \in 1..0 |-> 0] = [i \in 1..0 |-> Joined([k \in 1..0 |-> 0], ss, i)]
          BY <4>1
        <4> QED
          BY <4>2
      <3>2. ASSUME NEW n \in T
            PROVE  n + 1 \in T
        <4>1. SUFFICES ASSUME n + 1 <= Len(ss)
                       PROVE  \E f : f = [i \in 1..(n + 1) |-> Joined(f, ss, i)]
          OBVIOUS
        <4>2. n \in Nat /\ n <= Len(ss)
          BY <4>1
        <4>3. PICK f : f = [i \in 1..n |-> Joined(f, ss, i)]
          BY <4>2
        <4> DEFINE h == [i \in 1..(n + 1) |-> IF i \in 1..n THEN f[i] ELSE Joined(f, ss, i)]
        <4>4. ASSUME NEW i \in 1..(n + 1)
              PROVE  h[i] = Joined(h, ss, i)
          <5>1. i # 1 => i - 1 \in 1..n /\ h[i - 1] = f[i - 1]
            BY <4>2
          <5>2. Joined(h, ss, i) = Joined(f, ss, i)
            BY <5>1 DEF Joined
          <5>3. h[i] = Joined(f, ss, i)
            BY <4>3
          <5> QED
            BY <5>2, <5>3
        <4>5. h = [i \in 1..(n + 1) |-> Joined(h, ss, i)]
          BY <4>4
        <4> HIDE DEF h
        <4> QED
          BY <4>5
      <3> HIDE DEF T
      <3>3. T \in SUBSET Nat
        BY DEF T
      <3>4. T = Nat
        BY <3>1, <3>2, <3>3, SetInduction
      <3>5. Len(ss) \in Nat
        OBVIOUS
      <3> QED
        BY <3>4, <3>5 DEF T
    <2>3. g = [i \in 1..Len(ss) |-> Joined(g, ss, i)]
      BY <2>2
    <2> HIDE DEF g
    <2> DEFINE T == {n \in Nat : n + 1 <= Len(ss) => g[n + 1] \in Seq(Y)}
    <2>4. 0 \in T
      <3>1. SUFFICES ASSUME 1 <= Len(ss)
                     PROVE  g[1] \in Seq(Y)
        OBVIOUS
      <3>2. 1 \in 1..Len(ss)
        BY <3>1
      <3> QED
        BY <2>3, <3>2 DEF Joined
    <2>5. ASSUME NEW n \in T
          PROVE  n + 1 \in T
      <3>1. SUFFICES ASSUME n + 2 <= Len(ss)
                     PROVE  g[n + 2] \in Seq(Y)
        OBVIOUS
      <3>2. n + 2 \in 1..Len(ss) /\ n + 2 # 1 /\ (n + 2) - 1 = n + 1
        BY <3>1
      <3>3. g[n + 2] = g[n + 1] \o ss[n + 2]
        BY <2>3, <3>2 DEF Joined
      <3>4. g[n + 1] \in Seq(Y) /\ ss[n + 2] \in Seq(Y)
        BY <3>1, <3>2
      <3> QED
        BY <3>3, <3>4, ConcatProperties
    <2> HIDE DEF T
    <2>6. T \in SUBSET Nat
      BY DEF T
    <2>7. T = Nat
      BY <2>4, <2>5, <2>6, SetInduction
    <2>8. \A n \in Nat : n + 1 <= Len(ss) => g[n + 1] \in Seq(Y)
      BY <2>7 DEF T
    <2>9. g[Len(ss)] \in Seq(Y)
      <3>1. Len(ss) - 1 \in Nat /\ (Len(ss) - 1) + 1 = Len(ss) /\ Len(ss) <= Len(ss)
        BY <1>2
      <3> QED
        BY <2>8, <3>1
    <2> QED
      BY <2>1, <2>9
  <1> QED
    BY <1>1, <1>2

(* rev().take(n).rev() leaves the last n, or all. *)
LEMMA SuffixSelected ==
    ASSUME NEW Y, NEW h, AllParagraphs(h) \in Seq(Y), N \in Nat
    PROVE  /\ IsSuffix(Selected(h), AllParagraphs(h))
           /\ Len(Selected(h)) =
                 IF Len(AllParagraphs(h)) < N THEN Len(AllParagraphs(h)) ELSE N
  <1> DEFINE paras == AllParagraphs(h)
             rev == Reverse(paras)
             kept == SubSeq(rev, 1, N)
  <1>1. paras \in Seq(Y) /\ Len(paras) \in Nat
    OBVIOUS
  <1>2. rev \in Seq(Y) /\ Len(rev) = Len(paras)
    BY <1>1 DEF Reverse
  <1>3. CASE Len(paras) <= N
    <2>1. Selected(h) = paras
      BY <1>3 DEF Selected
    <2>2. IsSuffix(paras, paras)
      BY <1>1 DEF IsSuffix, IsPrefix
    <2> QED
      BY <1>1, <1>3, <2>1, <2>2
  <1>4. CASE ~(Len(paras) <= N)
    <2>1. Selected(h) = Reverse(kept)
      BY <1>4 DEF Selected
    <2> HIDE DEF paras
    <2>2. kept \in Seq(Y) /\ Len(kept) = N
      BY <1>1, <1>2, <1>4
    <2> HIDE DEF rev, kept
    <2>3. /\ Reverse(kept) \in Seq(Y) /\ Len(Reverse(kept)) = N
          /\ \A i \in 1..N : Reverse(kept)[i] = kept[N - i + 1]
      BY <2>2 DEF Reverse
    <2>4. Reverse(Reverse(kept)) \in Seq(Y) /\ Len(Reverse(Reverse(kept))) = N
      <3> DEFINE back == Reverse(kept)
      <3>1. back \in Seq(Y) /\ Len(back) = N
        BY <2>3
      <3> HIDE DEF back
      <3>2. Reverse(back) \in Seq(Y) /\ Len(Reverse(back)) = N
        BY <3>1 DEF Reverse
      <3> QED
        BY <3>2 DEF back
    <2>5. \A i \in 1..N : Reverse(Reverse(kept))[i] = kept[i]
      BY <2>2, <2>3 DEF Reverse
    <2>6. Reverse(Reverse(kept)) = kept
      BY <2>2, <2>4, <2>5, SeqEqual
    <2>7. SubSeq(kept, 1, N) = kept
      BY <2>2, SubSeqFull
    <2>8. kept = SubSeq(rev, 1, N)
      BY DEF kept
    <2>9. IsSuffix(Reverse(kept), paras)
      BY <1>1, <1>2, <1>4, <2>2, <2>4, <2>6, <2>7, <2>8 DEF IsSuffix, IsPrefix, rev
    <2> QED
      BY <1>1, <1>4, <2>1, <2>3, <2>9 DEF paras
  <1> QED
    BY <1>3, <1>4

(* Both for the histories of any lines. *)
THEOREM NewestSelected ==
    ASSUME NEW X, NEW h \in Seq(Seq(X)), N \in Nat
    PROVE  LET runs == FlattenSeq([i \in 1..Len(h) |-> RunsOf(h[i])])
           IN  /\ IsSuffix(Selected(h), runs)
               /\ Len(Selected(h)) = IF Len(runs) < N THEN Len(runs) ELSE N
  <1>1. DOMAIN h = 1..Len(h) /\ Len(h) \in Nat
    OBVIOUS
  <1>2. \A i \in 1..Len(h) : Split(h[i]) = RunsOf(h[i]) /\ Split(h[i]) \in Seq(Seq(X))
    BY <1>1, SplitsIntoRuns
  <1>3. [i \in DOMAIN h |-> Split(h[i])] = [i \in 1..Len(h) |-> RunsOf(h[i])]
    BY <1>1, <1>2
  <1>4. [i \in DOMAIN h |-> Split(h[i])] \in Seq(Seq(Seq(X)))
    BY <1>1, <1>2
  <1>5. AllParagraphs(h) \in Seq(Seq(X))
    BY <1>4, FlattenType DEF AllParagraphs
  <1> QED
    BY <1>3, <1>5, SuffixSelected DEF AllParagraphs

-----------------------------------------------------------------------------
Lines == UNION {ToSet(event) : event \in Events}

LEMMA EventLines == Seq(Events) \subseteq Seq(Seq(Lines))
  <1>1. ASSUME NEW event \in Events
        PROVE  event \in Seq(Lines)
    <2>1. event \in Seq(ToSet(event))
      BY ParagraphAssumption
    <2>2. ToSet(event) \subseteq Lines
      BY DEF Lines
    <2> QED
      BY <2>1, <2>2, SeqMonotonic
  <1> QED
    BY <1>1, SeqMonotonic

(* The context was built from the events before the latest one. *)
Built ==
    /\ history \in Seq(Events)
    /\ history # <<>> =>
          context = [selected |-> Selected(SubSeq(history, 1, Len(history) - 1)),
                     event    |-> history[Len(history)]]

LEMMA BuiltInv == Spec => []Built
  <1>1. Init => Built
    BY DEF Init, Built
  <1>2. Built /\ [Next]_vars => Built'
    <2>1. SUFFICES ASSUME Built, [Next]_vars
                   PROVE  Built'
      OBVIOUS
    <2>2. ASSUME NEW event \in Events, Build(event)
          PROVE  Built'
      <3>1. history \in Seq(Events) /\ history' = Append(history, event)
        BY <2>1, <2>2 DEF Built, Build
      <3>2. /\ history' \in Seq(Events) /\ Len(history') = Len(history) + 1
            /\ history'[Len(history')] = event
            /\ \A i \in 1..Len(history) : history'[i] = history[i]
        BY <3>1, AppendProperties
      <3>3. SubSeq(history', 1, Len(history') - 1) = history
        <4>1. /\ SubSeq(history', 1, Len(history)) \in Seq(Events)
              /\ Len(SubSeq(history', 1, Len(history))) = Len(history)
              /\ \A i \in 1..Len(history) : SubSeq(history', 1, Len(history))[i] = history[i]
          BY <3>1, <3>2
        <4>2. Len(history') - 1 = Len(history)
          BY <3>1, <3>2
        <4> QED
          BY <3>1, <4>1, <4>2, SeqEqual
      <3> QED
        BY <2>2, <3>2, <3>3 DEF Built, Build
    <2>3. CASE Reset
      BY <2>3 DEF Reset, Built
    <2>4. CASE UNCHANGED vars
      BY <2>1, <2>4 DEF vars, Built
    <2> QED
      BY <2>1, <2>2, <2>3, <2>4 DEF Next
  <1> QED
    BY <1>1, <1>2, PTL DEF Spec

(* The context of an event is the newest paragraphs of the events before    *)
(* it, in order, each whole, for events and histories of any length        *)
(* (context builder build and split_into_paragraphs).                      *)
THEOREM NewestKept == Spec => []KeepsNewest
  <1>1. Built => KeepsNewest
    <2>1. SUFFICES ASSUME Built, history # <<>>
                   PROVE  LET runs == FlattenSeq([i \in 1..Len(history) - 1 |-> RunsOf(history[i])])
                          IN  /\ context.event = history[Len(history)]
                              /\ IsSuffix(context.selected, runs)
                              /\ Len(context.selected) = IF Len(runs) < N THEN Len(runs) ELSE N
      BY DEF KeepsNewest
    <2> DEFINE h == SubSeq(history, 1, Len(history) - 1)
    <2>2. /\ h \in Seq(Events) /\ Len(h) = Len(history) - 1
          /\ \A i \in 1..Len(h) : h[i] = history[i]
      <3>1. history \in Seq(Events) /\ Len(history) \in Nat \ {0}
        BY <2>1, EmptySeq DEF Built
      <3> DEFINE n == Len(history) - 1
      <3>2. n \in Nat /\ \A i \in 1..n : history[i] \in Events
        BY <3>1
      <3> HIDE DEF n
      <3>3. /\ SubSeq(history, 1, n) \in Seq(Events) /\ Len(SubSeq(history, 1, n)) = n
            /\ \A i \in 1..n : SubSeq(history, 1, n)[i] = history[i]
        BY <3>1, <3>2
      <3> QED
        BY <3>3 DEF n
    <2>3. context.selected = Selected(h) /\ context.event = history[Len(history)]
      BY <2>1 DEF Built
    <2> HIDE DEF h
    <2>4. [i \in 1..Len(h) |-> RunsOf(h[i])] = [i \in 1..Len(history) - 1 |-> RunsOf(history[i])]
      BY <2>2
    <2>5. h \in Seq(Seq(Lines)) /\ N \in Nat
      BY <2>2, EventLines, ParagraphAssumption
    <2> QED
      BY <2>3, <2>4, <2>5, NewestSelected
  <1> QED
    BY <1>1, BuiltInv, PTL
====
