------------------------------ MODULE Folding ------------------------------
(***************************************************************************)
(* What FoldLeft makes of a sequence, for one operator: of none the base,  *)
(* of a longer sequence the operator applied to what it makes of all but   *)
(* the last element.  With it, induction over natural numbers and          *)
(* sequences, stated with sets, and the same two facts of FlattenSeq.      *)
(***************************************************************************)
EXTENDS Integers, SequencesExt, WellFoundedInduction, TLAPS

CONSTANT Op(_, _)

Fold(base, s) == FoldLeft(Op, base, s)

-----------------------------------------------------------------------------
(* Induction.                                                              *)

\* A set of natural numbers that is not empty has a least element.
LEMMA LeastNumber ==
  ASSUME NEW T, T \subseteq Nat, T # {}
  PROVE  \E x \in T : \A y \in T : ~(y < x)
<1>1. IsWellFoundedOn(OpToRel(<, Nat), Nat)
  BY NatLessThanWellFounded
<1>2. PICK x \in T : \A y \in T : ~(<<y, x>> \in OpToRel(<, Nat))
  BY <1>1, WFMin
<1>3. ASSUME NEW y \in T, y < x PROVE <<y, x>> \in OpToRel(<, Nat)
  BY <1>3 DEF OpToRel
<1>4. QED
  BY <1>2, <1>3

\* A set with 0 and with the successor of each of its numbers has all of them.
LEMMA EveryNumber ==
  ASSUME NEW T, 0 \in T, \A n \in Nat : n \in T => n + 1 \in T
  PROVE  Nat \subseteq T
<1>1. SUFFICES ASSUME Nat \ T # {} PROVE FALSE
  OBVIOUS
<1>2. PICK m \in Nat \ T : \A k \in Nat \ T : ~(k < m)
  BY <1>1, LeastNumber
<1>3. m # 0 /\ m - 1 \in Nat /\ m - 1 < m /\ (m - 1) + 1 = m
  BY <1>2
<1>4. QED
  BY <1>2, <1>3

\* A set with the empty sequence and with each of its sequences made longer by
\* an element has all sequences.
LEMMA EverySequence ==
  ASSUME NEW S, NEW T, <<>> \in T,
         \A s \in Seq(S), e \in S : s \in T => Append(s, e) \in T
  PROVE  Seq(S) \subseteq T
<1> DEFINE N == {n \in Nat : \A s \in Seq(S) : Len(s) = n => s \in T}
<1>1. 0 \in N
  OBVIOUS
<1>2. ASSUME NEW n \in N PROVE n + 1 \in N
  <2>1. SUFFICES ASSUME NEW s \in Seq(S), Len(s) = n + 1 PROVE s \in T
    OBVIOUS
  <2> DEFINE f == SubSeq(s, 1, n)
  <2>2. f \in Seq(S) /\ Len(f) = n /\ s[n + 1] \in S
    BY <2>1
  <2>3. s = Append(f, s[n + 1])
    BY <2>1
  <2>4. QED
    BY <1>2, <2>2, <2>3
<1>3. Nat \subseteq N
  <2> HIDE DEF N
  <2>1. QED
    BY <1>1, <1>2, EveryNumber
<1>4. QED
  BY <1>3

-----------------------------------------------------------------------------
(* The recursion of FoldLeft is over the sets of indices.                  *)

Given(base, s, f, I) ==
  IF I = {} THEN base ELSE Op(f[I \ {Max(I)}], s[Max(I)])
Solves(base, s, n, f) ==
  f = [I \in SUBSET (1..n) |-> Given(base, s, f, I)]
Agree(s, t, n) == \A i \in 1..n : s[i] = t[i]

\* A set of indices that is not empty has a greatest one.
LEMMA Greatest ==
  ASSUME NEW n \in Nat, NEW I \in SUBSET (1..n), I # {}
  PROVE  /\ Max(I) \in I
         /\ \A i \in I : i <= Max(I)
<1> DEFINE T == {n - i : i \in I}
<1>0. \A i \in I : i \in 1..n /\ n - i \in Nat
  OBVIOUS
<1>1. T \subseteq Nat /\ T # {}
  BY <1>0
<1>2. PICK x \in T : \A y \in T : ~(y < x)
  BY <1>1, LeastNumber
<1>3. PICK m \in I : x = n - m
  BY <1>2
<1>4. ASSUME NEW i \in I PROVE m >= i
  <2>1. ~(n - i < n - m)
    BY <1>2, <1>3
  <2>2. QED
    BY <2>1
<1>5. \E k \in I : \A i \in I : k >= i
  BY <1>4
<1>6. Max(I) \in I /\ \A i \in I : Max(I) >= i
  BY <1>5 DEF Max
<1>7. QED
  BY <1>6

\* There is a function that satisfies the recursion.
LEMMA Solved ==
  ASSUME NEW base, NEW s, NEW n \in Nat
  PROVE  \E f : Solves(base, s, n, f)
<1> DEFINE N == {k \in Nat : \E f : Solves(base, s, k, f)}
<1>1. 0 \in N
  <2> DEFINE f == [I \in SUBSET (1..0) |-> base]
  <2>1. \A I \in SUBSET (1..0) : I = {}
    OBVIOUS
  <2>2. Solves(base, s, 0, f)
    BY <2>1 DEF Solves, Given
  <2>3. QED
    BY <2>2
<1>2. ASSUME NEW k \in N PROVE k + 1 \in N
  <2>1. PICK f : Solves(base, s, k, f)
    OBVIOUS
  <2> DEFINE g == [I \in SUBSET (1..(k + 1)) |->
                     IF I \in SUBSET (1..k) THEN f[I]
                     ELSE Op(f[I \ {k + 1}], s[k + 1])]
  <2>2. ASSUME NEW I \in SUBSET (1..(k + 1)) PROVE g[I] = Given(base, s, g, I)
    <3>1. CASE I = {}
      BY <2>1, <3>1 DEF Solves, Given
    <3>2. CASE I # {} /\ I \in SUBSET (1..k)
      <4>1. I \ {Max(I)} \in SUBSET (1..k)
        BY <3>2
      <4>2. f[I] = Op(f[I \ {Max(I)}], s[Max(I)])
        BY <2>1, <3>2 DEF Solves, Given
      <4>3. QED
        BY <3>2, <4>1, <4>2 DEF Given
    <3>3. CASE I \notin SUBSET (1..k)
      <4>1. k + 1 \in I
        BY <3>3
      <4>2. Max(I) = k + 1
        <5>1. k + 1 \in Nat /\ I \in SUBSET (1..(k + 1)) /\ I # {}
          BY <4>1
        <5>2. Max(I) \in 1..(k + 1) /\ k + 1 <= Max(I)
          BY <4>1, <5>1, Greatest
        <5>3. QED
          BY <5>2
      <4>3. I \ {k + 1} \in SUBSET (1..k)
        OBVIOUS
      <4>4. QED
        BY <3>3, <4>1, <4>2, <4>3 DEF Given
    <3>4. QED
      BY <3>1, <3>2, <3>3
  <2>3. Solves(base, s, k + 1, g)
    BY <2>2 DEF Solves
  <2>4. QED
    BY <2>3
<1>3. Nat \subseteq N
  <2> HIDE DEF N
  <2>1. QED
    BY <1>1, <1>2, EveryNumber
<1>4. QED
  BY <1>3

\* The function's value depends only on the elements up to the greatest index.
LEMMA Determined ==
  ASSUME NEW base, NEW s, NEW t, NEW m \in Nat, NEW n \in Nat, m <= n,
         Agree(s, t, m),
         NEW f, NEW g, Solves(base, s, m, f), Solves(base, t, n, g)
  PROVE  \A I \in SUBSET (1..m) : f[I] = g[I]
<1> DEFINE N == {k \in Nat : k <= m => \A I \in SUBSET (1..k) : f[I] = g[I]}
<1>1. 0 \in N
  BY DEF Solves, Given
<1>2. ASSUME NEW k \in N PROVE k + 1 \in N
  <2>1. SUFFICES ASSUME k + 1 <= m, NEW I \in SUBSET (1..(k + 1))
                 PROVE  f[I] = g[I]
    OBVIOUS
  <2>2. I \in SUBSET (1..m) /\ I \in SUBSET (1..n)
    BY <2>1
  <2>3. f[I] = Given(base, s, f, I) /\ g[I] = Given(base, t, g, I)
    BY <2>2 DEF Solves
  <2>4. CASE I = {}
    BY <2>3, <2>4 DEF Given
  <2>5. CASE I # {}
    <3>1. Max(I) \in I /\ \A i \in I : i <= Max(I)
      BY <2>5, Greatest, k + 1 \in Nat
    <3>2. ASSUME NEW i \in I \ {Max(I)} PROVE i \in 1..k
      <4>1. i <= Max(I) /\ i # Max(I) /\ Max(I) \in 1..(k + 1)
            /\ i \in 1..(k + 1)
        BY <3>1
      <4>2. QED
        BY <4>1
    <3>3. f[I \ {Max(I)}] = g[I \ {Max(I)}]
      BY <1>2, <2>1, <3>2, I \ {Max(I)} \in SUBSET (1..k)
    <3>4. s[Max(I)] = t[Max(I)]
      BY <2>2, <3>1 DEF Agree
    <3>5. QED
      BY <2>3, <2>5, <3>3, <3>4 DEF Given
  <2>6. QED
    BY <2>4, <2>5
<1>3. Nat \subseteq N
  <2> HIDE DEF N
  <2>1. QED
    BY <1>1, <1>2, EveryNumber
<1>4. m \in N
  BY <1>3
<1>5. QED
  BY <1>4

\* The fold is the value of such a function.
LEMMA FoldSolves ==
  ASSUME NEW base, NEW S, NEW s \in Seq(S)
  PROVE  \E f : Solves(base, s, Len(s), f) /\ Fold(base, s) = f[1..Len(s)]
<1> DEFINE f == CHOOSE f : Solves(base, s, Len(s), f)
<1>1. Solves(base, s, Len(s), f)
  BY Solved
<1>2. DOMAIN s = 1..Len(s)
  OBVIOUS
<1>3. Fold(base, s) = f[1..Len(s)]
  BY <1>2 DEF Fold, FoldLeft, MapThenFoldSet, Solves, Given
<1>4. QED
  BY <1>1, <1>3

-----------------------------------------------------------------------------
(* What folds come to.                                                     *)

\* Nothing has been folded.
LEMMA FoldEmpty ==
  ASSUME NEW base
  PROVE  Fold(base, <<>>) = base
<1>1. PICK f : Solves(base, <<>>, 0, f) /\ Fold(base, <<>>) = f[1..0]
  BY FoldSolves, <<>> \in Seq({}), Len(<<>>) = 0
<1>2. QED
  BY <1>1 DEF Solves, Given

\* One element more.
LEMMA FoldAppend ==
  ASSUME NEW base, NEW S, NEW s \in Seq(S), NEW e \in S
  PROVE  Fold(base, Append(s, e)) = Op(Fold(base, s), e)
<1> DEFINE t == Append(s, e)
           n == Len(s)
<1>1. /\ t \in Seq(S) /\ Len(t) = n + 1 /\ n \in Nat /\ t[n + 1] = e
      /\ \A i \in 1..n : s[i] = t[i]
  OBVIOUS
<1>2. PICK f : Solves(base, s, n, f) /\ Fold(base, s) = f[1..n]
  BY FoldSolves
<1>3. PICK g : Solves(base, t, n + 1, g) /\ Fold(base, t) = g[1..(n + 1)]
  BY <1>1, FoldSolves
<1> HIDE DEF t, n
<1>4. f[1..n] = g[1..n]
  <2>1. n <= n + 1 /\ n + 1 \in Nat /\ 1..n \in SUBSET (1..n)
    BY <1>1
  <2>2. Agree(s, t, n)
    BY <1>1 DEF Agree
  <2>3. n \in Nat /\ Solves(base, s, n, f) /\ Solves(base, t, n + 1, g)
    BY <1>1, <1>2, <1>3
  <2>4. \A I \in SUBSET (1..n) : f[I] = g[I]
    <3> DEFINE k == n + 1
    <3>1. k \in Nat /\ n <= k /\ Solves(base, t, k, g)
      BY <2>1, <2>3
    <3> HIDE DEF k
    <3>2. QED
      BY <2>2, <2>3, <3>1, Determined
  <2>5. QED
    BY <2>1, <2>4
<1>5. Max(1..(n + 1)) = n + 1
  <2>1. n + 1 \in Nat /\ n + 1 \in 1..(n + 1)
        /\ 1..(n + 1) \in SUBSET (1..(n + 1))
    BY <1>1
  <2>2. Max(1..(n + 1)) \in 1..(n + 1) /\ n + 1 <= Max(1..(n + 1))
    BY <2>1, Greatest
  <2>3. QED
    BY <1>1, <2>2
<1>6. (1..(n + 1)) \ {n + 1} = 1..n
  BY <1>1
<1>7. g[1..(n + 1)] = Given(base, t, g, 1..(n + 1)) /\ 1..(n + 1) # {}
  BY <1>1, <1>3 DEF Solves
<1>8. Given(base, t, g, 1..(n + 1)) = Op(g[1..n], e)
  BY <1>1, <1>5, <1>6, <1>7 DEF Given
<1>9. QED
  BY <1>2, <1>3, <1>4, <1>7, <1>8 DEF t

\* A sequence in two halves.
LEMMA FoldJoined ==
  ASSUME NEW base, NEW S, NEW s \in Seq(S), NEW t \in Seq(S)
  PROVE  Fold(base, s \o t) = Fold(Fold(base, s), t)
<1> DEFINE T == {u \in Seq(S) : Fold(base, s \o u) = Fold(Fold(base, s), u)}
<1>1. <<>> \in T
  <2>1. <<>> \in Seq(S) /\ s \o <<>> = s
    OBVIOUS
  <2>2. QED
    BY <2>1, FoldEmpty
<1>2. ASSUME NEW u \in Seq(S), NEW e \in S, u \in T
      PROVE  Append(u, e) \in T
  <2>1. Append(u, e) \in Seq(S) /\ s \o u \in Seq(S)
        /\ s \o Append(u, e) = Append(s \o u, e)
    OBVIOUS
  <2> DEFINE v == s \o u
  <2>2. Fold(base, s \o Append(u, e)) = Op(Fold(base, s \o u), e)
    <3>1. v \in Seq(S) /\ s \o Append(u, e) = Append(v, e)
      BY <2>1
    <3> HIDE DEF v
    <3>2. Fold(base, Append(v, e)) = Op(Fold(base, v), e)
      BY <3>1, FoldAppend
    <3>3. QED
      BY <3>1, <3>2 DEF v
  <2>3. Fold(Fold(base, s), Append(u, e)) = Op(Fold(Fold(base, s), u), e)
    BY FoldAppend
  <2>4. QED
    BY <1>2, <2>1, <2>2, <2>3
<1>3. Seq(S) \subseteq T
  <2> HIDE DEF T
  <2>1. QED
    BY <1>1, <1>2, EverySequence
<1>4. QED
  BY <1>3

\* A property of each prefix: I[n] has what may come of the first n elements.
LEMMA FoldInvariant ==
  ASSUME NEW S, NEW s \in Seq(S), NEW I, NEW base, base \in I[0],
         \A n \in 0..(Len(s) - 1) : \A b \in I[n] : Op(b, s[n + 1]) \in I[n + 1]
  PROVE  Fold(base, s) \in I[Len(s)]
<1> DEFINE N == {n \in Nat :
                  n <= Len(s) => Fold(base, SubSeq(s, 1, n)) \in I[n]}
<1>1. 0 \in N
  BY FoldEmpty, SubSeq(s, 1, 0) = <<>>
<1>2. ASSUME NEW n \in N PROVE n + 1 \in N
  <2>1. SUFFICES ASSUME n + 1 <= Len(s)
                 PROVE  Fold(base, SubSeq(s, 1, n + 1)) \in I[n + 1]
    OBVIOUS
  <2> DEFINE u == SubSeq(s, 1, n)
  <2>2. /\ u \in Seq(S) /\ s[n + 1] \in S
        /\ SubSeq(s, 1, n + 1) = Append(u, s[n + 1])
    BY <2>1
  <2>3. Fold(base, u) \in I[n] /\ n \in 0..(Len(s) - 1)
    BY <2>1
  <2> HIDE DEF u
  <2>4. Fold(base, Append(u, s[n + 1])) = Op(Fold(base, u), s[n + 1])
    BY <2>2, FoldAppend
  <2>5. QED
    BY <2>2, <2>3, <2>4
<1>3. Nat \subseteq N
  <2> HIDE DEF N
  <2>1. QED
    BY <1>1, <1>2, EveryNumber
<1>4. Len(s) \in N
  BY <1>3
<1>5. SubSeq(s, 1, Len(s)) = s /\ Len(s) <= Len(s)
  OBVIOUS
<1>6. QED
  BY <1>4, <1>5

-----------------------------------------------------------------------------
(* Sequences.                                                              *)

\* Sequences with the same elements are the same.
LEMMA SeqEqual ==
  ASSUME NEW S, NEW s \in Seq(S), NEW t \in Seq(S), Len(s) = Len(t),
         \A i \in 1..Len(s) : s[i] = t[i]
  PROVE  s = t
OBVIOUS

\* Joining sequences is associative.
LEMMA Joining ==
  ASSUME NEW S, NEW s \in Seq(S), NEW t \in Seq(S), NEW u \in Seq(S)
  PROVE  (s \o t) \o u = s \o (t \o u)
<1> DEFINE a == (s \o t) \o u
           b == s \o (t \o u)
<1>1. a \in Seq(S) /\ Len(a) = Len(s) + Len(t) + Len(u)
  OBVIOUS
<1>2. b \in Seq(S) /\ Len(b) = Len(s) + Len(t) + Len(u)
  OBVIOUS
<1>3. ASSUME NEW i \in 1..(Len(s) + Len(t) + Len(u)) PROVE a[i] = b[i]
  <2>1. CASE i <= Len(s)
    BY <2>1
  <2>2. CASE Len(s) < i /\ i <= Len(s) + Len(t)
    BY <2>2
  <2>3. CASE Len(s) + Len(t) < i
    <3>1. a[i] = u[i - (Len(s) + Len(t))]
      BY <2>3
    <3>2. b[i] = (t \o u)[i - Len(s)]
      BY <2>3
    <3>3. (t \o u)[i - Len(s)] = u[(i - Len(s)) - Len(t)]
      BY <2>3
    <3>4. (i - Len(s)) - Len(t) = i - (Len(s) + Len(t))
      OBVIOUS
    <3>5. QED
      BY <3>1, <3>2, <3>3, <3>4
  <2>4. QED
    BY <2>1, <2>2, <2>3
<1> HIDE DEF a, b
<1>4. a = b
  BY <1>1, <1>2, <1>3, SeqEqual
<1>5. QED
  BY <1>4 DEF a, b

\* Joining, as an operator that the provers leave alone.
Cat(s, t) == s \o t

\* What joining gives.
LEMMA CatType ==
  ASSUME NEW S, NEW s \in Seq(S), NEW t \in Seq(S)
  PROVE  Cat(s, t) \in Seq(S)
BY DEF Cat

\* Joining is associative.
LEMMA CatAssoc ==
  ASSUME NEW S, NEW s \in Seq(S), NEW t \in Seq(S), NEW u \in Seq(S)
  PROVE  Cat(Cat(s, t), u) = Cat(s, Cat(t, u))
BY Joining DEF Cat

\* Nothing to join.
LEMMA CatEmpty ==
  ASSUME NEW S, NEW s \in Seq(S)
  PROVE  Cat(s, <<>>) = s /\ Cat(<<>>, s) = s
<1>1. s \o <<>> = s
  OBVIOUS
<1>2. <<>> \o s = s
  OBVIOUS
<1>3. QED
  BY <1>1, <1>2 DEF Cat

\* The end of a sequence is the end of what it is joined to.
LEMMA CatAppend ==
  ASSUME NEW S, NEW s \in Seq(S), NEW t \in Seq(S), NEW e \in S
  PROVE  /\ Append(t, e) \in Seq(S)
         /\ Cat(s, Append(t, e)) = Append(Cat(s, t), e)
BY DEF Cat

-----------------------------------------------------------------------------
(* Flattening.                                                             *)

\* The recursion of FlattenSeq is over the first elements.
Flattens(ss, n, f) ==
  f = [i \in 1..n |-> IF i = 1 THEN ss[i] ELSE f[i - 1] \o ss[i]]

\* There is a function that satisfies the recursion.
LEMMA FlattensSolved ==
  ASSUME NEW ss, NEW n \in Nat
  PROVE  \E f : Flattens(ss, n, f)
<1> DEFINE N == {k \in Nat : \E f : Flattens(ss, k, f)}
<1>1. 0 \in N
  <2> DEFINE f == [i \in 1..0 |-> ss]
  <2>1. Flattens(ss, 0, f)
    BY DEF Flattens
  <2>2. QED
    BY <2>1
<1>2. ASSUME NEW k \in N PROVE k + 1 \in N
  <2>1. PICK f : Flattens(ss, k, f)
    OBVIOUS
  <2> DEFINE g == [i \in 1..(k + 1) |->
                     IF i \in 1..k THEN f[i]
                     ELSE IF i = 1 THEN ss[i] ELSE f[i - 1] \o ss[i]]
  <2>2. ASSUME NEW i \in 1..(k + 1)
        PROVE  g[i] = IF i = 1 THEN ss[i] ELSE g[i - 1] \o ss[i]
    <3>1. CASE i \in 1..k
      <4>1. i # 1 => i - 1 \in 1..k
        BY <3>1
      <4>2. f[i] = IF i = 1 THEN ss[i] ELSE f[i - 1] \o ss[i]
        BY <2>1, <3>1 DEF Flattens
      <4>3. QED
        BY <3>1, <4>1, <4>2
    <3>2. CASE i \notin 1..k
      <4>1. i = k + 1 /\ (i # 1 => i - 1 \in 1..k)
        BY <3>2
      <4>2. QED
        BY <3>2, <4>1
    <3>3. QED
      BY <3>1, <3>2
  <2>3. Flattens(ss, k + 1, g)
    <3>1. g = [i \in 1..(k + 1) |-> IF i = 1 THEN ss[i] ELSE g[i - 1] \o ss[i]]
      BY <2>2
    <3>2. QED
      BY <3>1 DEF Flattens
  <2>4. QED
    BY <2>3
<1>3. Nat \subseteq N
  <2> HIDE DEF N
  <2>1. QED
    BY <1>1, <1>2, EveryNumber
<1>4. QED
  BY <1>3

\* Its values depend on the elements up to the index only.
LEMMA FlattensDetermined ==
  ASSUME NEW ss, NEW tt, NEW m \in Nat, NEW n \in Nat, m <= n,
         \A i \in 1..m : ss[i] = tt[i],
         NEW f, NEW g, Flattens(ss, m, f), Flattens(tt, n, g)
  PROVE  \A i \in 1..m : f[i] = g[i]
<1> DEFINE N == {k \in Nat : k \in 1..m => f[k] = g[k]}
<1>1. 0 \in N
  OBVIOUS
<1>2. ASSUME NEW k \in N PROVE k + 1 \in N
  <2>1. SUFFICES ASSUME k + 1 \in 1..m PROVE f[k + 1] = g[k + 1]
    OBVIOUS
  <2> DEFINE i == k + 1
  <2>2. i \in 1..m /\ i \in 1..n /\ i - 1 = k /\ (i # 1 => k \in 1..m)
    BY <2>1
  <2>3. ss[i] = tt[i] /\ (i # 1 => f[k] = g[k])
    BY <1>2, <2>2
  <2> HIDE DEF i
  <2>4. f[i] = IF i = 1 THEN ss[i] ELSE f[i - 1] \o ss[i]
    BY <2>2 DEF Flattens
  <2>5. g[i] = IF i = 1 THEN tt[i] ELSE g[i - 1] \o tt[i]
    BY <2>2 DEF Flattens
  <2>6. f[i] = g[i]
    BY <2>2, <2>3, <2>4, <2>5
  <2>7. QED
    BY <2>6 DEF i
<1>3. Nat \subseteq N
  <2> HIDE DEF N
  <2>1. QED
    BY <1>1, <1>2, EveryNumber
<1>4. QED
  BY <1>3

\* The flattening is the last value of such a function.
LEMMA FlattenSolves ==
  ASSUME NEW S, NEW ss \in Seq(S), Len(ss) # 0
  PROVE  \E f : Flattens(ss, Len(ss), f) /\ FlattenSeq(ss) = f[Len(ss)]
<1> DEFINE f == CHOOSE f : Flattens(ss, Len(ss), f)
<1>0. Len(ss) \in Nat
  OBVIOUS
<1>1. Flattens(ss, Len(ss), f)
  <2>1. \E h : Flattens(ss, Len(ss), h)
    BY <1>0, FlattensSolved
  <2>2. QED
    BY <2>1
<1>2. FlattenSeq(ss) = f[Len(ss)]
  BY DEF FlattenSeq, Flattens
<1>3. QED
  BY <1>1, <1>2

\* The last value is the one before it with the last element joined to it.
LEMMA FlattensStep ==
  ASSUME NEW ss, NEW tt, NEW n \in Nat \ {0}, \A i \in 1..n : ss[i] = tt[i],
         NEW f, NEW g, Flattens(ss, n, f), Flattens(tt, n + 1, g)
  PROVE  g[n + 1] = Cat(f[n], tt[n + 1])
<1> DEFINE m == n + 1
<1>1. m \in Nat /\ n <= m /\ n \in Nat /\ Flattens(tt, m, g)
  OBVIOUS
<1> HIDE DEF m
<1>2. \A i \in 1..n : f[i] = g[i]
  BY <1>1, FlattensDetermined
<1>3. n \in 1..n /\ n + 1 \in 1..(n + 1) /\ n + 1 # 1 /\ (n + 1) - 1 = n
  OBVIOUS
<1>4. g[n + 1] = IF n + 1 = 1 THEN tt[n + 1] ELSE g[(n + 1) - 1] \o tt[n + 1]
  BY <1>3 DEF Flattens
<1>5. QED
  BY <1>2, <1>3, <1>4 DEF Cat

\* One sequence more.
LEMMA FlattenAppend ==
  ASSUME NEW S, NEW ss \in Seq(Seq(S)), NEW s \in Seq(S)
  PROVE  FlattenSeq(Append(ss, s)) = Cat(FlattenSeq(ss), s)
<1> DEFINE tt == Append(ss, s)
           n == Len(ss)
           Q == Seq(S)
<1>1. /\ tt \in Seq(Q) /\ Len(tt) = n + 1 /\ Len(tt) # 0 /\ n \in Nat
      /\ tt[n + 1] = s /\ \A i \in 1..n : ss[i] = tt[i]
  OBVIOUS
<1>2. PICK g : Flattens(tt, n + 1, g) /\ FlattenSeq(tt) = g[n + 1]
  <2> HIDE DEF tt, Q, n
  <2>1. \E g : Flattens(tt, Len(tt), g) /\ FlattenSeq(tt) = g[Len(tt)]
    BY <1>1, FlattenSolves
  <2>2. QED
    BY <1>1, <2>1
<1>3. CASE n = 0
  <2>1. ss = <<>> /\ g[1] = s
    BY <1>1, <1>2, <1>3 DEF Flattens
  <2>2. FlattenSeq(ss) = <<>>
    BY <2>1 DEF FlattenSeq
  <2>3. Cat(<<>>, s) = s
    BY CatEmpty
  <2>4. QED
    BY <1>2, <1>3, <2>1, <2>2, <2>3
<1>4. CASE n # 0
  <2>1. PICK f : Flattens(ss, n, f) /\ FlattenSeq(ss) = f[n]
    BY <1>4, FlattenSolves
  <2> HIDE DEF tt, n
  <2>2. g[n + 1] = Cat(f[n], tt[n + 1])
    <3>1. n \in Nat \ {0} /\ \A i \in 1..n : ss[i] = tt[i]
      BY <1>1, <1>4
    <3>2. Flattens(ss, n, f) /\ Flattens(tt, n + 1, g)
      BY <1>2, <2>1
    <3>3. QED
      BY <3>1, <3>2, FlattensStep
  <2>3. QED
    BY <1>1, <1>2, <2>1, <2>2 DEF tt
<1>5. QED
  BY <1>3, <1>4

\* Nothing to flatten.
LEMMA FlattenEmpty == FlattenSeq(<<>>) = <<>>
BY DEF FlattenSeq
=============================================================================
