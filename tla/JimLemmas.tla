------------------------------ MODULE JimLemmas ------------------------------
(***************************************************************************)
(* Facts about natural numbers, finite sets and sequences that the proofs  *)
(* of the other modules share.  Induction is stated for a set of numbers   *)
(* rather than for a predicate: the provers can instantiate a set.         *)
(***************************************************************************)
EXTENDS Integers, Sequences, FiniteSetTheorems, SequenceTheorems, TLAPS

\* A set of natural numbers that is not empty has a least element: the intervals
\* up to its elements are finite sets, and inclusion among those is well-founded.
LEMMA LeastElement ==
    ASSUME NEW T \in SUBSET Nat, T # {}
    PROVE  \E m \in T : \A k \in T : m <= k
<1> DEFINE U == {0 .. m : m \in T}
<1>1. U \subseteq FiniteSubsetsOf(Nat)
  <2>1. ASSUME NEW m \in T PROVE 0 .. m \in SUBSET Nat /\ IsFiniteSet(0 .. m)
    BY FS_Interval
  <2> QED BY <2>1 DEF FiniteSubsetsOf
<1>2. U # {}
  OBVIOUS
<1>3. PICK x \in U : \A y \in U : ~ (<<y, x>> \in StrictSubsetOrdering(Nat))
  <2> HIDE DEF U
  <2> QED BY <1>1, <1>2, FS_StrictSubsetOrderingWellFounded, WFMin
<1>4. PICK m \in T : x = 0 .. m
  OBVIOUS
<1>5. ASSUME NEW k \in T, k < m PROVE FALSE
  <2>1. 0 .. k \in U
    OBVIOUS
  <2>2. <<0 .. k, 0 .. m>> \in (SUBSET Nat) \X (SUBSET Nat)
    OBVIOUS
  <2>3. 0 .. k \subseteq 0 .. m /\ 0 .. k # 0 .. m
    <3>1. m \in 0 .. m /\ m \notin 0 .. k
      BY <1>5
    <3> QED BY <1>5, <3>1
  <2> QED BY <1>3, <1>4, <2>1, <2>2, <2>3 DEF StrictSubsetOrdering
<1> QED BY <1>5

\* Induction: a set that has 0 and the successor of each of its numbers has all.
LEMMA SetInduction ==
    ASSUME NEW S, 0 \in S, \A n \in Nat : n \in S => n + 1 \in S
    PROVE  Nat \subseteq S
<1> SUFFICES ASSUME Nat \ S # {} PROVE FALSE
  OBVIOUS
<1>1. PICK m \in Nat \ S : \A k \in Nat \ S : m <= k
  BY LeastElement
<1>2. m - 1 \in Nat
  <2>1. m # 0
    OBVIOUS
  <2> QED BY <2>1
<1>3. m - 1 \in S
  BY <1>1, <1>2
<1> QED BY <1>2, <1>3

\* A set of positions that is not empty has a last one.
LEMMA LastElement ==
    ASSUME NEW n \in Nat, NEW T \in SUBSET (0 .. n), T # {}
    PROVE  \E m \in T : \A k \in T : k <= m
<1> DEFINE U == {n - k : k \in T}
<1>1. U \in SUBSET Nat /\ U # {}
  <2>1. ASSUME NEW k \in T PROVE n - k \in Nat
    OBVIOUS
  <2> QED BY <2>1
<1>2. PICK x \in U : \A y \in U : x <= y
  BY <1>1, LeastElement
<1>3. PICK m \in T : x = n - m
  OBVIOUS
<1>4. ASSUME NEW k \in T PROVE k <= m
  <2>1. n - k \in U
    OBVIOUS
  <2> QED BY <1>2, <1>3, <2>1, SMTT(30)
<1> QED BY <1>4

\* The number of positions of a sequence with some property, and how it changes
\* when the position after the last one gets it.
LEMMA CountPositions ==
    ASSUME NEW n \in Nat, NEW A \in SUBSET (1 .. n)
    PROVE  /\ IsFiniteSet(A) /\ Cardinality(A) \in Nat
           /\ Cardinality(A \cup {n + 1}) = Cardinality(A) + 1
<1>1. IsFiniteSet(1 .. n)
  BY FS_Interval
<1>2. IsFiniteSet(A)
  BY <1>1, FS_Subset
<1>3. n + 1 \notin A
  OBVIOUS
<1> QED BY <1>2, <1>3, FS_AddElement, FS_CardinalityType

---------------------------------------------------------------------------
(* Sequences *)

\* The first elements of a sequence.
LEMMA PrefixProperties ==
    ASSUME NEW S, NEW s \in Seq(S), NEW n \in 0 .. Len(s)
    PROVE  /\ SubSeq(s, 1, n) \in Seq(S) /\ Len(SubSeq(s, 1, n)) = n /\ Len(s) \in Nat
           /\ \A i \in 1 .. n : SubSeq(s, 1, n)[i] = s[i]
<1> DEFINE f == SubSeq(s, 1, n)
<1>1. Len(s) \in Nat /\ \A i \in 1 .. n : s[i] \in S
  BY LenProperties, ElementOfSeq
<1>2. /\ f \in Seq(S)
      /\ Len(f) = IF 1 <= n THEN n - 1 + 1 ELSE 0
      /\ \A i \in 1 .. n - 1 + 1 : f[i] = s[1 + i - 1]
  BY <1>1, SubSeqProperties
<1>3. \A i \in Nat : 1 + i - 1 = i
  OBVIOUS
<1> HIDE DEF f
<1>4. f \in Seq(S) /\ Len(f) = n /\ \A i \in 1 .. n : f[i] = s[i]
  BY <1>1, <1>2, <1>3
<1> QED BY <1>1, <1>4 DEF f

\* The beginning of a beginning.
LEMMA PrefixOfPrefix ==
    ASSUME NEW S, NEW s \in Seq(S), NEW n \in 0 .. Len(s), NEW m \in 0 .. n
    PROVE  SubSeq(SubSeq(s, 1, n), 1, m) = SubSeq(s, 1, m)
<1> DEFINE f == SubSeq(s, 1, n)
           g == SubSeq(f, 1, m)
           h == SubSeq(s, 1, m)
<1>1. /\ f \in Seq(S) /\ Len(f) = n /\ Len(s) \in Nat
      /\ \A i \in 1 .. n : f[i] = s[i]
  BY PrefixProperties
<1>2. h \in Seq(S) /\ Len(h) = m /\ \A i \in 1 .. m : h[i] = s[i]
  <2>1. m \in 0 .. Len(s)
    BY <1>1
  <2> QED BY <2>1, PrefixProperties
<1> HIDE DEF f, h
<1>3. g \in Seq(S) /\ Len(g) = m /\ \A i \in 1 .. m : g[i] = f[i]
  BY <1>1, PrefixProperties
<1> HIDE DEF g
<1>4. \A i \in 1 .. Len(g) : g[i] = h[i]
  BY <1>1, <1>2, <1>3
<1>5. g = h
  BY <1>2, <1>3, <1>4, SeqEqual
<1> QED BY <1>5 DEF f, g, h

\* A sequence without its last element.
LEMMA FrontProperties ==
    ASSUME NEW S, NEW s \in Seq(S), Len(s) >= 1
    PROVE  LET f == SubSeq(s, 1, Len(s) - 1)
           IN  /\ f \in Seq(S) /\ Len(f) = Len(s) - 1 /\ Len(s) \in Nat
               /\ \A i \in 1 .. Len(f) : f[i] = s[i]
               /\ s[Len(s)] \in S /\ s = Append(f, s[Len(s)])
<1> DEFINE f == SubSeq(s, 1, Len(s) - 1)
<1>1. Len(s) \in Nat /\ Len(s) - 1 \in 0 .. Len(s)
  BY LenProperties
<1>2. f \in Seq(S) /\ Len(f) = Len(s) - 1 /\ \A i \in 1 .. Len(f) : f[i] = s[i]
  BY <1>1, PrefixProperties
<1>3. s[Len(s)] \in S
  BY <1>1, ElementOfSeq
<1>4. s = Append(f, s[Len(s)])
  <2> DEFINE t == Append(f, s[Len(s)])
  <2>1. /\ t \in Seq(S) /\ Len(t) = Len(f) + 1
        /\ \A i \in 1 .. Len(f) : t[i] = f[i]
        /\ t[Len(f) + 1] = s[Len(s)]
    <3> HIDE DEF f
    <3> QED BY <1>2, <1>3, AppendProperties
  <2>2. \A i \in 1 .. Len(s) : s[i] = t[i]
    <3> HIDE DEF t, f
    <3> QED BY <1>1, <1>2, <2>1
  <2> HIDE DEF t, f
  <2>3. s = t
    BY <1>1, <1>2, <2>1, <2>2, SeqEqual
  <2> QED BY <2>3 DEF t
<1> QED BY <1>1, <1>2, <1>3, <1>4

\* A sequence with one element more at its end.
LEMMA AppendAt ==
    ASSUME NEW S, NEW s \in Seq(S), NEW e \in S
    PROVE  /\ Append(s, e) \in Seq(S) /\ Len(Append(s, e)) = Len(s) + 1
           /\ Len(s) \in Nat
           /\ \A i \in 1 .. Len(s) + 1 : Append(s, e)[i] = IF i <= Len(s) THEN s[i] ELSE e
BY AppendProperties, LenProperties

\* The same, for the elements that were there and for the new one.
LEMMA AppendLast ==
    ASSUME NEW S, NEW s \in Seq(S), NEW e \in S
    PROVE  /\ \A i \in 1 .. Len(s) : Append(s, e)[i] = s[i]
           /\ Append(s, e)[Len(s) + 1] = e
BY AppendProperties, LenProperties

\* A sequence with its last element replaced.
LEMMA ReplaceLast ==
    ASSUME NEW S, NEW s \in Seq(S), Len(s) >= 1, NEW e \in S
    PROVE  LET t == Append(SubSeq(s, 1, Len(s) - 1), e)
           IN  /\ t \in Seq(S) /\ Len(t) = Len(s) /\ Len(s) \in Nat
               /\ \A i \in 1 .. Len(s) : t[i] = IF i < Len(s) THEN s[i] ELSE e
<1> DEFINE f == SubSeq(s, 1, Len(s) - 1)
<1>1. /\ f \in Seq(S) /\ Len(f) = Len(s) - 1
      /\ \A i \in 1 .. Len(f) : f[i] = s[i]
  BY FrontProperties
<1>2. Len(s) \in Nat
  BY LenProperties
<1> HIDE DEF f
<1>3. /\ Append(f, e) \in Seq(S) /\ Len(Append(f, e)) = Len(f) + 1
      /\ \A i \in 1 .. Len(f) + 1 : Append(f, e)[i] = IF i <= Len(f) THEN f[i] ELSE e
  BY <1>1, AppendAt
<1>4. /\ Append(f, e) \in Seq(S) /\ Len(Append(f, e)) = Len(s) /\ Len(s) \in Nat
      /\ \A i \in 1 .. Len(s) : Append(f, e)[i] = IF i < Len(s) THEN s[i] ELSE e
  BY <1>1, <1>2, <1>3
<1> QED BY <1>4 DEF f

\* A function on an interval from 1 is a sequence.
LEMMA FunctionIsSeq ==
    ASSUME NEW S, NEW n \in Nat, NEW f \in [1 .. n -> S]
    PROVE  f \in Seq(S) /\ Len(f) = n /\ DOMAIN f = 1 .. n
OBVIOUS

\* The number of positions in a set up to n + 1, and up to n.
LEMMA CountLast ==
    ASSUME NEW n \in Nat, NEW A \in SUBSET (1 .. n + 1)
    PROVE  LET B == A \cap (1 .. n)
           IN  /\ Cardinality(B) \in Nat
               /\ Cardinality(A) = Cardinality(B) + IF n + 1 \in A THEN 1 ELSE 0
<1> DEFINE B == A \cap (1 .. n)
<1>1. Cardinality(B) \in Nat /\ Cardinality(B \cup {n + 1}) = Cardinality(B) + 1
  BY CountPositions
<1>2. A = IF n + 1 \in A THEN B \cup {n + 1} ELSE B
  <2>1. \A x \in A : x \in B \/ x = n + 1
    OBVIOUS
  <2>2. B \subseteq A
    OBVIOUS
  <2> HIDE DEF B
  <2>3. CASE n + 1 \in A
    BY <2>1, <2>2, <2>3
  <2>4. CASE n + 1 \notin A
    <3>1. \A x : x \in A <=> x \in B
      BY <2>1, <2>2, <2>4
    <3>2. A = B
      BY <3>1, Zenon
    <3> QED BY <2>4, <3>2
  <2> QED BY <2>3, <2>4
<1> HIDE DEF B
<1>3. Cardinality(A) = Cardinality(B) + IF n + 1 \in A THEN 1 ELSE 0
  <2>1. CASE n + 1 \in A
    BY <1>1, <1>2, <2>1
  <2>2. CASE n + 1 \notin A
    BY <1>1, <1>2, <2>2
  <2> QED BY <2>1, <2>2
<1> QED BY <1>1, <1>3 DEF B

\* More positions are not fewer.
LEMMA CountMore ==
    ASSUME NEW n \in Nat, NEW B \in SUBSET (1 .. n), NEW A \in SUBSET B
    PROVE  Cardinality(A) \in Nat /\ Cardinality(B) \in Nat /\ Cardinality(A) <= Cardinality(B)
<1>1. IsFiniteSet(B) /\ Cardinality(B) \in Nat
  BY CountPositions
<1>2. IsFiniteSet(A) /\ Cardinality(A) <= Cardinality(B)
  BY <1>1, FS_Subset
<1> QED BY <1>1, <1>2, FS_CardinalityType
\* A sequence without its i-th element.
LEMMA WithoutElement ==
    ASSUME NEW S, NEW q \in Seq(S), NEW i \in 1 .. Len(q)
    PROVE  LET w == SubSeq(q, 1, i - 1) \o SubSeq(q, i + 1, Len(q))
           IN  /\ w \in Seq(S) /\ Len(w) = Len(q) - 1
               /\ \A j \in 1 .. Len(q) - 1 : w[j] = IF j < i THEN q[j] ELSE q[j + 1]
<1> DEFINE l == SubSeq(q, 1, i - 1)
           r == SubSeq(q, i + 1, Len(q))
<1>1. Len(q) \in Nat /\ \A j \in 1 .. Len(q) : q[j] \in S
  BY LenProperties, ElementOfSeq
<1>2. /\ l \in Seq(S) /\ Len(l) = IF 1 <= i - 1 THEN i - 1 - 1 + 1 ELSE 0
      /\ \A j \in 1 .. i - 1 - 1 + 1 : l[j] = q[1 + j - 1]
  BY <1>1, SubSeqProperties
<1>3. /\ r \in Seq(S) /\ Len(r) = IF i + 1 <= Len(q) THEN Len(q) - (i + 1) + 1 ELSE 0
      /\ \A j \in 1 .. Len(q) - (i + 1) + 1 : r[j] = q[i + 1 + j - 1]
  BY <1>1, SubSeqProperties
<1> HIDE DEF l, r
<1>4. Len(l) = i - 1 /\ Len(r) = Len(q) - i
  BY <1>1, <1>2, <1>3
<1>5. /\ l \o r \in Seq(S) /\ Len(l \o r) = Len(l) + Len(r)
      /\ \A j \in 1 .. Len(l) + Len(r) :
            (l \o r)[j] = IF j <= Len(l) THEN l[j] ELSE r[j - Len(l)]
  BY <1>2, <1>3, ConcatProperties
<1>6. ASSUME NEW j \in 1 .. Len(q) - 1
      PROVE  (l \o r)[j] = IF j < i THEN q[j] ELSE q[j + 1]
  <2>1. CASE j < i
    BY <1>1, <1>2, <1>4, <1>5, <2>1
  <2>2. CASE ~(j < i)
    <3>1. j - Len(l) \in 1 .. Len(q) - (i + 1) + 1 /\ i + 1 + (j - Len(l)) - 1 = j + 1
      BY <1>1, <1>4, <2>2
    <3>2. r[j - Len(l)] = q[j + 1]
      BY <1>3, <3>1
    <3>3. j \in 1 .. Len(l) + Len(r) /\ ~(j <= Len(l))
      BY <1>1, <1>4, <2>2
    <3>4. (l \o r)[j] = r[j - Len(l)]
      BY <1>5, <3>3
    <3> QED BY <2>2, <3>2, <3>4
  <2> QED BY <2>1, <2>2
<1>7. l \o r \in Seq(S) /\ Len(l \o r) = Len(q) - 1
  BY <1>1, <1>4, <1>5
<1> QED BY <1>6, <1>7 DEF l, r

\* A sequence with one element more at its beginning.
LEMMA PushedElement ==
    ASSUME NEW S, NEW s \in Seq(S), NEW e \in S
    PROVE  LET p == <<e>> \o s
           IN  /\ p \in Seq(S) /\ Len(p) = Len(s) + 1 /\ Len(s) \in Nat
               /\ p[1] = e /\ \A i \in 1 .. Len(s) : p[i + 1] = s[i]
<1>1. <<e>> \in Seq(S) /\ Len(<<e>>) = 1 /\ <<e>>[1] = e
  OBVIOUS
<1> DEFINE o == <<e>>
<1> HIDE DEF o
<1>2. Len(s) \in Nat
  BY LenProperties
<1>3. /\ o \o s \in Seq(S) /\ Len(o \o s) = 1 + Len(s)
      /\ \A i \in 1 .. 1 + Len(s) : (o \o s)[i] = IF i <= 1 THEN o[i] ELSE s[i - 1]
  BY <1>1, ConcatProperties DEF o
<1>4. ASSUME NEW i \in 1 .. Len(s) PROVE (o \o s)[i + 1] = s[i]
  <2>1. i + 1 \in 1 .. 1 + Len(s) /\ ~(i + 1 <= 1) /\ i + 1 - 1 = i
    BY <1>2
  <2> QED BY <1>3, <2>1
<1>5. (o \o s)[1] = e
  BY <1>1, <1>2, <1>3 DEF o
<1> QED BY <1>2, <1>3, <1>4, <1>5 DEF o

\* A sequence without duplicates is as long as the set of its elements is large.
LEMMA DistinctElements ==
    ASSUME NEW S, NEW s \in Seq(S), \A i, j \in 1 .. Len(s) : s[i] = s[j] => i = j
    PROVE  LET E == {s[i] : i \in 1 .. Len(s)}
           IN  IsFiniteSet(E) /\ Cardinality(E) = Len(s)
<1> DEFINE n == Len(s)
           E == {s[i] : i \in 1 .. n}
           f == [i \in 1 .. n |-> s[i]]
<1>1. n \in Nat /\ IsFiniteSet(1 .. n) /\ Cardinality(1 .. n) = n
  <2>1. n \in Nat
    BY LenProperties
  <2>2. IsFiniteSet(1 .. n) /\ Cardinality(1 .. n) = IF 1 > n THEN 0 ELSE n - 1 + 1
    BY <2>1, FS_Interval
  <2> QED BY <2>1, <2>2
<1>2. f \in Bijection(1 .. n, E)
  BY DEF Bijection, Injection, Surjection, IsInjective
<1> HIDE DEF f, E, n
<1>3. IsFiniteSet(E) /\ Cardinality(1 .. n) = Cardinality(E)
  BY <1>1, <1>2, FS_Bijection DEF ExistsBijection
<1> QED BY <1>1, <1>3 DEF E, n

\* The function that has value a at 0 and F[i][v] at i if it has value v before.
Recursive(f, n, S, a, F) ==
    f \in [0 .. n -> S] /\ f[0] = a /\ \A i \in 1 .. n : f[i] = F[i][f[i - 1]]
Steps(n, S) == [1 .. n -> [S -> S]]

\* A function that is defined by recursion on an interval from 0 exists.
LEMMA RecursionExists ==
    ASSUME NEW S, NEW a \in S, NEW n \in Nat, NEW F \in Steps(n, S)
    PROVE  \E f : Recursive(f, n, S, a, F)
<1> USE DEF Recursive, Steps
<1> DEFINE Good(m, f) == Recursive(f, m, S, a, F)
           T == {m \in Nat : m <= n => \E f : Good(m, f)}
<1>1. 0 \in T
  <2>1. Good(0, [i \in 0 .. 0 |-> a])
    OBVIOUS
  <2> HIDE DEF Good
  <2> QED BY <2>1
<1>2. ASSUME NEW m \in Nat, m \in T PROVE m + 1 \in T
  <2> SUFFICES ASSUME m + 1 <= n PROVE \E f : Good(m + 1, f)
    OBVIOUS
  <2>1. PICK f : Good(m, f)
    <3>1. m <= n
      OBVIOUS
    <3> HIDE DEF Good
    <3> QED BY <1>2, <3>1
  <2> DEFINE g == [i \in 0 .. m + 1 |-> IF i = m + 1 THEN F[m + 1][f[m]] ELSE f[i]]
  <2>2. f[m] \in S /\ m + 1 \in 1 .. n
    BY <2>1
  <2>3. F[m + 1][f[m]] \in S
    BY <2>2
  <2>4. g \in [0 .. m + 1 -> S] /\ g[0] = a
    BY <2>1, <2>3
  <2>5. ASSUME NEW i \in 1 .. m + 1 PROVE g[i] = F[i][g[i - 1]]
    <3>1. i - 1 \in 0 .. m + 1 /\ i - 1 # m + 1 /\ i \in 0 .. m + 1
      OBVIOUS
    <3>2. g[i - 1] = f[i - 1]
      BY <3>1
    <3>3. CASE i = m + 1
      <4>1. g[i] = F[m + 1][f[m]] /\ i - 1 = m
        BY <3>1, <3>3
      <4> QED BY <3>2, <3>3, <4>1
    <3>4. CASE i # m + 1
      <4>1. g[i] = f[i] /\ i \in 1 .. m
        BY <3>1, <3>4
      <4> QED BY <2>1, <3>2, <4>1
    <3> QED BY <3>3, <3>4
  <2>6. Good(m + 1, g)
    <3> HIDE DEF g
    <3> QED BY <2>4, <2>5
  <2> HIDE DEF Good
  <2> QED BY <2>6
<1>3. n \in T
  <2> HIDE DEF T
  <2> QED BY <1>1, <1>2, SetInduction
<1>4. PICK f : Good(n, f)
  <2> HIDE DEF Good
  <2> QED BY <1>3
<1> QED BY <1>4
---------------------------------------------------------------------------
(* Remainders *)

\* Division with remainder.
LEMMA Division ==
    ASSUME NEW h \in Nat, NEW n \in Nat \ {0}
    PROVE  h = n * (h \div n) + (h % n) /\ h % n \in 0 .. n - 1 /\ h \div n \in Nat
OBVIOUS

\* Different multiples are far apart.
LEMMA MultiplesApart ==
    ASSUME NEW n \in Nat, NEW p \in Nat, NEW q \in Nat, p < q
    PROVE  n * p + n <= n * q
<1> DEFINE d == q - p - 1
<1>1. d \in Nat /\ q = p + 1 + d
  OBVIOUS
<1> HIDE DEF d
<1>2. n * d \in Nat
  BY <1>1
<1>3. n * (p + 1 + d) = n * p + n + n * d
  BY <1>1
<1> QED BY <1>1, <1>2, <1>3

\* There is one remainder.
LEMMA RemainderIs ==
    ASSUME NEW h \in Nat, NEW n \in Nat \ {0}, NEW q \in Nat, NEW r \in 0 .. n - 1,
           h = n * q + r
    PROVE  h % n = r
<1> DEFINE p == h \div n
           s == h % n
<1>1. h = n * p + s /\ s \in 0 .. n - 1 /\ p \in Nat
  BY Division
<1> HIDE DEF p, s
<1> DEFINE a == n * p
           b == n * q
<1>2. a \in Nat /\ b \in Nat
  BY <1>1
<1>3. (p < q => a + n <= b) /\ (q < p => b + n <= a)
  BY <1>1, MultiplesApart
<1>4. p = q => a = b
  OBVIOUS
<1>5. h = a + s /\ h = b + r
  BY <1>1
<1> HIDE DEF a, b
<1>6. s = r
  BY <1>1, <1>2, <1>3, <1>4, <1>5
<1> QED BY <1>6 DEF s

\* The remainder does not get smaller when the divisor is doubled.
LEMMA RemainderDoubled ==
    ASSUME NEW h \in Nat, NEW n \in Nat \ {0}
    PROVE  (h % n) <= (h % (n * 2))
<1> DEFINE m == n * 2
           q == h \div m
           r == h % m
<1>1. m \in Nat \ {0} /\ m = n + n
  OBVIOUS
<1>2. h = m * q + r /\ r \in 0 .. m - 1 /\ q \in Nat
  <2> HIDE DEF m
  <2> QED BY <1>1, Division
<1> HIDE DEF q, r
<1>3. CASE r < n
  <2>1. h = n * (q * 2) + r /\ q * 2 \in Nat
    BY <1>2
  <2>2. r \in 0 .. n - 1
    BY <1>2, <1>3
  <2>3. h % n = r
    BY <2>1, <2>2, RemainderIs
  <2> QED BY <1>2, <2>3 DEF r
<1>4. CASE ~(r < n)
  <2> DEFINE s == r - n
             p == q * 2 + 1
  <2>1. s \in 0 .. n - 1 /\ s <= r
    BY <1>1, <1>2, <1>4
  <2>2. h = n * p + s /\ p \in Nat
    BY <1>2
  <2> HIDE DEF p, s
  <2>3. h % n = s
    BY <2>1, <2>2, RemainderIs
  <2> QED BY <2>1, <2>3 DEF r
<1> QED BY <1>1, <1>2, <1>3, <1>4
=============================================================================
