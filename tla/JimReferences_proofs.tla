------------------------- MODULE JimReferences_proofs -------------------------
(***************************************************************************)
(* Proofs about references and their collector, for every number of        *)
(* references and variables, whatever the keys hash to.                    *)
(***************************************************************************)
EXTENDS JimReferences, JimLemmas

(* The hash table: whatever the hashes of the keys are, every operation leaves each
   entry once in the table, in the bucket where a lookup searches it, and never more
   entries than buckets. *)

\* A set of keys that have a hash.
Hashed(K) == \A k \in K : k \in Nat /\ Hash[k] \in Nat

\* The elements of a chain.
In(c) == {c[i] : i \in 1 .. Len(c)}

\* A chain of bucket h among n: no entry twice, and all of them belong there.
Chain(c, K, n, h) == /\ c \in Seq(K)
                     /\ \A i, j \in 1 .. Len(c) : c[i] = c[j] => i = j
                     /\ \A i \in 1 .. Len(c) : Slot(c[i], n) = h

\* All n of them, and the entries they hold.
Buckets(f, n, K) == /\ f \in [0 .. n - 1 -> Seq(K)]
                    /\ \A h \in 0 .. n - 1 : Chain(f[h], K, n, h)
Held(f, n) == UNION {In(f[h]) : h \in 0 .. n - 1}

\* A table of keys in K, and what it holds.
Table(t, K) == /\ t = [size |-> t.size, chain |-> t.chain]
               /\ t.size \in Nat /\ Buckets(t.chain, t.size, K)
Stored(t) == Held(t.chain, t.size)

\* The buckets g are f with bucket h changed, and so is a table; with key k put in
\* or taken out.
Changed(g, f, h, c) == g = [f EXCEPT ![h] = c]
Rechained(u, t, h, c) == u = [t EXCEPT !.chain[h] = c]
Pushed(g, f, n, k) == g = [f EXCEPT ![Slot(k, n)] = <<k>> \o @]
Unlinked(g, f, n, k) == g = [f EXCEPT ![Slot(k, n)] = RemoveAt(@, Position(@, k))]

---------------------------------------------------------------------------
(* Chains *)

\* A key is in its bucket's range.
LEMMA SlotInRange ==
    ASSUME NEW K, Hashed(K), NEW k \in K, NEW n \in Nat \ {0}
    PROVE  Slot(k, n) \in 0 .. n - 1
<1>1. Hash[k] \in Nat
  BY DEF Hashed
<1> QED BY <1>1 DEF Slot

\* The search of a chain finds what is in it.
LEMMA ContainsIn ==
    ASSUME NEW c, NEW k
    PROVE  Contains(c, k) <=> k \in In(c)
BY DEF Contains, In

\* An entry at the head of a chain.
LEMMA ChainPush ==
    ASSUME NEW K, NEW n, NEW h, NEW c, Chain(c, K, n, h),
           NEW k \in K, k \notin In(c), Slot(k, n) = h
    PROVE  Chain(<<k>> \o c, K, n, h) /\ In(<<k>> \o c) = In(c) \cup {k}
<1> DEFINE p == <<k>> \o c
<1>1. /\ p \in Seq(K) /\ Len(p) = Len(c) + 1 /\ Len(c) \in Nat
      /\ p[1] = k /\ \A i \in 1 .. Len(c) : p[i + 1] = c[i]
  BY PushedElement DEF Chain
<1> HIDE DEF p
<1>2. ASSUME NEW i \in 1 .. Len(p), i # 1
      PROVE  i - 1 \in 1 .. Len(c) /\ p[i] = c[i - 1] /\ p[i] # k
  <2>1. i - 1 \in 1 .. Len(c) /\ i - 1 + 1 = i
    BY <1>1, <1>2
  <2>2. p[i] = c[i - 1]
    BY <1>1, <2>1
  <2> QED BY <2>1, <2>2 DEF In
<1>3. ASSUME NEW i \in 1 .. Len(p), NEW j \in 1 .. Len(p), p[i] = p[j] PROVE i = j
  <2>1. CASE i = 1 \/ j = 1
    BY <1>1, <1>2, <1>3, <2>1
  <2>2. CASE i # 1 /\ j # 1
    <3>1. i - 1 = j - 1
      BY <1>2, <1>3, <2>2 DEF Chain
    <3> QED BY <3>1
  <2> QED BY <2>1, <2>2
<1>4. ASSUME NEW i \in 1 .. Len(p) PROVE Slot(p[i], n) = h
  <2>1. CASE i = 1
    BY <1>1, <2>1
  <2>2. CASE i # 1
    BY <1>2, <2>2 DEF Chain
  <2> QED BY <2>1, <2>2
<1>5. In(p) = In(c) \cup {k}
  <2>1. ASSUME NEW x \in In(p) PROVE x \in In(c) \cup {k}
    <3>1. PICK i \in 1 .. Len(p) : x = p[i]
      BY DEF In
    <3> QED BY <1>1, <1>2, <3>1 DEF In
  <2>2. ASSUME NEW x \in In(c) PROVE x \in In(p)
    <3>1. PICK i \in 1 .. Len(c) : x = c[i]
      BY DEF In
    <3>2. i + 1 \in 1 .. Len(p) /\ p[i + 1] = x
      BY <1>1, <3>1
    <3> QED BY <3>2 DEF In
  <2>3. k \in In(p)
    <3>1. 1 \in 1 .. Len(p)
      BY <1>1
    <3> QED BY <1>1, <3>1 DEF In
  <2> QED BY <2>1, <2>2, <2>3
<1>6. Chain(p, K, n, h)
  BY <1>1, <1>3, <1>4 DEF Chain
<1> QED BY <1>5, <1>6 DEF p

\* Where an entry is in its chain.
LEMMA PositionIs ==
    ASSUME NEW c, NEW k \in In(c)
    PROVE  Position(c, k) \in 1 .. Len(c) /\ c[Position(c, k)] = k
<1>1. \E i \in 1 .. Len(c) : c[i] = k
  BY DEF In
<1> QED BY <1>1, Zenon DEF Position

\* An entry is taken out of its chain.
LEMMA ChainRemove ==
    ASSUME NEW K, NEW n, NEW h, NEW c, Chain(c, K, n, h), NEW k \in In(c)
    PROVE  LET r == RemoveAt(c, Position(c, k))
           IN  Chain(r, K, n, h) /\ In(r) = In(c) \ {k}
<1> DEFINE p == Position(c, k)
           r == RemoveAt(c, p)
<1>1. p \in 1 .. Len(c) /\ c[p] = k
  BY PositionIs
<1> HIDE DEF p
<1>2. /\ r \in Seq(K) /\ Len(r) = Len(c) - 1
      /\ \A j \in 1 .. Len(c) - 1 : r[j] = IF j < p THEN c[j] ELSE c[j + 1]
  BY <1>1, WithoutElement DEF RemoveAt, Chain
<1>3. Len(c) \in Nat
  BY LenProperties DEF Chain
<1> HIDE DEF r
<1> DEFINE at(j) == IF j < p THEN j ELSE j + 1
<1>4. ASSUME NEW j \in 1 .. Len(r)
      PROVE  at(j) \in 1 .. Len(c) /\ r[j] = c[at(j)] /\ at(j) # p
  BY <1>1, <1>2, <1>3
<1>5. ASSUME NEW i \in 1 .. Len(c), i # p PROVE \E j \in 1 .. Len(r) : at(j) = i
  <2>1. CASE i < p
    BY <1>1, <1>2, <1>3, <2>1
  <2>2. CASE i > p
    <3>1. i - 1 \in 1 .. Len(r) /\ at(i - 1) = i
      BY <1>1, <1>2, <1>3, <2>2
    <3> QED BY <3>1
  <2> QED BY <1>1, <1>3, <1>5, <2>1, <2>2
<1>6. ASSUME NEW i \in 1 .. Len(r), NEW j \in 1 .. Len(r), at(i) = at(j) PROVE i = j
  BY <1>1, <1>2, <1>3, <1>6
<1> HIDE DEF at
<1>7. Chain(r, K, n, h)
  <2>1. ASSUME NEW i \in 1 .. Len(r), NEW j \in 1 .. Len(r), r[i] = r[j] PROVE i = j
    <3>1. at(i) = at(j)
      BY <1>4, <2>1 DEF Chain
    <3> QED BY <1>6, <3>1
  <2>2. ASSUME NEW i \in 1 .. Len(r) PROVE Slot(r[i], n) = h
    BY <1>4 DEF Chain
  <2> QED BY <1>2, <2>1, <2>2 DEF Chain
<1>8. In(r) = In(c) \ {k}
  <2>1. ASSUME NEW x \in In(r) PROVE x \in In(c) \ {k}
    <3>1. PICK j \in 1 .. Len(r) : x = r[j]
      BY DEF In
    <3>2. at(j) \in 1 .. Len(c) /\ x = c[at(j)] /\ at(j) # p
      BY <1>4, <3>1
    <3>3. x # k
      BY <1>1, <3>2 DEF Chain
    <3> QED BY <3>2, <3>3 DEF In
  <2>2. ASSUME NEW x \in In(c) \ {k} PROVE x \in In(r)
    <3>1. PICK i \in 1 .. Len(c) : x = c[i]
      BY DEF In
    <3>2. i # p
      BY <1>1, <3>1
    <3>3. PICK j \in 1 .. Len(r) : at(j) = i
      BY <1>5, <3>2
    <3> QED BY <1>4, <3>1, <3>3 DEF In
  <2> QED BY <2>1, <2>2
<1> QED BY <1>7, <1>8 DEF r, p
---------------------------------------------------------------------------
(* Buckets *)

\* A key that is stored is in its own bucket and in no other.
LEMMA HeldIn ==
    ASSUME NEW K, Hashed(K), NEW n \in Nat, NEW f, Buckets(f, n, K), NEW k
    PROVE  /\ k \in Held(f, n) => /\ k \in K /\ n # 0
                                  /\ Slot(k, n) \in 0 .. n - 1 /\ k \in In(f[Slot(k, n)])
           /\ \A h \in 0 .. n - 1 : k \in In(f[h]) => k \in Held(f, n) /\ Slot(k, n) = h
<1>1. ASSUME NEW h \in 0 .. n - 1, k \in In(f[h]) PROVE k \in K /\ Slot(k, n) = h
  <2>1. Chain(f[h], K, n, h)
    BY DEF Buckets
  <2>2. PICK i \in 1 .. Len(f[h]) : k = f[h][i]
    BY <1>1 DEF In
  <2>3. f[h][i] \in K
    BY <2>1, ElementOfSeq DEF Chain
  <2> QED BY <2>1, <2>2, <2>3 DEF Chain
<1>2. ASSUME NEW h \in 0 .. n - 1, k \in In(f[h]) PROVE k \in Held(f, n)
  BY <1>2 DEF Held
<1>3. ASSUME k \in Held(f, n) PROVE \E h \in 0 .. n - 1 : k \in In(f[h])
  BY <1>3 DEF Held
<1>4. ASSUME k \in Held(f, n) PROVE n # 0
  BY <1>3, <1>4
<1> QED BY <1>1, <1>2, <1>3, <1>4

\* One bucket is changed.
LEMMA BucketChange ==
    ASSUME NEW K, NEW n \in Nat, NEW f, Buckets(f, n, K),
           NEW h \in 0 .. n - 1, NEW c, Chain(c, K, n, h), NEW g, Changed(g, f, h, c)
    PROVE  /\ Buckets(g, n, K)
           /\ g[h] = c /\ \A b \in 0 .. n - 1 : b # h => g[b] = f[b]
<1>1. c \in Seq(K)
  BY DEF Chain
<1>2. /\ g \in [0 .. n - 1 -> Seq(K)]
      /\ g[h] = c /\ \A b \in 0 .. n - 1 : b # h => g[b] = f[b]
  BY <1>1 DEF Buckets, Changed
<1>3. ASSUME NEW b \in 0 .. n - 1 PROVE Chain(g[b], K, n, b)
  BY <1>2 DEF Buckets
<1>4. Buckets(g, n, K)
  BY <1>2, <1>3 DEF Buckets
<1> QED BY <1>2, <1>4

\* A key that is not there is put at the head of its bucket.
LEMMA BucketsPush ==
    ASSUME NEW K, Hashed(K), NEW n \in Nat \ {0}, NEW f, Buckets(f, n, K),
           NEW k \in K, k \notin Held(f, n),
           NEW g, Pushed(g, f, n, k)
    PROVE  Buckets(g, n, K) /\ Held(g, n) = Held(f, n) \cup {k}
<1> DEFINE h == Slot(k, n)
           c == <<k>> \o f[h]
<1>1. h \in 0 .. n - 1
  BY SlotInRange
<1> HIDE DEF h
<1>2. Chain(f[h], K, n, h) /\ k \notin In(f[h])
  BY <1>1 DEF Buckets, Held
<1>3. Chain(c, K, n, h) /\ In(c) = In(f[h]) \cup {k}
  <2>1. Slot(k, n) = h
    BY DEF h
  <2> QED BY <1>2, <2>1, ChainPush
<1> HIDE DEF c
<1>4. Buckets(g, n, K) /\ g[h] = c /\ \A b \in 0 .. n - 1 : b # h => g[b] = f[b]
  <2>1. Changed(g, f, h, c)
    BY DEF c, h, Changed, Pushed, Unlinked
  <2> QED BY <1>1, <1>3, <2>1, BucketChange
<1>5. Held(g, n) = Held(f, n) \cup {k}
  BY <1>1, <1>3, <1>4 DEF Held
<1> QED BY <1>4, <1>5

\* A key that is there is unlinked.
LEMMA BucketsRemove ==
    ASSUME NEW K, Hashed(K), NEW n \in Nat, NEW f, Buckets(f, n, K),
           NEW k \in Held(f, n),
           NEW g, Unlinked(g, f, n, k)
    PROVE  Buckets(g, n, K) /\ Held(g, n) = Held(f, n) \ {k}
<1> DEFINE h == Slot(k, n)
           c == RemoveAt(f[h], Position(f[h], k))
<1>1. h \in 0 .. n - 1 /\ k \in In(f[h])
  BY HeldIn
<1>2. ASSUME NEW b \in 0 .. n - 1, k \in In(f[b]) PROVE b = h
  BY <1>2, HeldIn
<1> HIDE DEF h
<1>3. Chain(c, K, n, h) /\ In(c) = In(f[h]) \ {k}
  <2>1. Chain(f[h], K, n, h)
    BY <1>1 DEF Buckets
  <2> QED BY <1>1, <2>1, ChainRemove
<1> HIDE DEF c
<1>4. Buckets(g, n, K) /\ g[h] = c /\ \A b \in 0 .. n - 1 : b # h => g[b] = f[b]
  <2>1. Changed(g, f, h, c)
    BY DEF c, h, Changed, Pushed, Unlinked
  <2> QED BY <1>1, <1>3, <2>1, BucketChange
<1>5. Held(g, n) = Held(f, n) \ {k}
  <2>1. ASSUME NEW x \in Held(g, n) PROVE x \in Held(f, n) \ {k}
    <3>1. PICK b \in 0 .. n - 1 : x \in In(g[b])
      BY DEF Held
    <3>2. CASE b = h
      BY <1>1, <1>3, <1>4, <3>1, <3>2 DEF Held
    <3>3. CASE b # h
      <4>1. x \in In(f[b])
        BY <1>4, <3>1, <3>3
      <4> QED BY <1>2, <3>3, <4>1 DEF Held
    <3> QED BY <3>2, <3>3
  <2>2. ASSUME NEW x \in Held(f, n) \ {k} PROVE x \in Held(g, n)
    <3>1. PICK b \in 0 .. n - 1 : x \in In(f[b])
      BY DEF Held
    <3>2. x \in In(g[b])
      BY <1>3, <1>4, <3>1
    <3> QED BY <3>2 DEF Held
  <2> QED BY <2>1, <2>2
<1> QED BY <1>4, <1>5

\* Without entries.
LEMMA NoBuckets ==
    ASSUME NEW K, NEW n \in Nat
    PROVE  LET f == [h \in 0 .. n - 1 |-> <<>>]
           IN  Buckets(f, n, K) /\ Held(f, n) = {}
<1> DEFINE f == [h \in 0 .. n - 1 |-> <<>>]
<1>1. <<>> \in Seq(K) /\ Len(<<>>) = 0
  BY EmptySeq
<1>2. f \in [0 .. n - 1 -> Seq(K)] /\ \A h \in 0 .. n - 1 : f[h] = <<>>
  BY <1>1
<1>3. \A i \in 1 .. Len(<<>>) : FALSE
  BY <1>1
<1>4. In(<<>>) = {}
  BY <1>3 DEF In
<1>5. \A h : Chain(<<>>, K, n, h)
  BY <1>1, <1>3 DEF Chain
<1> HIDE DEF f
<1> QED BY <1>2, <1>4, <1>5 DEF Buckets, Held
---------------------------------------------------------------------------
(* The table as a whole *)

\* The entries are put into n buckets one after the other.
LEMMA RehashedHolds ==
    ASSUME NEW K, Hashed(K), NEW n \in Nat \ {0}, NEW s \in Seq(K),
           \A i, j \in 1 .. Len(s) : s[i] = s[j] => i = j
    PROVE  Buckets(Rehashed(s, n), n, K) /\ Held(Rehashed(s, n), n) = In(s)
<1> DEFINE S == [0 .. n - 1 -> Seq(K)]
           a == [h \in 0 .. n - 1 |-> <<>>]
           Put(f, k) == [f EXCEPT ![Slot(k, n)] = <<k>> \o @]
           E(c, i) == IF i = 0 THEN a ELSE Put(c[i - 1], s[i])
           F == [i \in 1 .. Len(s) |-> [f \in S |-> Put(f, s[i])]]
           c == CHOOSE c : c = [i \in 0 .. Len(s) |-> E(c, i)]
<1>1. Rehashed(s, n) = c[Len(s)]
  BY Zenon DEF Rehashed
<1>2. Len(s) \in Nat /\ \A i \in 1 .. Len(s) : s[i] \in K
  BY LenProperties, ElementOfSeq
<1>3. Buckets(a, n, K) /\ Held(a, n) = {} /\ a \in S
  BY NoBuckets DEF Buckets
<1>4. ASSUME NEW f \in S, NEW k \in K PROVE Put(f, k) \in S
  <2>1. Slot(k, n) \in 0 .. n - 1
    BY SlotInRange
  <2>2. f[Slot(k, n)] \in Seq(K)
    BY <2>1
  <2>3. <<k>> \o f[Slot(k, n)] \in Seq(K)
    BY <2>2, PushedElement
  <2> QED BY <2>1, <2>3
<1>5. ASSUME NEW f, Buckets(f, n, K), NEW k \in K, k \notin Held(f, n)
      PROVE  Buckets(Put(f, k), n, K) /\ Held(Put(f, k), n) = Held(f, n) \cup {k}
  <2> DEFINE g == Put(f, k)
  <2> HIDE DEF S, a, E, F, c
  <2>1. Pushed(g, f, n, k)
    BY DEF Pushed
  <2> HIDE DEF g
  <2>2. Buckets(g, n, K) /\ Held(g, n) = Held(f, n) \cup {k}
    BY <1>5, <2>1, BucketsPush
  <2> QED BY <2>2 DEF g
<1> HIDE DEF a, Put
<1>6. F \in Steps(Len(s), S)
  <2>1. ASSUME NEW i \in 1 .. Len(s), NEW f \in S PROVE Put(f, s[i]) \in S
    <3> HIDE DEF S
    <3> QED BY <1>2, <1>4
  <2> HIDE DEF S
  <2> QED BY <2>1 DEF Steps
<1>7. \E f : Recursive(f, Len(s), S, a, F)
  <2> HIDE DEF S, F, E, c
  <2> QED BY <1>2, <1>3, <1>6, RecursionExists
<1>8. PICK g : /\ g \in [0 .. Len(s) -> S] /\ g[0] = a
               /\ \A i \in 1 .. Len(s) : g[i] = F[i][g[i - 1]]
  BY <1>7 DEF Recursive
<1>9. ASSUME NEW i \in 0 .. Len(s) PROVE g[i] = E(g, i)
  <2>1. CASE i = 0
    BY <1>8, <2>1
  <2>2. CASE i # 0
    <3>1. i \in 1 .. Len(s) /\ i - 1 \in 0 .. Len(s)
      BY <1>2, <2>2
    <3>2. g[i - 1] \in S
      <4> HIDE DEF S
      <4> QED BY <1>8, <3>1
    <3>3. F[i][g[i - 1]] = Put(g[i - 1], s[i])
      <4> HIDE DEF S
      <4> QED BY <3>1, <3>2
    <3> QED BY <1>8, <2>2, <3>1, <3>3
  <2> QED BY <2>1, <2>2
<1> HIDE DEF F
<1>10. g = [i \in 0 .. Len(s) |-> E(g, i)]
  <2> HIDE DEF E, S
  <2> QED BY <1>8, <1>9
<1>11. c = [i \in 0 .. Len(s) |-> E(c, i)]
  <2> HIDE DEF E
  <2> QED BY <1>10, Zenon
<1> HIDE DEF c
<1>12. c[0] = a /\ \A i \in 1 .. Len(s) : c[i] = Put(c[i - 1], s[i])
  <2>1. \A i \in 0 .. Len(s) : c[i] = E(c, i)
    <3> HIDE DEF E
    <3> QED BY <1>11
  <2>2. 0 \in 0 .. Len(s) /\ \A i \in 1 .. Len(s) : i \in 0 .. Len(s) /\ i # 0
    BY <1>2
  <2> QED BY <2>1, <2>2
<1> HIDE DEF E
<1> DEFINE First(m) == {s[j] : j \in 1 .. m}
           Good(m) == Buckets(c[m], n, K) /\ Held(c[m], n) = First(m)
           T == {m \in Nat : m <= Len(s) => Good(m)}
<1>13. 0 \in T
  <2>1. First(0) = {}
    OBVIOUS
  <2> QED BY <1>3, <1>12, <2>1
<1>14. ASSUME NEW m \in Nat, m \in T PROVE m + 1 \in T
  <2> SUFFICES ASSUME m + 1 <= Len(s) PROVE Good(m + 1)
    <3> HIDE DEF Good
    <3> QED OBVIOUS
  <2>1. m + 1 \in 1 .. Len(s) /\ m + 1 - 1 = m /\ m <= Len(s)
    BY <1>2
  <2>2. Good(m)
    BY <1>14, <2>1
  <2>3. s[m + 1] \in K /\ s[m + 1] \notin First(m)
    <3>1. \A j \in 1 .. m : j \in 1 .. Len(s) /\ j # m + 1
      BY <1>2, <2>1
    <3> QED BY <1>2, <2>1, <3>1
  <2>4. First(m + 1) = First(m) \cup {s[m + 1]}
    <3>1. \A j : j \in 1 .. m + 1 <=> j \in 1 .. m \/ j = m + 1
      OBVIOUS
    <3> QED BY <3>1
  <2> HIDE DEF First
  <2>5. c[m + 1] = Put(c[m], s[m + 1])
    BY <1>12, <2>1
  <2> DEFINE b == c[m]
             k == s[m + 1]
             C == First(m)
  <2>6. Buckets(b, n, K) /\ Held(b, n) = C /\ k \in K /\ k \notin C
    BY <2>2, <2>3
  <2> HIDE DEF b, k, C
  <2>7. Buckets(Put(b, k), n, K) /\ Held(Put(b, k), n) = C \cup {k}
    BY <1>5, <2>6
  <2> QED BY <2>4, <2>5, <2>7 DEF b, k, C
<1>15. Good(Len(s))
  <2> HIDE DEF T
  <2>1. Nat \subseteq T
    BY <1>13, <1>14, SetInduction
  <2>2. Len(s) \in T
    BY <1>2, <2>1
  <2> HIDE DEF Good
  <2> QED BY <1>2, <2>2 DEF T
<1> QED BY <1>1, <1>15 DEF In
\* No element twice.
Distinct(s) == \A i, j \in 1 .. Len(s) : s[i] = s[j] => i = j

\* Two sequences with nothing in common, one after the other.
LEMMA Joined ==
    ASSUME NEW K, NEW l \in Seq(K), NEW r \in Seq(K), Distinct(l), Distinct(r),
           \A x \in In(l) : x \notin In(r)
    PROVE  /\ l \o r \in Seq(K) /\ Distinct(l \o r)
           /\ In(l \o r) = In(l) \cup In(r)
<1> DEFINE s == l \o r
<1>1. Len(l) \in Nat /\ Len(r) \in Nat
  BY LenProperties
<1>2. /\ s \in Seq(K) /\ Len(s) = Len(l) + Len(r)
      /\ \A i \in 1 .. Len(l) + Len(r) : s[i] = IF i <= Len(l) THEN l[i] ELSE r[i - Len(l)]
  BY ConcatProperties
<1> HIDE DEF s
<1>3. ASSUME NEW i \in 1 .. Len(s)
      PROVE  \/ i \in 1 .. Len(l) /\ s[i] = l[i] /\ s[i] \in In(l)
             \/ ~(i <= Len(l)) /\ i - Len(l) \in 1 .. Len(r) /\ s[i] = r[i - Len(l)]
                /\ s[i] \in In(r)
  <2>1. CASE i <= Len(l)
    BY <1>1, <1>2, <2>1 DEF In
  <2>2. CASE ~(i <= Len(l))
    <3>1. i - Len(l) \in 1 .. Len(r) /\ s[i] = r[i - Len(l)]
      BY <1>1, <1>2, <2>2
    <3> QED BY <2>2, <3>1 DEF In
  <2> QED BY <2>1, <2>2
<1>4. Distinct(s)
  <2>1. ASSUME NEW i \in 1 .. Len(s), NEW j \in 1 .. Len(s), s[i] = s[j] PROVE i = j
    <3>1. CASE i \in 1 .. Len(l) /\ j \in 1 .. Len(l)
      <4>1. l[i] = l[j]
        BY <1>1, <1>3, <2>1, <3>1
      <4> QED BY <3>1, <4>1 DEF Distinct
    <3>2. CASE ~(i <= Len(l)) /\ ~(j <= Len(l))
      <4>1. /\ i - Len(l) \in 1 .. Len(r) /\ j - Len(l) \in 1 .. Len(r)
            /\ r[i - Len(l)] = r[j - Len(l)]
        BY <1>3, <2>1, <3>2
      <4>2. i - Len(l) = j - Len(l)
        BY <4>1 DEF Distinct
      <4> QED BY <1>1, <4>2
    <3> QED BY <1>3, <2>1, <3>1, <3>2
  <2> QED BY <2>1 DEF Distinct
<1>5. In(s) = In(l) \cup In(r)
  <2>1. ASSUME NEW x \in In(s) PROVE x \in In(l) \cup In(r)
    BY <1>3 DEF In
  <2>2. ASSUME NEW x \in In(l) PROVE x \in In(s)
    <3>1. PICK i \in 1 .. Len(l) : x = l[i]
      BY DEF In
    <3>2. i \in 1 .. Len(s) /\ s[i] = x
      BY <1>1, <1>2, <3>1
    <3> QED BY <3>2 DEF In
  <2>3. ASSUME NEW x \in In(r) PROVE x \in In(s)
    <3>1. PICK i \in 1 .. Len(r) : x = r[i]
      BY DEF In
    <3>2. i + Len(l) \in 1 .. Len(s) /\ ~(i + Len(l) <= Len(l)) /\ i + Len(l) - Len(l) = i
      BY <1>1, <1>2
    <3>3. s[i + Len(l)] = x
      BY <1>2, <3>1, <3>2
    <3> QED BY <3>2, <3>3 DEF In
  <2> QED BY <2>1, <2>2, <2>3
<1> QED BY <1>2, <1>4, <1>5 DEF s

\* The entries of all buckets: each of them once.
LEMMA EntriesAre ==
    ASSUME NEW K, Hashed(K), NEW t, Table(t, K)
    PROVE  Entries(t) \in Seq(K) /\ In(Entries(t)) = Stored(t) /\ Distinct(Entries(t))
<1> DEFINE n == t.size
           f == t.chain
           E(e, i) == IF i = 0 THEN <<>> ELSE e[i - 1] \o f[i - 1]
           F == [i \in 1 .. n |-> [s \in Seq(K) |-> s \o f[i - 1]]]
           e == CHOOSE e : e = [i \in 0 .. n |-> E(e, i)]
<1>1. Entries(t) = e[n]
  BY Zenon DEF Entries
<1>2. n \in Nat /\ Buckets(f, n, K)
  BY DEF Table
<1> HIDE DEF f, n
<1>3. ASSUME NEW i \in 1 .. n PROVE i - 1 \in 0 .. n - 1 /\ f[i - 1] \in Seq(K)
  BY <1>2 DEF Buckets
<1>4. F \in Steps(n, Seq(K))
  <2>1. ASSUME NEW i \in 1 .. n, NEW s \in Seq(K) PROVE s \o f[i - 1] \in Seq(K)
    BY <1>3, ConcatProperties
  <2> QED BY <2>1 DEF Steps
<1>5. PICK g : /\ g \in [0 .. n -> Seq(K)] /\ g[0] = <<>>
               /\ \A i \in 1 .. n : g[i] = F[i][g[i - 1]]
  <2>1. <<>> \in Seq(K)
    BY EmptySeq
  <2>2. \E g : Recursive(g, n, Seq(K), <<>>, F)
    <3> HIDE DEF F, E, e
    <3> QED BY <1>2, <1>4, <2>1, RecursionExists
  <2> QED BY <2>2 DEF Recursive
<1>6. ASSUME NEW i \in 0 .. n PROVE g[i] = E(g, i)
  <2>1. CASE i = 0
    BY <1>5, <2>1
  <2>2. CASE i # 0
    <3>1. i \in 1 .. n /\ i - 1 \in 0 .. n
      BY <1>2, <2>2
    <3>2. g[i - 1] \in Seq(K)
      BY <1>5, <3>1
    <3>3. F[i][g[i - 1]] = g[i - 1] \o f[i - 1]
      BY <3>1, <3>2
    <3> QED BY <1>5, <2>2, <3>1, <3>3
  <2> QED BY <2>1, <2>2
<1> HIDE DEF F
<1>7. g = [i \in 0 .. n |-> E(g, i)]
  <2> HIDE DEF E
  <2> QED BY <1>5, <1>6
<1>8. e = [i \in 0 .. n |-> E(e, i)]
  <2> HIDE DEF E
  <2> QED BY <1>7, Zenon
<1> HIDE DEF e
<1>9. e[0] = <<>> /\ \A i \in 0 .. n - 1 : e[i + 1] = e[i] \o f[i]
  <2>1. \A i \in 0 .. n : e[i] = E(e, i)
    <3> HIDE DEF E
    <3> QED BY <1>8
  <2>2. 0 \in 0 .. n
    BY <1>2
  <2>3. ASSUME NEW i \in 0 .. n - 1 PROVE e[i + 1] = e[i] \o f[i]
    <3> DEFINE j == i + 1
    <3>1. j \in 0 .. n /\ j # 0 /\ j - 1 = i
      BY <1>2
    <3> HIDE DEF j
    <3>2. e[j] = e[j - 1] \o f[j - 1]
      BY <2>1, <3>1
    <3> QED BY <3>1, <3>2 DEF j
  <2> QED BY <2>1, <2>2, <2>3
<1> HIDE DEF E
<1> DEFINE First(m) == UNION {In(f[h]) : h \in 0 .. m - 1}
           Good(m) == e[m] \in Seq(K) /\ In(e[m]) = First(m) /\ Distinct(e[m])
           T == {m \in Nat : m <= n => Good(m)}
<1>10. 0 \in T
  <2>1. First(0) = {}
    OBVIOUS
  <2>2. <<>> \in Seq(K) /\ Len(<<>>) = 0 /\ \A i \in 1 .. Len(<<>>) : FALSE
    <3>1. <<>> \in Seq(K) /\ Len(<<>>) = 0
      BY EmptySeq
    <3> QED BY <3>1
  <2>3. In(<<>>) = {} /\ Distinct(<<>>)
    BY <2>2 DEF In, Distinct
  <2> HIDE DEF First
  <2> QED BY <1>9, <2>1, <2>2, <2>3
<1>11. ASSUME NEW m \in Nat, m \in T PROVE m + 1 \in T
  <2> SUFFICES ASSUME m + 1 <= n PROVE Good(m + 1)
    <3> HIDE DEF Good
    <3> QED OBVIOUS
  <2> DEFINE l == e[m]
             r == f[m]
  <2>1. m <= n /\ m \in 0 .. n - 1
    BY <1>2
  <2>2. Good(m)
    BY <1>11, <2>1
  <2>3. e[m + 1] = l \o r
    BY <1>9, <2>1
  <2>4. r \in Seq(K) /\ Distinct(r)
    <3>1. Chain(r, K, n, m)
      BY <1>2, <2>1 DEF Buckets
    <3> QED BY <3>1 DEF Chain, Distinct
  <2>5. First(m + 1) = First(m) \cup In(r)
    <3>1. \A h : h \in 0 .. m + 1 - 1 <=> h \in 0 .. m - 1 \/ h = m
      OBVIOUS
    <3> QED BY <3>1
  <2>6. ASSUME NEW x \in First(m) PROVE x \notin In(r)
    <3>1. PICK h \in 0 .. m - 1 : x \in In(f[h])
      OBVIOUS
    <3>2. h \in 0 .. n - 1 /\ h # m
      BY <1>2, <2>1
    <3> QED BY <1>2, <2>1, <3>1, <3>2, HeldIn
  <2> HIDE DEF First, l, r
  <2>7. l \in Seq(K) /\ In(l) = First(m) /\ Distinct(l)
    BY <2>2 DEF l
  <2>8. l \o r \in Seq(K) /\ Distinct(l \o r) /\ In(l \o r) = In(l) \cup In(r)
    BY <2>4, <2>6, <2>7, Joined
  <2> QED BY <2>3, <2>5, <2>7, <2>8
<1>12. Good(n)
  <2> HIDE DEF T
  <2>1. Nat \subseteq T
    BY <1>10, <1>11, SetInduction
  <2>2. n \in T
    BY <1>2, <2>1
  <2> HIDE DEF Good
  <2> QED BY <1>2, <2>2 DEF T
<1> QED BY <1>1, <1>12 DEF Stored, Held, f, n
---------------------------------------------------------------------------
(* The size of a table *)

\* The doubling from i on, until the size is reached.
Power(size) == CHOOSE p : p = [i \in Nat |-> IF i >= size THEN i ELSE p[i * 2]]

\* The doubling ends, from every number but 0.
LEMMA PowerIs ==
    ASSUME NEW size \in Nat \ {0}
    PROVE  /\ NextPower(size) = Power(size)[InitialSize]
           /\ \A i \in Nat \ {0} :
                 Power(size)[i] = IF i >= size THEN i ELSE Power(size)[i * 2]
<1> DEFINE E(p, i) == IF i >= size THEN i ELSE p[i * 2]
           Good(d, p) == \A i \in Nat \ {0} : i + d >= size => p[i] = E(p, i)
           T == {d \in Nat : \E p \in [Nat -> Nat] : Good(d, p)}
<1>1. NextPower(size) = Power(size)[InitialSize]
  BY Zenon DEF NextPower, Power
<1>2. 0 \in T
  <2> DEFINE p == [i \in Nat |-> i]
  <2>1. p \in [Nat -> Nat] /\ Good(0, p)
    OBVIOUS
  <2> HIDE DEF p, Good
  <2> QED BY <2>1
<1>3. ASSUME NEW d \in Nat, d \in T PROVE d + 1 \in T
  <2>1. PICK p \in [Nat -> Nat] : Good(d, p)
    <3> HIDE DEF Good
    <3> QED BY <1>3
  <2> DEFINE q == [i \in Nat |-> E(p, i)]
  <2>2. q \in [Nat -> Nat]
    <3>1. ASSUME NEW i \in Nat PROVE E(p, i) \in Nat
      <4>1. i * 2 \in Nat
        OBVIOUS
      <4>2. p[i * 2] \in Nat
        <5> DEFINE j == i * 2
        <5> HIDE DEF j
        <5> QED BY <4>1 DEF j
      <4> QED BY <4>2
    <3> HIDE DEF E
    <3> QED BY <3>1
  <2>3. ASSUME NEW i \in Nat \ {0}, i + (d + 1) >= size PROVE q[i] = E(q, i)
    <3> DEFINE j == i * 2
    <3>1. j \in Nat \ {0} /\ j + d >= size
      BY <2>3
    <3>2. q[i] = E(p, i) /\ q[j] = E(p, j)
      <4> HIDE DEF E, j
      <4> QED BY <3>1
    <3>3. p[j] = E(p, j)
      <4> HIDE DEF E, j
      <4> QED BY <2>1, <3>1
    <3> HIDE DEF q, j
    <3>4. q[j] = p[j]
      BY <3>2, <3>3
    <3>5. E(p, i) = E(q, i)
      BY <3>4 DEF j
    <3> QED BY <3>2, <3>5
  <2>4. Good(d + 1, q)
    <3> HIDE DEF q, E
    <3> QED BY <2>3
  <2> HIDE DEF q, Good
  <2> QED BY <2>2, <2>4
<1>4. PICK p \in [Nat -> Nat] : Good(size, p)
  <2> HIDE DEF T, Good
  <2>1. size \in T
    BY <1>2, <1>3, SetInduction
  <2> QED BY <2>1 DEF T
<1>5. \A i \in Nat : p[i] = E(p, i)
  <2>1. ASSUME NEW i \in Nat, i # 0 PROVE p[i] = E(p, i)
    <3>1. i + size >= size
      OBVIOUS
    <3> HIDE DEF E
    <3> QED BY <1>4, <2>1, <3>1
  <2>2. p[0] = E(p, 0)
    <3>1. 0 * 2 = 0
      OBVIOUS
    <3>2. ~(0 >= size)
      OBVIOUS
    <3> QED BY <3>1, <3>2
  <2> HIDE DEF E
  <2> QED BY <2>1, <2>2
<1>6. p = [i \in Nat |-> E(p, i)]
  <2> HIDE DEF E
  <2> QED BY <1>5
<1>7. Power(size) = [i \in Nat |-> E(Power(size), i)]
  <2>1. Power(size) = CHOOSE w : w = [i \in Nat |-> E(w, i)]
    BY Zenon DEF Power
  <2> HIDE DEF E
  <2> QED BY <1>6, <2>1, Zenon
<1>8. \A i \in Nat : Power(size)[i] = E(Power(size), i)
  <2> DEFINE w == Power(size)
  <2>1. w = [i \in Nat |-> E(w, i)]
    BY <1>7
  <2> HIDE DEF E, w
  <2>2. \A i \in Nat : w[i] = E(w, i)
    BY <2>1
  <2> QED BY <2>2 DEF w
<1> QED BY <1>1, <1>8

\* JimHashTableNextPower: not less than what was asked for, and never 0.
LEMMA NextPowerIs ==
    ASSUME NEW size \in Nat \ {0}
    PROVE  NextPower(size) \in Nat \ {0} /\ NextPower(size) >= size
<1> DEFINE p == Power(size)
           T == {d \in Nat : \A i \in Nat \ {0} : i + d >= size =>
                                p[i] \in Nat \ {0} /\ p[i] >= size}
<1>1. \A i \in Nat \ {0} : p[i] = IF i >= size THEN i ELSE p[i * 2]
  BY PowerIs
<1> HIDE DEF p
<1>2. 0 \in T
  BY <1>1
<1>3. ASSUME NEW d \in Nat, d \in T PROVE d + 1 \in T
  <2>1. ASSUME NEW i \in Nat \ {0}, i + (d + 1) >= size
        PROVE  p[i] \in Nat \ {0} /\ p[i] >= size
    <3> DEFINE j == i * 2
    <3>1. j \in Nat \ {0} /\ j + d >= size
      BY <2>1
    <3>2. p[i] = IF i >= size THEN i ELSE p[j]
      BY <1>1
    <3> HIDE DEF j
    <3>3. p[j] \in Nat \ {0} /\ p[j] >= size
      BY <1>3, <3>1
    <3> QED BY <3>2, <3>3
  <2> QED BY <2>1
<1>4. size \in T
  <2> HIDE DEF T
  <2> QED BY <1>2, <1>3, SetInduction
<1>5. InitialSize + size >= size /\ InitialSize \in Nat \ {0}
  BY InitialSizeAssumption
<1>6. p[InitialSize] \in Nat \ {0} /\ p[InitialSize] >= size
  BY <1>4, <1>5
<1> QED BY <1>6, PowerIs DEF p

\* What has been reached by doubling is doubled once more.
LEMMA NextPowerDoubles ==
    ASSUME NEW size \in Nat \ {0}, NextPower(size) = size
    PROVE  NextPower(size * 2) = size * 2
<1> DEFINE m == size * 2
           p == Power(size)
           q == Power(m)
           T == {d \in Nat : \A i \in Nat \ {0} : i + d >= size /\ p[i] = size => q[i] = m}
<1>0. m \in Nat \ {0} /\ size < m
  OBVIOUS
<1>1. /\ \A i \in Nat \ {0} : p[i] = IF i >= size THEN i ELSE p[i * 2]
      /\ p[InitialSize] = size
  BY PowerIs
<1>2. /\ \A i \in Nat \ {0} : q[i] = IF i >= m THEN i ELSE q[i * 2]
      /\ NextPower(m) = q[InitialSize]
  <2> HIDE DEF m
  <2> QED BY <1>0, PowerIs
<1> HIDE DEF p, q
<1>3. q[size] = m
  <2>1. q[size] = q[m]
    BY <1>0, <1>2
  <2>2. q[m] = m
    <3> HIDE DEF m
    <3> QED BY <1>0, <1>2
  <2> QED BY <2>1, <2>2
<1>4. 0 \in T
  <2>1. ASSUME NEW i \in Nat \ {0}, i >= size, p[i] = size PROVE q[i] = m
    <3>1. i = size
      BY <1>1, <2>1
    <3> QED BY <1>3, <3>1
  <2> QED BY <2>1
<1>5. ASSUME NEW d \in Nat, d \in T PROVE d + 1 \in T
  <2>1. ASSUME NEW i \in Nat \ {0}, i + (d + 1) >= size, p[i] = size PROVE q[i] = m
    <3> DEFINE j == i * 2
    <3>1. j \in Nat \ {0} /\ j + d >= size
      BY <2>1
    <3>2. p[i] = (IF i >= size THEN i ELSE p[j]) /\ q[i] = IF i >= m THEN i ELSE q[j]
      BY <1>1, <1>2
    <3>3. CASE i >= size
      <4>1. i = size
        BY <2>1, <3>2, <3>3
      <4> QED BY <1>3, <4>1
    <3>4. CASE ~(i >= size)
      <4> HIDE DEF j
      <4>1. p[j] = size
        BY <2>1, <3>2, <3>4
      <4>2. q[j] = m
        <5> HIDE DEF m
        <5> QED BY <1>5, <3>1, <4>1
      <4>3. ~(i >= m)
        BY <1>0, <3>4
      <4> QED BY <3>2, <4>2, <4>3
    <3> QED BY <3>3, <3>4
  <2> QED BY <2>1
<1>6. size \in T
  <2> HIDE DEF T
  <2> QED BY <1>4, <1>5, SetInduction
<1>7. InitialSize + size >= size /\ InitialSize \in Nat \ {0}
  BY InitialSizeAssumption
<1>8. q[InitialSize] = m
  <2> HIDE DEF m
  <2> QED BY <1>1, <1>6, <1>7
<1> QED BY <1>2, <1>8

\* The first size is the initial one.
LEMMA NextPowerOfInitial == NextPower(InitialSize) = InitialSize
BY PowerIs, InitialSizeAssumption
---------------------------------------------------------------------------
(* The operations *)

\* There are at least as many buckets as entries, and their number is the initial
\* one, doubled some times.
Fits(t) == Cardinality(Stored(t)) <= t.size
Sized(t) == t.size # 0 => NextPower(t.size) = t.size
Good(t, K) == Table(t, K) /\ Fits(t) /\ Sized(t)

\* The table with one entry per element of Stored.
LEMMA UsedIs ==
    ASSUME NEW K, Hashed(K), NEW t, Table(t, K)
    PROVE  /\ Keys(t) = Stored(t) /\ IsFiniteSet(Stored(t))
           /\ Used(t) = Cardinality(Stored(t)) /\ Used(t) \in Nat
           /\ IsInjective(Entries(t))
<1> DEFINE s == Entries(t)
<1>1. s \in Seq(K) /\ In(s) = Stored(t) /\ Distinct(s)
  BY EntriesAre
<1> HIDE DEF s
<1>2. Len(s) \in Nat /\ DOMAIN s = 1 .. Len(s)
  BY <1>1, LenProperties
<1>3. IsFiniteSet(In(s)) /\ Cardinality(In(s)) = Len(s)
  BY <1>1, DistinctElements DEF Distinct, In
<1>4. ToSet(s) = In(s) /\ IsInjective(s)
  BY <1>1, <1>2 DEF ToSet, In, IsInjective, Distinct
<1> QED BY <1>1, <1>2, <1>3, <1>4 DEF s, Keys, Used

\* Jim_FindHashEntry finds exactly what is stored.
LEMMA FindIs ==
    ASSUME NEW K, Hashed(K), NEW t, Table(t, K), NEW k \in K
    PROVE  Find(t, k) <=> k \in Stored(t)
<1>1. t.size \in Nat /\ Buckets(t.chain, t.size, K)
  BY DEF Table
<1>2. ASSUME t.size > 0 PROVE Slot(k, t.size) \in 0 .. t.size - 1
  BY <1>1, <1>2, SlotInRange
<1> QED BY <1>1, <1>2, HeldIn, ContainsIn DEF Find, Stored

\* What TableSound asks of the table alone.
LEMMA GoodIsSound ==
    ASSUME NEW K, Hashed(K), NEW t, Good(t, K)
    PROVE  Sound(t)
<1>1. Keys(t) = Stored(t) /\ Used(t) <= t.size /\ IsInjective(Entries(t))
  BY UsedIs DEF Good, Fits
<1>2. ASSUME NEW k \in Stored(t) PROVE Find(t, k)
  <2>1. k \in K
    BY HeldIn DEF Good, Table, Stored
  <2> QED BY <2>1, FindIs DEF Good
<1> QED BY <1>1, <1>2 DEF Sound

\* Jim_ExpandHashTable
LEMMA ExpandIs ==
    ASSUME NEW K, Hashed(K), NEW t, Table(t, K), NEW size \in Nat \ {0}, Used(t) < size
    PROVE  /\ Table(Expand(t, size), K) /\ Stored(Expand(t, size)) = Stored(t)
           /\ Expand(t, size).size = NextPower(size)
<1> DEFINE n == NextPower(size)
           s == Entries(t)
           c == Rehashed(s, n)
<1>1. n \in Nat \ {0}
  BY NextPowerIs
<1>2. s \in Seq(K) /\ In(s) = Stored(t) /\ Distinct(s)
  BY EntriesAre
<1>3. ~(size <= Used(t))
  BY UsedIs
<1>4. Expand(t, size) = [size |-> n, chain |-> c]
  BY <1>3 DEF Expand
<1> HIDE DEF n, s
<1>5. Buckets(c, n, K) /\ Held(c, n) = In(s)
  BY <1>1, <1>2, RehashedHolds DEF Distinct
<1> HIDE DEF c
<1>6. Expand(t, size).size = n /\ Expand(t, size).chain = c
  BY <1>4
<1> QED BY <1>1, <1>2, <1>4, <1>5, <1>6 DEF Table, Stored, n

\* JimExpandHashTableIfNeeded: there is room for one entry more.
LEMMA ExpandIfNeededIs ==
    ASSUME NEW K, Hashed(K), NEW t, Good(t, K)
    PROVE  LET g == ExpandIfNeeded(t)
           IN  /\ Good(g, K) /\ Stored(g) = Stored(t) /\ Cardinality(Stored(g)) < g.size
               /\ \/ g = t
                  \/ t.size = 0
                  \/ g.size = t.size * 2
<1> DEFINE made == IF t.size = 0 THEN Expand(t, InitialSize) ELSE t
           g == ExpandIfNeeded(t)
<1>1. t.size \in Nat /\ Used(t) = Cardinality(Stored(t)) /\ Used(t) \in Nat
      /\ Used(t) <= t.size /\ Table(t, K)
  BY UsedIs DEF Good, Table, Fits
<1>2. g = IF made.size = Used(made) THEN Expand(made, made.size * 2) ELSE made
  BY DEF ExpandIfNeeded
<1>3. CASE t.size = 0
  <2>1. Used(t) < InitialSize /\ InitialSize \in Nat \ {0}
    BY <1>1, <1>3, InitialSizeAssumption
  <2>2. /\ Table(made, K) /\ Stored(made) = Stored(t) /\ made.size = InitialSize
    BY <1>1, <1>3, <2>1, ExpandIs, NextPowerOfInitial
  <2> HIDE DEF made, g
  <2>3. Used(made) = Used(t)
    BY <1>1, <2>2, UsedIs
  <2>4. g = made
    BY <1>2, <2>1, <2>2, <2>3
  <2>5. Good(g, K) /\ Stored(g) = Stored(t) /\ Cardinality(Stored(g)) < g.size
    BY <1>1, <2>1, <2>2, <2>4, NextPowerOfInitial DEF Good, Fits, Sized
  <2> QED BY <1>3, <2>5 DEF g
<1>4. CASE t.size # 0
  <2>1. made = t
    BY <1>4
  <2>2. CASE t.size = Used(t)
    <3> DEFINE m == t.size * 2
    <3>1. m \in Nat \ {0} /\ Used(t) < m /\ NextPower(m) = m
      <4>1. NextPower(t.size) = t.size
        BY <1>4 DEF Good, Sized
      <4>2. m \in Nat \ {0} /\ Used(t) < m
        BY <1>1, <1>4
      <4>3. NextPower(m) = m
        BY <1>1, <1>4, <4>1, NextPowerDoubles
      <4> QED BY <4>2, <4>3
    <3>2. g = Expand(t, m)
      BY <1>2, <2>1, <2>2
    <3> HIDE DEF g, m
    <3>3. Table(g, K) /\ Stored(g) = Stored(t) /\ g.size = m
      BY <1>1, <3>1, <3>2, ExpandIs
    <3>4. Good(g, K) /\ Cardinality(Stored(g)) < g.size
      BY <1>1, <3>1, <3>3 DEF Good, Fits, Sized
    <3> QED BY <3>3, <3>4 DEF g, m
  <2>3. CASE t.size # Used(t)
    <3>1. g = t
      BY <1>2, <2>1, <2>3
    <3>2. Cardinality(Stored(t)) < t.size
      BY <1>1, <2>3
    <3> QED BY <3>1, <3>2
  <2> QED BY <2>2, <2>3
<1> QED BY <1>3, <1>4

\* A table with other chains.
LEMMA WithChains ==
    ASSUME NEW K, NEW t, Table(t, K), NEW h, NEW c, NEW u, Rechained(u, t, h, c)
    PROVE  /\ u.size = t.size /\ Changed(u.chain, t.chain, h, c)
           /\ u = [size |-> u.size, chain |-> u.chain]
<1> DEFINE s == t.size
           f == t.chain
<1>1. t = [size |-> s, chain |-> f]
  BY DEF Table
<1> HIDE DEF s, f
<1> QED BY <1>1 DEF Changed, Rechained
\* Jim_AddHashEntry, whether or not the key is present and whether or not the
\* table grows.
LEMMA InsertIs ==
    ASSUME NEW K, Hashed(K), NEW t, Good(t, K), NEW k \in K
    PROVE  Good(Insert(t, k), K) /\ Stored(Insert(t, k)) = Stored(t) \cup {k}
<1> DEFINE g == ExpandIfNeeded(t)
           u == Insert(t, k)
           h == Slot(k, g.size)
           c == <<k>> \o g.chain[h]
<1>1. Good(g, K) /\ Stored(g) = Stored(t) /\ Cardinality(Stored(g)) < g.size
  BY ExpandIfNeededIs
<1>2. Table(g, K) /\ g.size \in Nat \ {0} /\ IsFiniteSet(Stored(g))
      /\ Cardinality(Stored(g)) \in Nat
  <2>1. Table(g, K) /\ g.size \in Nat
    BY <1>1 DEF Good, Table
  <2>2. IsFiniteSet(Stored(g)) /\ Cardinality(Stored(g)) \in Nat
    <3> HIDE DEF g
    <3> QED BY <2>1, UsedIs
  <2> QED BY <1>1, <2>1, <2>2
<1>3. u = IF Find(g, k) THEN g ELSE [g EXCEPT !.chain[h] = c]
  BY DEF Insert
<1> HIDE DEF g, u
<1>4. Find(g, k) <=> k \in Stored(g)
  BY <1>2, FindIs
<1>5. CASE k \in Stored(g)
  <2>1. u = g
    BY <1>3, <1>4, <1>5
  <2> QED BY <1>1, <1>5, <2>1 DEF u
<1>6. CASE k \notin Stored(g)
  <2>1. Rechained(u, g, h, c)
    BY <1>3, <1>4, <1>6 DEF Rechained
  <2>2. u.size = g.size /\ Changed(u.chain, g.chain, h, c)
        /\ u = [size |-> u.size, chain |-> u.chain]
    <3> HIDE DEF h, c
    <3> QED BY <1>2, <2>1, WithChains
  <2> DEFINE n == g.size
             a == g.chain
             b == u.chain
  <2>3. Pushed(b, a, n, k)
    BY <2>2 DEF Changed, Pushed
  <2>4. Buckets(a, n, K) /\ k \notin Held(a, n)
    BY <1>2, <1>6 DEF Table, Stored
  <2> HIDE DEF n, a, b
  <2>5. Buckets(b, n, K) /\ Held(b, n) = Held(a, n) \cup {k}
    <3>1. n \in Nat \ {0}
      BY <1>2 DEF n
    <3> QED BY <2>3, <2>4, <3>1, BucketsPush
  <2>6. Table(u, K) /\ Stored(u) = Stored(g) \cup {k}
    BY <1>2, <2>2, <2>5 DEF Table, Stored, n, a, b
  <2>7. Cardinality(Stored(u)) = Cardinality(Stored(g)) + 1
    BY <1>2, <1>6, <2>6, FS_AddElement
  <2>8. Fits(u) /\ Sized(u)
    BY <1>1, <1>2, <2>2, <2>7 DEF Fits, Good, Sized
  <2> QED BY <1>1, <2>6, <2>8 DEF Good, u
<1> QED BY <1>5, <1>6

\* Jim_DeleteHashEntry
LEMMA DeleteIs ==
    ASSUME NEW K, Hashed(K), NEW t, Good(t, K), NEW k \in K
    PROVE  /\ Good(Delete(t, k), K) /\ Stored(Delete(t, k)) = Stored(t) \ {k}
           /\ Delete(t, k).size = t.size
<1> DEFINE u == Delete(t, k)
           h == Slot(k, t.size)
           c == RemoveAt(t.chain[h], Position(t.chain[h], k))
<1>1. Table(t, K) /\ t.size \in Nat /\ IsFiniteSet(Stored(t))
      /\ Cardinality(Stored(t)) \in Nat /\ Cardinality(Stored(t)) <= t.size
  <2>1. Table(t, K) /\ t.size \in Nat /\ Cardinality(Stored(t)) <= t.size
    BY DEF Good, Table, Fits
  <2> QED BY <2>1, UsedIs
<1>2. u = IF ~Find(t, k) THEN t ELSE [t EXCEPT !.chain[h] = c]
  BY DEF Delete
<1> HIDE DEF u
<1>3. Find(t, k) <=> k \in Stored(t)
  BY <1>1, FindIs
<1>4. CASE k \notin Stored(t)
  <2>1. u = t
    BY <1>2, <1>3, <1>4
  <2> QED BY <1>4, <2>1 DEF u
<1>5. CASE k \in Stored(t)
  <2>1. Rechained(u, t, h, c)
    BY <1>2, <1>3, <1>5 DEF Rechained
  <2>2. u.size = t.size /\ Changed(u.chain, t.chain, h, c)
        /\ u = [size |-> u.size, chain |-> u.chain]
    <3> HIDE DEF h, c
    <3> QED BY <1>1, <2>1, WithChains
  <2> DEFINE n == t.size
             a == t.chain
             b == u.chain
  <2>3. Unlinked(b, a, n, k)
    BY <2>2 DEF Changed, Unlinked
  <2>4. Buckets(a, n, K) /\ k \in Held(a, n) /\ n \in Nat
    BY <1>1, <1>5 DEF Table, Stored
  <2> HIDE DEF n, a, b
  <2>5. Buckets(b, n, K) /\ Held(b, n) = Held(a, n) \ {k}
    BY <2>3, <2>4, BucketsRemove
  <2>6. Table(u, K) /\ Stored(u) = Stored(t) \ {k}
    BY <1>1, <2>2, <2>5 DEF Table, Stored, n, a, b
  <2>7. Cardinality(Stored(u)) = Cardinality(Stored(t)) - 1
    BY <1>1, <1>5, <2>6, FS_RemoveElement
  <2>8. Fits(u) /\ Sized(u)
    BY <1>1, <2>2, <2>7 DEF Fits, Good, Sized
  <2> QED BY <2>2, <2>6, <2>8 DEF Good, u
<1> QED BY <1>4, <1>5

---------------------------------------------------------------------------
(* The iterator *)

\* The entries that come after one in its chain.
Rest(t, k) == ToSet(Following(t, k))

\* The chain of an entry, where the entry is in it and what comes after it.
LEMMA FollowingIs ==
    ASSUME NEW K, Hashed(K), NEW t, Table(t, K), NEW k \in Stored(t),
           NEW c, c = t.chain[Slot(k, t.size)], NEW p, p = Position(c, k)
    PROVE  /\ Chain(c, K, t.size, Slot(k, t.size)) /\ Slot(k, t.size) \in 0 .. t.size - 1
           /\ p \in 1 .. Len(c) /\ c[p] = k /\ Len(c) \in Nat
           /\ Rest(t, k) = {c[i] : i \in p + 1 .. Len(c)}
           /\ After(t, k) = IF p = Len(c) THEN NULL ELSE c[p + 1]
<1> DEFINE h == Slot(k, t.size)
           f == SubSeq(c, p + 1, Len(c))
<1>1. h \in 0 .. t.size - 1 /\ k \in In(c) /\ Chain(c, K, t.size, h)
  <2>1. h \in 0 .. t.size - 1 /\ k \in In(c)
    BY HeldIn DEF Table, Stored
  <2> HIDE DEF h
  <2> QED BY <2>1 DEF Table, Buckets, h
<1>2. p \in 1 .. Len(c) /\ c[p] = k
  BY <1>1, PositionIs
<1>3. c \in Seq(K) /\ Len(c) \in Nat /\ \A i \in 1 .. Len(c) : c[i] \in K
  BY <1>1, LenProperties, ElementOfSeq DEF Chain
<1>4. Following(t, k) = f
  BY <1>1, ContainsIn DEF Following
<1>5. /\ f \in Seq(K) /\ Len(f) = IF p + 1 <= Len(c) THEN Len(c) - (p + 1) + 1 ELSE 0
      /\ \A i \in 1 .. Len(c) - (p + 1) + 1 : f[i] = c[p + 1 + i - 1]
  <2>1. p + 1 \in Int /\ Len(c) \in Int /\ \A i \in p + 1 .. Len(c) : c[i] \in K
    BY <1>2, <1>3
  <2> QED BY <2>1, SubSeqProperties
<1> HIDE DEF f
<1>6. Len(f) = Len(c) - p /\ DOMAIN f = 1 .. Len(f)
  <2>1. Len(f) = Len(c) - p
    BY <1>2, <1>3, <1>5
  <2> QED BY <1>5, <2>1, LenProperties
<1>7. \A i \in 1 .. Len(f) : f[i] = c[p + i]
  <2>1. ASSUME NEW i \in 1 .. Len(f) PROVE f[i] = c[p + i]
    <3>1. i \in 1 .. Len(c) - (p + 1) + 1 /\ p + 1 + i - 1 = p + i
      BY <1>2, <1>3, <1>6
    <3> QED BY <1>5, <3>1
  <2> QED BY <2>1
<1>8. ToSet(f) = {c[i] : i \in p + 1 .. Len(c)}
  <2>1. ASSUME NEW i \in 1 .. Len(f) PROVE p + i \in p + 1 .. Len(c)
    BY <1>2, <1>3, <1>6
  <2>2. ASSUME NEW j \in p + 1 .. Len(c) PROVE j - p \in 1 .. Len(f) /\ f[j - p] = c[j]
    <3>1. j - p \in 1 .. Len(f) /\ p + (j - p) = j
      BY <1>2, <1>3, <1>6
    <3> QED BY <1>7, <3>1
  <2>3. ToSet(f) = {f[i] : i \in 1 .. Len(f)}
    BY <1>6 DEF ToSet
  <2> DEFINE A == {f[i] : i \in 1 .. Len(f)}
             B == {c[j] : j \in p + 1 .. Len(c)}
  <2>4. ASSUME NEW i \in 1 .. Len(f) PROVE f[i] \in B
    BY <1>7, <2>1
  <2>5. ASSUME NEW j \in p + 1 .. Len(c) PROVE c[j] \in A
    BY <2>2
  <2>6. A \subseteq B
    BY <2>4
  <2>7. B \subseteq A
    BY <2>5
  <2> HIDE DEF A, B
  <2>8. A = B
    BY <2>6, <2>7
  <2> QED BY <2>3, <2>8 DEF A, B
<1>9. After(t, k) = IF p = Len(c) THEN NULL ELSE c[p + 1]
  <2>1. CASE p = Len(c)
    <3>1. f = <<>>
      BY <1>3, <1>5, <1>6, <2>1, EmptySeq
    <3> QED BY <1>4, <2>1, <3>1 DEF After
  <2>2. CASE p # Len(c)
    <3>1. Len(f) >= 1 /\ 1 \in 1 .. Len(f)
      BY <1>2, <1>3, <1>6, <2>2
    <3>2. f # <<>> /\ Head(f) = f[1] /\ f[1] = c[p + 1]
      BY <1>5, <1>7, <3>1, EmptySeq, HeadTailProperties
    <3> QED BY <1>4, <2>2, <3>2 DEF After
  <2> QED BY <2>1, <2>2
<1> QED BY <1>1, <1>2, <1>3, <1>4, <1>8, <1>9 DEF Rest

\* One after the other, and never back.
LEMMA AfterIs ==
    ASSUME NEW K, Hashed(K), NEW t, Table(t, K), NEW k \in Stored(t)
    PROVE  /\ \A x \in Rest(t, k) : x \in Stored(t) /\ x # k /\ Slot(x, t.size) = Slot(k, t.size)
           /\ After(t, k) = NULL => Rest(t, k) = {}
           /\ After(t, k) # NULL => /\ After(t, k) \in Rest(t, k)
                                    /\ Rest(t, k) = {After(t, k)} \cup Rest(t, After(t, k))
<1> DEFINE h == Slot(k, t.size)
           c == t.chain[h]
           p == Position(c, k)
<1>1. /\ Chain(c, K, t.size, h) /\ h \in 0 .. t.size - 1
      /\ p \in 1 .. Len(c) /\ c[p] = k /\ Len(c) \in Nat
      /\ Rest(t, k) = {c[i] : i \in p + 1 .. Len(c)}
      /\ After(t, k) = IF p = Len(c) THEN NULL ELSE c[p + 1]
  BY FollowingIs
<1> HIDE DEF p
<1>2. ASSUME NEW i \in 1 .. Len(c)
      PROVE  c[i] \in Stored(t) /\ Slot(c[i], t.size) = h /\ c[i] # NULL
  <2>1. c[i] \in K
    BY <1>1, ElementOfSeq DEF Chain
  <2>2. c[i] \in In(c)
    BY DEF In
  <2>3. c[i] # NULL
    BY <2>1 DEF Hashed, NULL
  <2> QED BY <1>1, <2>2, <2>3 DEF Chain, Stored, Held
<1>3. ASSUME NEW i \in p + 1 .. Len(c) PROVE i \in 1 .. Len(c) /\ i # p
  BY <1>1
<1>4. \A x \in Rest(t, k) : x \in Stored(t) /\ x # k /\ Slot(x, t.size) = h
  <2>1. ASSUME NEW i \in p + 1 .. Len(c) PROVE c[i] # k
    BY <1>1, <1>3 DEF Chain
  <2> HIDE DEF c, h
  <2> QED BY <1>1, <1>2, <1>3, <2>1
<1>5. CASE p = Len(c)
  <2>1. \A i \in p + 1 .. Len(c) : FALSE
    BY <1>1, <1>5
  <2> QED BY <1>1, <1>4, <1>5, <2>1
<1>6. CASE p # Len(c)
  <2> DEFINE x == c[p + 1]
  <2>1. p + 1 \in 1 .. Len(c) /\ p + 1 \in p + 1 .. Len(c) /\ After(t, k) = x
    BY <1>1, <1>6
  <2>2. x \in Stored(t) /\ Slot(x, t.size) = h /\ x # NULL
    BY <1>2, <2>1
  <2> DEFINE q == Position(c, x)
  <2>3. /\ q \in 1 .. Len(c) /\ c[q] = x
        /\ Rest(t, x) = {c[i] : i \in q + 1 .. Len(c)}
    <3> HIDE DEF x
    <3> QED BY <2>2, FollowingIs
  <2>4. q = p + 1
    BY <1>1, <2>1, <2>3 DEF Chain
  <2>5. \A i : i \in p + 1 .. Len(c) <=> i = p + 1 \/ i \in p + 1 + 1 .. Len(c)
    BY <1>1, <1>6
  <2>6. Rest(t, k) = {x} \cup Rest(t, x)
    <3>1. Rest(t, x) = {c[i] : i \in p + 1 + 1 .. Len(c)}
      BY <2>3, <2>4
    <3> HIDE DEF c, q
    <3> QED BY <1>1, <2>5, <3>1
  <2> HIDE DEF x
  <2> QED BY <1>4, <2>1, <2>2, <2>6
<1> QED BY <1>5, <1>6
\* An iterator of a table, and the entries that it has not come to: those in
\* later buckets and those from its next entry on.
IteratorOf(t, it) == /\ it \in [index: Int, entry: Int, nextEntry: Int] /\ it.index >= -1
                     /\ it.nextEntry \in Stored(t) \cup {NULL}
                     /\ it.entry = NULL => it.nextEntry = NULL
Later(t, index) == {k \in Stored(t) : Slot(k, t.size) > index}
From(t, k) == IF k = NULL THEN {} ELSE {k} \cup Rest(t, k)
Ahead(t, it) == Later(t, it.index) \cup From(t, it.nextEntry)

\* The first entry of a chain, and what follows it.
LEMMA FirstOfChain ==
    ASSUME NEW K, Hashed(K), NEW t, Table(t, K), NEW h \in 0 .. t.size - 1,
           NEW c, c = t.chain[h], c # <<>>, NEW k, k = Head(c)
    PROVE  /\ k \in Stored(t) /\ Slot(k, t.size) = h
           /\ \A x \in Stored(t) : Slot(x, t.size) = h => x = k \/ x \in Rest(t, k)
<1>1. Chain(c, K, t.size, h)
  BY DEF Table, Buckets
<1>2. c \in Seq(K) /\ Len(c) \in Nat /\ 1 \in 1 .. Len(c) /\ k = c[1]
  <2>1. c \in Seq(K)
    BY <1>1 DEF Chain
  <2>2. Len(c) \in Nat /\ Len(c) # 0 /\ k = c[1]
    BY <2>1, LenProperties, EmptySeq, HeadTailProperties
  <2> QED BY <2>1, <2>2
<1>3. k \in In(c)
  BY <1>2 DEF In
<1>4. k \in Stored(t) /\ Slot(k, t.size) = h
  BY <1>1, <1>2, <1>3 DEF Chain, Stored, Held
<1> DEFINE p == Position(c, k)
<1>5. p \in 1 .. Len(c) /\ c[p] = k /\ Rest(t, k) = {c[i] : i \in p + 1 .. Len(c)}
  <2>1. c = t.chain[Slot(k, t.size)]
    BY <1>4
  <2> QED BY <1>4, <2>1, FollowingIs
<1>6. p = 1
  BY <1>1, <1>2, <1>5 DEF Chain
<1>7. ASSUME NEW x \in Stored(t), Slot(x, t.size) = h PROVE x = k \/ x \in Rest(t, k)
  <2>1. x \in In(c)
    BY <1>7, HeldIn DEF Table, Stored
  <2>2. PICK i \in 1 .. Len(c) : x = c[i]
    BY <2>1 DEF In
  <2>3. i = 1 \/ i \in 1 + 1 .. Len(c)
    BY <1>2
  <2>4. Rest(t, k) = {c[j] : j \in 1 + 1 .. Len(c)}
    BY <1>5, <1>6
  <2> HIDE DEF p
  <2> QED BY <1>2, <2>2, <2>3, <2>4
<1> QED BY <1>4, <1>7

\* Jim_NextHashEntry, from bucket to bucket.
LEMMA ToNextBucketIs ==
    ASSUME NEW K, Hashed(K), NEW t, Table(t, K), NEW it, IteratorOf(t, it),
           NEW a, a = ToNextBucket(t, it)
    PROVE  /\ IteratorOf(t, a) /\ a.entry \in Stored(t) \cup {NULL}
           /\ a.entry # NULL => a.nextEntry # a.entry
           /\ a.entry = NULL => Later(t, it.index) = {}
           /\ a.entry # NULL => Later(t, it.index) \subseteq {a.entry} \cup Ahead(t, a)
<1> DEFINE inUse == {i \in it.index + 1 .. t.size - 1 : t.chain[i] # <<>>}
<1>1. t.size \in Nat /\ it.index \in Int /\ it.index >= -1
  BY DEF Table, IteratorOf
<1>2. ASSUME NEW x \in Later(t, it.index) PROVE Slot(x, t.size) \in inUse
  <2> DEFINE h == Slot(x, t.size)
  <2>1. x \in Stored(t) /\ h > it.index
    BY DEF Later
  <2>2. h \in 0 .. t.size - 1 /\ x \in In(t.chain[h])
    BY <2>1, HeldIn DEF Table, Stored
  <2>3. t.chain[h] # <<>>
    <3>1. Len(<<>>) = 0 /\ \A i \in 1 .. 0 : FALSE
      OBVIOUS
    <3>2. In(<<>>) = {}
      BY <3>1 DEF In
    <3> HIDE DEF h
    <3> QED BY <2>2, <3>2
  <2>4. h \in it.index + 1 .. t.size - 1
    <3> HIDE DEF h
    <3> QED BY <1>1, <2>1, <2>2
  <2> HIDE DEF h
  <2> QED BY <2>3, <2>4 DEF h
<1>3. CASE inUse = {}
  <2>1. a = [index |-> t.size, entry |-> NULL, nextEntry |-> NULL]
    BY <1>3 DEF ToNextBucket
  <2>2. Later(t, it.index) = {}
    <3> HIDE DEF inUse
    <3> QED BY <1>2, <1>3
  <2>3. IteratorOf(t, a)
    BY <1>1, <2>1 DEF IteratorOf, NULL
  <2> QED BY <2>1, <2>2, <2>3
<1>4. CASE inUse # {}
  <2> DEFINE i == Min(inUse)
             k == Head(t.chain[i])
  <2>1. a = [index |-> i, entry |-> k, nextEntry |-> After(t, k)]
    BY <1>4 DEF ToNextBucket
  <2>2. i \in inUse /\ \A j \in inUse : i <= j
    <3>1. inUse \in SUBSET Nat
      BY <1>1
    <3> HIDE DEF inUse
    <3>2. \E m \in inUse : \A j \in inUse : m <= j
      BY <1>4, <3>1, LeastElement
    <3> QED BY <3>2, Zenon DEF Min
  <2> HIDE DEF i
  <2>3. i \in 0 .. t.size - 1 /\ t.chain[i] # <<>> /\ i > it.index
    BY <1>1, <2>2
  <2>4. /\ k \in Stored(t) /\ Slot(k, t.size) = i
        /\ \A x \in Stored(t) : Slot(x, t.size) = i => x = k \/ x \in Rest(t, k)
    BY <2>3, FirstOfChain
  <2> HIDE DEF k, inUse
  <2> DEFINE n == After(t, k)
  <2>5. /\ n = NULL => Rest(t, k) = {}
        /\ n # NULL => n \in Stored(t) /\ n # k /\ Rest(t, k) = {n} \cup Rest(t, n)
    BY <2>4, AfterIs
  <2>6. k \in K /\ k \in Nat /\ (n # NULL => n \in Nat)
    <3>1. ASSUME NEW x \in Stored(t) PROVE x \in K /\ x \in Nat
      <4>1. x \in K
        BY HeldIn DEF Table, Stored
      <4> QED BY <4>1 DEF Hashed
    <3> QED BY <2>4, <2>5, <3>1
  <2> HIDE DEF n
  <2>7. a.index = i /\ a.entry = k /\ a.nextEntry = n
    BY <2>1 DEF n
  <2>8. k # NULL /\ NULL \in Int
    BY <2>6 DEF NULL
  <2>9. IteratorOf(t, a) /\ a.nextEntry # a.entry
    <3>1. a \in [index: Int, entry: Int, nextEntry: Int]
      BY <2>1, <2>3, <2>6, <2>8 DEF n
    <3> QED BY <2>3, <2>5, <2>7, <2>8, <3>1 DEF IteratorOf
  <2>10. ASSUME NEW x \in Later(t, it.index) PROVE x \in {k} \cup Ahead(t, a)
    <3>1. x \in Stored(t) /\ Slot(x, t.size) \in inUse
      BY <1>2 DEF Later
    <3>2. Slot(x, t.size) >= i /\ Slot(x, t.size) \in Int /\ i \in Int
      <4>1. Slot(x, t.size) \in 0 .. t.size - 1
        BY <3>1, HeldIn DEF Table, Stored
      <4> QED BY <2>2, <2>3, <3>1, <4>1
    <3>3. CASE Slot(x, t.size) = i
      <4>1. x = k \/ x \in Rest(t, k)
        BY <2>4, <3>1, <3>3
      <4>2. Rest(t, k) \subseteq From(t, n)
        BY <2>5 DEF From
      <4> QED BY <2>7, <4>1, <4>2 DEF Ahead
    <3>4. CASE Slot(x, t.size) > i
      BY <2>7, <3>1, <3>4 DEF Ahead, Later
    <3> QED BY <3>2, <3>3, <3>4
  <2> QED BY <2>4, <2>7, <2>8, <2>9, <2>10
<1> QED BY <1>3, <1>4

\* Jim_NextHashEntry: it comes to every entry that was ahead.
LEMMA AdvanceIs ==
    ASSUME NEW K, Hashed(K), NEW t, Table(t, K), NEW it, IteratorOf(t, it),
           NEW a, a = Advance(t, it)
    PROVE  /\ IteratorOf(t, a) /\ a.entry \in Stored(t) \cup {NULL}
           /\ a.entry # NULL => a.nextEntry # a.entry
           /\ a.entry = NULL => Ahead(t, it) = {}
           /\ a.entry # NULL => Ahead(t, it) \subseteq {a.entry} \cup Ahead(t, a)
<1>1. CASE it.nextEntry = NULL
  <2>1. a = ToNextBucket(t, it)
    BY <1>1 DEF Advance
  <2>2. Ahead(t, it) = Later(t, it.index)
    BY <1>1 DEF Ahead, From
  <2> QED BY <2>1, <2>2, ToNextBucketIs
<1>2. CASE it.nextEntry # NULL
  <2> DEFINE k == it.nextEntry
             n == After(t, k)
  <2>1. it.entry # NULL /\ k \in Stored(t) /\ it.index \in Int /\ it.index >= -1
    BY <1>2 DEF IteratorOf
  <2>2. a = [it EXCEPT !.entry = k, !.nextEntry = n]
    BY <1>2, <2>1 DEF Advance
  <2>3. a = [index |-> it.index, entry |-> k, nextEntry |-> n]
    <3>1. it \in [index: Int, entry: Int, nextEntry: Int]
      BY DEF IteratorOf
    <3> HIDE DEF k, n
    <3> QED BY <2>2, <3>1
  <2>4. /\ n = NULL => Rest(t, k) = {}
        /\ n # NULL => n \in Stored(t) /\ n # k /\ Rest(t, k) = {n} \cup Rest(t, n)
    BY <2>1, AfterIs
  <2>5. k \in Nat /\ (n # NULL => n \in Nat) /\ NULL \in Int /\ k # NULL
    <3>1. ASSUME NEW x \in Stored(t) PROVE x \in Nat
      <4>1. x \in K
        BY HeldIn DEF Table, Stored
      <4> QED BY <4>1 DEF Hashed
    <3> QED BY <1>2, <2>1, <2>4, <3>1 DEF NULL
  <2>6. Ahead(t, it) = Later(t, it.index) \cup {k} \cup Rest(t, k)
    BY <1>2 DEF Ahead, From
  <2> HIDE DEF k, n
  <2>7. a.index = it.index /\ a.entry = k /\ a.nextEntry = n
    BY <2>3
  <2>8. Ahead(t, a) = Later(t, it.index) \cup Rest(t, k)
    BY <2>4, <2>7 DEF Ahead, From
  <2>9. IteratorOf(t, a)
    <3>1. a \in [index: Int, entry: Int, nextEntry: Int]
      BY <2>1, <2>3, <2>5
    <3> QED BY <2>1, <2>4, <2>5, <2>7, <3>1 DEF IteratorOf
  <2> QED BY <2>1, <2>4, <2>5, <2>6, <2>7, <2>8, <2>9
<1> QED BY <1>1, <1>2
---------------------------------------------------------------------------
(* The iterator while entries come and go *)

\* x is somewhere before y in a chain.
Before(c, x, y) == \E i, j \in 1 .. Len(c) : i < j /\ c[i] = x /\ c[j] = y

\* What comes after an entry in its chain.
LEMMA RestIs ==
    ASSUME NEW K, Hashed(K), NEW t, Table(t, K), NEW k \in Stored(t), NEW x
    PROVE  x \in Rest(t, k) <=> Before(t.chain[Slot(k, t.size)], k, x)
<1> DEFINE c == t.chain[Slot(k, t.size)]
           p == Position(c, k)
<1>0. c = t.chain[Slot(k, t.size)] /\ p = Position(c, k)
  OBVIOUS
<1> HIDE DEF c, p
<1>1. /\ Chain(c, K, t.size, Slot(k, t.size)) /\ p \in 1 .. Len(c) /\ c[p] = k
      /\ Len(c) \in Nat /\ Rest(t, k) = {c[i] : i \in p + 1 .. Len(c)}
  BY <1>0, FollowingIs
<1> USE DEF c
<1>2. ASSUME x \in Rest(t, k) PROVE Before(c, k, x)
  <2>1. PICK i \in p + 1 .. Len(c) : x = c[i]
    BY <1>1, <1>2
  <2>2. i \in 1 .. Len(c) /\ p < i
    BY <1>1
  <2> HIDE DEF c
  <2> QED BY <1>1, <2>1, <2>2 DEF Before
<1>3. ASSUME Before(c, k, x) PROVE x \in Rest(t, k)
  <2>1. PICK i \in 1 .. Len(c), j \in 1 .. Len(c) : i < j /\ c[i] = k /\ c[j] = x
    BY <1>3 DEF Before
  <2>2. i = p
    BY <1>1, <2>1 DEF Chain
  <2>3. j \in p + 1 .. Len(c)
    BY <1>1, <2>1, <2>2
  <2> HIDE DEF c
  <2> QED BY <1>1, <2>1, <2>3
<1> QED BY <1>2, <1>3

\* A chain keeps its order when an entry is put at its head.
LEMMA PushKeepsOrder ==
    ASSUME NEW K, NEW c \in Seq(K), NEW k \in K, NEW x, NEW y, Before(c, x, y)
    PROVE  Before(<<k>> \o c, x, y)
<1> DEFINE p == <<k>> \o c
<1>1. Len(p) = Len(c) + 1 /\ Len(c) \in Nat /\ \A i \in 1 .. Len(c) : p[i + 1] = c[i]
  BY PushedElement
<1> HIDE DEF p
<1>2. PICK i \in 1 .. Len(c), j \in 1 .. Len(c) : i < j /\ c[i] = x /\ c[j] = y
  BY DEF Before
<1>3. i + 1 \in 1 .. Len(p) /\ j + 1 \in 1 .. Len(p) /\ i + 1 < j + 1
  BY <1>1, <1>2
<1>4. p[i + 1] = x /\ p[j + 1] = y
  BY <1>1, <1>2
<1>5. Before(p, x, y)
  BY <1>3, <1>4 DEF Before
<1> QED BY <1>5 DEF p

\* A chain keeps its order when another entry is taken out.
LEMMA RemoveKeepsOrder ==
    ASSUME NEW K, NEW c \in Seq(K), NEW k \in In(c),
           NEW x, NEW y, x # k, y # k, Before(c, x, y)
    PROVE  Before(RemoveAt(c, Position(c, k)), x, y)
<1> DEFINE p == Position(c, k)
           r == RemoveAt(c, p)
           to(i) == IF i < p THEN i ELSE i - 1
<1>1. p \in 1 .. Len(c) /\ c[p] = k /\ Len(c) \in Nat
  BY PositionIs, LenProperties
<1> HIDE DEF p
<1>2. /\ Len(r) = Len(c) - 1
      /\ \A j \in 1 .. Len(c) - 1 : r[j] = IF j < p THEN c[j] ELSE c[j + 1]
  BY <1>1, WithoutElement DEF RemoveAt
<1> HIDE DEF r
<1>3. ASSUME NEW i \in 1 .. Len(c), i # p PROVE to(i) \in 1 .. Len(r) /\ r[to(i)] = c[i]
  <2>1. CASE i < p
    BY <1>1, <1>2, <2>1
  <2>2. CASE i > p
    <3>1. i - 1 \in 1 .. Len(c) - 1 /\ ~(i - 1 < p) /\ i - 1 + 1 = i
      BY <1>1, <2>2
    <3> QED BY <1>1, <1>2, <2>2, <3>1
  <2> QED BY <1>1, <1>3, <2>1, <2>2
<1>4. PICK i \in 1 .. Len(c), j \in 1 .. Len(c) : i < j /\ c[i] = x /\ c[j] = y
  BY DEF Before
<1>5. i # p /\ j # p /\ to(i) < to(j)
  BY <1>1, <1>4
<1>6. to(i) \in 1 .. Len(r) /\ to(j) \in 1 .. Len(r) /\ r[to(i)] = x /\ r[to(j)] = y
  BY <1>3, <1>4, <1>5
<1> HIDE DEF to
<1>7. Before(r, x, y)
  BY <1>5, <1>6 DEF Before
<1> QED BY <1>7 DEF r, p

\* When an entry is deleted, even the one the iterator has returned, it still
\* comes to all others.
LEMMA AheadDelete ==
    ASSUME NEW K, Hashed(K), NEW t, Good(t, K), NEW it, IteratorOf(t, it),
           NEW k \in K, k # it.nextEntry, NEW u, u = Delete(t, k)
    PROVE  IteratorOf(u, it) /\ Ahead(t, it) \ {k} \subseteq Ahead(u, it)
<1>1. /\ Table(t, K) /\ Table(u, K) /\ u.size = t.size /\ Stored(u) = Stored(t) \ {k}
      /\ t.size \in Nat
  BY DeleteIs DEF Good, Table
<1>2. IteratorOf(u, it)
  BY <1>1 DEF IteratorOf
<1>3. Later(t, it.index) \ {k} \subseteq Later(u, it.index)
  BY <1>1 DEF Later
<1>4. ASSUME it.nextEntry # NULL, NEW x \in Rest(t, it.nextEntry), x # k
      PROVE  x \in Rest(u, it.nextEntry)
  <2> DEFINE e == it.nextEntry
             h == Slot(e, t.size)
             c == t.chain[h]
  <2>1. e \in Stored(t) /\ e \in Stored(u) /\ e # k
    BY <1>1, <1>4 DEF IteratorOf
  <2>2. Before(c, e, x)
    BY <1>1, <1>4, <2>1, RestIs
  <2>3. h \in 0 .. t.size - 1 /\ c \in Seq(K)
    <3>1. h \in 0 .. t.size - 1
      BY <1>1, <2>1, HeldIn DEF Table, Stored
    <3> QED BY <1>1, <3>1 DEF Table, Buckets
  <2>4. Before(u.chain[h], e, x)
    <3>1. CASE u = t
      BY <2>2, <3>1
    <3>2. CASE u # t
      <4> DEFINE b == Slot(k, t.size)
                 d == RemoveAt(t.chain[b], Position(t.chain[b], k))
      <4>1. Find(t, k) /\ Rechained(u, t, b, d)
        BY <3>2 DEF Delete, Rechained
      <4>2. k \in Stored(t)
        BY <1>1, <4>1, FindIs
      <4>3. b \in 0 .. t.size - 1 /\ k \in In(t.chain[b])
        BY <1>1, <4>2, HeldIn DEF Table, Stored
      <4>4. Changed(u.chain, t.chain, b, d)
        <5> HIDE DEF b, d
        <5> QED BY <1>1, <4>1, WithChains
      <4>5. t.chain \in [0 .. t.size - 1 -> Seq(K)]
        BY <1>1 DEF Table, Buckets
      <4>6. CASE h = b
        <5>1. u.chain[h] = RemoveAt(c, Position(c, k)) /\ k \in In(c)
          <6> HIDE DEF h, b
          <6> QED BY <4>3, <4>4, <4>5, <4>6 DEF Changed
        <5> HIDE DEF c, h, e
        <5> QED BY <1>4, <2>1, <2>2, <2>3, <5>1, RemoveKeepsOrder
      <4>7. CASE h # b
        <5>1. u.chain[h] = c
          <6> HIDE DEF h, b, d
          <6> QED BY <2>3, <4>3, <4>4, <4>5, <4>7 DEF Changed
        <5> QED BY <2>2, <5>1
      <4> QED BY <4>6, <4>7
    <3> QED BY <3>1, <3>2
  <2> QED BY <1>1, <2>1, <2>4, RestIs
<1>5. From(t, it.nextEntry) \ {k} \subseteq From(u, it.nextEntry)
  BY <1>4 DEF From
<1> QED BY <1>2, <1>3, <1>5 DEF Ahead
\* Insertion without growth: the iterator still comes to what it would have come to.
LEMMA AheadPush ==
    ASSUME NEW K, Hashed(K), NEW g, Table(g, K), NEW it, NEW k \in K, k \notin Stored(g),
           NEW u, Table(u, K), u.size = g.size, Stored(u) = Stored(g) \cup {k},
           Pushed(u.chain, g.chain, g.size, k),
           it.nextEntry \in Stored(g) \cup {NULL}
    PROVE  /\ Later(g, it.index) \subseteq Later(u, it.index)
           /\ From(g, it.nextEntry) \subseteq From(u, it.nextEntry)
<1>1. Later(g, it.index) \subseteq Later(u, it.index)
  BY DEF Later
<1>2. ASSUME it.nextEntry # NULL, NEW x \in Rest(g, it.nextEntry)
      PROVE  x \in Rest(u, it.nextEntry)
  <2> DEFINE e == it.nextEntry
             h == Slot(e, g.size)
             c == g.chain[h]
             b == Slot(k, g.size)
  <2>1. e \in Stored(g) /\ e \in Stored(u)
    BY <1>2
  <2>2. Before(c, e, x)
    BY <1>2, <2>1, RestIs
  <2>3. h \in 0 .. g.size - 1 /\ c \in Seq(K) /\ g.chain \in [0 .. g.size - 1 -> Seq(K)]
    <3>1. h \in 0 .. g.size - 1
      BY <2>1, HeldIn DEF Table, Stored
    <3> QED BY <3>1 DEF Table, Buckets
  <2>4. u.chain = [g.chain EXCEPT ![b] = <<k>> \o g.chain[b]]
    BY DEF Pushed
  <2>5. Before(u.chain[h], e, x)
    <3>1. CASE h = b
      <4>1. u.chain[h] = <<k>> \o c
        <5> HIDE DEF h, b
        <5> QED BY <2>3, <2>4, <3>1
      <4> HIDE DEF c, h, e
      <4> QED BY <2>2, <2>3, <4>1, PushKeepsOrder
    <3>2. CASE h # b
      <4>1. u.chain[h] = c
        <5> HIDE DEF h, b
        <5> QED BY <2>3, <2>4, <3>2
      <4> QED BY <2>2, <4>1
    <3> QED BY <3>1, <3>2
  <2> QED BY <2>1, <2>5, RestIs
<1>3. From(g, it.nextEntry) \subseteq From(u, it.nextEntry)
  BY <1>2 DEF From
<1> QED BY <1>1, <1>3

\* What an insertion does after the growth.
LEMMA InsertShape ==
    ASSUME NEW K, Hashed(K), NEW t, Good(t, K), NEW k \in K,
           NEW g, g = ExpandIfNeeded(t), NEW u, u = Insert(t, k)
    PROVE  /\ u.size = g.size
           /\ \/ u = g
              \/ k \notin Stored(g) /\ Pushed(u.chain, g.chain, g.size, k)
<1> DEFINE h == Slot(k, g.size)
           c == <<k>> \o g.chain[h]
<1>1. Table(g, K)
  BY ExpandIfNeededIs DEF Good
<1>2. u = IF Find(g, k) THEN g ELSE [g EXCEPT !.chain[h] = c]
  BY DEF Insert
<1>3. Find(g, k) <=> k \in Stored(g)
  BY <1>1, FindIs
<1>4. CASE k \in Stored(g)
  BY <1>2, <1>3, <1>4
<1>5. CASE k \notin Stored(g)
  <2>1. Rechained(u, g, h, c)
    BY <1>2, <1>3, <1>5 DEF Rechained
  <2>2. u.size = g.size /\ Changed(u.chain, g.chain, h, c)
    <3> HIDE DEF h, c
    <3> QED BY <1>1, <2>1, WithChains
  <2>3. Pushed(u.chain, g.chain, g.size, k)
    BY <2>2 DEF Changed, Pushed
  <2> QED BY <1>5, <2>2, <2>3
<1> QED BY <1>4, <1>5

\* After an insertion the iterator comes to all that was ahead; if the table has
\* grown, maybe not to what came after its next entry in the chain.
LEMMA AheadInsert ==
    ASSUME NEW K, Hashed(K), NEW t, Good(t, K), NEW it, IteratorOf(t, it),
           NEW k \in K, NEW u, u = Insert(t, k)
    PROVE  /\ IteratorOf(u, it)
           /\ u.size = t.size => Ahead(t, it) \subseteq Ahead(u, it)
           /\ \A x \in Ahead(t, it) : \/ x \in Ahead(u, it)
                                      \/ it.nextEntry # NULL /\ x \in Rest(t, it.nextEntry)
<1> DEFINE g == ExpandIfNeeded(t)
<1>1. /\ Good(g, K) /\ Stored(g) = Stored(t) /\ Cardinality(Stored(g)) < g.size
      /\ (g = t \/ t.size = 0 \/ g.size = t.size * 2)
  BY ExpandIfNeededIs
<1>2. u.size = g.size
      /\ (u = g \/ (k \notin Stored(g) /\ Pushed(u.chain, g.chain, g.size, k)))
  <2>1. g = ExpandIfNeeded(t)
    OBVIOUS
  <2> HIDE DEF g
  <2> QED BY <2>1, InsertShape
<1>3. Good(u, K) /\ Stored(u) = Stored(t) \cup {k}
  BY InsertIs
<1> HIDE DEF g
<1>4. /\ Table(t, K) /\ Table(g, K) /\ Table(u, K) /\ t.size \in Nat /\ g.size \in Nat
      /\ Cardinality(Stored(g)) \in Nat
  <2>1. Table(t, K) /\ Table(g, K) /\ Table(u, K) /\ t.size \in Nat /\ g.size \in Nat
    BY <1>1, <1>3 DEF Good, Table
  <2> QED BY <2>1, UsedIs
<1>5. /\ Later(g, it.index) \subseteq Later(u, it.index)
      /\ From(g, it.nextEntry) \subseteq From(u, it.nextEntry)
  <2>1. CASE u = g
    BY <2>1
  <2>2. CASE k \notin Stored(g) /\ Pushed(u.chain, g.chain, g.size, k)
    <3>1. Stored(u) = Stored(g) \cup {k} /\ it.nextEntry \in Stored(g) \cup {NULL}
      BY <1>1, <1>3 DEF IteratorOf
    <3> QED BY <1>2, <1>4, <2>2, <3>1, AheadPush
  <2> QED BY <1>2, <2>1, <2>2
<1>6. IteratorOf(u, it)
  BY <1>3 DEF IteratorOf
<1>7. CASE g = t
  BY <1>5, <1>6, <1>7 DEF Ahead
<1>8. CASE t.size = 0
  <2>1. Stored(t) = {}
    <3>1. IsFiniteSet(Stored(t)) /\ Cardinality(Stored(t)) \in Nat /\ Cardinality(Stored(t)) <= 0
      BY <1>4, <1>8, UsedIs DEF Good, Fits
    <3>2. Cardinality(Stored(t)) = 0
      BY <3>1
    <3> QED BY <3>1, <3>2, FS_EmptySet
  <2>2. Ahead(t, it) = {}
    BY <2>1 DEF Ahead, Later, From, IteratorOf
  <2> QED BY <1>6, <2>2
<1>9. CASE g.size = t.size * 2 /\ t.size # 0
  <2>1. Later(t, it.index) \subseteq Later(g, it.index)
    <3>1. ASSUME NEW x \in Stored(t), Slot(x, t.size) > it.index
          PROVE  Slot(x, g.size) > it.index
      <4>1. x \in K /\ t.size \in Nat \ {0} /\ it.index \in Int
        BY <1>4, <1>9, HeldIn DEF Table, Stored, IteratorOf
      <4>2. Hash[x] \in Nat
        BY <4>1 DEF Hashed
      <4>3. (Hash[x] % t.size) <= (Hash[x] % (t.size * 2))
        BY <4>1, <4>2, RemainderDoubled
      <4>4. Slot(x, t.size) <= Slot(x, g.size)
        BY <1>9, <4>3 DEF Slot
      <4>5. Slot(x, t.size) \in Int /\ Slot(x, g.size) \in Int
        <5>1. g.size \in Nat \ {0}
          BY <1>4, <1>9
        <5> QED BY <4>1, <5>1, SlotInRange
      <4> QED BY <3>1, <4>1, <4>4, <4>5
    <3> QED BY <1>1, <3>1 DEF Later
  <2>2. u.size # t.size
    BY <1>2, <1>4, <1>9
  <2>3. it.nextEntry \in From(u, it.nextEntry) \/ it.nextEntry = NULL
    BY DEF From
  <2>4. ASSUME NEW x \in Ahead(t, it)
        PROVE  x \in Ahead(u, it) \/ (it.nextEntry # NULL /\ x \in Rest(t, it.nextEntry))
    <3>1. x \in Later(t, it.index) \/ x \in From(t, it.nextEntry)
      BY DEF Ahead
    <3>2. ASSUME x \in From(t, it.nextEntry)
          PROVE  it.nextEntry # NULL /\ (x = it.nextEntry \/ x \in Rest(t, it.nextEntry))
      BY <3>2 DEF From
    <3>3. CASE x \in Later(t, it.index)
      BY <1>5, <2>1, <3>3 DEF Ahead
    <3>4. CASE x \in From(t, it.nextEntry)
      <4>1. CASE x = it.nextEntry
        BY <2>3, <3>2, <3>4, <4>1 DEF Ahead
      <4> QED BY <3>2, <3>4, <4>1
    <3> QED BY <3>1, <3>3, <3>4
  <2> QED BY <1>6, <2>2, <2>4
<1> QED BY <1>1, <1>7, <1>8, <1>9

---------------------------------------------------------------------------
(* References *)

RefType == [value: Object, finalizer: BOOLEAN, calls: Nat]
IterType == [index: Int, entry: Int, nextEntry: Int]
CreationType == [v: Vars \cup {Nowhere}, value: Object, finalizer: BOOLEAN, due: BOOLEAN]

\* The table with the references it leads to, and what scripts hold.
Stocked == /\ Good(table, Ids) /\ Stored(table) = DOMAIN ref
           /\ DOMAIN ref \subseteq Ids /\ ref \in [DOMAIN ref -> RefType]
           /\ nextId \in Nat /\ \A id \in DOMAIN ref : id < nextId
           /\ var \in [Vars -> Object]
           /\ excused \subseteq Ids

\* At most one collection.
Single == /\ sweeps \in Seq(Sweep) /\ Len(sweeps) <= 1
          /\ lastCollectId = Collecting <=> Busy

\* The ids that live objects spell are among `safe'.
Safe(waiting, safe) ==
    /\ \A v \in Vars : Spells(var[v]) => var[v].id \in safe
    /\ \A id \in DOMAIN ref : Spells(ref[id].value) => ref[id].value.id \in safe
    /\ Spells(waiting.value) => waiting.value.id \in safe

\* No collection: what is spelled is there, and no finalizer has been called.
Quiet == /\ Safe(NoCreation, DOMAIN ref \cup excused)
         /\ \A id \in DOMAIN ref : ref[id].calls = 0

\* The iterator of a collection, and what it will come to.
Iterates(s) ==
    /\ IteratorOf(table, s.iter)
    /\ s.at # NULL => s.at # s.iter.nextEntry
    /\ \A id \in DOMAIN ref : id \in s.garbage =>
          id \in s.passed \/ id \in Ahead(table, s.iter) \/ id = s.at

\* What is spelled has a mark or is excused: no entry that the sweep may delete is
\* spelled by an object, but for the excused ones.
Kept(s) == (s.marks \cap DOMAIN ref) \cup excused
Sweeps(s) == /\ s.at \in DOMAIN ref \cup {NULL} /\ s.at \notin s.marks
             /\ s.at # NULL => s.at \in excused
             /\ s.garbage \cap s.marks = {} /\ \A id \in s.garbage : id < nextId
             /\ s.creation.due => nextId \in Ids
             /\ Safe(s.creation, Kept(s))
             /\ \A id \in DOMAIN ref : ref[id].calls = 0 \/ (id = s.at /\ ref[id].calls = 1)
             /\ Iterates(s)

Inv == /\ Stocked /\ Single
       /\ ~Busy => Quiet
       /\ Busy => Sweeps(Current)

\* What scripts can reach now.
Reach == IF Busy THEN Kept(Current) ELSE DOMAIN ref \cup excused

---------------------------------------------------------------------------
(* Types *)

\* Identifiers are natural numbers, and they have a hash.
LEMMA IdsAre == Hashed(Ids) /\ Ids \subseteq Nat /\ NULL \notin Ids
<1>1. ASSUME NEW id \in Ids PROVE id \in Nat /\ Hash[id] \in Nat
  <2>1. MaxRefs \in Nat
    BY ReferencesAssumption
  <2>2. id \in Nat
    BY <2>1 DEF Ids
  <2>3. Hash[id] \in Nat
    BY ReferencesAssumption
  <2> QED BY <2>2, <2>3
<1> QED BY <1>1 DEF Hashed, NULL

\* An object that spells nothing.
LEMMA PlainIs == Plain \in Object /\ ~Spells(Plain)
<1>1. 2 * 0 \in Ids
  BY ReferencesAssumption DEF Ids
<1> QED BY <1>1 DEF Plain, Spells, Object

\* A collection in progress is the only one.
LEMMA OneSweep ==
    ASSUME Single, Busy
    PROVE  /\ Len(sweeps) = 1 /\ Current = sweeps[1] /\ Current \in Sweep
           /\ sweeps = <<Current>>
           /\ Front(sweeps) = <<>>
           /\ lastCollectId = Collecting
<1>1. Len(sweeps) = 1 /\ sweeps[1] \in Sweep
  <2>1. Len(sweeps) \in Nat /\ Len(sweeps) # 0
    BY LenProperties, EmptySeq DEF Single, Busy
  <2> DEFINE n == Len(sweeps)
  <2>2. n <= 1
    BY DEF Single
  <2>3. n \in Nat /\ n # 0
    BY <2>1
  <2> HIDE DEF n
  <2>4. n = 1
    BY <2>2, <2>3
  <2> QED BY <2>4, ElementOfSeq DEF Single, n
<1>2. Current = sweeps[1]
  BY <1>1 DEF Current, Last
<1>3. sweeps = <<sweeps[1]>>
  BY <1>1 DEF Single
<1>4. Front(sweeps) = <<>>
  BY <1>1 DEF Front
<1> QED BY <1>1, <1>2, <1>3, <1>4 DEF Single

\* The collection changes.
LEMMA Replaced ==
    ASSUME Single, Busy, NEW s \in Sweep
    PROVE  SetCurrent(s) = <<s>>
<1>1. Len(sweeps) = 1 /\ sweeps = <<Current>>
  BY OneSweep
<1> QED BY <1>1 DEF SetCurrent

\* A sequence of one collection.
LEMMA Alone ==
    ASSUME NEW s \in Sweep, sweeps' = <<s>>
    PROVE  /\ sweeps' \in Seq(Sweep) /\ Len(sweeps') = 1 /\ Busy' /\ Current' = s
BY DEF Busy, Current, Last

\* The next state is a collection, or it is not one.
LEMMA Sweeping ==
    ASSUME NEW s \in Sweep, sweeps' = <<s>>, lastCollectId' = Collecting,
           Stocked', Sweeps(s)'
    PROVE  Inv'
<1>1. /\ sweeps' \in Seq(Sweep) /\ Len(sweeps') = 1 /\ Busy' /\ Current' = s
  BY Alone
<1>2. Sweeps(Current)'
  BY <1>1 DEF Sweeps, Safe, Kept, Iterates
<1>3. Single'
  BY <1>1 DEF Single
<1> QED BY <1>1, <1>2, <1>3 DEF Inv

\* The same when there is none.
LEMMA Resting ==
    ASSUME sweeps' = <<>>, lastCollectId' # Collecting, Stocked', Quiet'
    PROVE  Inv'
<1>1. ~Busy' /\ sweeps' \in Seq(Sweep) /\ Len(sweeps') = 0
  BY DEF Busy
<1>2. Single'
  BY <1>1 DEF Single
<1> QED BY <1>1, <1>2 DEF Inv

\* What is alive spells only what is in Reach.
LEMMA Reached ==
    ASSUME Inv
    PROVE  /\ \A v \in Vars : Spells(var[v]) => var[v].id \in Reach
           /\ \A id \in DOMAIN ref : Spells(ref[id].value) => ref[id].value.id \in Reach
           /\ Busy /\ Spells(Current.creation.value) => Current.creation.value.id \in Reach
           /\ Reach \subseteq DOMAIN ref \cup excused
BY DEF Inv, Quiet, Sweeps, Safe, Reach, Kept
---------------------------------------------------------------------------
(* What scripts do without the collector *)

\* Scripts move what they can reach: the table and the collections stay, and so
\* do the calls of finalizers.
Moved == /\ Unrelated /\ DOMAIN ref' = DOMAIN ref /\ ref' \in [DOMAIN ref -> RefType]
         /\ var' \in [Vars -> Object]
         /\ \A id \in DOMAIN ref : ref'[id].calls = ref[id].calls
         /\ \A v \in Vars : Spells(var'[v]) => var'[v].id \in Reach
         /\ \A id \in DOMAIN ref : Spells(ref'[id].value) => ref'[id].value.id \in Reach

\* The collector's state does not depend on where scripts keep their objects.
LEMMA MovedKeeps ==
    ASSUME Inv, Moved
    PROVE  Inv'
<1>1. Stocked'
  BY DEF Inv, Stocked, Moved, Unrelated
<1>2. CASE Busy
  <2>1. PICK s : s = Current
    OBVIOUS
  <2>2. s \in Sweep /\ sweeps' = <<s>> /\ lastCollectId' = Collecting
    BY <1>2, <2>1, OneSweep DEF Inv, Moved, Unrelated
  <2>3. Sweeps(s)
    BY <1>2, <2>1 DEF Inv
  <2>4. Safe(s.creation, Kept(s))'
    <3>1. Reach = Kept(s) /\ Kept(s)' = Kept(s)
      BY <1>2, <2>1 DEF Reach, Kept, Moved, Unrelated
    <3>2. Spells(s.creation.value) => s.creation.value.id \in Kept(s)
      BY <2>3 DEF Sweeps, Safe
    <3> QED BY <3>1, <3>2 DEF Safe, Moved
  <2>5. Iterates(s)'
    BY <2>3 DEF Sweeps, Iterates, Moved, Unrelated
  <2>6. \A id \in DOMAIN ref' : ref'[id].calls = 0 \/ (id = s.at /\ ref'[id].calls = 1)
    BY <2>3 DEF Sweeps, Moved
  <2>7. Sweeps(s)'
    BY <2>3, <2>4, <2>5, <2>6 DEF Sweeps, Moved, Unrelated
  <2> QED BY <1>1, <2>2, <2>7, Sweeping
<1>3. CASE ~Busy
  <2>1. sweeps' = <<>> /\ lastCollectId' # Collecting
    BY <1>3 DEF Inv, Single, Busy, Moved, Unrelated
  <2>2. Reach = DOMAIN ref \cup excused /\ Quiet
    BY <1>3 DEF Reach, Inv
  <2>3. Quiet'
    BY <2>2 DEF Quiet, Safe, Moved, Unrelated, NoCreation, Plain, Spells
  <2> QED BY <1>1, <2>1, <2>3, Resting
<1> QED BY <1>2, <1>3

\* What [ref] and [setref] may be given.
LEMMA ValuesAre ==
    ASSUME Inv, NEW o \in Values
    PROVE  o \in Object /\ (Spells(o) => o.id \in Reach)
<1>1. CASE o = Plain
  BY <1>1, PlainIs
<1>2. CASE \E v \in Vars : o = var[v]
  BY <1>2, Reached DEF Inv, Stocked
<1> QED BY <1>1, <1>2 DEF Values
\* A script runs: if a finalizer's, its reference is one that scripts reach.
LEMMA Resurrected ==
    ASSUME Inv, ScriptRuns, Busy
    PROVE  Current.at \in Reach /\ Current.at \in Ids
BY IdsAre DEF Inv, Sweeps, ScriptRuns, Reach, Kept, Stocked

\* A reference that a command resolves is in the table.
LEMMA ResolvedIs ==
    ASSUME Inv, NEW v \in Vars, Resolves(var[v])
    PROVE  /\ var[v].id \in DOMAIN ref /\ Spells(var[v])
           /\ Converted(var[v]) \in Object /\ Converted(var[v]).id = var[v].id
<1>1. var[v] \in Object /\ Good(table, Ids) /\ Stored(table) = DOMAIN ref
  BY DEF Inv, Stocked
<1>2. var[v].id \in Ids /\ Find(table, var[v].id)
  BY <1>1 DEF Resolves, Object
<1>3. var[v].id \in DOMAIN ref
  BY <1>1, <1>2, IdsAre, FindIs DEF Good
<1>4. Spells(var[v])
  BY DEF Resolves, Spells
<1>5. Converted(var[v]) \in Object /\ Converted(var[v]).id = var[v].id
  BY <1>1 DEF Converted, Object
<1> QED BY <1>3, <1>4, <1>5

\* One variable gets an object that scripts reach.
LEMMA KeepsKeeps ==
    ASSUME Inv, NEW w \in Vars, NEW o \in Object, Spells(o) => o.id \in Reach, Keeps(w, o)
    PROVE  Inv'
<1>1. var' = [var EXCEPT ![w] = o] /\ Unrelated /\ ref' = ref
  BY DEF Keeps
<1>2. var \in [Vars -> Object] /\ ref \in [DOMAIN ref -> RefType]
  BY DEF Inv, Stocked
<1>3. \A v \in Vars : var'[v] = IF v = w THEN o ELSE var[v]
  BY <1>1, <1>2
<1>4. Moved
  BY <1>1, <1>2, <1>3, Reached DEF Moved
<1> QED BY <1>4, MovedKeeps

\* [set w $o]
LEMMA CopyKeeps ==
    ASSUME Inv, NEW v \in Vars, NEW w \in Vars, Copy(v, w)
    PROVE  Inv'
<1> DEFINE o == [var[v] EXCEPT !.kind = "string"]
<1>1. var[v] \in Object /\ (Spells(var[v]) => var[v].id \in Reach) /\ Spells(var[v])
  BY Reached DEF Inv, Stocked, Copy
<1>2. o \in Object /\ o.id = var[v].id
  BY <1>1 DEF Object
<1> HIDE DEF o
<1>3. Keeps(w, o)
  BY DEF Copy, o
<1> QED BY <1>1, <1>2, <1>3, KeepsKeeps

\* Another kind of object that spells the same.
LEMMA HideKeeps ==
    ASSUME Inv, NEW v \in Vars, Hide(v)
    PROVE  Inv'
<1> DEFINE o == [var[v] EXCEPT !.kind = "hidden"]
<1>1. var[v] \in Object /\ (Spells(var[v]) => var[v].id \in Reach) /\ Spells(var[v])
  BY Reached DEF Inv, Stocked, Hide
<1>2. o \in Object /\ o.id = var[v].id
  BY <1>1 DEF Object
<1> HIDE DEF o
<1>3. Keeps(v, o)
  BY DEF Hide, o
<1> QED BY <1>1, <1>2, <1>3, KeepsKeeps

\* [unset v]
LEMMA UnsetKeeps ==
    ASSUME Inv, NEW v \in Vars, Unset(v)
    PROVE  Inv'
BY PlainIs, KeepsKeeps DEF Unset

\* A finalizer keeps its argument.
LEMMA ResurrectKeeps ==
    ASSUME Inv, NEW w \in Vars, Resurrect(w)
    PROVE  Inv'
<1> DEFINE o == [kind |-> "string", id |-> Current.at]
<1>1. Keeps(w, o) /\ Busy
  BY DEF Resurrect
<1>2. Current.at \in Reach /\ Current.at \in Ids
  BY <1>1, Resurrected DEF Keeps
<1>3. o \in Object /\ o.id = Current.at
  BY <1>2 DEF Object
<1> HIDE DEF o
<1> QED BY <1>1, <1>2, <1>3, KeepsKeeps

\* [getref]
LEMMA GetRefKeeps ==
    ASSUME Inv, NEW v \in Vars, NEW w \in Vars, GetRef(v, w)
    PROVE  Inv'
<1> DEFINE id == var[v].id
           o == Converted(var[v])
           p == ref[id].value
<1>1. id \in DOMAIN ref /\ o \in Object /\ o.id = id /\ Spells(var[v])
  BY ResolvedIs DEF GetRef
<1>2. p \in Object /\ (Spells(p) => p.id \in Reach) /\ id \in Reach
  BY <1>1, Reached DEF Inv, Stocked, RefType
<1>3. var' = [[var EXCEPT ![v] = o] EXCEPT ![w] = p] /\ Unrelated /\ ref' = ref
  BY DEF GetRef
<1>4. var \in [Vars -> Object] /\ ref \in [DOMAIN ref -> RefType]
  BY DEF Inv, Stocked
<1> HIDE DEF id, o, p
<1>5. /\ var' \in [Vars -> Object]
      /\ \A x \in Vars : var'[x] = IF x = w THEN p ELSE IF x = v THEN o ELSE var[x]
  BY <1>1, <1>2, <1>3, <1>4
<1>6. Moved
  BY <1>1, <1>2, <1>3, <1>4, <1>5, Reached DEF Moved
<1> QED BY <1>6, MovedKeeps

\* One variable is converted, and its reference changes: its value or its finalizer.
LEMMA EntryMoved ==
    ASSUME Inv, Unrelated, NEW v \in Vars, Resolves(var[v]),
           var' = [var EXCEPT ![v] = Converted(@)],
           NEW r \in RefType, ref' = [ref EXCEPT ![var[v].id] = r],
           r.calls = ref[var[v].id].calls, Spells(r.value) => r.value.id \in Reach
    PROVE  Inv'
<1> DEFINE id == var[v].id
           o == Converted(var[v])
<1>1. id \in DOMAIN ref /\ o \in Object /\ o.id = id /\ Spells(var[v])
  BY ResolvedIs
<1>2. id \in Reach
  BY <1>1, Reached
<1>3. var' = [var EXCEPT ![v] = o] /\ ref' = [ref EXCEPT ![id] = r]
  OBVIOUS
<1>4. var \in [Vars -> Object] /\ ref \in [DOMAIN ref -> RefType]
  BY DEF Inv, Stocked
<1>5. r.calls = ref[id].calls
  OBVIOUS
<1> HIDE DEF id, o
<1>6. /\ var' \in [Vars -> Object]
      /\ \A x \in Vars : var'[x] = IF x = v THEN o ELSE var[x]
  BY <1>1, <1>3, <1>4
<1>7. /\ DOMAIN ref' = DOMAIN ref
      /\ \A i \in DOMAIN ref : ref'[i] = IF i = id THEN r ELSE ref[i]
  BY <1>3, <1>4
<1>a. ref' \in [DOMAIN ref -> RefType]
  BY <1>3, <1>4
<1>8. Moved
  BY <1>1, <1>2, <1>5, <1>6, <1>7, <1>a, Reached DEF Moved
<1> QED BY <1>8, MovedKeeps

\* [setref]
LEMMA SetRefKeeps ==
    ASSUME Inv, NEW v \in Vars, NEW o \in Values, SetRef(v, o)
    PROVE  Inv'
<1> DEFINE id == var[v].id
<1>1. id \in DOMAIN ref /\ Resolves(var[v])
  BY ResolvedIs DEF SetRef
<1>2. ref[id] \in RefType
  BY <1>1 DEF Inv, Stocked
<1>3. o \in Object /\ (Spells(o) => o.id \in Reach)
  BY ValuesAre
<1>4. PICK r : r = [ref[id] EXCEPT !.value = o]
  OBVIOUS
<1>5. r \in RefType /\ r.calls = ref[id].calls /\ r.value = o
  BY <1>2, <1>3, <1>4 DEF RefType
<1>6. ref' = [ref EXCEPT ![id] = r]
  BY <1>1, <1>4 DEF SetRef
<1>7. Unrelated /\ var' = [var EXCEPT ![v] = Converted(@)]
  BY DEF SetRef
<1> QED BY <1>1, <1>3, <1>5, <1>6, <1>7, EntryMoved

\* [finalize]
LEMMA FinalizeKeeps ==
    ASSUME Inv, NEW v \in Vars, Finalize(v)
    PROVE  Inv'
<1> DEFINE id == var[v].id
<1>1. id \in DOMAIN ref /\ Resolves(var[v])
  BY ResolvedIs DEF Finalize
<1>2. ref[id] \in RefType
  BY <1>1 DEF Inv, Stocked
<1>3. PICK r : r = [ref[id] EXCEPT !.finalizer = TRUE]
  OBVIOUS
<1>4. r \in RefType /\ r.calls = ref[id].calls /\ r.value = ref[id].value
  BY <1>2, <1>3 DEF RefType
<1>5. ref' = [ref EXCEPT ![id] = r]
  BY <1>1, <1>3 DEF Finalize
<1>6. Unrelated /\ var' = [var EXCEPT ![v] = Converted(@)]
  BY DEF Finalize
<1>7. Spells(r.value) => r.value.id \in Reach
  BY <1>1, <1>4, Reached
<1> QED BY <1>1, <1>4, <1>5, <1>6, <1>7, EntryMoved
---------------------------------------------------------------------------
(* A collection begins *)

\* What [ref] does when the collection that it waits for is over, or nothing.
Waits(c) == /\ c \in CreationType /\ (Spells(c.value) => c.value.id \in Reach)
            /\ (c.due => nextId \in Ids)

\* Every id that is spelled has a mark, or only hidden objects spell it.
LEMMA MarkedOrHidden ==
    ASSUME Inv, ~Busy, NEW c, Waits(c), NEW o \in Live(c), Spells(o)
    PROVE  o.id \in Marks(c) \cup Hidden(c) /\ o.id \in DOMAIN ref \cup excused
<1>1. o.id \in Marks(c) \cup Hidden(c)
  <2>1. CASE \E l \in Live(c) : Seen(l) /\ l.id = o.id
    BY <2>1 DEF Marks
  <2>2. CASE ~\E l \in Live(c) : Seen(l) /\ l.id = o.id
    <3>1. o.id \notin {l.id : l \in {m \in Live(c) : Seen(m)}}
      BY <2>2
    <3> QED BY <3>1 DEF Hidden
  <2> QED BY <2>1, <2>2
<1>2. o.id \in Reach
  BY Reached DEF Live, Waits
<1> QED BY <1>1, <1>2 DEF Reach

\* Live objects are objects.
LEMMA LiveAre ==
    ASSUME Inv, NEW c, Waits(c)
    PROVE  /\ \A o \in Live(c) : o \in Object
           /\ Marks(c) \subseteq Ids /\ Hidden(c) \subseteq Ids
           /\ \A v \in Vars : var[v] \in Live(c)
           /\ \A id \in DOMAIN ref : ref[id].value \in Live(c)
           /\ c.value \in Live(c)
<1>1. \A o \in Live(c) : o \in Object
  BY DEF Live, Inv, Stocked, RefType, Waits, CreationType
<1>2. \A o \in Object : o.id \in Ids
  BY DEF Object
<1>3. Marks(c) \subseteq Ids /\ Hidden(c) \subseteq Ids
  BY <1>1, <1>2 DEF Marks, Hidden
<1>4. /\ \A v \in Vars : var[v] \in Live(c)
      /\ \A id \in DOMAIN ref : ref[id].value \in Live(c)
      /\ c.value \in Live(c)
  BY DEF Live
<1> QED BY <1>1, <1>3, <1>4

\* The iterator has everything ahead of it when the sweep begins.
LEMMA AllAhead ==
    ASSUME Inv
    PROVE  IteratorOf(table, Iterator) /\ DOMAIN ref \subseteq Ahead(table, Iterator)
<1>1. IteratorOf(table, Iterator)
  BY DEF IteratorOf, Iterator, NULL
<1>2. Table(table, Ids) /\ Stored(table) = DOMAIN ref
  BY DEF Inv, Stocked, Good
<1>3. ASSUME NEW k \in Stored(table) PROVE k \in Later(table, -1)
  <2>1. table.size \in Nat /\ Slot(k, table.size) \in 0 .. table.size - 1
    BY <1>2, IdsAre, HeldIn DEF Table, Stored
  <2>2. Slot(k, table.size) > -1
    BY <2>1
  <2> QED BY <2>2 DEF Later
<1>4. Later(table, -1) \subseteq Ahead(table, Iterator)
  BY DEF Ahead, Iterator
<1> QED BY <1>1, <1>2, <1>3, <1>4

\* Jim_Collect begins.
LEMMA BeginCollectKeeps ==
    ASSUME Inv, ~Busy, NEW c, Waits(c), BeginCollect(c)
    PROVE  Inv'
<1>1. PICK s : s = [marks |-> Marks(c), iter |-> Iterator, at |-> NULL, creation |-> c,
                    garbage |-> DOMAIN ref \ Marks(c), passed |-> {}]
  OBVIOUS
<1>2. /\ s.marks = Marks(c) /\ s.iter = Iterator /\ s.at = NULL /\ s.creation = c
      /\ s.garbage = DOMAIN ref \ Marks(c) /\ s.passed = {}
  BY <1>1
<1>3. s \in Sweep
  <2>1. Marks(c) \subseteq Ids /\ DOMAIN ref \subseteq Ids
    BY LiveAre DEF Inv, Stocked
  <2>2. Iterator \in IterType
    BY DEF Iterator, NULL, IterType
  <2> QED BY <1>1, <2>1, <2>2 DEF Sweep, Waits, CreationType, IterType
<1>4. sweeps = <<>>
  BY DEF Busy
<1>5. sweeps' = <<s>>
  BY <1>1, <1>4 DEF BeginCollect
<1>6. /\ lastCollectId' = Collecting /\ excused' = excused \cup Hidden(c)
      /\ UNCHANGED <<table, ref, nextId, var>>
  BY DEF BeginCollect
<1>7. Stocked'
  BY <1>6, LiveAre DEF Inv, Stocked
<1>8. Sweeps(s)'
  <2>1. /\ \A id \in DOMAIN ref : ref[id].calls = 0 /\ id < nextId
        /\ DOMAIN ref \subseteq Ids
    BY DEF Inv, Stocked, Quiet
  <2>2. NULL \notin Ids /\ Marks(c) \subseteq Ids
    BY IdsAre, LiveAre
  <2>3. Kept(s)' = (Marks(c) \cap DOMAIN ref) \cup excused \cup Hidden(c)
    BY <1>2, <1>6 DEF Kept
  <2>4. \A o \in Live(c) : Spells(o) => o.id \in Kept(s)'
    BY <2>3, MarkedOrHidden
  <2>5. Safe(s.creation, Kept(s))'
    BY <1>2, <1>6, <2>4, LiveAre DEF Safe
  <2>6. Iterates(s)'
    BY <1>2, <1>6, AllAhead DEF Iterates
  <2>7. s.creation.due => nextId' \in Ids
    BY <1>2, <1>6 DEF Waits
  <2> QED BY <1>2, <1>6, <2>1, <2>2, <2>5, <2>6, <2>7 DEF Sweeps
<1> QED BY <1>3, <1>5, <1>6, <1>7, <1>8, Sweeping

\* [collect]
LEMMA CollectCommandKeeps ==
    ASSUME Inv, CollectCommand
    PROVE  Inv'
<1>1. ~Busy
  BY DEF CollectCommand, MayCollect, Inv, Single
<1>2. Waits(NoCreation)
  BY PlainIs DEF Waits, NoCreation, CreationType, NoName
<1> QED BY <1>1, <1>2, BeginCollectKeeps DEF CollectCommand
---------------------------------------------------------------------------
(* A reference is created *)

\* The part of Jim_NewReference that does not depend on a collection: the table
\* holds one more.
Made(c) ==
    /\ table' = Insert(table, nextId)
    /\ ref' = [i \in DOMAIN ref \cup {nextId} |->
                 IF i = nextId THEN [value |-> c.value, finalizer |-> c.finalizer, calls |-> 0]
                 ELSE ref[i]]
    /\ nextId' = nextId + 2
    /\ var' = [v \in Vars |-> IF v = c.v THEN [kind |-> "reference", id |-> nextId] ELSE var[v]]

\* The new reference is in the table and in its variable.
LEMMA MadeIs ==
    ASSUME Inv, NEW c \in CreationType, Spells(c.value) => c.value.id \in Reach,
           nextId \in Ids, Made(c), excused' \subseteq Ids
    PROVE  /\ Stocked' /\ DOMAIN ref' = DOMAIN ref \cup {nextId} /\ nextId \notin DOMAIN ref
           /\ \A id \in DOMAIN ref : ref'[id] = ref[id]
           /\ ref'[nextId].calls = 0 /\ ref'[nextId].value = c.value
           /\ \A v \in Vars : Spells(var'[v]) => var'[v].id \in Reach \cup {nextId}
           /\ \A id \in DOMAIN ref' : Spells(ref'[id].value) => ref'[id].value.id \in Reach
<1> DEFINE n == nextId
<1>1. /\ n \in Nat /\ n \in Ids /\ DOMAIN ref \subseteq Ids /\ ref \in [DOMAIN ref -> RefType]
      /\ \A id \in DOMAIN ref : id < n
      /\ Good(table, Ids) /\ Stored(table) = DOMAIN ref /\ var \in [Vars -> Object]
  BY DEF Inv, Stocked
<1>2. n \notin DOMAIN ref
  BY <1>1
<1>3. Good(table', Ids) /\ Stored(table') = DOMAIN ref \cup {n}
  BY <1>1, IdsAre, InsertIs DEF Made
<1>4. PICK r : r = [value |-> c.value, finalizer |-> c.finalizer, calls |-> 0]
  OBVIOUS
<1>5. r \in RefType /\ r.calls = 0 /\ r.value = c.value
  BY <1>4 DEF RefType, CreationType
<1>6. ref' = [i \in DOMAIN ref \cup {n} |-> IF i = n THEN r ELSE ref[i]]
  BY <1>4 DEF Made
<1>7. PICK o : o = [kind |-> "reference", id |-> n]
  OBVIOUS
<1>8. o \in Object /\ o.id = n
  BY <1>1, <1>7 DEF Object
<1>9. var' = [v \in Vars |-> IF v = c.v THEN o ELSE var[v]]
  BY <1>7 DEF Made
<1>10. nextId' = n + 2
  BY DEF Made
<1> HIDE DEF n
<1>11. /\ ref' \in [DOMAIN ref' -> RefType] /\ DOMAIN ref' = DOMAIN ref \cup {n}
       /\ ref'[n] = r /\ \A id \in DOMAIN ref : ref'[id] = ref[id]
  BY <1>1, <1>2, <1>5, <1>6
<1>12. var' \in [Vars -> Object] /\ \A v \in Vars : var'[v] = o \/ var'[v] = var[v]
  BY <1>1, <1>8, <1>9
<1>13. nextId' \in Nat /\ \A id \in DOMAIN ref' : id < nextId'
  <2>1. \A id \in DOMAIN ref : id \in Nat
    BY <1>1, IdsAre
  <2> QED BY <1>1, <1>10, <1>11, <2>1
<1>14. Stocked'
  BY <1>1, <1>3, <1>11, <1>12, <1>13 DEF Stocked
<1>15. \A v \in Vars : Spells(var'[v]) => var'[v].id \in Reach \cup {n}
  BY <1>8, <1>12, Reached
<1>16. \A id \in DOMAIN ref' : Spells(ref'[id].value) => ref'[id].value.id \in Reach
  BY <1>5, <1>11, Reached
<1> QED BY <1>2, <1>5, <1>11, <1>14, <1>15, <1>16 DEF n

\* A reference is created while no collection is in progress, or by the [ref] that
\* waited for the one that is over.
LEMMA CreatedAtRest ==
    ASSUME Inv, \A id \in DOMAIN ref : ref[id].calls = 0,
           NEW c \in CreationType, Spells(c.value) => c.value.id \in Reach,
           nextId \in Ids, Creates(c, <<>>), lastCollectId' # Collecting
    PROVE  Inv'
<1>1. Made(c) /\ sweeps' = <<>> /\ excused' = excused
  BY DEF Creates, Made
<1>2. excused' \subseteq Ids
  BY <1>1 DEF Inv, Stocked
<1>3. /\ Stocked' /\ DOMAIN ref' = DOMAIN ref \cup {nextId}
      /\ \A id \in DOMAIN ref : ref'[id] = ref[id]
      /\ ref'[nextId].calls = 0
      /\ \A v \in Vars : Spells(var'[v]) => var'[v].id \in Reach \cup {nextId}
      /\ \A id \in DOMAIN ref' : Spells(ref'[id].value) => ref'[id].value.id \in Reach
  BY <1>1, <1>2, MadeIs
<1>4. Reach \cup {nextId} \subseteq DOMAIN ref' \cup excused'
  BY <1>1, <1>3, Reached
<1>5. \A id \in DOMAIN ref' : ref'[id].calls = 0
  BY <1>3
<1>6. ~Spells(NoCreation.value)
  BY PlainIs DEF NoCreation
<1>7. Quiet'
  BY <1>3, <1>4, <1>5, <1>6 DEF Quiet, Safe
<1> QED BY <1>1, <1>3, <1>7, Resting

\* A finalizer creates a reference: the iterator keeps what it has ahead of it, but
\* for the rest of its chain if the table grows.
LEMMA CreatedInSweep ==
    ASSUME Inv, Busy, NEW c \in CreationType, Spells(c.value) => c.value.id \in Reach,
           nextId \in Ids, Current.creation.due => nextId + 2 \in Ids,
           Creates(c, sweeps), lastCollectId' = lastCollectId
    PROVE  Inv'
<1>1. PICK b : b = Current
  OBVIOUS
<1>2. b \in Sweep /\ Sweeps(b) /\ sweeps = <<b>> /\ Len(sweeps) = 1 /\ lastCollectId = Collecting
  BY <1>1, OneSweep DEF Inv
<1>3. PICK p : p = IF Insert(table, nextId).size = table.size THEN b.passed
                   ELSE b.passed \cup BehindNext(b.iter)
  OBVIOUS
<1>4. PICK s : s = [b EXCEPT !.passed = p]
  OBVIOUS
<1>5. Made(c) /\ excused' = excused \cup {nextId}
  BY <1>2 DEF Creates, Made
<1>6. sweeps' = <<s>>
  <2>1. sweeps' = [sweeps EXCEPT ![Len(sweeps)].passed =
                                IF Insert(table, nextId).size = table.size THEN @
                                ELSE @ \cup BehindNext(Last(sweeps).iter)]
    BY <1>2 DEF Creates
  <2>2. Last(sweeps) = b /\ sweeps[1] = b
    BY <1>2 DEF Last
  <2>3. sweeps' = [sweeps EXCEPT ![1].passed = p]
    BY <1>2, <1>3, <2>1, <2>2
  <2>4. sweeps' = [sweeps EXCEPT ![1] = s]
    BY <1>4, <2>2, <2>3
  <2> QED BY <1>2, <2>4
<1>7. /\ Good(table, Ids) /\ Table(table, Ids) /\ Stored(table) = DOMAIN ref
      /\ DOMAIN ref \subseteq Ids /\ nextId \in Nat /\ excused \subseteq Ids
  BY DEF Inv, Stocked, Good
<1>8. IteratorOf(table, b.iter)
  BY <1>2 DEF Sweeps, Iterates
<1>9. /\ b.iter.nextEntry # NULL => BehindNext(b.iter) = Rest(table, b.iter.nextEntry)
      /\ BehindNext(b.iter) \subseteq Ids
  <2>1. b.iter.nextEntry # NULL => BehindNext(b.iter) = Rest(table, b.iter.nextEntry)
    BY DEF BehindNext, Rest
  <2>2. CASE b.iter.nextEntry # NULL
    <3>1. b.iter.nextEntry \in Stored(table)
      BY <1>8, <2>2 DEF IteratorOf
    <3>2. \A x \in Rest(table, b.iter.nextEntry) : x \in Stored(table)
      BY <1>7, <3>1, IdsAre, AfterIs
    <3> QED BY <1>7, <2>1, <2>2, <3>2
  <2>3. CASE b.iter.nextEntry = NULL
    BY <2>1, <2>3 DEF BehindNext
  <2> QED BY <2>1, <2>2, <2>3
<1>10. /\ s \in Sweep /\ s.passed = p /\ s.marks = b.marks /\ s.iter = b.iter /\ s.at = b.at
       /\ s.creation = b.creation /\ s.garbage = b.garbage
  <2>1. p \subseteq Ids
    BY <1>2, <1>3, <1>9 DEF Sweep
  <2> QED BY <1>2, <1>4, <2>1 DEF Sweep
<1>11. /\ Stocked' /\ DOMAIN ref' = DOMAIN ref \cup {nextId} /\ nextId \notin DOMAIN ref
       /\ \A id \in DOMAIN ref : ref'[id] = ref[id]
       /\ ref'[nextId].calls = 0
       /\ \A v \in Vars : Spells(var'[v]) => var'[v].id \in Reach \cup {nextId}
       /\ \A id \in DOMAIN ref' : Spells(ref'[id].value) => ref'[id].value.id \in Reach
  <2>1. excused' \subseteq Ids
    BY <1>5, <1>7
  <2> QED BY <1>5, <2>1, MadeIs
<1>12. Safe(s.creation, Kept(s))'
  <2>1. Reach = Kept(b)
    BY <1>1 DEF Reach
  <2>2. Kept(b) \cup {nextId} \subseteq Kept(s)'
    BY <1>5, <1>10, <1>11 DEF Kept
  <2>3. Spells(s.creation.value) => s.creation.value.id \in Kept(b)
    BY <1>2, <1>10 DEF Sweeps, Safe
  <2> QED BY <1>11, <2>1, <2>2, <2>3 DEF Safe
<1>13. Iterates(s)'
  <2>1. PICK u : u = table'
    OBVIOUS
  <2>2. /\ IteratorOf(u, b.iter)
        /\ u.size = table.size => Ahead(table, b.iter) \subseteq Ahead(u, b.iter)
        /\ \A x \in Ahead(table, b.iter) :
              \/ x \in Ahead(u, b.iter)
              \/ b.iter.nextEntry # NULL /\ x \in Rest(table, b.iter.nextEntry)
    BY <1>5, <1>7, <1>8, <2>1, IdsAre, AheadInsert DEF Made
  <2>3. ASSUME NEW id \in DOMAIN ref', id \in b.garbage
        PROVE  id \in p \/ id \in Ahead(u, b.iter) \/ id = b.at
    <3>1. id \in DOMAIN ref
      <4>1. id < nextId
        BY <1>2, <2>3 DEF Sweeps
      <4> QED BY <1>7, <1>11, <4>1
    <3>2. id \in b.passed \/ id \in Ahead(table, b.iter) \/ id = b.at
      BY <1>2, <2>3, <3>1 DEF Sweeps, Iterates
    <3>3. b.passed \subseteq p
      BY <1>3
    <3>4. u.size # table.size => p = b.passed \cup BehindNext(b.iter)
      BY <1>3, <1>5, <2>1 DEF Made
    <3> QED BY <1>9, <2>2, <3>2, <3>3, <3>4
  <2>4. b.at # NULL => b.at # b.iter.nextEntry
    BY <1>2 DEF Sweeps, Iterates
  <2> QED BY <1>10, <2>1, <2>2, <2>3, <2>4 DEF Iterates
<1>14. \A id \in DOMAIN ref' : ref'[id].calls = 0 \/ (id = s.at /\ ref'[id].calls = 1)
  BY <1>2, <1>10, <1>11 DEF Sweeps
<1>15. Sweeps(s)'
  <2>1. /\ s.at \in DOMAIN ref' \cup {NULL} /\ s.at \notin s.marks
        /\ s.at # NULL => s.at \in excused'
        /\ s.garbage \cap s.marks = {}
    BY <1>2, <1>5, <1>10, <1>11 DEF Sweeps
  <2>2. nextId' = nextId + 2
    BY <1>5 DEF Made
  <2>3. \A id \in s.garbage : id < nextId'
    <3>1. \A id \in s.garbage : id \in Nat /\ id < nextId
      BY <1>2, <1>10, IdsAre DEF Sweeps, Sweep
    <3> QED BY <1>7, <2>2, <3>1
  <2>4. s.creation.due => nextId' \in Ids
    BY <1>1, <1>10, <2>2
  <2> QED BY <1>12, <1>13, <1>14, <2>1, <2>3, <2>4 DEF Sweeps
<1> QED BY <1>2, <1>6, <1>10, <1>11, <1>15, Sweeping

\* [ref]
LEMMA RefKeeps ==
    ASSUME Inv, NEW v \in Vars \cup {Nowhere}, NEW o \in Values, NEW f \in Names,
           NEW e \in BOOLEAN, Ref(v, o, f, e)
    PROVE  Inv'
<1>1. PICK c : c = [v |-> v, value |-> o, finalizer |-> f, due |-> TRUE]
  OBVIOUS
<1>2. f \in BOOLEAN /\ o \in Object /\ (Spells(o) => o.id \in Reach)
  BY ValuesAre DEF Names, NoName
<1>3. c \in CreationType /\ c.value = o
  BY <1>1, <1>2 DEF CreationType
<1>4. nextId \in Ids /\ \A s \in ToSet(sweeps) : s.creation.due => nextId + 2 \in Ids
  BY DEF Ref
<1>5. CASE e /\ MayCollect
  <2>1. ~Busy /\ BeginCollect(c)
    BY <1>1, <1>5 DEF Ref, MayCollect, Inv, Single
  <2> QED BY <1>2, <1>3, <1>4, <2>1, BeginCollectKeeps DEF Waits
<1>6. CASE ~(e /\ MayCollect)
  <2>1. Creates(c, sweeps) /\ lastCollectId' = lastCollectId
    BY <1>1, <1>6 DEF Ref
  <2>2. CASE Busy
    <3>1. Current \in ToSet(sweeps)
      BY <2>2, OneSweep DEF Inv, ToSet
    <3> QED BY <1>2, <1>3, <1>4, <2>1, <2>2, <3>1, CreatedInSweep
  <2>3. CASE ~Busy
    <3>1. sweeps = <<>> /\ lastCollectId # Collecting /\ \A id \in DOMAIN ref : ref[id].calls = 0
      BY <2>3 DEF Busy, Inv, Single, Quiet
    <3>2. Creates(c, <<>>)
      BY <2>1, <3>1
    <3> QED BY <1>2, <1>3, <1>4, <2>1, <3>1, <3>2, CreatedAtRest
  <2> QED BY <2>2, <2>3
<1> QED BY <1>5, <1>6
---------------------------------------------------------------------------
(* The sweep *)

\* What a reference that goes leaves behind: it has no mark, so that an object
\* that still spells it is one of the excused.
LEMMA DropsKeep ==
    ASSUME Inv, Busy, NEW b, b = Current, NEW id \in DOMAIN ref, id \notin b.marks,
           Drops(id), UNCHANGED <<nextId, var>>
    PROVE  /\ Stocked' /\ DOMAIN ref' = DOMAIN ref \ {id}
           /\ \A i \in DOMAIN ref' : ref'[i] = ref[i]
           /\ Safe(b.creation, Kept(b))'
<1>1. /\ Good(table, Ids) /\ Stored(table) = DOMAIN ref
      /\ DOMAIN ref \subseteq Ids /\ ref \in [DOMAIN ref -> RefType]
      /\ nextId \in Nat /\ var \in [Vars -> Object] /\ excused \subseteq Ids
      /\ \A i \in DOMAIN ref : i < nextId
  BY DEF Inv, Stocked
<1>2. Good(table', Ids) /\ Stored(table') = DOMAIN ref \ {id}
  BY <1>1, IdsAre, DeleteIs DEF Drops
<1>3. /\ ref' \in [DOMAIN ref' -> RefType] /\ DOMAIN ref' = DOMAIN ref \ {id}
      /\ \A i \in DOMAIN ref' : ref'[i] = ref[i]
  BY <1>1 DEF Drops
<1>4. excused' \subseteq excused /\ excused \subseteq excused' \cup {id}
  BY DEF Drops
<1>5. Stocked'
  BY <1>1, <1>2, <1>3, <1>4 DEF Stocked
<1> DEFINE others == {var[v] : v \in Vars} \cup {ref[i].value : i \in DOMAIN ref \ {id}}
                     \cup {b.creation.value}
<1>6. \A o \in others : Spells(o) /\ o.id = id /\ id \in excused => id \in excused'
  BY DEF Drops
<1>7. \A o \in others : Spells(o) => o.id \in Kept(b)
  BY Reached DEF Reach
<1>8. ASSUME NEW o \in others, Spells(o) PROVE o.id \in Kept(b)'
  <2>1. CASE o.id = id
    <3>1. id \in excused'
      BY <1>6, <1>7, <1>8, <2>1 DEF Kept
    <3> QED BY <2>1, <3>1 DEF Kept
  <2>2. CASE o.id # id
    BY <1>3, <1>4, <1>7, <1>8, <2>2 DEF Kept
  <2> QED BY <2>1, <2>2
<1>9. /\ \A v \in Vars : var'[v] \in others
      /\ \A i \in DOMAIN ref' : ref'[i].value \in others
      /\ b.creation.value \in others
  BY <1>3
<1> HIDE DEF others
<1>10. Safe(b.creation, Kept(b))'
  BY <1>8, <1>9 DEF Safe
<1> QED BY <1>3, <1>5, <1>10

\* The reference that goes was ahead of the iterator only as the one it holds.
LEMMA DropsIterate ==
    ASSUME Inv, NEW id \in DOMAIN ref, NEW it, IteratorOf(table, it), id # it.nextEntry,
           Drops(id)
    PROVE  IteratorOf(table', it) /\ \A x \in Ahead(table, it) : x = id \/ x \in Ahead(table', it)
<1>1. /\ Good(table, Ids) /\ id \in Ids /\ Hashed(Ids)
  BY IdsAre DEF Inv, Stocked
<1>2. PICK u : u = Delete(table, id)
  OBVIOUS
<1>3. IteratorOf(u, it) /\ Ahead(table, it) \ {id} \subseteq Ahead(u, it)
  BY <1>1, <1>2, AheadDelete
<1>4. table' = u
  BY <1>2 DEF Drops
<1> QED BY <1>3, <1>4

\* The sweep comes to the next entry.
LEMMA SweepEntryKeeps ==
    ASSUME Inv, SweepEntry
    PROVE  Inv'
<1>1. PICK b : b = Current
  OBVIOUS
<1>2. b \in Sweep /\ Sweeps(b) /\ sweeps = <<b>> /\ lastCollectId = Collecting /\ Busy /\ b.at = NULL
  BY <1>1, OneSweep DEF Inv, SweepEntry
<1>3. PICK it : it = Advance(table, b.iter)
  OBVIOUS
<1>4. PICK id : id = it.entry
  OBVIOUS
<1>5. PICK at : at = IF id \in b.marks \/ ~ref[id].finalizer THEN NULL ELSE id
  OBVIOUS
<1>6. PICK s : s = [[b EXCEPT !.iter = it] EXCEPT !.at = at]
  OBVIOUS
<1>7. /\ Good(table, Ids) /\ Table(table, Ids) /\ Stored(table) = DOMAIN ref
      /\ DOMAIN ref \subseteq Ids /\ Hashed(Ids) /\ NULL \notin Ids
  BY IdsAre DEF Inv, Stocked, Good
<1>8. /\ IteratorOf(table, it) /\ id \in DOMAIN ref \cup {NULL}
      /\ id # NULL => /\ it.nextEntry # id
                      /\ Ahead(table, b.iter) \subseteq {id} \cup Ahead(table, it)
  BY <1>2, <1>3, <1>4, <1>7, AdvanceIs DEF Sweeps, Iterates
<1>9. id \in DOMAIN ref /\ id # NULL
  BY <1>1, <1>3, <1>4, <1>8 DEF SweepEntry
<1>10. /\ s \in Sweep /\ s.iter = it /\ s.at = at /\ s.marks = b.marks /\ s.garbage = b.garbage
       /\ s.creation = b.creation /\ s.passed = b.passed
  <2>1. it \in [index: Int, entry: Int, nextEntry: Int]
    BY <1>8 DEF IteratorOf
  <2>2. at \in Ids \cup {NULL}
    BY <1>5, <1>7, <1>9
  <2>3. PICK m : m = [b EXCEPT !.iter = it]
    OBVIOUS
  <2>4. /\ m \in Sweep /\ m.iter = it /\ m.marks = b.marks /\ m.garbage = b.garbage
        /\ m.creation = b.creation /\ m.passed = b.passed
    BY <1>2, <2>1, <2>3 DEF Sweep
  <2> QED BY <1>6, <2>2, <2>3, <2>4 DEF Sweep
<1>11. sweeps' = <<s>>
  <2>1. SetCurrent(s) = <<s>>
    BY <1>2, <1>10, Replaced DEF Inv
  <2>2. s = [b EXCEPT !.iter = it, !.at = at]
    BY <1>6
  <2> QED BY <1>1, <1>3, <1>4, <1>5, <2>1, <2>2 DEF SweepEntry
<1>12. lastCollectId' = Collecting /\ UNCHANGED <<nextId, var>>
  BY <1>2 DEF SweepEntry
<1>13. \A i \in DOMAIN ref : ref[i].calls = 0
  BY <1>2, <1>7 DEF Sweeps
<1>14. \A i \in DOMAIN ref : i \in b.garbage =>
          i \in b.passed \/ i = id \/ i \in Ahead(table, it)
  BY <1>2, <1>7, <1>8, <1>9 DEF Sweeps, Iterates
<1>15. CASE id \in b.marks
  <2>1. UNCHANGED <<table, ref, excused>> /\ at = NULL
    BY <1>1, <1>3, <1>4, <1>5, <1>15 DEF SweepEntry
  <2>2. Stocked'
    BY <1>12, <2>1 DEF Inv, Stocked
  <2>3. Safe(s.creation, Kept(s))'
    BY <1>2, <1>10, <1>12, <2>1 DEF Sweeps, Safe, Kept
  <2>4. id \notin b.garbage
    BY <1>2, <1>15 DEF Sweeps
  <2>5. Iterates(s)'
    BY <1>8, <1>10, <1>14, <2>1, <2>4 DEF Iterates
  <2>6. Sweeps(s)'
    BY <1>2, <1>10, <1>12, <1>13, <2>1, <2>3, <2>5 DEF Sweeps
  <2> QED BY <1>10, <1>11, <1>12, <2>2, <2>6, Sweeping
<1>16. CASE id \notin b.marks /\ at = NULL
  <2>1. Drops(id)
    BY <1>1, <1>3, <1>4, <1>5, <1>16 DEF SweepEntry
  <2>2. /\ Stocked' /\ DOMAIN ref' = DOMAIN ref \ {id}
        /\ \A i \in DOMAIN ref' : ref'[i] = ref[i]
        /\ Safe(b.creation, Kept(b))'
    BY <1>1, <1>2, <1>9, <1>12, <1>16, <2>1, DropsKeep
  <2>3. IteratorOf(table', it) /\ \A x \in Ahead(table, it) : x = id \/ x \in Ahead(table', it)
    BY <1>8, <1>9, <2>1, DropsIterate
  <2>4. Safe(s.creation, Kept(s))'
    BY <1>10, <2>2 DEF Safe, Kept
  <2>5. Iterates(s)'
    BY <1>10, <1>14, <1>16, <2>2, <2>3 DEF Iterates
  <2>6. Sweeps(s)'
    BY <1>2, <1>10, <1>12, <1>13, <1>16, <2>2, <2>4, <2>5 DEF Sweeps
  <2> QED BY <1>10, <1>11, <1>12, <2>2, <2>6, Sweeping
<1>17. CASE at # NULL
  <2>1. /\ ref' = [ref EXCEPT ![id].calls = @ + 1] /\ excused' = excused \cup {id}
        /\ table' = table /\ id \notin b.marks /\ at = id
    BY <1>1, <1>3, <1>4, <1>5, <1>17 DEF SweepEntry
  <2>2. ref[id] \in RefType /\ ref \in [DOMAIN ref -> RefType]
    BY <1>9 DEF Inv, Stocked
  <2>3. PICK r : r = [ref[id] EXCEPT !.calls = 1]
    OBVIOUS
  <2>4. r \in RefType /\ r.calls = 1 /\ r.value = ref[id].value
    BY <2>2, <2>3 DEF RefType
  <2>5. ref' = [ref EXCEPT ![id] = r]
    <3>1. ref[id].calls + 1 = 1
      BY <1>9, <1>13
    <3>2. r = [ref[id] EXCEPT !.calls = ref[id].calls + 1]
      BY <2>3, <3>1
    <3> QED BY <2>1, <3>2
  <2>6. /\ ref' \in [DOMAIN ref' -> RefType] /\ DOMAIN ref' = DOMAIN ref
        /\ \A i \in DOMAIN ref : ref'[i] = IF i = id THEN r ELSE ref[i]
    BY <1>9, <2>2, <2>4, <2>5
  <2>7. Stocked'
    BY <1>7, <1>9, <1>12, <2>1, <2>6 DEF Inv, Stocked
  <2>8. Safe(s.creation, Kept(s))'
    BY <1>2, <1>10, <1>12, <2>1, <2>4, <2>6 DEF Sweeps, Safe, Kept
  <2>9. Iterates(s)'
    BY <1>8, <1>9, <1>10, <1>14, <2>1, <2>6 DEF Iterates
  <2>10. \A i \in DOMAIN ref' : ref'[i].calls = 0 \/ (i = s.at /\ ref'[i].calls = 1)
    BY <1>10, <1>13, <2>1, <2>4, <2>6
  <2>11. Sweeps(s)'
    BY <1>2, <1>9, <1>10, <1>12, <2>1, <2>6, <2>8, <2>9, <2>10 DEF Sweeps
  <2> QED BY <1>10, <1>11, <1>12, <2>7, <2>11, Sweeping
<1> QED BY <1>15, <1>16, <1>17

\* The finalizer returns and its reference goes.
LEMMA FinalizerEndsKeeps ==
    ASSUME Inv, FinalizerEnds
    PROVE  Inv'
<1>1. PICK b : b = Current
  OBVIOUS
<1>2. /\ b \in Sweep /\ Sweeps(b) /\ sweeps = <<b>> /\ lastCollectId = Collecting /\ Busy
      /\ b.at # NULL
  BY <1>1, OneSweep DEF Inv, FinalizerEnds
<1>3. PICK s : s = [b EXCEPT !.at = NULL]
  OBVIOUS
<1>4. /\ s \in Sweep /\ s.iter = b.iter /\ s.at = NULL /\ s.marks = b.marks
      /\ s.garbage = b.garbage /\ s.creation = b.creation /\ s.passed = b.passed
  BY <1>2, <1>3 DEF Sweep
<1>5. sweeps' = <<s>>
  BY <1>1, <1>2, <1>3, <1>4, Replaced DEF Inv, FinalizerEnds
<1>6. lastCollectId' = Collecting /\ UNCHANGED <<nextId, var>> /\ Drops(b.at)
  BY <1>1, <1>2 DEF FinalizerEnds
<1>7. b.at \in DOMAIN ref /\ b.at \notin b.marks /\ b.at # b.iter.nextEntry
  BY <1>2 DEF Sweeps, Iterates
<1>8. /\ Stocked' /\ DOMAIN ref' = DOMAIN ref \ {b.at}
      /\ \A i \in DOMAIN ref' : ref'[i] = ref[i]
      /\ Safe(b.creation, Kept(b))'
  BY <1>1, <1>2, <1>6, <1>7, DropsKeep
<1>9. /\ IteratorOf(table', b.iter)
      /\ \A x \in Ahead(table, b.iter) : x = b.at \/ x \in Ahead(table', b.iter)
  BY <1>2, <1>6, <1>7, DropsIterate DEF Sweeps, Iterates
<1>10. Safe(s.creation, Kept(s))'
  BY <1>4, <1>8 DEF Safe, Kept
<1>11. Iterates(s)'
  BY <1>2, <1>4, <1>8, <1>9 DEF Sweeps, Iterates
<1>12. NULL \notin Ids /\ s.marks \subseteq Ids
  BY <1>4, IdsAre DEF Sweep
<1>13. Sweeps(s)'
  BY <1>2, <1>4, <1>6, <1>8, <1>10, <1>11, <1>12 DEF Sweeps
<1> QED BY <1>4, <1>5, <1>6, <1>8, <1>13, Sweeping

\* The sweep is over.
LEMMA CollectEndsKeeps ==
    ASSUME Inv, CollectEnds
    PROVE  Inv'
<1>1. PICK b : b = Current
  OBVIOUS
<1>2. /\ b \in Sweep /\ Sweeps(b) /\ Front(sweeps) = <<>> /\ Busy /\ b.at = NULL
  BY <1>1, OneSweep DEF Inv, CollectEnds
<1>3. \A id \in DOMAIN ref : ref[id].calls = 0
  BY <1>2, IdsAre DEF Sweeps, Inv, Stocked
<1>4. lastCollectId' # Collecting
  BY DEF CollectEnds, AnId, Collecting
<1>5. CASE b.creation.due
  <2>1. b.creation \in CreationType
    BY <1>2 DEF Sweep, CreationType
  <2>2. Spells(b.creation.value) => b.creation.value.id \in Reach
    BY <1>1, <1>2, Reached
  <2>3. nextId \in Ids /\ Creates(b.creation, <<>>)
    BY <1>1, <1>2, <1>5 DEF Sweeps, CollectEnds
  <2> QED BY <1>3, <1>4, <2>1, <2>2, <2>3, CreatedAtRest
<1>6. CASE ~b.creation.due
  <2>1. sweeps' = <<>> /\ UNCHANGED <<table, ref, nextId, var, excused>>
    BY <1>1, <1>2, <1>6 DEF CollectEnds
  <2>2. Stocked'
    BY <2>1 DEF Inv, Stocked
  <2>3. Quiet'
    BY <1>2, <1>3, <2>1, PlainIs DEF Sweeps, Quiet, Safe, Kept, NoCreation
  <2> QED BY <1>4, <2>1, <2>2, <2>3, Resting
<1> QED BY <1>5, <1>6
---------------------------------------------------------------------------
(* The theorems *)

\* No collection is in progress and there is no reference.
LEMMA InitInv == Init => Inv
<1> SUFFICES ASSUME Init PROVE Inv
  OBVIOUS
<1>1. /\ table = EmptyTable /\ ref = <<>> /\ nextId = 0 /\ lastCollectId # Collecting
      /\ var = [v \in Vars |-> Plain] /\ sweeps = <<>> /\ excused = {}
  BY DEF Init, AnId, Collecting
<1>2. DOMAIN ref = {}
  BY <1>1
<1>3. Good(table, Ids) /\ Stored(table) = {}
  <2>1. table.size = 0 /\ table.chain = <<>> /\ table = [size |-> table.size, chain |-> table.chain]
    BY <1>1 DEF EmptyTable
  <2>2. 0 .. 0 - 1 = {}
    OBVIOUS
  <2>3. Buckets(table.chain, 0, Ids) /\ Held(table.chain, 0) = {}
    BY <2>1, <2>2 DEF Buckets, Held
  <2>4. Cardinality(Stored(table)) = 0
    BY <2>1, <2>3, FS_EmptySet DEF Stored
  <2> QED BY <2>1, <2>3, <2>4 DEF Good, Table, Stored, Fits, Sized
<1>4. Stocked
  BY <1>1, <1>2, <1>3, PlainIs DEF Stocked
<1>5. Single /\ ~Busy
  BY <1>1 DEF Single, Busy
<1>6. Quiet
  BY <1>1, <1>2, PlainIs DEF Quiet, Safe, NoCreation
<1> QED BY <1>4, <1>5, <1>6 DEF Inv

\* Nothing happens.
LEMMA StutterKeeps ==
    ASSUME Inv, UNCHANGED vars
    PROVE  Inv'
<1>1. CASE Busy
  BY <1>1 DEF vars, Inv, Stocked, Single, Busy, Sweeps, Safe, Kept, Iterates, Current
<1>2. CASE ~Busy
  BY <1>2 DEF vars, Inv, Stocked, Single, Busy, Quiet, Safe
<1> QED BY <1>1, <1>2

\* Every step keeps the invariant.
LEMMA NextInv == Inv /\ [Next]_vars => Inv'
<1> SUFFICES ASSUME Inv, [Next]_vars PROVE Inv'
  OBVIOUS
<1>1. CASE CollectCommand
  BY <1>1, CollectCommandKeeps
<1>2. ASSUME NEW v \in Vars \cup {Nowhere}, NEW o \in Values, NEW f \in Names,
             NEW e \in BOOLEAN, Ref(v, o, f, e)
      PROVE  Inv'
  BY <1>2, RefKeeps
<1>3. ASSUME NEW v \in Vars, NEW w \in Vars, GetRef(v, w) \/ Copy(v, w) PROVE Inv'
  BY <1>3, GetRefKeeps, CopyKeeps
<1>4. ASSUME NEW v \in Vars, NEW o \in Values, SetRef(v, o) PROVE Inv'
  BY <1>4, SetRefKeeps
<1>5. ASSUME NEW v \in Vars, Finalize(v) \/ Hide(v) \/ Unset(v) \/ Resurrect(v) PROVE Inv'
  BY <1>5, FinalizeKeeps, HideKeeps, UnsetKeeps, ResurrectKeeps
<1>6. CASE SweepEntry
  BY <1>6, SweepEntryKeeps
<1>7. CASE FinalizerEnds
  BY <1>7, FinalizerEndsKeeps
<1>8. CASE CollectEnds
  BY <1>8, CollectEndsKeeps
<1>9. CASE UNCHANGED vars
  BY <1>9, StutterKeeps
<1> QED BY <1>1, <1>2, <1>3, <1>4, <1>5, <1>6, <1>7, <1>8, <1>9 DEF Next, Script

\* The inductive invariant: outside a collection every id that is spelled is in the
\* table or excused; during one it has a mark and is in the table, or is excused,
\* and all garbage is ahead of the iterator, passed by, or being finalized.
THEOREM Invariant == Spec => []Inv
BY InitInv, NextInv, PTL DEF Spec

\* lastCollectId is ~0 exactly while the one collection is in progress.
THEOREM TypeCorrect == Spec => []TypeOK
<1>1. Inv => TypeOK
  <2> SUFFICES ASSUME Inv PROVE TypeOK
    OBVIOUS
  <2>1. \A s \in ToSet(sweeps) : s \in Sweep
    BY ElementOfSeq DEF Inv, Single, ToSet
  <2> QED BY <2>1 DEF Inv, Stocked, Single, TypeOK, RefType
<1> QED BY <1>1, Invariant, PTL

\* Through every growth and every deletion the table holds exactly the references,
\* each once and where a lookup finds it.
THEOREM TableIsSound == Spec => []TableSound
<1>1. Inv => TableSound
  BY IdsAre, GoodIsSound, UsedIs DEF Inv, Stocked, TableSound, Good
<1> QED BY <1>1, Invariant, PTL

\* A reference that a live object visibly spells is in the table, but for the three
\* kinds that the collector is known to take.
THEOREM ReferencesStayLive == Spec => []ReferencesLive
<1>1. Inv => ReferencesLive
  <2> SUFFICES ASSUME Inv, NEW o \in Live(NoCreation), Seen(o)
               PROVE  o.id \in DOMAIN ref \cup excused
    BY DEF ReferencesLive
  <2>1. Spells(o)
    BY DEF Seen, Spells
  <2>2. o # Plain
    BY <2>1, PlainIs
  <2> QED BY <2>1, <2>2, Reached DEF Live, NoCreation
<1> QED BY <1>1, Invariant, PTL

\* What the iterator comes to next, and what it is finalizing, is in the table.
THEOREM IteratorIsSafe == Spec => []IteratorSafe
<1>1. Inv => IteratorSafe
  BY IdsAre, UsedIs DEF Inv, Stocked, Sweeps, Iterates, IteratorOf, IteratorSafe, Good
<1> QED BY <1>1, Invariant, PTL

\* No finalizer is called twice for one reference.
THEOREM FinalizedAtMostOnce == Spec => []FinalizedOnce
<1>1. Inv => FinalizedOnce
  BY DEF Inv, Quiet, Sweeps, FinalizedOnce
<1> QED BY <1>1, Invariant, PTL

\* When a collection ends its iterator has nothing ahead of it.
LEMMA NothingAhead ==
    ASSUME Inv, CollectEnds
    PROVE  Current.garbage \cap DOMAIN ref \subseteq Current.passed
<1>1. PICK b : b = Current
  OBVIOUS
<1>2. b \in Sweep /\ Sweeps(b) /\ b.at = NULL /\ Advance(table, b.iter).entry = NULL
  BY <1>1, OneSweep DEF Inv, CollectEnds
<1>3. PICK a : a = Advance(table, b.iter)
  OBVIOUS
<1>4. Table(table, Ids) /\ Hashed(Ids) /\ IteratorOf(table, b.iter)
  BY <1>2, IdsAre DEF Inv, Stocked, Good, Sweeps, Iterates
<1>5. Ahead(table, b.iter) = {}
  BY <1>2, <1>3, <1>4, AdvanceIs
<1>6. NULL \notin DOMAIN ref
  BY IdsAre DEF Inv, Stocked
<1> QED BY <1>1, <1>2, <1>5, <1>6 DEF Sweeps, Iterates

\* A collection takes all its garbage, except what was in the chain under the
\* iterator when a finalizer's [ref] made the table grow.
THEOREM SweepIsComplete == Spec => SweepComplete
<1>1. ASSUME Inv, [Next]_vars, Len(sweeps') < Len(sweeps)
      PROVE  Current.garbage \cap DOMAIN ref \subseteq Current.passed
  <2>1. Busy /\ DOMAIN sweeps' # DOMAIN sweeps
    <3>1. Inv'
      BY <1>1, NextInv
    <3>2. /\ sweeps \in Seq(Sweep) /\ sweeps' \in Seq(Sweep)
          /\ Len(sweeps) \in Nat /\ Len(sweeps') \in Nat
      BY <1>1, <3>1, LenProperties DEF Inv, Single
    <3>3. DOMAIN sweeps = 1 .. Len(sweeps) /\ DOMAIN sweeps' = 1 .. Len(sweeps')
      BY <3>2, LenProperties
    <3>4. Len(sweeps) # 0
      BY <1>1, <3>2
    <3>5. Len(sweeps) \in DOMAIN sweeps /\ Len(sweeps) \notin DOMAIN sweeps'
      BY <1>1, <3>2, <3>3, <3>4
    <3> QED BY <3>4, <3>5 DEF Busy
  <2>2. ~MayCollect
    BY <1>1, <2>1, OneSweep DEF Inv, MayCollect
  <2>3. ASSUME NEW s PROVE DOMAIN SetCurrent(s) = DOMAIN sweeps
    BY DEF SetCurrent
  <2>4. ASSUME NEW c, Creates(c, sweeps) PROVE FALSE
    <3>1. sweeps # <<>>
      BY <2>1 DEF Busy
    <3>2. DOMAIN sweeps' = DOMAIN sweeps
      BY <2>4, <3>1 DEF Creates
    <3> QED BY <2>1, <3>2
  <2>5. CASE CollectCommand
    BY <2>2, <2>5 DEF CollectCommand
  <2>6. ASSUME NEW v \in Vars \cup {Nowhere}, NEW o \in Values, NEW f \in Names,
               NEW e \in BOOLEAN, Ref(v, o, f, e)
        PROVE  FALSE
    BY <2>2, <2>4, <2>6 DEF Ref
  <2>7. CASE SweepEntry
    BY <2>1, <2>3, <2>7 DEF SweepEntry
  <2>8. CASE FinalizerEnds
    BY <2>1, <2>3, <2>8 DEF FinalizerEnds
  <2>9. sweeps' # sweeps
    BY <2>1
  <2>10. ASSUME NEW v \in Vars, NEW w \in Vars, GetRef(v, w) \/ Copy(v, w) PROVE FALSE
    BY <2>9, <2>10 DEF GetRef, Copy, Keeps, Unrelated
  <2>11. ASSUME NEW v \in Vars, NEW o \in Values, SetRef(v, o) PROVE FALSE
    BY <2>9, <2>11 DEF SetRef, Unrelated
  <2>12. ASSUME NEW v \in Vars, Finalize(v) \/ Hide(v) \/ Unset(v) \/ Resurrect(v) PROVE FALSE
    BY <2>9, <2>12 DEF Finalize, Hide, Unset, Resurrect, Keeps, Unrelated
  <2>13. CASE CollectEnds
    BY <1>1, <2>13, NothingAhead
  <2>14. UNCHANGED vars => sweeps' = sweeps
    BY DEF vars
  <2> QED BY <1>1, <2>5, <2>6, <2>7, <2>8, <2>9, <2>10, <2>11, <2>12, <2>13, <2>14 DEF Next, Script
<1>2. Inv /\ [Next]_vars =>
         [Len(sweeps') < Len(sweeps) =>
             Current.garbage \cap DOMAIN ref \subseteq Current.passed]_vars
  BY <1>1
<1> QED BY <1>2, Invariant, PTL DEF Spec, SweepComplete
=============================================================================
