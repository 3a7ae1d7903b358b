------------------------- MODULE JimEventLoop_proofs -------------------------
(***************************************************************************)
(* Proofs about JimEventLoop: the types of its state, that a sleep ends in *)
(* time for the nearest timer, and that a pass runs the timers in the      *)
(* order of the queue, for every number of timers and of nested passes.    *)
(***************************************************************************)
EXTENDS JimEventLoop, JimLemmas

TimerType == [togo : 0..MaxDelay, newTo : 0..MaxPasses, ripe : BOOLEAN, marked : BOOLEAN]
ActivationType ==
    [kind : {"main", "handler", "vwait", "update"}, old : Vals \cup {Unset},
     phase : {"script", "begin", "sleep", "scan"}, sleep : 0..MaxDelay,
     te : 0..(MaxTimers + 1), processed : BOOLEAN]

\* TypeOK with the bounds: the queue is a sequence, and a pass is begun only
\* within the bound.
Typed ==
    /\ queue \in Seq(TimerType) /\ Len(queue) <= MaxTimers
    /\ stack \in Seq(ActivationType)
    /\ value \in Vals \cup {Unset}
    /\ files \in {"none", "idle", "ready"}
    /\ Passes <= MaxPasses

\* What runs on what: the program is at the bottom, a handler runs on a scan,
\* and a loop on a script; a scan is at a position of the queue or behind it.
Nested ==
    /\ Len(stack) >= 1
    /\ stack[1].kind = "main"
    /\ \A i \in 1..Len(stack) :
          /\ stack[i].kind \in {"main", "handler"} <=> stack[i].phase = "script"
          /\ stack[i].kind = "handler" => i > 1 /\ stack[i - 1].phase = "scan"
          /\ stack[i].kind \in {"vwait", "update"} => i > 1 /\ stack[i - 1].phase = "script"
          /\ stack[i].phase = "scan" => stack[i].te >= 1

\* The timers are in the order of their times, and one that was seen to be due
\* still is.
Sorted == \A i, j \in 1..Len(queue) : i <= j => queue[i].togo <= queue[j].togo
RipeIsDue == \A i \in 1..Len(queue) : queue[i].ripe => queue[i].togo = 0

Inv == Typed /\ Nested /\ Sorted /\ RipeIsDue /\ SleepsUntilNearest /\ RunsInOrder

---------------------------------------------------------------------------
(* The operators of the model *)

\* The number of loops in a stack, so that Passes is LoopsIn(stack).
LoopsIn(s) == Cardinality({i \in DOMAIN s : s[i].phase # "script"})

\* A loop that is pushed counts, a script does not.
LEMMA LoopsAppend ==
    ASSUME NEW s \in Seq(ActivationType), NEW a \in ActivationType
    PROVE  /\ LoopsIn(s) \in Nat
           /\ LoopsIn(Append(s, a)) = LoopsIn(s) + IF a.phase = "script" THEN 0 ELSE 1
<1> DEFINE A == {i \in 1 .. Len(s) : s[i].phase # "script"}
           t == Append(s, a)
           B == {i \in 1 .. Len(t) : t[i].phase # "script"}
<1>1. /\ Len(s) \in Nat /\ t \in Seq(ActivationType) /\ Len(t) = Len(s) + 1
      /\ \A i \in 1 .. Len(s) + 1 : t[i] = IF i <= Len(s) THEN s[i] ELSE a
  BY AppendAt
<1>2. LoopsIn(s) = Cardinality(A) /\ LoopsIn(t) = Cardinality(B)
  BY <1>1, LenProperties DEF LoopsIn
<1>3. Cardinality(A) \in Nat /\ Cardinality(A \cup {Len(s) + 1}) = Cardinality(A) + 1
  BY <1>1, CountPositions
<1>4. B = IF a.phase = "script" THEN A ELSE A \cup {Len(s) + 1}
  <2> HIDE DEF t
  <2> QED BY <1>1
<1> HIDE DEF A, B, t
<1>5. LoopsIn(t) = LoopsIn(s) + IF a.phase = "script" THEN 0 ELSE 1
  BY <1>2, <1>3, <1>4
<1> QED BY <1>2, <1>3, <1>5 DEF t

\* The innermost loop or script is replaced, or ends.
LEMMA LoopsFront ==
    ASSUME NEW s \in Seq(ActivationType), Len(s) >= 1
    PROVE  LET f == SubSeq(s, 1, Len(s) - 1)
           IN  /\ f \in Seq(ActivationType) /\ LoopsIn(f) \in Nat
               /\ LoopsIn(s) = LoopsIn(f) + IF s[Len(s)].phase = "script" THEN 0 ELSE 1
<1> DEFINE f == SubSeq(s, 1, Len(s) - 1)
<1>1. f \in Seq(ActivationType) /\ s[Len(s)] \in ActivationType /\ s = Append(f, s[Len(s)])
  BY FrontProperties
<1> HIDE DEF f
<1>2. LoopsIn(f) \in Nat
  BY <1>1, LoopsAppend
<1>3. LoopsIn(s) = LoopsIn(f) + IF s[Len(s)].phase = "script" THEN 0 ELSE 1
  BY <1>1, LoopsAppend
<1> QED BY <1>1, <1>2, <1>3 DEF f

\* A queue without its i-th timer.
LEMMA RemoveAtProperties ==
    ASSUME NEW S, NEW q \in Seq(S), NEW i \in 1 .. Len(q)
    PROVE  /\ RemoveAt(q, i) \in Seq(S) /\ Len(RemoveAt(q, i)) = Len(q) - 1
           /\ \A j \in 1 .. Len(q) - 1 :
                 RemoveAt(q, i)[j] = IF j < i THEN q[j] ELSE q[j + 1]
BY WithoutElement DEF RemoveAt

\* A queue with a timer more.
LEMMA InsertAtProperties ==
    ASSUME NEW S, NEW q \in Seq(S), NEW i \in 1 .. Len(q) + 1, NEW e \in S
    PROVE  /\ InsertAt(q, i, e) \in Seq(S) /\ Len(InsertAt(q, i, e)) = Len(q) + 1
           /\ \A j \in 1 .. Len(q) + 1 :
                 InsertAt(q, i, e)[j] = IF j < i THEN q[j] ELSE IF j = i THEN e ELSE q[j - 1]
<1> DEFINE l == SubSeq(q, 1, i - 1)
           m == <<e>>
           r == SubSeq(q, i, Len(q))
           lm == l \o m
<1>1. Len(q) \in Nat /\ \A j \in 1 .. Len(q) : q[j] \in S
  BY LenProperties, ElementOfSeq
<1>2. /\ l \in Seq(S) /\ Len(l) = IF 1 <= i - 1 THEN i - 1 - 1 + 1 ELSE 0
      /\ \A j \in 1 .. i - 1 - 1 + 1 : l[j] = q[1 + j - 1]
  BY <1>1, SubSeqProperties
<1>3. /\ r \in Seq(S) /\ Len(r) = IF i <= Len(q) THEN Len(q) - i + 1 ELSE 0
      /\ \A j \in 1 .. Len(q) - i + 1 : r[j] = q[i + j - 1]
  BY <1>1, SubSeqProperties
<1>4. m \in Seq(S) /\ Len(m) = 1 /\ m[1] = e
  OBVIOUS
<1> HIDE DEF l, m, r, lm
<1>5. Len(l) = i - 1 /\ Len(r) = Len(q) - i + 1
  BY <1>1, <1>2, <1>3
<1>6. /\ lm \in Seq(S) /\ Len(lm) = i
      /\ \A j \in 1 .. i : lm[j] = IF j < i THEN l[j] ELSE e
  <2>1. /\ lm \in Seq(S) /\ Len(lm) = Len(l) + Len(m)
        /\ \A j \in 1 .. Len(l) + Len(m) :
              lm[j] = IF j <= Len(l) THEN l[j] ELSE m[j - Len(l)]
    BY <1>2, <1>4, ConcatProperties DEF lm
  <2> QED BY <1>4, <1>5, <2>1
<1>7. /\ lm \o r \in Seq(S) /\ Len(lm \o r) = Len(lm) + Len(r)
      /\ \A j \in 1 .. Len(lm) + Len(r) :
            (lm \o r)[j] = IF j <= Len(lm) THEN lm[j] ELSE r[j - Len(lm)]
  BY <1>3, <1>6, ConcatProperties
<1>8. InsertAt(q, i, e) = lm \o r
  BY DEF InsertAt, l, m, r, lm
<1>9. ASSUME NEW j \in 1 .. Len(q) + 1
      PROVE  (lm \o r)[j] = IF j < i THEN q[j] ELSE IF j = i THEN e ELSE q[j - 1]
  <2>1. CASE j < i
    BY <1>1, <1>2, <1>5, <1>6, <1>7, <2>1
  <2>2. CASE j = i
    BY <1>1, <1>5, <1>6, <1>7, <2>2
  <2>3. CASE j > i
    <3>1. j - i \in 1 .. Len(q) - i + 1 /\ i + (j - i) - 1 = j - 1
      BY <1>1, <2>3
    <3>2. r[j - i] = q[j - 1]
      BY <1>3, <3>1
    <3>3. j \in 1 .. Len(lm) + Len(r) /\ ~(j <= Len(lm)) /\ Len(lm) = i
      BY <1>1, <1>5, <1>6, <2>3
    <3>4. (lm \o r)[j] = r[j - i]
      BY <1>7, <3>3
    <3> QED BY <2>3, <3>2, <3>4
  <2>4. j < i \/ j = i \/ j > i
    BY <1>1
  <2> QED BY <2>1, <2>2, <2>3, <2>4, Zenon
<1>10. lm \o r \in Seq(S) /\ Len(lm \o r) = Len(q) + 1
  BY <1>1, <1>5, <1>6, <1>7
<1> QED BY <1>8, <1>9, <1>10, Zenon

\* Where a new timer goes: behind those that are due no later.
LEMMA PlaceProperties ==
    ASSUME Typed, Sorted, NEW us \in 0..MaxDelay
    PROVE  /\ Place(us) \in 1 .. Len(queue) + 1
           /\ \A i \in 1 .. Len(queue) : IF i < Place(us) THEN queue[i].togo <= us
                                         ELSE us < queue[i].togo
<1> DEFINE I == {i \in 1 .. Len(queue) : us < queue[i].togo}
<1>1. /\ Len(queue) \in Nat
      /\ \A i \in 1 .. Len(queue) : queue[i].togo \in 0 .. MaxDelay
  <2>1. Len(queue) \in Nat
    BY LenProperties DEF Typed
  <2>2. ASSUME NEW i \in 1 .. Len(queue) PROVE queue[i].togo \in 0 .. MaxDelay
    <3>1. queue[i] \in TimerType
      BY ElementOfSeq DEF Typed
    <3> QED BY <3>1 DEF TimerType
  <2> QED BY <2>1, <2>2
<1>2. SelectInSeq(queue, LAMBDA t : us < t.togo) = IF I # {} THEN Min(I) ELSE 0
  BY DEF SelectInSeq
<1>3. I # {} => Min(I) \in I /\ \A i \in I : Min(I) <= i
  <2>1. I \in SUBSET Nat
    OBVIOUS
  <2>2. I # {} => \E m \in I : \A i \in I : m <= i
    BY <2>1, LeastElement
  <2> HIDE DEF I
  <2> QED BY <2>2 DEF Min
<1>4. CASE I = {}
  <2>1. \A i \in 1 .. Len(queue) : queue[i].togo <= us
    BY <1>1, <1>4, LoopAssumption
  <2>2. Place(us) = Len(queue) + 1
    <3> HIDE DEF I
    <3> QED BY <1>2, <1>4 DEF Place
  <2> QED BY <1>1, <2>1, <2>2
<1>5. CASE I # {}
  <2>1. Place(us) = Min(I) /\ Min(I) \in 1 .. Len(queue) /\ us < queue[Min(I)].togo
    <3>1. Min(I) \in I
      BY <1>3, <1>5
    <3>2. Place(us) = IF Min(I) = 0 THEN Len(queue) + 1 ELSE Min(I)
      <4> HIDE DEF I
      <4> QED BY <1>2, <1>5 DEF Place
    <3> QED BY <1>1, <3>1, <3>2
  <2>2. ASSUME NEW i \in 1 .. Len(queue), i < Min(I) PROVE queue[i].togo <= us
    <3>1. i \notin I
      <4> HIDE DEF I
      <4> QED BY <1>1, <1>3, <1>5, <2>1, <2>2
    <3> QED BY <1>1, <3>1, LoopAssumption
  <2>3. ASSUME NEW i \in 1 .. Len(queue), ~(i < Min(I)) PROVE us < queue[i].togo
    <3>1. queue[Min(I)].togo <= queue[i].togo
      BY <1>1, <2>1, <2>3 DEF Sorted
    <3> QED BY <1>1, <2>1, <3>1, LoopAssumption
  <2> HIDE DEF I
  <2> QED BY <1>1, <2>1, <2>2, <2>3
<1> QED BY <1>4, <1>5

---------------------------------------------------------------------------
(* What the steps do to the stack *)

\* The types of the elements, and the number of passes.
LEMMA Elements ==
    ASSUME Typed, Nested
    PROVE  /\ Len(stack) \in Nat \ {0} /\ DOMAIN stack = 1 .. Len(stack)
           /\ Top \in ActivationType /\ (Top.phase = "scan" => Top.te >= 1)
           /\ Len(queue) \in Nat /\ DOMAIN queue = 1 .. Len(queue)
           /\ \A i \in 1 .. Len(queue) : queue[i] \in TimerType
           /\ Passes = LoopsIn(stack) /\ Passes \in 0 .. MaxPasses
           /\ Top.phase # "script" => Passes >= 1
<1>1. /\ Len(stack) \in Nat \ {0} /\ DOMAIN stack = 1 .. Len(stack)
      /\ Top \in ActivationType /\ (Top.phase = "scan" => Top.te >= 1)
  BY LenProperties, ElementOfSeq DEF Typed, Nested, Top
<1>2. /\ Len(queue) \in Nat /\ DOMAIN queue = 1 .. Len(queue)
      /\ \A i \in 1 .. Len(queue) : queue[i] \in TimerType
  BY LenProperties, ElementOfSeq DEF Typed
<1>3. Passes = LoopsIn(stack)
  BY DEF Passes, LoopsIn
<1>4. /\ LoopsIn(SubSeq(stack, 1, Len(stack) - 1)) \in Nat
      /\ LoopsIn(stack) = LoopsIn(SubSeq(stack, 1, Len(stack) - 1))
                            + IF stack[Len(stack)].phase = "script" THEN 0 ELSE 1
  BY LoopsFront DEF Typed, Nested
<1>5. Passes \in 0 .. MaxPasses /\ (Top.phase # "script" => Passes >= 1)
  BY <1>3, <1>4, LoopAssumption DEF Typed, Top
<1> QED BY <1>1, <1>2, <1>3, <1>5

\* The program and the script of a timer.
LEMMA MainType ==
    /\ Main \in ActivationType /\ Main.kind = "main" /\ Main.phase = "script"
    /\ Handler \in ActivationType /\ Handler.kind = "handler" /\ Handler.phase = "script"
<1>1. Main \in ActivationType /\ Main.kind = "main" /\ Main.phase = "script"
  BY LoopAssumption DEF Main, ActivationType
<1>2. Handler \in ActivationType /\ Handler.kind = "handler" /\ Handler.phase = "script"
  BY <1>1 DEF Handler, ActivationType
<1> QED BY <1>1, <1>2

\* Something begins: a loop in a script, or the script of a timer in a scan.
LEMMA Pushed ==
    ASSUME Typed, Nested, NEW a \in ActivationType, stack' = Append(stack, a),
           \/ a.kind \in {"vwait", "update"} /\ a.phase = "begin" /\ Top.phase = "script"
           \/ a.kind = "handler" /\ a.phase = "script" /\ Top.phase = "scan"
    PROVE  /\ stack' \in Seq(ActivationType) /\ Nested' /\ Top' = a
           /\ Passes' = Passes + IF a.phase = "script" THEN 0 ELSE 1
<1>1. /\ stack' \in Seq(ActivationType) /\ Len(stack') = Len(stack) + 1
      /\ \A i \in 1 .. Len(stack) + 1 : stack'[i] = IF i <= Len(stack) THEN stack[i] ELSE a
      /\ Len(stack) \in Nat
  BY AppendAt DEF Typed
<1>2. Top' = a /\ stack'[Len(stack) + 1] = a /\ stack'[Len(stack)] = Top
  BY <1>1 DEF Top, Nested
<1>3. Nested'
  <2>1. Len(stack') >= 1 /\ stack'[1].kind = "main"
    BY <1>1 DEF Nested
  <2>2. ASSUME NEW i \in 1 .. Len(stack')
        PROVE  /\ stack'[i].kind \in {"main", "handler"} <=> stack'[i].phase = "script"
               /\ stack'[i].kind = "handler" => i > 1 /\ stack'[i - 1].phase = "scan"
               /\ stack'[i].kind \in {"vwait", "update"} => i > 1 /\ stack'[i - 1].phase = "script"
               /\ stack'[i].phase = "scan" => stack'[i].te >= 1
    <3>1. CASE i <= Len(stack)
      <4>1. stack'[i] = stack[i] /\ i \in 1 .. Len(stack)
            /\ (i > 1 => stack'[i - 1] = stack[i - 1])
        BY <1>1, <3>1
      <4> QED BY <4>1 DEF Nested
    <3>2. CASE i = Len(stack) + 1
      <4>1. i > 1 /\ stack'[i - 1] = Top /\ stack'[i] = a
        BY <1>1, <1>2, <3>2 DEF Nested
      <4> QED BY <4>1
    <3> QED BY <1>1, <3>1, <3>2
  <2> QED BY <2>1, <2>2 DEF Nested
<1>4. Passes' = Passes + IF a.phase = "script" THEN 0 ELSE 1
  <2>1. Passes = LoopsIn(stack) /\ Passes' = LoopsIn(stack')
    BY DEF Passes, LoopsIn
  <2> QED BY <2>1, LoopsAppend DEF Typed
<1> QED BY <1>1, <1>2, <1>3, <1>4

\* What is on top goes on to another phase.
LEMMA Replaced ==
    ASSUME Typed, Nested, NEW a \in ActivationType, Becomes(a),
           a.kind = Top.kind, a.phase = "script" <=> Top.phase = "script",
           a.phase = "scan" => a.te >= 1
    PROVE  /\ stack' \in Seq(ActivationType) /\ Nested' /\ Top' = a
           /\ Passes' = Passes
<1> DEFINE f == SubSeq(stack, 1, Len(stack) - 1)
<1>0. Len(stack) >= 1 /\ stack \in Seq(ActivationType)
  BY DEF Typed, Nested
<1>1. stack' = Append(f, a)
  BY DEF Becomes, Front
<1>2. /\ stack' \in Seq(ActivationType) /\ Len(stack') = Len(stack) /\ Len(stack) \in Nat
      /\ \A i \in 1 .. Len(stack) : stack'[i] = IF i < Len(stack) THEN stack[i] ELSE a
  BY <1>0, <1>1, ReplaceLast
<1>3. Top' = a /\ stack'[Len(stack)] = a
  BY <1>0, <1>2 DEF Top
<1>4. Nested'
  <2>1. Len(stack') >= 1 /\ stack'[1].kind = "main"
    BY <1>0, <1>2 DEF Nested, Top
  <2>2. ASSUME NEW i \in 1 .. Len(stack')
        PROVE  /\ stack'[i].kind \in {"main", "handler"} <=> stack'[i].phase = "script"
               /\ stack'[i].kind = "handler" => i > 1 /\ stack'[i - 1].phase = "scan"
               /\ stack'[i].kind \in {"vwait", "update"} => i > 1 /\ stack'[i - 1].phase = "script"
               /\ stack'[i].phase = "scan" => stack'[i].te >= 1
    <3>1. /\ i \in 1 .. Len(stack)
          /\ i > 1 => stack'[i - 1] = stack[i - 1]
          /\ stack'[i].kind = stack[i].kind
          /\ stack'[i].phase = "script" <=> stack[i].phase = "script"
          /\ stack'[i] # stack[i] /\ stack'[i].phase = "scan" => stack'[i].te >= 1
      BY <1>2 DEF Top
    <3> QED BY <3>1 DEF Nested
  <2> QED BY <2>1, <2>2 DEF Nested
<1>5. Passes' = Passes
  <2>1. Passes = LoopsIn(stack) /\ Passes' = LoopsIn(stack')
    BY DEF Passes, LoopsIn
  <2>2. /\ f \in Seq(ActivationType) /\ LoopsIn(f) \in Nat
        /\ LoopsIn(stack) = LoopsIn(f) + IF Top.phase = "script" THEN 0 ELSE 1
    BY <1>0, LoopsFront DEF Top
  <2> HIDE DEF f
  <2>3. LoopsIn(stack') = LoopsIn(f) + IF a.phase = "script" THEN 0 ELSE 1
    BY <1>1, <2>2, LoopsAppend
  <2> QED BY <2>1, <2>2, <2>3
<1> QED BY <1>2, <1>3, <1>4, <1>5

\* The loop on top returns to the script that called it.
LEMMA Popped ==
    ASSUME Typed, Nested, Top.phase # "script", stack' = Front(stack)
    PROVE  /\ stack' \in Seq(ActivationType) /\ Nested' /\ Top'.phase = "script"
           /\ Passes' = Passes - 1
<1>0. Len(stack) >= 1 /\ stack \in Seq(ActivationType)
  BY DEF Typed, Nested
<1>1. /\ stack' = SubSeq(stack, 1, Len(stack) - 1)
      /\ stack' \in Seq(ActivationType) /\ Len(stack') = Len(stack) - 1 /\ Len(stack) \in Nat
      /\ \A i \in 1 .. Len(stack) - 1 : stack'[i] = stack[i]
  BY <1>0, FrontProperties DEF Front
<1>2. Len(stack) > 1 /\ stack[Len(stack) - 1].phase = "script"
  <2>1. Len(stack) \in 1 .. Len(stack) /\ stack[Len(stack)].kind \in {"vwait", "update"}
    <3>1. Len(stack) \in 1 .. Len(stack) /\ Top \in ActivationType
      BY <1>0, <1>1, Elements
    <3> QED BY <3>1 DEF Nested, Top, ActivationType
  <2> QED BY <2>1 DEF Nested
<1>3. Top'.phase = "script"
  BY <1>1, <1>2 DEF Top
<1>4. Nested'
  <2>1. \A i \in 1 .. Len(stack') :
            i \in 1 .. Len(stack) /\ stack'[i] = stack[i]
            /\ (i > 1 => stack'[i - 1] = stack[i - 1])
    BY <1>1
  <2>2. Len(stack') >= 1 /\ stack'[1] = stack[1]
    BY <1>1, <1>2
  <2> QED BY <2>1, <2>2 DEF Nested
<1>5. Passes' = Passes - 1
  <2>1. Passes = LoopsIn(stack) /\ Passes' = LoopsIn(stack')
    BY DEF Passes, LoopsIn
  <2>2. LoopsIn(stack') \in Nat /\ LoopsIn(stack) = LoopsIn(stack') + 1
    BY <1>0, <1>1, LoopsFront DEF Top
  <2> QED BY <2>1, <2>2
<1> QED BY <1>1, <1>3, <1>4, <1>5

\* The script of a timer ends, and the scan under it goes on.
LEMMA Returned ==
    ASSUME Typed, Nested, HandlerEnds
    PROVE  /\ stack' \in Seq(ActivationType) /\ Nested' /\ Passes' = Passes
           /\ Top'.phase = "scan" /\ Top'.te = 1
<1> DEFINE n == Len(stack)
           below == stack[n - 1]
           f == SubSeq(stack, 1, n - 1)
           g == SubSeq(stack, 1, n - 2)
           a == Resumed(below)
<1>1. n \in Nat /\ n >= 2 /\ below.phase = "scan" /\ below \in ActivationType
      /\ below.kind \in {"vwait", "update"} /\ Top.phase = "script"
  <2>1. n \in Nat /\ n \in 1 .. n
    BY LenProperties DEF Typed, Nested
  <2>2. n > 1 /\ below.phase = "scan" /\ Top.phase = "script"
    BY <2>1 DEF Nested, HandlerEnds, Top
  <2>3. n - 1 \in 1 .. n
    BY <2>1, <2>2
  <2>4. below \in ActivationType
    BY <2>3, ElementOfSeq DEF Typed
  <2>5. below.kind \in {"vwait", "update"}
    BY <2>2, <2>3, <2>4 DEF Nested, ActivationType
  <2> QED BY <2>1, <2>2, <2>4, <2>5
<1>2. a \in ActivationType /\ a.phase = "scan" /\ a.kind = below.kind /\ a.te = 1
  <2>1. ASSUME NEW p \in ActivationType
        PROVE  /\ Resumed(p) \in ActivationType /\ Resumed(p).phase = p.phase
               /\ Resumed(p).kind = p.kind /\ Resumed(p).te = 1
    <3> DEFINE q == [p EXCEPT !.te = 1]
    <3>1. q \in ActivationType /\ q.phase = p.phase /\ q.kind = p.kind /\ q.te = 1
      BY LoopAssumption DEF ActivationType
    <3>2. Resumed(p) = [q EXCEPT !.processed = TRUE]
      BY DEF Resumed
    <3> HIDE DEF q
    <3> QED BY <3>1, <3>2 DEF ActivationType
  <2> QED BY <1>1, <2>1
<1>3. /\ f \in Seq(ActivationType) /\ Len(f) = n - 1 /\ \A i \in 1 .. n - 1 : f[i] = stack[i]
      /\ LoopsIn(f) \in Nat /\ LoopsIn(stack) = LoopsIn(f)
  BY <1>1, FrontProperties, LoopsFront DEF Typed, Top
<1>4. SubSeq(f, 1, Len(f) - 1) = g
  <2>1. n - 1 \in 0 .. n /\ n - 2 \in 0 .. n - 1 /\ Len(f) - 1 = n - 2
    BY <1>1, <1>3
  <2>2. SubSeq(SubSeq(stack, 1, n - 1), 1, n - 2) = SubSeq(stack, 1, n - 2)
    <3> HIDE DEF n
    <3> QED BY <2>1, PrefixOfPrefix DEF Typed, n
  <2> QED BY <2>1, <2>2
<1>5. stack' = Append(g, a)
  BY DEF HandlerEnds
<1> HIDE DEF f, g, a, n
<1>6. /\ stack' \in Seq(ActivationType) /\ Len(stack') = n - 1
      /\ \A i \in 1 .. n - 1 : stack'[i] = IF i < n - 1 THEN f[i] ELSE a
  <2>1. Len(f) >= 1
    BY <1>1, <1>3
  <2> DEFINE t == Append(SubSeq(f, 1, Len(f) - 1), a)
  <2>2. /\ t \in Seq(ActivationType) /\ Len(t) = Len(f)
        /\ \A i \in 1 .. Len(f) : t[i] = IF i < Len(f) THEN f[i] ELSE a
    BY <1>2, <1>3, <2>1, ReplaceLast
  <2>3. stack' = t
    BY <1>4, <1>5
  <2> HIDE DEF t
  <2> QED BY <1>3, <2>2, <2>3
<1>7. Top' = a
  BY <1>1, <1>6 DEF Top
<1>8. Nested'
  <2>1. Len(stack') >= 1 /\ stack'[1].kind = "main"
    <3>1. stack'[1].kind = stack[1].kind
      BY <1>1, <1>2, <1>3, <1>6
    <3> QED BY <1>1, <1>6, <3>1 DEF Nested
  <2>2. ASSUME NEW i \in 1 .. Len(stack')
        PROVE  /\ stack'[i].kind \in {"main", "handler"} <=> stack'[i].phase = "script"
               /\ stack'[i].kind = "handler" => i > 1 /\ stack'[i - 1].phase = "scan"
               /\ stack'[i].kind \in {"vwait", "update"} => i > 1 /\ stack'[i - 1].phase = "script"
               /\ stack'[i].phase = "scan" => stack'[i].te >= 1
    <3>1. /\ i \in 1 .. Len(stack)
          /\ i > 1 => stack'[i - 1] = stack[i - 1]
          /\ stack'[i].kind = stack[i].kind
          /\ stack'[i].phase = "script" <=> stack[i].phase = "script"
          /\ stack'[i] # stack[i] /\ stack'[i].phase = "scan" => stack'[i].te >= 1
      BY <1>1, <1>2, <1>3, <1>6 DEF n
    <3> QED BY <3>1 DEF Nested
  <2> QED BY <2>1, <2>2 DEF Nested
<1>9. Passes' = Passes
  <2>1. Passes = LoopsIn(stack) /\ Passes' = LoopsIn(stack')
    BY DEF Passes, LoopsIn
  <2>2. /\ g \in Seq(ActivationType) /\ LoopsIn(g) \in Nat
        /\ LoopsIn(f) = LoopsIn(g) + 1
    <3>1. Len(f) >= 1 /\ f[Len(f)] = below
      BY <1>1, <1>3 DEF n
    <3> QED BY <1>1, <1>3, <1>4, <3>1, LoopsFront
  <2>3. LoopsIn(stack') = LoopsIn(g) + 1
    BY <1>2, <1>5, <2>2, LoopsAppend
  <2> QED BY <1>3, <2>1, <2>2, <2>3
<1> QED BY <1>2, <1>6, <1>7, <1>8, <1>9

---------------------------------------------------------------------------
(* What the steps do to the queue *)

QueueOK == queue \in Seq(TimerType) /\ Len(queue) <= MaxTimers /\ Sorted /\ RipeIsDue

\* A timer is taken out.
LEMMA QueueRemoved ==
    ASSUME Typed, Nested, Sorted, RipeIsDue, NEW i \in 1 .. Len(queue),
           queue' = RemoveAt(queue, i)
    PROVE  QueueOK'
<1>1. /\ queue' \in Seq(TimerType) /\ Len(queue') = Len(queue) - 1
      /\ \A j \in 1 .. Len(queue) - 1 :
            queue'[j] = IF j < i THEN queue[j] ELSE queue[j + 1]
  BY RemoveAtProperties DEF Typed
<1>2. Len(queue) \in Nat
  BY Elements
<1>3. Sorted'
  <2>1. ASSUME NEW j \in 1 .. Len(queue'), NEW k \in 1 .. Len(queue'), j <= k
        PROVE  queue'[j].togo <= queue'[k].togo
    <3> DEFINE jj == IF j < i THEN j ELSE j + 1
               kk == IF k < i THEN k ELSE k + 1
    <3>1. /\ jj \in 1 .. Len(queue) /\ kk \in 1 .. Len(queue) /\ jj <= kk
          /\ queue'[j] = queue[jj] /\ queue'[k] = queue[kk]
      BY <1>1, <1>2, <2>1
    <3> HIDE DEF jj, kk
    <3> QED BY <3>1 DEF Sorted
  <2> QED BY <2>1 DEF Sorted
<1>4. RipeIsDue'
  <2>1. ASSUME NEW j \in 1 .. Len(queue')
        PROVE  \E k \in 1 .. Len(queue) : queue'[j] = queue[k]
    BY <1>1, <1>2
  <2> QED BY <2>1 DEF RipeIsDue
<1>5. Len(queue') <= MaxTimers
  BY <1>1, <1>2, LoopAssumption DEF Typed
<1> QED BY <1>1, <1>3, <1>4, <1>5 DEF QueueOK

\* A timer is put in its place.
LEMMA QueueInserted ==
    ASSUME Typed, Nested, Sorted, RipeIsDue, NEW us \in 0 .. MaxDelay,
           NEW t \in TimerType, t.togo = us, t.ripe = FALSE, Len(queue) < MaxTimers,
           queue' = InsertAt(queue, Place(us), t)
    PROVE  QueueOK'
<1> DEFINE p == Place(us)
<1>1. /\ p \in 1 .. Len(queue) + 1
      /\ \A i \in 1 .. Len(queue) : IF i < p THEN queue[i].togo <= us
                                    ELSE us < queue[i].togo
  BY PlaceProperties
<1> HIDE DEF p
<1>2. /\ queue' \in Seq(TimerType) /\ Len(queue') = Len(queue) + 1
      /\ \A j \in 1 .. Len(queue) + 1 :
            queue'[j] = IF j < p THEN queue[j] ELSE IF j = p THEN t ELSE queue[j - 1]
  <2>1. queue' = InsertAt(queue, p, t)
    BY DEF p
  <2>2. queue \in Seq(TimerType)
    BY DEF Typed
  <2> QED BY <1>1, <2>1, <2>2, InsertAtProperties, SMTT(30)
<1>3. Len(queue) \in Nat /\ us \in Nat /\ \A i \in 1 .. Len(queue) : queue[i].togo \in Nat
  <2>1. Len(queue) \in Nat /\ us \in Nat
    BY Elements, LoopAssumption
  <2>2. ASSUME NEW i \in 1 .. Len(queue) PROVE queue[i].togo \in Nat
    <3>1. queue[i] \in TimerType
      BY Elements
    <3> QED BY <3>1, LoopAssumption DEF TimerType
  <2> QED BY <2>1, <2>2
<1>4. Sorted'
  <2>1. ASSUME NEW j \in 1 .. Len(queue'), NEW k \in 1 .. Len(queue'), j <= k
        PROVE  queue'[j].togo <= queue'[k].togo
    <3>1. CASE j = p \/ k = p
      <4>1. CASE j = p /\ k = p
        BY <1>2, <1>3, <4>1
      <4>2. CASE j = p /\ k > p
        <5>1. k - 1 \in 1 .. Len(queue) /\ ~(k - 1 < p) /\ queue'[k] = queue[k - 1]
          BY <1>1, <1>2, <1>3, <4>2
        <5> QED BY <1>1, <1>2, <1>3, <4>2, <5>1
      <4>3. CASE j < p /\ k = p
        <5>1. j \in 1 .. Len(queue) /\ queue'[j] = queue[j]
          BY <1>1, <1>2, <1>3, <4>3
        <5> QED BY <1>1, <1>2, <1>3, <4>3, <5>1
      <4> QED BY <1>1, <1>3, <2>1, <3>1, <4>1, <4>2, <4>3
    <3>2. CASE j # p /\ k # p
      <4> DEFINE jj == IF j < p THEN j ELSE j - 1
                 kk == IF k < p THEN k ELSE k - 1
      <4>1. /\ jj \in 1 .. Len(queue) /\ kk \in 1 .. Len(queue) /\ jj <= kk
            /\ queue'[j] = queue[jj] /\ queue'[k] = queue[kk]
        BY <1>1, <1>2, <1>3, <2>1, <3>2
      <4> HIDE DEF jj, kk
      <4> QED BY <4>1 DEF Sorted
    <3> QED BY <3>1, <3>2
  <2> QED BY <2>1 DEF Sorted
<1>5. RipeIsDue'
  <2>1. ASSUME NEW j \in 1 .. Len(queue')
        PROVE  queue'[j] = t \/ \E k \in 1 .. Len(queue) : queue'[j] = queue[k]
    <3>1. CASE j < p
      BY <1>1, <1>2, <1>3, <3>1
    <3>2. CASE j = p
      BY <1>2, <3>2
    <3>3. CASE j > p
      <4>1. j - 1 \in 1 .. Len(queue) /\ queue'[j] = queue[j - 1]
        BY <1>1, <1>2, <1>3, <3>3
      <4> QED BY <4>1
    <3> QED BY <1>1, <1>2, <1>3, <3>1, <3>2, <3>3
  <2> QED BY <2>1 DEF RipeIsDue
<1>6. Len(queue') <= MaxTimers
  BY <1>2, <1>3, LoopAssumption
<1> QED BY <1>2, <1>4, <1>5, <1>6 DEF QueueOK

\* Every timer is changed where it is: aged, seen to be due, or nearer in time.
LEMMA QueueMapped ==
    ASSUME Typed, Nested, Sorted, DOMAIN queue' = 1 .. Len(queue),
           queue' = [i \in 1 .. Len(queue) |-> queue'[i]],
           \A i \in 1 .. Len(queue) : queue'[i] \in TimerType,
           \A i \in 1 .. Len(queue) : queue'[i].ripe => queue'[i].togo = 0,
           \A i, j \in 1 .. Len(queue) :
               queue[i].togo <= queue[j].togo => queue'[i].togo <= queue'[j].togo
    PROVE  QueueOK' /\ Len(queue') = Len(queue)
<1>1. Len(queue) \in Nat
  BY Elements
<1>2. queue' \in [1 .. Len(queue) -> TimerType]
  OBVIOUS
<1>3. queue' \in Seq(TimerType) /\ Len(queue') = Len(queue)
  BY <1>1, <1>2, FunctionIsSeq
<1>4. Sorted' /\ RipeIsDue'
  BY <1>3 DEF Sorted, RipeIsDue
<1> QED BY <1>3, <1>4 DEF QueueOK, Typed

---------------------------------------------------------------------------
(* The steps keep the invariant *)

\* What is left to show once the queue and the stack are well formed.
LEMMA InvFrom ==
    ASSUME QueueOK', stack' \in Seq(ActivationType), Nested', Passes' \in 0 .. MaxPasses,
           value' \in Vals \cup {Unset}, files' \in {"none", "idle", "ready"},
           Top'.phase = "sleep" => \A i \in 1 .. Len(queue') : Top'.sleep <= queue'[i].togo,
           Top'.phase = "scan" => \A i \in 1 .. Len(queue') :
               i < Top'.te /\ queue'[i].ripe => queue'[i].newTo >= Passes'
    PROVE  Inv'
<1>1. DOMAIN queue' = 1 .. Len(queue')
  BY LenProperties DEF QueueOK
<1>2. Typed' /\ Sorted' /\ RipeIsDue'
  BY LoopAssumption DEF Typed, QueueOK
<1>3. SleepsUntilNearest' /\ RunsInOrder'
  BY <1>1 DEF SleepsUntilNearest, RunsInOrder, At, IsNew
<1> QED BY <1>2, <1>3 DEF Inv

\* [vwait] or [update] returns: the timers that are new to it are new to the
\* passes under it.
LEMMA LeaveStep ==
    ASSUME Inv, Top.phase # "script", Leave
    PROVE  Inv'
<1>0. Typed /\ Nested /\ Sorted /\ RipeIsDue
  BY DEF Inv
<1>1. stack' \in Seq(ActivationType) /\ Nested' /\ Top'.phase = "script" /\ Passes' = Passes - 1
  BY <1>0, Popped DEF Leave
<1>2. /\ Passes - 1 \in 0 .. MaxPasses /\ DOMAIN queue = 1 .. Len(queue)
      /\ \A i \in 1 .. Len(queue) : queue[i] \in TimerType
  BY <1>0, Elements, LoopAssumption
<1>3. queue' = Aged(Passes - 1)
  BY DEF Leave
<1>4. ASSUME NEW i \in 1 .. Len(queue)
      PROVE  /\ queue'[i] \in TimerType /\ queue'[i].togo = queue[i].togo
             /\ queue'[i].ripe = queue[i].ripe
  <2>1. ASSUME NEW t \in TimerType, NEW k \in 0 .. MaxPasses
        PROVE  LET u == [t EXCEPT !.newTo = k]
               IN  u \in TimerType /\ u.togo = t.togo /\ u.ripe = t.ripe
    BY DEF TimerType
  <2>2. queue'[i] = IF queue[i].newTo > Passes - 1
                    THEN [queue[i] EXCEPT !.newTo = Passes - 1] ELSE queue[i]
    BY <1>2, <1>3 DEF Aged
  <2> QED BY <1>2, <2>1, <2>2
<1>5. DOMAIN queue' = 1 .. Len(queue) /\ queue' = [i \in 1 .. Len(queue) |-> queue'[i]]
  BY <1>2, <1>3 DEF Aged
<1>6. QueueOK'
  BY <1>0, <1>4, <1>5, QueueMapped DEF RipeIsDue
<1>7. value' \in Vals \cup {Unset} /\ files' \in {"none", "idle", "ready"}
  BY <1>0 DEF Leave, Typed
<1> QED BY <1>1, <1>2, <1>6, <1>7, InvFrom

\* A step that leaves the queue alone and moves the top of the stack from one
\* phase of a pass to the next.
LEMMA PhaseStep ==
    ASSUME Inv, NEW a \in ActivationType, Becomes(a), a.kind = Top.kind,
           Top.phase # "script", a.phase # "script", a.phase = "scan" => a.te >= 1,
           UNCHANGED <<queue, value, files>>,
           a.phase = "sleep" => \A i \in 1 .. Len(queue) : a.sleep <= queue[i].togo,
           a.phase = "scan" => \A i \in 1 .. Len(queue) :
               i < a.te /\ queue[i].ripe => queue[i].newTo >= Passes
    PROVE  Inv'
<1>0. Typed /\ Nested /\ Sorted /\ RipeIsDue
  BY DEF Inv
<1>1. stack' \in Seq(ActivationType) /\ Nested' /\ Top' = a /\ Passes' = Passes
  BY <1>0, Replaced
<1>2. QueueOK' /\ Passes' \in 0 .. MaxPasses
  BY <1>0, <1>1, Elements DEF QueueOK, Typed, Sorted, RipeIsDue
<1>3. value' \in Vals \cup {Unset} /\ files' \in {"none", "idle", "ready"}
  BY <1>0 DEF Typed
<1> QED BY <1>1, <1>2, <1>3, InvFrom

\* What scripts do.
LEMMA ScriptStep ==
    ASSUME Inv,
           \/ \E us \in 0..MaxDelay, marked \in BOOLEAN : After(us, marked)
           \/ \E i \in DOMAIN queue : Cancel(i)
           \/ \E v \in Vals \cup {Unset} : SetVariable(v)
           \/ FileHandler \/ FileReady \/ Vwait \/ Update
    PROVE  Inv'
<1>0. Typed /\ Nested /\ Sorted /\ RipeIsDue
  BY DEF Inv
<1>1. /\ DOMAIN queue = 1 .. Len(queue) /\ Passes \in 0 .. MaxPasses
      /\ value \in Vals \cup {Unset} /\ files \in {"none", "idle", "ready"}
      /\ stack \in Seq(ActivationType)
  BY <1>0, Elements DEF Typed
<1>2. ASSUME QueueOK', UNCHANGED <<stack, value, files>>, Running PROVE Inv'
  <2>1. Nested' /\ Top' = Top /\ Passes' = Passes /\ Top.phase = "script"
    BY <1>0, <1>2 DEF Nested, Top, Passes, Running
  <2> QED BY <1>1, <1>2, <2>1, InvFrom
<1>3. ASSUME NEW us \in 0..MaxDelay, NEW marked \in BOOLEAN, After(us, marked) PROVE Inv'
  <2> DEFINE t == Timer(us, Passes, marked)
  <2>1. t \in TimerType /\ t.togo = us /\ t.ripe = FALSE
    BY <1>1 DEF Timer, TimerType
  <2>2. Len(queue) < MaxTimers /\ queue' = InsertAt(queue, Place(us), t)
    BY <1>3 DEF After
  <2> HIDE DEF t
  <2>3. QueueOK'
    BY <1>0, <2>1, <2>2, QueueInserted
  <2> QED BY <1>2, <1>3, <2>3 DEF After
<1>4. ASSUME NEW i \in DOMAIN queue, Cancel(i) PROVE Inv'
  <2>1. QueueOK'
    BY <1>0, <1>1, <1>4, QueueRemoved DEF Cancel
  <2> QED BY <1>2, <1>4, <2>1 DEF Cancel
<1>5. ASSUME UNCHANGED <<queue, stack>>, value' \in Vals \cup {Unset},
             files' \in {"none", "idle", "ready"}
      PROVE  Inv'
  BY <1>5 DEF Inv, Typed, Nested, Sorted, RipeIsDue, SleepsUntilNearest, RunsInOrder, At, Top,
              IsNew, Passes
<1>6. CASE FileHandler \/ FileReady \/ \E v \in Vals \cup {Unset} : SetVariable(v)
  BY <1>1, <1>5, <1>6 DEF FileHandler, FileReady, SetVariable
<1>7. CASE Vwait \/ Update
  <2>1. PICK kind \in {"vwait", "update"} : Wait(kind)
    BY <1>7 DEF Vwait, Update
  <2> DEFINE a == Loop(kind)
  <2>2. a \in ActivationType /\ a.kind = kind /\ a.phase = "begin"
    <3> DEFINE b == [Main EXCEPT !.kind = kind]
               c == [b EXCEPT !.old = value]
    <3>1. b \in ActivationType /\ b.kind = kind
      BY MainType, <2>1 DEF ActivationType
    <3>2. c \in ActivationType /\ c.kind = kind
      <4> HIDE DEF b
      <4> QED BY <1>1, <3>1 DEF ActivationType
    <3>3. a = [c EXCEPT !.phase = "begin"]
      BY DEF Loop
    <3> HIDE DEF c, a
    <3> QED BY <3>2, <3>3 DEF ActivationType
  <2>3. stack' = Append(stack, a) /\ Top.phase = "script" /\ Passes < MaxPasses
        /\ UNCHANGED <<queue, value, files>>
    BY <2>1 DEF Wait, Running
  <2> HIDE DEF a
  <2>4. /\ stack' \in Seq(ActivationType) /\ Nested' /\ Top' = a /\ Passes' = Passes + 1
    BY <1>0, <2>2, <2>3, Pushed
  <2>5. QueueOK' /\ Passes' \in 0 .. MaxPasses
    BY <1>0, <1>1, <2>3, <2>4, LoopAssumption DEF QueueOK, Typed, Sorted, RipeIsDue
  <2> QED BY <1>1, <2>2, <2>3, <2>4, <2>5, InvFrom
<1> QED BY <1>3, <1>4, <1>6, <1>7

\* The passes of the loops, the ends of their timers, and the clock.
LEMMA LoopStep ==
    ASSUME Inv, Process \/ HandlerEnds \/ Tick
    PROVE  Inv'
<1>0. Typed /\ Nested /\ Sorted /\ RipeIsDue
  BY DEF Inv
<1>1. /\ Len(queue) \in Nat /\ DOMAIN queue = 1 .. Len(queue) /\ Passes \in 0 .. MaxPasses
      /\ \A i \in 1 .. Len(queue) : queue[i] \in TimerType
      /\ \A i \in 1 .. Len(queue) : queue[i].togo \in Nat
      /\ value \in Vals \cup {Unset} /\ files \in {"none", "idle", "ready"}
      /\ stack \in Seq(ActivationType) /\ Top \in ActivationType
  <2>1. \A i \in 1 .. Len(queue) : queue[i] \in TimerType
    BY <1>0, Elements
  <2>2. \A i \in 1 .. Len(queue) : queue[i].togo \in Nat
    BY <2>1, LoopAssumption DEF TimerType
  <2> QED BY <1>0, <2>1, <2>2, Elements DEF Typed
<1>2. ASSUME At("begin") \/ At("sleep") \/ At("scan") PROVE Top.phase # "script"
  BY <1>2 DEF At
<1>3. CASE NothingToWaitFor
  BY <1>2, <1>3, LeaveStep DEF NothingToWaitFor
<1>4. CASE BeginPass
  <2> DEFINE us == IF Top.kind = "vwait" /\ queue # <<>> THEN Head(queue).togo ELSE 0
             b == [Top EXCEPT !.phase = "sleep"]
             a == [b EXCEPT !.sleep = us]
  <2>1. us \in 0 .. MaxDelay /\ \A i \in 1 .. Len(queue) : us <= queue[i].togo
    <3>1. CASE us = 0
      BY <1>1, <3>1, LoopAssumption
    <3>2. CASE us # 0
      <4>1. Len(queue) >= 1 /\ us = queue[1].togo
        BY <1>1, <3>2, EmptySeq DEF Typed
      <4>2. queue[1] \in TimerType
        BY <1>1, <4>1
      <4> QED BY <1>0, <1>1, <4>1, <4>2 DEF Sorted, TimerType
    <3> QED BY <3>1, <3>2
  <2> HIDE DEF us
  <2>2. b \in ActivationType /\ b.kind = Top.kind /\ b.phase = "sleep"
    BY <1>1 DEF ActivationType
  <2>3. a \in ActivationType /\ a.kind = Top.kind /\ a.phase = "sleep" /\ a.sleep = us
    <3> HIDE DEF b
    <3> QED BY <2>1, <2>2 DEF ActivationType
  <2>4. Becomes(a) /\ UNCHANGED <<queue, value, files>> /\ Top.phase # "script"
    BY <1>2, <1>4 DEF BeginPass, us, At
  <2> HIDE DEF a
  <2> QED BY <2>1, <2>3, <2>4, PhaseStep
<1>5. CASE BeginScan
  <2> DEFINE b == [Top EXCEPT !.phase = "scan"]
             a == [b EXCEPT !.te = 1]
             q == Aged(Passes - 1)
  <2>1. b \in ActivationType /\ b.kind = Top.kind /\ b.phase = "scan"
    BY <1>1 DEF ActivationType
  <2>2. a \in ActivationType /\ a.kind = Top.kind /\ a.phase = "scan" /\ a.te = 1
    <3> HIDE DEF b
    <3> QED BY <2>1, LoopAssumption DEF ActivationType
  <2>3. Becomes(a) /\ Top.phase # "script" /\ queue' = Ripened(q) /\ UNCHANGED <<value, files>>
    BY <1>2, <1>5 DEF BeginScan
  <2> HIDE DEF a
  <2>4. stack' \in Seq(ActivationType) /\ Nested' /\ Top' = a /\ Passes' = Passes
    BY <1>0, <2>2, <2>3, Replaced
  <2>5. Passes - 1 \in 0 .. MaxPasses
    BY <1>0, <1>1, <2>3, Elements, LoopAssumption
  <2>6. ASSUME NEW i \in 1 .. Len(queue)
        PROVE  /\ queue'[i] \in TimerType /\ queue'[i].togo = queue[i].togo
               /\ queue'[i].ripe => queue'[i].togo = 0
    <3>1. ASSUME NEW t \in TimerType, NEW k \in 0 .. MaxPasses
          PROVE  LET u == [t EXCEPT !.newTo = k]
                 IN  u \in TimerType /\ u.togo = t.togo
      BY DEF TimerType
    <3>2. q[i] \in TimerType /\ q[i].togo = queue[i].togo
      BY <1>1, <2>5, <3>1 DEF Aged
    <3>3. ASSUME NEW t \in TimerType
          PROVE  LET u == [t EXCEPT !.ripe = (t.togo = 0)]
                 IN  u \in TimerType /\ u.togo = t.togo /\ (u.ripe => u.togo = 0)
      BY DEF TimerType
    <3>4. queue'[i] = [q[i] EXCEPT !.ripe = (q[i].togo = 0)]
      BY <1>1, <2>3 DEF Ripened, Aged
    <3> HIDE DEF q
    <3> QED BY <3>2, <3>3, <3>4
  <2>7. DOMAIN queue' = 1 .. Len(queue) /\ queue' = [i \in 1 .. Len(queue) |-> queue'[i]]
    BY <1>1, <2>3 DEF Ripened, Aged
  <2>8. QueueOK' /\ Len(queue') = Len(queue)
    BY <1>0, <2>6, <2>7, QueueMapped
  <2>9. \A i \in 1 .. Len(queue') : ~(i < Top'.te)
    BY <1>1, <2>2, <2>4, <2>8
  <2> QED BY <1>1, <2>2, <2>3, <2>4, <2>8, <2>9, InvFrom
<1>6. CASE Skip
  <2> DEFINE a == [Top EXCEPT !.te = @ + 1]
  <2>1. Top.phase = "scan" /\ Top.te <= Len(queue) /\ Top.te \in 0 .. (MaxTimers + 1)
    BY <1>1, <1>6 DEF Skip, Scanning, At, ActivationType
  <2>2. /\ a \in ActivationType /\ a.kind = Top.kind /\ a.phase = "scan"
        /\ a.te = Top.te + 1 /\ a.te >= 1
    <3>1. Top.te + 1 \in 0 .. (MaxTimers + 1)
      BY <1>0, <1>1, <2>1, LoopAssumption DEF Typed
    <3> QED BY <1>1, <2>1, <3>1 DEF ActivationType
  <2>3. Becomes(a) /\ UNCHANGED <<queue, value, files>>
        /\ (queue[Top.te].newTo >= Passes \/ queue[Top.te].togo > 0)
    BY <1>6 DEF Skip, Scanned, IsNew
  <2>4. ASSUME NEW i \in 1 .. Len(queue), i < a.te, queue[i].ripe
        PROVE  queue[i].newTo >= Passes
    <3>1. CASE i < Top.te
      BY <1>1, <2>1, <2>4, <3>1 DEF Inv, RunsInOrder, At, IsNew
    <3>2. CASE i = Top.te
      <4>1. queue[i].togo = 0
        BY <1>0, <2>4 DEF RipeIsDue
      <4> QED BY <2>3, <3>2, <4>1
    <3>3. i < Top.te \/ i = Top.te
      BY <2>1, <2>2, <2>4
    <3> QED BY <3>1, <3>2, <3>3
  <2> HIDE DEF a
  <2> QED BY <2>1, <2>2, <2>3, <2>4, PhaseStep
<1>7. CASE Fire
  <2>1. /\ Top.phase = "scan" /\ Top.te <= Len(queue) /\ stack' = Append(stack, Handler)
        /\ Top.te \in 1 .. Len(queue) /\ queue' = RemoveAt(queue, Top.te)
        /\ UNCHANGED <<value, files>>
    <3>1. Top.te >= 1 /\ Top.te \in Nat
      BY <1>0, <1>1, <1>7, Elements, LoopAssumption DEF Fire, Scanning, At, ActivationType
    <3> QED BY <1>1, <1>7, <3>1 DEF Fire, Scanning, At
  <2>2. Handler \in ActivationType /\ Handler.kind = "handler" /\ Handler.phase = "script"
    BY MainType
  <2>3. stack' \in Seq(ActivationType) /\ Nested' /\ Top' = Handler /\ Passes' = Passes
    BY <1>0, <1>1, <2>1, <2>2, Pushed
  <2>4. QueueOK'
    BY <1>0, <2>1, QueueRemoved
  <2> QED BY <1>1, <2>1, <2>2, <2>3, <2>4, InvFrom
<1>8. ASSUME NEW signalled \in BOOLEAN, EndPass(signalled) PROVE Inv'
  <2>1. CASE Again /\ ~signalled
    <3> DEFINE c == [Top EXCEPT !.phase = "begin"]
               b == [c EXCEPT !.te = 0]
               a == [b EXCEPT !.processed = FALSE]
    <3>1. c \in ActivationType /\ c.kind = Top.kind /\ c.phase = "begin"
      BY <1>1 DEF ActivationType
    <3>2. b \in ActivationType /\ b.kind = Top.kind /\ b.phase = "begin"
      <4> HIDE DEF c
      <4> QED BY <3>1, LoopAssumption DEF ActivationType
    <3>3. a \in ActivationType /\ a.kind = Top.kind /\ a.phase = "begin"
      <4> HIDE DEF b
      <4> QED BY <3>2 DEF ActivationType
    <3>4. Becomes(a) /\ UNCHANGED <<queue, value, files>> /\ Top.phase # "script"
      BY <1>2, <1>8, <2>1 DEF EndPass
    <3> HIDE DEF a
    <3> QED BY <3>3, <3>4, PhaseStep
  <2>2. CASE ~(Again /\ ~signalled)
    BY <1>2, <1>8, <2>2, LeaveStep DEF EndPass
  <2> QED BY <2>1, <2>2
<1>9. ASSUME queue' = Ripened(queue), stack' \in Seq(ActivationType), Nested', Passes' = Passes,
             Top'.phase = "scan" /\ Top'.te = 1, UNCHANGED <<value, files>>
      PROVE  Inv'
  <2>1. ASSUME NEW i \in 1 .. Len(queue)
        PROVE  /\ queue'[i] \in TimerType /\ queue'[i].togo = queue[i].togo
               /\ queue'[i].ripe => queue'[i].togo = 0
    <3>1. ASSUME NEW t \in TimerType
          PROVE  LET u == [t EXCEPT !.ripe = (t.togo = 0)]
                 IN  u \in TimerType /\ u.togo = t.togo /\ (u.ripe => u.togo = 0)
      BY DEF TimerType
    <3>2. queue'[i] = [queue[i] EXCEPT !.ripe = (queue[i].togo = 0)]
      BY <1>1, <1>9 DEF Ripened
    <3> QED BY <1>1, <3>1, <3>2
  <2>2. DOMAIN queue' = 1 .. Len(queue) /\ queue' = [i \in 1 .. Len(queue) |-> queue'[i]]
    BY <1>1, <1>9 DEF Ripened
  <2>3. QueueOK' /\ Len(queue') = Len(queue)
    BY <1>0, <2>1, <2>2, QueueMapped
  <2>4. \A i \in 1 .. Len(queue') : ~(i < Top'.te)
    BY <1>1, <1>9, <2>3
  <2> QED BY <1>1, <1>9, <2>3, <2>4, InvFrom
<1>10. CASE HandlerEnds
  BY <1>0, <1>9, <1>10, Returned DEF HandlerEnds
<1>11. CASE Tick
  <2> DEFINE a == [Top EXCEPT !.sleep = Down(@)]
  <2>1. \A n \in 0 .. MaxDelay : Down(n) \in 0 .. MaxDelay
    BY LoopAssumption DEF Down
  <2>2. \A m, n \in Nat : m <= n => Down(m) <= Down(n)
    BY DEF Down
  <2>3. /\ a \in ActivationType /\ a.kind = Top.kind /\ a.phase = Top.phase
        /\ a.te = Top.te /\ a.sleep = Down(Top.sleep) /\ Top.sleep \in Nat
    BY <1>1, <2>1, LoopAssumption, SMTT(30) DEF ActivationType
  <2>12. Top.phase = "scan" => Top.te >= 1
    BY <1>0, Elements
  <2>4. Becomes(a) /\ UNCHANGED <<value, files>>
        /\ queue' = [i \in DOMAIN queue |-> [queue[i] EXCEPT !.togo = Down(@)]]
    BY <1>11 DEF Tick
  <2> HIDE DEF a
  <2>5. stack' \in Seq(ActivationType) /\ Nested' /\ Top' = a /\ Passes' = Passes
    BY <1>0, <2>3, <2>4, <2>12, Replaced
  <2>6. ASSUME NEW i \in 1 .. Len(queue)
        PROVE  /\ queue'[i] \in TimerType /\ queue'[i].togo = Down(queue[i].togo)
               /\ queue'[i].ripe = queue[i].ripe /\ queue'[i].newTo = queue[i].newTo
    <3>1. ASSUME NEW t \in TimerType
          PROVE  LET u == [t EXCEPT !.togo = Down(@)]
                 IN  /\ u \in TimerType /\ u.togo = Down(t.togo)
                     /\ u.ripe = t.ripe /\ u.newTo = t.newTo
      BY <2>1 DEF TimerType
    <3>2. queue'[i] = [queue[i] EXCEPT !.togo = Down(@)]
      BY <1>1, <2>4
    <3> QED BY <1>1, <3>1, <3>2
  <2>7. DOMAIN queue' = 1 .. Len(queue) /\ queue' = [i \in 1 .. Len(queue) |-> queue'[i]]
    BY <1>1, <2>4
  <2>8. QueueOK' /\ Len(queue') = Len(queue)
    <3>1. \A i \in 1 .. Len(queue) : queue'[i].ripe => queue'[i].togo = 0
      BY <1>0, <2>6 DEF RipeIsDue, Down
    <3>2. \A i, j \in 1 .. Len(queue) :
              queue[i].togo <= queue[j].togo => queue'[i].togo <= queue'[j].togo
      BY <1>1, <2>2, <2>6
    <3> QED BY <1>0, <2>6, <2>7, <3>1, <3>2, QueueMapped
  <2>9. Top'.phase = "sleep" => \A i \in 1 .. Len(queue') : Top'.sleep <= queue'[i].togo
    BY <1>1, <2>2, <2>3, <2>5, <2>6, <2>8 DEF Inv, SleepsUntilNearest, At
  <2>10. Top'.phase = "scan" => \A i \in 1 .. Len(queue') :
            i < Top'.te /\ queue'[i].ripe => queue'[i].newTo >= Passes'
    BY <1>1, <2>3, <2>5, <2>6, <2>8 DEF Inv, RunsInOrder, At, IsNew
  <2> QED BY <1>1, <2>4, <2>5, <2>8, <2>9, <2>10, InvFrom
<1> QED BY <1>3, <1>4, <1>5, <1>6, <1>7, <1>8, <1>10, <1>11 DEF Process

\* The invariant holds at start.
LEMMA InitInv == Init => Inv
<1> SUFFICES ASSUME Init PROVE Inv
  OBVIOUS
<1>1. Main \in ActivationType /\ Main.kind = "main" /\ Main.phase = "script"
  BY MainType
<1>2. stack = <<Main>> /\ stack \in Seq(ActivationType) /\ Len(stack) = 1 /\ stack[1] = Main
  BY <1>1 DEF Init
<1>3. queue = <<>> /\ queue \in Seq(TimerType) /\ Len(queue) = 0
  BY EmptySeq DEF Init
<1>4. Nested /\ Top = Main
  BY <1>1, <1>2 DEF Nested, Top
<1>5. Passes = 0
  <2>1. {i \in DOMAIN stack : stack[i].phase # "script"} = {}
    BY <1>1, <1>2
  <2> QED BY <2>1, FS_EmptySet DEF Passes
<1>6. Typed /\ Sorted /\ RipeIsDue
  BY <1>2, <1>3, <1>5, LoopAssumption DEF Typed, Sorted, RipeIsDue, Init
<1>7. SleepsUntilNearest /\ RunsInOrder
  BY <1>1, <1>4 DEF SleepsUntilNearest, RunsInOrder, At
<1> QED BY <1>4, <1>6, <1>7 DEF Inv

\* The inductive invariant: the queue is sorted, loops and scripts alternate on
\* the stack, and what a scan has passed by was new to it or not due.
THEOREM Invariant == Spec => []Inv
<1>1. Inv /\ [Next]_vars => Inv'
  <2> SUFFICES ASSUME Inv, [Next]_vars PROVE Inv'
    OBVIOUS
  <2>1. CASE Next
    BY <2>1, ScriptStep, LoopStep DEF Next
  <2>2. CASE UNCHANGED vars
    BY <2>2 DEF vars, Inv, Typed, Nested, Sorted, RipeIsDue, SleepsUntilNearest,
                RunsInOrder, At, Top, IsNew, Passes
  <2> QED BY <2>1, <2>2
<1> QED BY InitInv, <1>1, PTL DEF Spec

\* The state of the event loop is well typed in every execution, and no more
\* timers are queued or passes begun than there may be.
THEOREM TypeCorrect == Spec => []TypeOK
<1>1. Inv => TypeOK
  <2> SUFFICES ASSUME Inv PROVE TypeOK
    OBVIOUS
  <2>1. Typed /\ Nested
    BY DEF Inv
  <2>2. \A i \in DOMAIN queue : queue[i] \in TimerType
    BY <2>1, Elements
  <2>3. \A i \in DOMAIN stack : stack[i] \in ActivationType
    BY <2>1, LenProperties, ElementOfSeq DEF Typed
  <2> QED BY <2>1, <2>2, <2>3 DEF TypeOK, Typed, TimerType, ActivationType
<1> QED BY Invariant, <1>1, PTL

\* Jim_CreateTimeHandler keeps the nearest timer at the head, whatever is added,
\* cancelled or run by nested loops: a loop that sleeps wakes up in time for the
\* first timer of all.
THEOREM SleepIsShortEnough == Spec => []SleepsUntilNearest
<1>1. Inv => SleepsUntilNearest
  BY DEF Inv
<1> QED BY Invariant, <1>1, PTL

\* Jim_ProcessEvents: a scan passes by no timer that was due when it started at
\* the head, except those created during the pass, for any number of timers and
\* any nesting of loops in their scripts.
THEOREM TimersRunInOrder == Spec => []RunsInOrder
<1>1. Inv => RunsInOrder
  BY DEF Inv
<1> QED BY Invariant, <1>1, PTL
---------------------------------------------------------------------------
(* The work of a pass *)

\* The timers that the k-th pass may run: the others are new to it.
Old(q, k) == {i \in 1 .. Len(q) : q[i].newTo < k}
Work(k) == Cardinality(Old(queue, k))
\* A timer that was created since the k-th pass began.
NewFor(t, k) == t.newTo \in Nat /\ t.newTo >= k

\* No step gives a pass that has read maxId more timers to run, and each one it runs is
\* one less.
PassesShrink ==
    \A k \in 1 .. Passes :
        k <= Passes' /\ ~(BeginScan /\ k = Passes) =>
            /\ Work(k)' <= Work(k)
            /\ Fire /\ k = Passes => Work(k)' < Work(k)

\* They are some of the positions of the queue.
LEMMA OldIs ==
    ASSUME NEW q \in Seq(TimerType), NEW k \in Nat
    PROVE  /\ IsFiniteSet(Old(q, k)) /\ Cardinality(Old(q, k)) \in Nat
           /\ Len(q) \in Nat /\ \A i \in 1 .. Len(q) : q[i] \in TimerType /\ q[i].newTo \in Nat
<1>1. Len(q) \in Nat /\ \A i \in 1 .. Len(q) : q[i] \in TimerType
  BY LenProperties, ElementOfSeq
<1>2. \A i \in 1 .. Len(q) : q[i].newTo \in Nat
  BY <1>1, LoopAssumption DEF TimerType
<1>3. IsFiniteSet(1 .. Len(q))
  BY <1>1, FS_Interval
<1>4. Old(q, k) \in SUBSET (1 .. Len(q))
  BY DEF Old
<1>5. IsFiniteSet(Old(q, k))
  BY <1>3, <1>4, FS_Subset
<1> QED
  BY <1>1, <1>2, <1>5, FS_CardinalityType

\* The timers stay where they are, and none becomes older.
LEMMA WorkKept ==
    ASSUME NEW q \in Seq(TimerType), NEW k \in Nat, NEW r, Len(r) = Len(q),
           \A i \in 1 .. Len(q) : r[i].newTo < k => q[i].newTo < k
    PROVE  Cardinality(Old(r, k)) <= Cardinality(Old(q, k))
<1>1. Old(r, k) \in SUBSET Old(q, k)
  BY DEF Old
<1> QED
  BY <1>1, OldIs, FS_Subset

\* A timer is taken out.
LEMMA WorkRemoved ==
    ASSUME NEW q \in Seq(TimerType), NEW k \in Nat, NEW i \in 1 .. Len(q)
    PROVE  /\ Cardinality(Old(RemoveAt(q, i), k)) <= Cardinality(Old(q, k))
           /\ q[i].newTo < k => Cardinality(Old(RemoveAt(q, i), k)) < Cardinality(Old(q, k))
<1> DEFINE r == RemoveAt(q, i)
           f == [j \in Old(r, k) |-> IF j < i THEN j ELSE j + 1]
<1>1. /\ r \in Seq(TimerType) /\ Len(r) = Len(q) - 1
      /\ \A j \in 1 .. Len(q) - 1 : r[j] = IF j < i THEN q[j] ELSE q[j + 1]
  BY RemoveAtProperties
<1>2. /\ Len(q) \in Nat /\ IsFiniteSet(Old(q, k)) /\ Cardinality(Old(q, k)) \in Nat
      /\ \A j \in 1 .. Len(q) : q[j].newTo \in Nat
  BY OldIs
<1>3. Cardinality(Old(r, k)) \in Nat
  BY <1>1, OldIs
<1> HIDE DEF r
<1>4. ASSUME NEW j \in Old(r, k)
      PROVE  f[j] \in Old(q, k) /\ f[j] # i
  <2>1. j \in 1 .. Len(q) - 1 /\ r[j].newTo < k
    BY <1>1 DEF Old
  <2>2. CASE j < i
    BY <1>1, <1>2, <2>1, <2>2 DEF Old
  <2>3. CASE ~(j < i)
    BY <1>1, <1>2, <2>1, <2>3 DEF Old
  <2> QED
    BY <2>2, <2>3
<1>5. \A j, l \in Old(r, k) : f[j] = f[l] => j = l
  BY <1>1, <1>2 DEF Old
<1>6. f \in Injection(Old(r, k), Old(q, k))
  <2>1. f \in [Old(r, k) -> Old(q, k)]
    BY <1>4
  <2> HIDE DEF f
  <2> QED
    BY <1>5, <2>1 DEF Injection, IsInjective
<1>7. ASSUME q[i].newTo < k
      PROVE  f \notin Surjection(Old(r, k), Old(q, k))
  <2>1. i \in Old(q, k)
    BY <1>7 DEF Old
  <2> HIDE DEF f
  <2> QED
    BY <1>4, <2>1 DEF Surjection
<1> HIDE DEF f
<1>8. /\ Cardinality(Old(r, k)) <= Cardinality(Old(q, k))
      /\ Cardinality(Old(r, k)) = Cardinality(Old(q, k)) <=> f \in Surjection(Old(r, k), Old(q, k))
  BY <1>2, <1>6, FS_Injection
<1> QED
  BY <1>2, <1>3, <1>7, <1>8 DEF r

\* A timer is put in that is new to the pass.
LEMMA WorkInserted ==
    ASSUME NEW q \in Seq(TimerType), NEW k \in Nat, NEW i \in 1 .. Len(q) + 1,
           NEW e \in TimerType, NewFor(e, k)
    PROVE  Cardinality(Old(InsertAt(q, i, e), k)) <= Cardinality(Old(q, k))
<1> DEFINE r == InsertAt(q, i, e)
           f == [j \in Old(r, k) |-> IF j < i THEN j ELSE j - 1]
<1>1. /\ r \in Seq(TimerType) /\ Len(r) = Len(q) + 1
      /\ \A j \in 1 .. Len(q) + 1 :
            r[j] = IF j < i THEN q[j] ELSE IF j = i THEN e ELSE q[j - 1]
  <2>1. e \in TimerType /\ q \in Seq(TimerType) /\ i \in 1 .. Len(q) + 1
    OBVIOUS
  <2> QED
    BY <2>1, InsertAtProperties, SMTT(30)
<1>2. Len(q) \in Nat /\ IsFiniteSet(Old(q, k)) /\ ~(e.newTo < k)
  <2>1. Len(q) \in Nat /\ IsFiniteSet(Old(q, k))
    BY OldIs, Zenon
  <2>2. ~(e.newTo < k)
    BY DEF NewFor
  <2> QED
    BY <2>1, <2>2
<1> HIDE DEF r
<1>3. ASSUME NEW j \in Old(r, k)
      PROVE  f[j] \in Old(q, k) /\ j # i
  <2>1. j \in 1 .. Len(q) + 1 /\ r[j].newTo < k
    BY <1>1 DEF Old
  <2>2. j # i
    BY <1>1, <1>2, <2>1
  <2>3. CASE j < i
    BY <1>1, <1>2, <2>1, <2>3 DEF Old
  <2>4. CASE ~(j < i)
    BY <1>1, <1>2, <2>1, <2>2, <2>4 DEF Old
  <2> QED
    BY <2>2, <2>3, <2>4
<1>4. \A j, l \in Old(r, k) : f[j] = f[l] => j = l
  <2>1. \A j \in Old(r, k) : j \in Int /\ j # i
    BY <1>1, <1>2, <1>3 DEF Old
  <2> QED
    BY <2>1, <1>2
<1>5. f \in Injection(Old(r, k), Old(q, k))
  <2>1. f \in [Old(r, k) -> Old(q, k)]
    BY <1>3
  <2> HIDE DEF f
  <2> QED
    BY <1>4, <2>1 DEF Injection, IsInjective
<1> HIDE DEF f
<1> QED
  BY <1>2, <1>5, FS_Injection DEF r

\* No step gives a pass that has begun anything to do, and a timer that it runs is one less.
LEMMA WorkStep ==
    ASSUME Inv, [Next]_vars, NEW k \in 1 .. Passes, k <= Passes', ~(BeginScan /\ k = Passes)
    PROVE  Work(k)' <= Work(k) /\ (Fire /\ k = Passes => Work(k)' < Work(k))
<1>1. /\ Typed /\ Nested /\ Sorted /\ queue \in Seq(TimerType) /\ k \in Nat
      /\ DOMAIN queue = 1 .. Len(queue) /\ Passes \in 0 .. MaxPasses /\ k <= Passes
  BY Elements DEF Inv, Typed
<1>2. /\ Work(k) = Cardinality(Old(queue, k)) /\ Work(k)' = Cardinality(Old(queue', k))
      /\ Work(k) \in Nat /\ Len(queue) \in Nat
      /\ \A i \in 1 .. Len(queue) : queue[i] \in TimerType /\ queue[i].newTo \in Nat
  BY <1>1, OldIs DEF Work
<1>3. ASSUME Len(queue') = Len(queue),
             \A i \in 1 .. Len(queue) : queue'[i].newTo < k => queue[i].newTo < k
      PROVE  Work(k)' <= Work(k)
  BY <1>1, <1>2, <1>3, WorkKept
<1>4. Fire => \A i \in 1 .. Len(queue) : ~(i = Top.te) \/ queue[i].newTo < Passes
  BY <1>1, <1>2 DEF Fire, IsNew, Scanned
<1>5. CASE Fire
  <2>1. Top.te \in 1 .. Len(queue) /\ queue' = RemoveAt(queue, Top.te)
    <3>1. Top.te >= 1 /\ Top.te \in Nat
      BY <1>1, <1>5, Elements, LoopAssumption DEF Fire, Scanning, At, ActivationType
    <3> QED
      BY <1>2, <1>5, <3>1 DEF Fire, Scanning
  <2>2. k = Passes => queue[Top.te].newTo < k
    BY <1>4, <1>5, <2>1
  <2> QED
    BY <1>1, <1>2, <2>1, <2>2, WorkRemoved
<1>6. ASSUME NEW i \in DOMAIN queue, Cancel(i)
      PROVE  Work(k)' <= Work(k)
  BY <1>1, <1>2, <1>6, WorkRemoved DEF Cancel
<1>7. ASSUME NEW us \in 0..MaxDelay, NEW marked \in BOOLEAN, After(us, marked)
      PROVE  Work(k)' <= Work(k)
  <2> DEFINE t == Timer(us, Passes, marked)
  <2>1. t \in TimerType /\ NewFor(t, k)
    BY <1>1, LoopAssumption DEF Timer, TimerType, NewFor
  <2>2. queue' = InsertAt(queue, Place(us), t) /\ Place(us) \in 1 .. Len(queue) + 1
    BY <1>1, <1>7, PlaceProperties DEF After
  <2> HIDE DEF t
  <2> QED
    BY <1>1, <1>2, <2>1, <2>2, WorkInserted
<1>8. ASSUME queue' = queue
      PROVE  Work(k)' <= Work(k)
  BY <1>3, <1>8
<1>9. \A l \in Nat : k <= l =>
          /\ Len(Aged(l)) = Len(queue)
          /\ \A i \in 1 .. Len(queue) : Aged(l)[i].newTo < k => queue[i].newTo < k
  <2>1. SUFFICES ASSUME NEW l \in Nat, k <= l
                 PROVE  /\ Len(Aged(l)) = Len(queue)
                        /\ \A i \in 1 .. Len(queue) : Aged(l)[i].newTo < k => queue[i].newTo < k
    OBVIOUS
  <2>2. Len(Aged(l)) = Len(queue)
    BY <1>1, <1>2, FunctionIsSeq, LenProperties DEF Aged
  <2>3. ASSUME NEW i \in 1 .. Len(queue), Aged(l)[i].newTo < k
        PROVE  queue[i].newTo < k
    <3>1. Aged(l)[i] = IF queue[i].newTo > l THEN [queue[i] EXCEPT !.newTo = l] ELSE queue[i]
      BY <1>1 DEF Aged
    <3>2. CASE queue[i].newTo > l
      <4>1. Aged(l)[i].newTo = l
        BY <1>2, <3>1, <3>2 DEF TimerType
      <4> QED
        BY <1>1, <2>1, <2>3, <4>1
    <3>3. CASE ~(queue[i].newTo > l)
      BY <2>3, <3>1, <3>3
    <3> QED
      BY <3>2, <3>3
  <2> QED
    BY <2>2, <2>3
<1>10. ASSUME Leave, Top.phase # "script"
       PROVE  Work(k)' <= Work(k)
  <2>1. Passes' = Passes - 1 /\ queue' = Aged(Passes - 1)
    BY <1>1, <1>10, Popped DEF Leave
  <2>2. Passes - 1 \in Nat /\ k <= Passes - 1
    BY <1>1, <2>1
  <2> QED
    BY <1>3, <1>9, <2>1, <2>2
<1>11. ASSUME NEW q, DOMAIN q = 1 .. Len(queue), queue' = Ripened(q),
              \A i \in 1 .. Len(queue) : q[i] \in TimerType /\ (q[i].newTo < k => queue[i].newTo < k)
       PROVE  Work(k)' <= Work(k)
  <2>1. Len(queue') = Len(queue)
    BY <1>2, <1>11 DEF Ripened
  <2>2. ASSUME NEW i \in 1 .. Len(queue)
        PROVE  queue'[i].newTo = q[i].newTo
    <3>1. queue'[i] = [q[i] EXCEPT !.ripe = q[i].togo = 0]
      BY <1>11 DEF Ripened
    <3> QED
      BY <1>11, <3>1 DEF TimerType
  <2> QED
    BY <1>3, <1>11, <2>1, <2>2
<1>12. CASE BeginScan
  <2>1. queue' = Ripened(Aged(Passes - 1)) /\ k <= Passes - 1 /\ Passes - 1 \in Nat
        /\ Passes - 1 \in 0 .. MaxPasses
    BY <1>1, <1>12, LoopAssumption DEF BeginScan
  <2>2. DOMAIN Aged(Passes - 1) = 1 .. Len(queue)
    BY <1>1 DEF Aged
  <2>3. ASSUME NEW i \in 1 .. Len(queue)
        PROVE  Aged(Passes - 1)[i] \in TimerType
    <3>1. ASSUME NEW t \in TimerType, NEW l \in 0 .. MaxPasses
          PROVE  [t EXCEPT !.newTo = l] \in TimerType
      BY DEF TimerType
    <3> QED
      BY <1>1, <1>2, <2>1, <3>1 DEF Aged
  <2>4. Work(k)' <= Work(k)
    BY <1>9, <1>11, <2>1, <2>2, <2>3
  <2>5. ~Fire
    BY <1>12 DEF BeginScan, Fire, Scanning, At
  <2> QED
    BY <2>4, <2>5
<1>13. CASE HandlerEnds
  <2>1. Work(k)' <= Work(k)
    BY <1>1, <1>2, <1>11, <1>13 DEF HandlerEnds
  <2>2. ~Fire
    <3>1. Top.phase = "script"
      <4>1. Len(stack) \in 1 .. Len(stack)
        BY <1>1, Elements
      <4> QED
        BY <1>1, <1>13, <4>1 DEF HandlerEnds, Nested, Top
    <3> QED
      BY <3>1 DEF Fire, Scanning, At
  <2> QED
    BY <2>1, <2>2
<1>14. CASE Tick
  <2>1. queue' = [i \in 1 .. Len(queue) |-> [queue[i] EXCEPT !.togo = Down(@)]]
    BY <1>1, <1>14 DEF Tick
  <2>2. Len(queue') = Len(queue)
    BY <1>2, <2>1
  <2>3. ASSUME NEW i \in 1 .. Len(queue)
        PROVE  queue'[i].newTo = queue[i].newTo
    BY <1>2, <2>1 DEF TimerType
  <2>4. Work(k)' <= Work(k)
    BY <1>3, <2>2, <2>3
  <2> QED
    BY <1>5, <2>4
<1>15. ASSUME NEW signalled \in BOOLEAN, EndPass(signalled)
       PROVE  Work(k)' <= Work(k)
  <2>1. Leave \/ queue' = queue
    BY <1>15 DEF EndPass
  <2>2. Top.phase # "script"
    BY <1>15 DEF EndPass, At
  <2> QED
    BY <1>8, <1>10, <2>1, <2>2
<1>16. CASE NothingToWaitFor
  <2>1. Leave /\ Top.phase # "script"
    BY <1>16 DEF NothingToWaitFor, At
  <2> QED
    BY <1>5, <1>10, <2>1
<1>17. CASE BeginPass \/ Skip \/ FileHandler \/ FileReady \/ Vwait \/ Update
            \/ (\E v \in Vals \cup {Unset} : SetVariable(v)) \/ UNCHANGED vars
  <2>1. queue' = queue
    BY <1>17 DEF BeginPass, Skip, FileHandler, FileReady, Vwait, Update, Wait, SetVariable, vars
  <2> QED
    BY <1>5, <1>8, <2>1
<1> QED
  BY <1>5, <1>6, <1>7, <1>12, <1>13, <1>14, <1>15, <1>16, <1>17 DEF Next, Process

\* Once a pass has read maxId, what it may still run only becomes less, by one with each
\* timer it runs, whatever its scripts and the passes nested in them schedule: a pass
\* runs no more timers than were in the queue when it began (the safety half of PassEnds:
\* "even in case an [after 0] that continuously register itself").
THEOREM PassesAreBounded == Spec => [][PassesShrink]_vars
<1>1. Inv /\ [Next]_vars => PassesShrink
  BY WorkStep DEF PassesShrink
<1> QED BY Invariant, <1>1, PTL DEF Spec
=============================================================================
