------------------------ MODULE JimCompletion_proofs ------------------------
(***************************************************************************)
(* Proofs about JimCompletion: the types of its state, the frames of the   *)
(* commands being executed, tailcalls, the limit on call frames, the       *)
(* levels of [return] and signal_level, for every nesting of commands.     *)
(***************************************************************************)
EXTENDS JimCompletion, JimLemmas

\* TypeOK without the bound on signal_level; where the kinds and phases of commands
\* may occur; no [catch] lets a [return] through.
Typed ==
    /\ stack \in Seq(Activation) /\ Depth \in 1 .. MaxEvalDepth + 1
    /\ frames \in Seq(CallFrame) /\ framePtr \in 1 .. Len(frames)
    /\ code \in Codes \cup {"run"}
    /\ returnCode \in Codes /\ returnLevel \in Nat
    /\ sigmask \in BOOLEAN /\ signalLevel \in Int
    /\ aim \in [at: Nat, code: Codes, spoiled: BOOLEAN]

Shaped ==
    \A i \in 1 .. Depth :
        /\ stack[i].kind = "base" <=> i = 1
        /\ stack[i].phase # "body" => stack[i].kind = "proc"
        /\ "return" \notin stack[i].ignore

\* The frame command i runs in: interp.framePtr or, while another command runs
\* on it, the one that command will restore.
FrameAt(i) == IF i = Depth THEN framePtr ELSE stack[i + 1].caller

\* Every command runs in the frame it made, in its caller's caller's frame if it
\* is [uplevel], or in its caller's; the frames made are those in the list.
Framed ==
    /\ Len(frames) = 1 + Owners(Depth)
    /\ FrameAt(1) = 1
    /\ \A i \in 1 .. Depth : FrameAt(i) \in 1 .. 1 + Owners(i)
    /\ \A i \in 2 .. Depth :
          IF OwnsFrame(stack[i])
          THEN /\ FrameAt(i) = 1 + Owners(i)
               /\ frames[1 + Owners(i)].parent = stack[i].caller
               /\ frames[1 + Owners(i)].namespace <=> stack[i].kind = "namespace"
          ELSE FrameAt(i) = IF stack[i].kind = "uplevel" THEN frames[stack[i].caller].parent
                            ELSE stack[i].caller

\* Only the global frame has level 0, and a parent is below its children.
Linked ==
    \A f \in 1 .. Len(frames) :
        IF f = 1 THEN frames[f].level = 0
        ELSE frames[f].parent \in 1 .. f - 1 /\ frames[f].level >= 1

\* A procedure called from frame f is being executed; its frame still exists.
Called(f) == \E i \in 2 .. Depth : stack[i].kind = "proc" /\ stack[i].caller = f
Awaited(f) ==
    \E i \in 2 .. Depth :
        stack[i].kind = "proc" /\ stack[i].phase # "tail" /\ stack[i].caller = f

\* A tailcall is about to be evaluated in frame f.
AtTail(f) == code = "run" /\ Top.phase = "tail" /\ framePtr = f

\* The command resolved by [tailcall] and the list it was stashed with are the
\* same, and wait for a procedure called from the frame to end.
Stash(f) ==
    LET cmd == frames[f].tailcallCmd
        obj == frames[f].tailcallObj
    IN  /\ cmd # None /\ obj # None => cmd = obj
        /\ cmd # None /\ obj = None => AtTail(f)
        /\ cmd # None /\ ~frames[f].stray => Awaited(f) \/ AtTail(f)
        /\ obj # None /\ ~frames[f].stray => Called(f)
        /\ AtTail(f) => cmd \in {None, Top.list}
Stashes == \A f \in 1 .. Len(frames) : Stash(f)

\* A [return] waits for the defer scripts of command i, and none of them has
\* executed another; until it goes on it is the last one that was executed.
Deferring(i) == stack[i].phase = "defer" /\ stack[i].kept = "return"
Waits(i) == Deferring(i) /\ ~stack[i].keptAim.spoiled
LevelLeft == IF returnLevel = 0 THEN 1 ELSE returnLevel
ReturnWaits ==
    \A i \in 1 .. Depth : Waits(i) =>
        /\ code # "return"
        /\ \A j \in i + 1 .. Depth : ~Deferring(j)
        /\ returnCode = stack[i].keptAim.code
        /\ stack[i].keptAim.at = Target(SubSeq(stack, 1, i), LevelLeft)

\* The commands and their frames, and all of it.
Structured == Shaped /\ Framed /\ Linked /\ CallFrameLimit /\ SignalLevelExact
Inv == Typed /\ Structured /\ Stashes /\ ReturnWaits /\ ReturnEndsItsLevels

---------------------------------------------------------------------------
(* The operators of the model *)

\* The number of frames made by the first n commands of s.
OwnersIn(s, n) == Cardinality({j \in 1 .. n : OwnsFrame(s[j])})

\* One command more makes at most one frame more.
LEMMA OwnersStep ==
    ASSUME NEW s, NEW n \in Nat
    PROVE  /\ OwnersIn(s, n) \in Nat
           /\ OwnersIn(s, n + 1) = OwnersIn(s, n) + IF OwnsFrame(s[n + 1]) THEN 1 ELSE 0
<1> DEFINE A == {j \in 1 .. n + 1 : OwnsFrame(s[j])}
<1>1. /\ Cardinality(A \cap (1 .. n)) \in Nat
      /\ Cardinality(A) = Cardinality(A \cap (1 .. n)) + IF n + 1 \in A THEN 1 ELSE 0
  BY CountLast
<1>2. A \cap (1 .. n) = {j \in 1 .. n : OwnsFrame(s[j])}
  OBVIOUS
<1>3. n + 1 \in A <=> OwnsFrame(s[n + 1])
  OBVIOUS
<1> QED BY <1>1, <1>2, <1>3 DEF OwnersIn

\* More commands make no fewer frames.
LEMMA OwnersMonotone ==
    ASSUME NEW s, NEW n \in Nat, NEW m \in 0 .. n
    PROVE  OwnersIn(s, m) \in Nat /\ OwnersIn(s, n) \in Nat /\ OwnersIn(s, m) <= OwnersIn(s, n)
<1>1. {j \in 1 .. m : OwnsFrame(s[j])} \subseteq {j \in 1 .. n : OwnsFrame(s[j])}
  OBVIOUS
<1> QED BY <1>1, CountMore DEF OwnersIn

\* The frames depend on who makes one only.
LEMMA OwnersSame ==
    ASSUME NEW s, NEW t, NEW n \in Nat,
           \A j \in 1 .. n : OwnsFrame(s[j]) <=> OwnsFrame(t[j])
    PROVE  OwnersIn(s, n) = OwnersIn(t, n)
<1>1. {j \in 1 .. n : OwnsFrame(s[j])} = {j \in 1 .. n : OwnsFrame(t[j])}
  OBVIOUS
<1> QED BY <1>1 DEF OwnersIn

\* Every frame but the global one was made by some command.
LEMMA OwnerExists ==
    ASSUME NEW s, NEW n \in Nat, NEW k \in 1 .. OwnersIn(s, n)
    PROVE  \E i \in 1 .. n : OwnsFrame(s[i]) /\ OwnersIn(s, i) = k
<1> DEFINE T == {i \in 0 .. n : k <= OwnersIn(s, i)}
<1>1. n \in T /\ T \in SUBSET Nat
  OBVIOUS
<1>2. PICK m \in T : \A i \in T : m <= i
  BY <1>1, LeastElement
<1>3. m # 0
  <2>1. OwnersIn(s, 0) = 0
    BY FS_EmptySet DEF OwnersIn
  <2> QED BY <1>2, <2>1
<1>4. m - 1 \in 0 .. n /\ m - 1 \notin T /\ m - 1 \in Nat /\ m - 1 + 1 = m
  BY <1>1, <1>2, <1>3
<1>5. /\ OwnersIn(s, m - 1) \in Nat
      /\ OwnersIn(s, m) = OwnersIn(s, m - 1) + IF OwnsFrame(s[m]) THEN 1 ELSE 0
  <2>1. OwnersIn(s, m - 1 + 1) = OwnersIn(s, m - 1) + IF OwnsFrame(s[m - 1 + 1]) THEN 1 ELSE 0
    BY <1>4, OwnersStep
  <2> QED BY <1>4, <2>1, OwnersStep
<1>6. OwnersIn(s, m - 1) < k /\ k <= OwnersIn(s, m)
  BY <1>2, <1>4, <1>5
<1> QED BY <1>2, <1>3, <1>5, <1>6

\* A script goes on after "ok" alone, a tailcall never, and no [return] begins
\* where a command ends.
LEMMA AfterCommandIs ==
    ASSUME NEW act, NEW c \in Codes
    PROVE  /\ AfterCommand(act, c) \in Codes \cup {"run"}
           /\ AfterCommand(act, c) = "run" => act.phase # "tail"
           /\ AfterCommand(act, c) = "return" => c = "return"
BY DEF AfterCommand, Codes

\* The candidates for the command a [return] ends.
EndsOf(s, level) == {i \in 1 .. Len(s) : Counts(s[i])
                        /\ (LevelsTo(s, i) = level \/ s[i].kind = "source")}
LastOf(S) == IF S = {} THEN 0 ELSE CHOOSE i \in S : \A j \in S : j <= i

\* A [return] ends the last of the candidates.
LEMMA TargetIs == \A s, level : Target(s, level) = LastOf(EndsOf(s, level))
BY Zenon DEF Target, LastOf, EndsOf

\* Where a [return] ends depends on the commands that use up levels only.
LEMMA TargetSame ==
    ASSUME NEW s \in Seq(Activation), NEW t \in Seq(Activation), NEW level, Len(s) = Len(t),
           \A i \in 1 .. Len(s) : /\ Counts(s[i]) <=> Counts(t[i])
                                  /\ s[i].kind = "source" <=> t[i].kind = "source"
    PROVE  Target(s, level) = Target(t, level)
<1>1. ASSUME NEW i \in 1 .. Len(s) PROVE LevelsTo(s, i) = LevelsTo(t, i)
  <2>1. Len(s) \in Nat
    BY LenProperties
  <2>2. {j \in i .. Len(s) : Counts(s[j])} = {j \in i .. Len(t) : Counts(t[j])}
    BY <2>1
  <2> QED BY <2>2 DEF LevelsTo
<1>2. EndsOf(s, level) = EndsOf(t, level)
  BY <1>1 DEF EndsOf
<1> QED BY <1>2, TargetIs

\* A [return] ends at a command, or at none.
LEMMA TargetType ==
    ASSUME NEW s \in Seq(Activation), NEW level
    PROVE  Target(s, level) \in Nat
<1> DEFINE A == EndsOf(s, level)
<1>1. Target(s, level) = LastOf(A)
  BY TargetIs
<1>2. A \in SUBSET (0 .. Len(s)) /\ A \in SUBSET Nat /\ Len(s) \in Nat
  BY LenProperties DEF EndsOf
<1>3. A # {} => \E i \in A : \A j \in A : j <= i
  BY <1>2, LastElement
<1> HIDE DEF A
<1>4. LastOf(A) \in Nat
  BY <1>2, <1>3 DEF LastOf
<1> QED BY <1>1, <1>4

\* Once the innermost command has ended a [return] has the same way to go, less
\* the level that command used up.
LEMMA TargetFront ==
    ASSUME NEW s \in Seq(Activation), Len(s) >= 1, NEW level \in Nat
    PROVE  LET f == SubSeq(s, 1, Len(s) - 1)
           IN  IF Counts(s[Len(s)])
               THEN s[Len(s)].kind # "source" /\ level >= 2 => Target(s, level) = Target(f, level - 1)
               ELSE Target(s, level) = Target(f, level)
<1> DEFINE n == Len(s) - 1
           f == SubSeq(s, 1, n)
           top == s[n + 1]
           used == IF Counts(top) THEN 1 ELSE 0
           A == EndsOf(s, level)
           B == EndsOf(f, level - used)
<1>1. /\ f \in Seq(Activation) /\ Len(f) = n /\ n \in Nat /\ Len(s) = n + 1
      /\ \A i \in 1 .. n : f[i] = s[i]
  BY FrontProperties
<1> HIDE DEF n, f
<1>2. ASSUME NEW i \in 1 .. n PROVE LevelsTo(s, i) = LevelsTo(f, i) + used /\ LevelsTo(f, i) \in Nat
  <2> DEFINE C == {j \in i .. n + 1 : Counts(s[j])}
  <2>1. /\ Cardinality(C \cap (1 .. n)) \in Nat
        /\ Cardinality(C) = Cardinality(C \cap (1 .. n)) + IF n + 1 \in C THEN 1 ELSE 0
    <3>1. C \in SUBSET (1 .. n + 1)
      BY <1>1
    <3> HIDE DEF C
    <3> QED BY <1>1, <3>1, CountLast
  <2>2. C \cap (1 .. n) = {j \in i .. n : Counts(f[j])}
    BY <1>1
  <2>3. n + 1 \in C <=> Counts(top)
    BY <1>1
  <2>4. LevelsTo(s, i) = Cardinality(C) /\ LevelsTo(f, i) = Cardinality(C \cap (1 .. n))
    BY <1>1, <2>2 DEF LevelsTo
  <2> HIDE DEF C
  <2> QED BY <2>1, <2>3, <2>4
<1>3. LevelsTo(s, n + 1) = used
  <2>1. {j \in n + 1 .. n + 1 : Counts(s[j])} = IF Counts(top) THEN {n + 1} ELSE {}
    BY <1>1
  <2>2. Cardinality({n + 1}) = 1 /\ Cardinality({}) = 0
    BY FS_EmptySet, FS_Singleton
  <2>3. LevelsTo(s, n + 1) = Cardinality({j \in n + 1 .. n + 1 : Counts(s[j])})
    BY <1>1 DEF LevelsTo
  <2> QED BY <2>1, <2>2, <2>3
<1>4. ASSUME Counts(top) => top.kind # "source" /\ level >= 2 PROVE A = B
  <2>1. n + 1 \notin A
    BY <1>1, <1>3, <1>4 DEF EndsOf
  <2>2. ASSUME NEW i \in 1 .. n PROVE i \in A <=> i \in B
    <3>1. LevelsTo(s, i) = level <=> LevelsTo(f, i) = level - used
      BY <1>2
    <3> QED BY <1>1, <3>1 DEF EndsOf
  <2>3. \A i \in A : i \in 1 .. n
    BY <1>1, <2>1 DEF EndsOf
  <2>4. \A i \in B : i \in 1 .. n
    BY <1>1 DEF EndsOf
  <2> HIDE DEF A, B
  <2> QED BY <2>2, <2>3, <2>4
<1>5. A = B => Target(s, level) = Target(f, level - used)
  BY TargetIs
<1> QED BY <1>1, <1>4, <1>5 DEF n, f

---------------------------------------------------------------------------
(* What the steps do to the frames *)

\* What no step changes in a frame.
Alike(f, g) == f.parent = g.parent /\ f.level = g.level /\ f.namespace = g.namespace

\* What the proofs about frames need to know of a command.
SameFrame(a, b) == a.kind = b.kind /\ a.caller = b.caller /\ (OwnsFrame(a) <=> OwnsFrame(b))

\* The counts and frames of the commands being executed.
LEMMA Counted ==
    ASSUME Typed, Framed
    PROVE  /\ Depth \in Nat /\ Depth >= 1 /\ Len(frames) \in Nat
           /\ \A i \in 1 .. Depth : /\ Owners(i) = OwnersIn(stack, i) /\ Owners(i) \in Nat
                                    /\ 1 + Owners(i) <= Len(frames)
                                    /\ FrameAt(i) \in 1 .. Len(frames)
           /\ framePtr = FrameAt(Depth)
           /\ \A i \in 1 .. Depth : stack[i] \in Activation
           /\ \A f \in 1 .. Len(frames) : frames[f] \in CallFrame
<1>1. Depth \in Nat /\ Depth >= 1 /\ Len(frames) \in Nat
  BY LenProperties DEF Typed, Depth
<1>2. ASSUME NEW i \in 1 .. Depth
      PROVE  /\ Owners(i) = OwnersIn(stack, i) /\ Owners(i) \in Nat
             /\ 1 + Owners(i) <= Len(frames) /\ FrameAt(i) \in 1 .. Len(frames)
  <2>1. Owners(i) = OwnersIn(stack, i) /\ Owners(Depth) = OwnersIn(stack, Depth)
    BY DEF Owners, OwnersIn
  <2>2. OwnersIn(stack, i) \in Nat /\ OwnersIn(stack, i) <= OwnersIn(stack, Depth)
    BY <1>1, OwnersMonotone
  <2>3. Len(frames) = 1 + Owners(Depth) /\ FrameAt(i) \in 1 .. 1 + Owners(i)
    BY DEF Framed
  <2>4. OwnersIn(stack, Depth) \in Nat
    BY <1>1, OwnersMonotone
  <2> QED BY <2>1, <2>2, <2>3, <2>4
<1>3. \A i \in 1 .. Depth : stack[i] \in Activation
  BY ElementOfSeq DEF Typed, Depth
<1>4. \A f \in 1 .. Len(frames) : frames[f] \in CallFrame
  BY ElementOfSeq DEF Typed
<1> QED BY <1>1, <1>2, <1>3, <1>4 DEF FrameAt

\* A step leaves the lower n commands and their frames alone; the command on top
\* of them runs in the right frame.
LEMMA FramedFrom ==
    ASSUME Typed, Framed, Linked, NEW n \in 0 .. Depth,
           Depth' = n + 1, stack' \in Seq(Activation),
           \A i \in 1 .. n : SameFrame(stack'[i], stack[i]),
           \A f \in 1 .. 1 + OwnersIn(stack, n) : Alike(frames'[f], frames[f]),
           Len(frames') = 1 + OwnersIn(stack, n) + IF OwnsFrame(Top') THEN 1 ELSE 0,
           framePtr' \in 1 .. Len(frames'),
           IF n = 0 THEN framePtr' = 1
           ELSE /\ Top'.caller = FrameAt(n)
                /\ IF OwnsFrame(Top')
                   THEN /\ framePtr' = Len(frames')
                        /\ frames'[framePtr'].parent = Top'.caller
                        /\ frames'[framePtr'].namespace <=> Top'.kind = "namespace"
                   ELSE framePtr' = IF Top'.kind = "uplevel" THEN frames[Top'.caller].parent
                                    ELSE Top'.caller
    PROVE  Framed'
<1>0. /\ Depth \in Nat /\ Len(frames) \in Nat /\ n \in Nat /\ Top' = stack'[n + 1]
      /\ OwnersIn(stack, n) \in Nat
  BY Counted, OwnersStep DEF Top
<1>1. ASSUME NEW i \in 1 .. n
      PROVE  /\ Owners(i)' = Owners(i) /\ Owners(i) = OwnersIn(stack, i) /\ Owners(i) \in Nat
             /\ FrameAt(i)' = FrameAt(i)
             /\ 1 + Owners(i) <= 1 + OwnersIn(stack, n)
  <2>1. i \in 1 .. Depth /\ \A j \in 1 .. i : j \in 1 .. n
    BY <1>0
  <2>2. Owners(i)' = OwnersIn(stack', i) /\ Owners(i) = OwnersIn(stack, i)
    BY DEF Owners, OwnersIn
  <2>3. OwnersIn(stack', i) = OwnersIn(stack, i)
    BY <2>1, OwnersSame DEF SameFrame
  <2>4. OwnersIn(stack, i) \in Nat /\ OwnersIn(stack, i) <= OwnersIn(stack, n)
    BY <1>0, OwnersMonotone
  <2>5. FrameAt(i)' = stack'[i + 1].caller
    BY <1>0 DEF FrameAt
  <2>6. CASE i = n
    BY <1>0, <2>2, <2>3, <2>4, <2>5, <2>6
  <2>7. CASE i # n
    <3>1. i # Depth /\ i + 1 \in 1 .. n
      BY <1>0, <2>7
    <3>2. stack'[i + 1].caller = stack[i + 1].caller
      BY <3>1 DEF SameFrame
    <3>3. FrameAt(i)' = FrameAt(i)
      BY <2>5, <3>1, <3>2 DEF FrameAt
    <3> QED BY <1>0, <2>2, <2>3, <2>4, <3>3
  <2> QED BY <2>6, <2>7
<1>2. /\ Owners(n + 1)' = OwnersIn(stack, n) + IF OwnsFrame(Top') THEN 1 ELSE 0
      /\ FrameAt(n + 1)' = framePtr'
  <2>1. Owners(n + 1)' = OwnersIn(stack', n + 1)
    BY DEF Owners, OwnersIn
  <2>2. OwnersIn(stack', n) = OwnersIn(stack, n)
    BY <1>0, OwnersSame DEF SameFrame
  <2>3. OwnersIn(stack', n + 1) = OwnersIn(stack', n) + IF OwnsFrame(stack'[n + 1]) THEN 1 ELSE 0
    BY <1>0, OwnersStep
  <2> QED BY <1>0, <2>1, <2>2, <2>3 DEF FrameAt
<1>3. Len(frames') = 1 + Owners(Depth)'
  <2>1. Owners(Depth)' = OwnersIn(stack', Depth')
    BY Zenon DEF Owners, OwnersIn
  <2>2. Owners(n + 1)' = OwnersIn(stack', n + 1)
    BY DEF Owners, OwnersIn
  <2> QED BY <1>0, <1>2, <2>1, <2>2
<1>4. FrameAt(1)' = 1
  <2>1. CASE n = 0
    BY <1>2, <2>1
  <2>2. CASE n # 0
    BY <1>0, <1>1, <2>2 DEF Framed
  <2> QED BY <2>1, <2>2
<1>5. ASSUME NEW i \in 1 .. n + 1 PROVE FrameAt(i)' \in 1 .. 1 + Owners(i)'
  <2>1. CASE i = n + 1
    BY <1>0, <1>2, <2>1
  <2>2. CASE i # n + 1
    <3>1. i \in 1 .. n /\ i \in 1 .. Depth
      BY <1>0, <2>2
    <3> QED BY <1>1, <3>1 DEF Framed
  <2> QED BY <2>1, <2>2
<1>6. ASSUME NEW i \in 2 .. n + 1
      PROVE  IF OwnsFrame(stack'[i])
             THEN /\ FrameAt(i)' = 1 + Owners(i)'
                  /\ frames'[1 + Owners(i)'].parent = stack'[i].caller
                  /\ frames'[1 + Owners(i)'].namespace <=> stack'[i].kind = "namespace"
             ELSE FrameAt(i)' = IF stack'[i].kind = "uplevel" THEN frames'[stack'[i].caller].parent
                                ELSE stack'[i].caller
  <2>1. CASE i = n + 1
    <3>1. n # 0 /\ n \in 1 .. Depth
      BY <1>0, <2>1
    <3>2. FrameAt(n) \in 1 .. 1 + OwnersIn(stack, n)
      BY <1>1, <3>1 DEF Framed
    <3>3. frames'[Top'.caller].parent = frames[Top'.caller].parent
      BY <3>1, <3>2 DEF Alike
    <3> QED BY <1>0, <1>2, <2>1, <3>1, <3>3
  <2>2. CASE i # n + 1
    <3>1. i \in 1 .. n /\ i \in 2 .. Depth /\ i - 1 \in 1 .. n /\ i - 1 \in 1 .. Depth
      BY <1>0, <2>2
    <3>2. FrameAt(i - 1) \in 1 .. 1 + OwnersIn(stack, n) /\ FrameAt(i - 1) = stack[i].caller
      <4>1. FrameAt(i - 1) \in 1 .. 1 + Owners(i - 1) /\ Owners(i - 1) \in Nat
            /\ 1 + Owners(i - 1) <= 1 + OwnersIn(stack, n)
        BY <1>1, <3>1 DEF Framed
      <4> QED BY <1>0, <3>1, <4>1 DEF FrameAt
    <3>3. 1 + Owners(i) \in 1 .. 1 + OwnersIn(stack, n)
      BY <1>0, <1>1, <3>1, SMTT(30)
    <3>4. frames'[1 + Owners(i)].parent = frames[1 + Owners(i)].parent
          /\ frames'[1 + Owners(i)].namespace = frames[1 + Owners(i)].namespace
          /\ frames'[stack[i].caller].parent = frames[stack[i].caller].parent
      BY <3>2, <3>3 DEF Alike
    <3>5. SameFrame(stack'[i], stack[i])
      BY <3>1
    <3>6. IF OwnsFrame(stack[i])
          THEN /\ FrameAt(i) = 1 + Owners(i)
               /\ frames[1 + Owners(i)].parent = stack[i].caller
               /\ frames[1 + Owners(i)].namespace <=> stack[i].kind = "namespace"
          ELSE FrameAt(i) = IF stack[i].kind = "uplevel" THEN frames[stack[i].caller].parent
                            ELSE stack[i].caller
      BY <3>1 DEF Framed
    <3>7. Owners(i)' = Owners(i) /\ FrameAt(i)' = FrameAt(i)
      BY <1>1, <3>1
    <3> QED BY <3>4, <3>5, <3>6, <3>7 DEF SameFrame
  <2> QED BY <2>1, <2>2
<1>7. Framed' <=>
        /\ Len(frames') = 1 + Owners(Depth)'
        /\ FrameAt(1)' = 1
        /\ \A i \in 1 .. n + 1 : FrameAt(i)' \in 1 .. 1 + Owners(i)'
        /\ \A i \in 2 .. n + 1 :
             IF OwnsFrame(stack'[i])
             THEN /\ FrameAt(i)' = 1 + Owners(i)'
                  /\ frames'[1 + Owners(i)'].parent = stack'[i].caller
                  /\ frames'[1 + Owners(i)'].namespace <=> stack'[i].kind = "namespace"
             ELSE FrameAt(i)' = IF stack'[i].kind = "uplevel" THEN frames'[stack'[i].caller].parent
                                ELSE stack'[i].caller
  BY DEF Framed
<1> QED BY <1>3, <1>4, <1>5, <1>6, <1>7, Zenon

\* The links and the limit stand as long as frames come and go in stack order.
LEMMA LinkedFrom ==
    ASSUME Typed, Linked, CallFrameLimit, NEW m \in 1 .. Len(frames),
           frames' \in Seq(CallFrame),
           \A f \in 1 .. m : Alike(frames'[f], frames[f]),
           \/ Len(frames') = m
           \/ /\ Len(frames') = m + 1 /\ framePtr \in 1 .. m
              /\ frames'[m + 1].parent = framePtr /\ frames'[m + 1].level = Frame.level + 1
              /\ \/ Frame.level # MaxCallFrameDepth
                 \/ frames'[m + 1].namespace
              /\ frames'[m + 1].namespace => Frame.level + 1 # MaxCallFrameDepth
    PROVE  Linked' /\ CallFrameLimit'
<1>0. m \in Nat /\ Len(frames) \in Nat
      /\ \A f \in 1 .. Len(frames) : frames[f] \in CallFrame /\ frames[f].level \in Nat
  <2>1. Len(frames) \in Nat
    BY LenProperties DEF Typed
  <2>2. \A f \in 1 .. Len(frames) : frames[f] \in CallFrame
    BY ElementOfSeq DEF Typed
  <2> QED BY <2>1, <2>2 DEF CallFrame
<1>1. Linked'
  <2>1. ASSUME NEW f \in 1 .. Len(frames')
        PROVE  IF f = 1 THEN frames'[f].level = 0
               ELSE frames'[f].parent \in 1 .. f - 1 /\ frames'[f].level >= 1
    <3>1. CASE f <= m
      <4>1. f \in 1 .. Len(frames) /\ Alike(frames'[f], frames[f])
        BY <1>0, <3>1
      <4> QED BY <4>1 DEF Linked, Alike
    <3>2. CASE f = m + 1
      <4>1. Frame.level \in Nat /\ framePtr \in 1 .. m /\ Len(frames') = m + 1
        BY <1>0, <3>2 DEF Frame
      <4> QED BY <1>0, <3>2, <4>1
    <3> QED BY <1>0, <2>1, <3>1, <3>2
  <2> QED BY <2>1 DEF Linked
<1>2. CallFrameLimit'
  <2>1. ASSUME NEW f \in 1 .. Len(frames'), frames'[f].level > MaxCallFrameDepth
        PROVE  \E g \in 1 .. f : frames'[g].namespace /\ frames'[g].level = MaxCallFrameDepth + 1
    <3>1. ASSUME NEW h \in 1 .. m, frames[h].level > MaxCallFrameDepth
          PROVE  \E g \in 1 .. h : frames'[g].namespace /\ frames'[g].level = MaxCallFrameDepth + 1
      <4>1. PICK g \in 1 .. h : frames[g].namespace /\ frames[g].level = MaxCallFrameDepth + 1
        BY <1>0, <3>1 DEF CallFrameLimit
      <4> QED BY <1>0, <4>1 DEF Alike
    <3>2. CASE f <= m
      BY <1>0, <2>1, <3>1, <3>2 DEF Alike
    <3>3. CASE f = m + 1
      <4>1. Frame.level \in Nat /\ framePtr \in 1 .. m /\ frames'[f].level = Frame.level + 1
            /\ Len(frames') = m + 1
        BY <1>0, <3>3 DEF Frame
      <4>2. CASE Frame.level > MaxCallFrameDepth
        <5>1. PICK g \in 1 .. framePtr : /\ frames'[g].namespace
                                         /\ frames'[g].level = MaxCallFrameDepth + 1
          BY <3>1, <4>1, <4>2 DEF Frame
        <5> QED BY <1>0, <3>3, <4>1, <5>1
      <4>3. CASE Frame.level = MaxCallFrameDepth
        BY <1>0, <3>3, <4>1, <4>3
      <4> QED BY <2>1, <4>1, <4>2, <4>3, BoundsAssumption
    <3> QED BY <1>0, <2>1, <3>2, <3>3
  <2> QED BY <2>1 DEF CallFrameLimit
<1> QED BY <1>1, <1>2

---------------------------------------------------------------------------
(* What the steps do to the stack *)

\* What no step changes in a command that another one runs on.
SameCommand(a, b) ==
    a.kind = b.kind /\ a.phase = b.phase /\ a.caller = b.caller /\ a.ignore = b.ignore

\* The number of the first n commands of s that are [catch -signal].
Listens(act) == act.kind = "catch" /\ "signal" \notin act.ignore
ListensIn(s, n) == Cardinality({i \in 1 .. n : Listens(s[i])})

\* One command more listens or does not.
LEMMA ListensStep ==
    ASSUME NEW s, NEW n \in Nat
    PROVE  /\ ListensIn(s, n) \in Nat
           /\ ListensIn(s, n + 1) = ListensIn(s, n) + IF Listens(s[n + 1]) THEN 1 ELSE 0
<1> DEFINE A == {j \in 1 .. n + 1 : Listens(s[j])}
<1>1. /\ Cardinality(A \cap (1 .. n)) \in Nat
      /\ Cardinality(A) = Cardinality(A \cap (1 .. n)) + IF n + 1 \in A THEN 1 ELSE 0
  BY CountLast
<1>2. A \cap (1 .. n) = {j \in 1 .. n : Listens(s[j])}
  OBVIOUS
<1>3. n + 1 \in A <=> Listens(s[n + 1])
  OBVIOUS
<1> QED BY <1>1, <1>2, <1>3 DEF ListensIn

\* The same commands listen.
LEMMA ListensSame ==
    ASSUME NEW s, NEW t, NEW n \in Nat, \A j \in 1 .. n : SameCommand(s[j], t[j])
    PROVE  ListensIn(s, n) = ListensIn(t, n)
<1>1. {j \in 1 .. n : Listens(s[j])} = {j \in 1 .. n : Listens(t[j])}
  BY DEF Listens, SameCommand
<1> QED BY <1>1 DEF ListensIn

\* A step leaves the lower n commands alone; what it makes of the one on top of
\* them, of the frames and of signal_level fits.
LEMMA StructuredFrom ==
    ASSUME Typed, Structured, NEW n \in 0 .. Depth,
           Depth' = n + 1, stack' \in Seq(Activation),
           \A i \in 1 .. n : SameCommand(stack'[i], stack[i]),
           Top'.kind = "base" <=> n = 0,
           Top'.phase # "body" => Top'.kind = "proc",
           "return" \notin Top'.ignore,
           \A f \in 1 .. 1 + OwnersIn(stack, n) : Alike(frames'[f], frames[f]),
           Len(frames') = 1 + OwnersIn(stack, n) + IF OwnsFrame(Top') THEN 1 ELSE 0,
           framePtr' \in 1 .. Len(frames'),
           IF n = 0 THEN framePtr' = 1
           ELSE /\ Top'.caller = FrameAt(n)
                /\ IF OwnsFrame(Top')
                   THEN /\ framePtr' = Len(frames')
                        /\ frames'[framePtr'].parent = Top'.caller
                        /\ frames'[framePtr'].namespace <=> Top'.kind = "namespace"
                   ELSE framePtr' = IF Top'.kind = "uplevel" THEN frames[Top'.caller].parent
                                    ELSE Top'.caller,
           Linked' /\ CallFrameLimit',
           signalLevel' = ListensIn(stack, n) + IF Listens(Top') THEN 1 ELSE 0
    PROVE  Structured'
<1>0. Depth \in Nat /\ n \in Nat /\ Top' = stack'[n + 1]
  BY Counted DEF Structured, Top
<1>1. Framed'
  <2>1. \A i \in 1 .. n : SameFrame(stack'[i], stack[i])
    BY DEF SameFrame, SameCommand, OwnsFrame
  <2> QED BY <2>1, FramedFrom DEF Structured
<1>2. Shaped'
  <2>1. ASSUME NEW i \in 1 .. n + 1
        PROVE  /\ stack'[i].kind = "base" <=> i = 1
               /\ stack'[i].phase # "body" => stack'[i].kind = "proc"
               /\ "return" \notin stack'[i].ignore
    <3>1. CASE i = n + 1
      BY <1>0, <3>1
    <3>2. CASE i # n + 1
      <4>1. i \in 1 .. n /\ i \in 1 .. Depth
        BY <1>0, <3>2
      <4> QED BY <4>1 DEF Structured, Shaped, SameCommand
    <3> QED BY <3>1, <3>2
  <2> QED BY <2>1 DEF Shaped
<1>3. SignalLevelExact'
  <2>1. ListensIn(stack', n) = ListensIn(stack, n)
    BY <1>0, ListensSame
  <2>2. ListensIn(stack', n + 1) = ListensIn(stack', n) + IF Listens(stack'[n + 1]) THEN 1 ELSE 0
    BY <1>0, ListensStep
  <2>3. signalLevel' = ListensIn(stack', Depth')
    BY <1>0, <2>1, <2>2
  <2> QED BY <2>3, Zenon DEF SignalLevelExact, ListensIn, Listens
<1> QED BY <1>1, <1>2, <1>3 DEF Structured

\* The number of levels and of [catch -signal] below the innermost command.
LEMMA Innermost ==
    ASSUME Typed, Structured
    PROVE  /\ Depth \in Nat /\ Depth >= 1 /\ Depth - 1 \in 0 .. Depth
           /\ Top \in Activation /\ Frame \in CallFrame
           /\ Len(frames) = 1 + OwnersIn(stack, Depth - 1) + IF OwnsFrame(Top) THEN 1 ELSE 0
           /\ Len(frames) = 1 + OwnersIn(stack, Depth)
           /\ OwnersIn(stack, Depth - 1) \in Nat
           /\ signalLevel = ListensIn(stack, Depth - 1) + IF Listens(Top) THEN 1 ELSE 0
           /\ signalLevel = ListensIn(stack, Depth)
           /\ ListensIn(stack, Depth - 1) \in Nat
           /\ Depth > 1 => /\ Top.caller = FrameAt(Depth - 1) /\ Top.kind # "base"
                           /\ Top.caller \in 1 .. Len(frames)
           /\ Depth = 1 => Top.kind = "base" /\ framePtr = 1
<1>1. /\ Depth \in Nat /\ Depth >= 1 /\ Depth - 1 \in 0 .. Depth /\ Depth - 1 \in Nat
      /\ Depth - 1 + 1 = Depth /\ Depth \in 1 .. Depth
      /\ Top \in Activation /\ Frame \in CallFrame
      /\ \A i \in 1 .. Depth : FrameAt(i) \in 1 .. Len(frames)
  BY Counted DEF Structured, Typed, Top, Frame
<1>2. /\ OwnersIn(stack, Depth - 1) \in Nat
      /\ OwnersIn(stack, Depth) = OwnersIn(stack, Depth - 1) + IF OwnsFrame(Top) THEN 1 ELSE 0
  <2>1. OwnersIn(stack, Depth - 1 + 1)
          = OwnersIn(stack, Depth - 1) + IF OwnsFrame(stack[Depth - 1 + 1]) THEN 1 ELSE 0
    BY <1>1, OwnersStep
  <2> QED BY <1>1, <2>1, OwnersStep DEF Top
<1>3. Len(frames) = 1 + OwnersIn(stack, Depth)
  BY <1>1, Counted DEF Structured, Framed
<1>4. /\ ListensIn(stack, Depth - 1) \in Nat
      /\ ListensIn(stack, Depth) = ListensIn(stack, Depth - 1) + IF Listens(Top) THEN 1 ELSE 0
  <2>1. ListensIn(stack, Depth - 1 + 1)
          = ListensIn(stack, Depth - 1) + IF Listens(stack[Depth - 1 + 1]) THEN 1 ELSE 0
    BY <1>1, ListensStep
  <2> QED BY <1>1, <2>1, ListensStep DEF Top
<1>5. signalLevel = ListensIn(stack, Depth)
  BY Zenon DEF Structured, SignalLevelExact, ListensIn, Listens
<1>6. /\ Depth > 1 => /\ Top.caller = FrameAt(Depth - 1) /\ Top.kind # "base"
                      /\ Top.caller \in 1 .. Len(frames)
      /\ Depth = 1 => Top.kind = "base" /\ framePtr = 1
  <2>1. Depth > 1 => Depth - 1 \in 1 .. Depth /\ Depth - 1 # Depth
    BY <1>1
  <2>2. Depth > 1 => Top.caller = FrameAt(Depth - 1)
    BY <1>1, <2>1 DEF FrameAt, Top
  <2>3. Top.kind = "base" <=> Depth = 1
    BY <1>1 DEF Structured, Shaped, Top
  <2>4. Depth = 1 => framePtr = 1
    BY <1>1 DEF Structured, Framed, FrameAt
  <2> QED BY <1>1, <2>1, <2>2, <2>3, <2>4
<1> QED BY <1>1, <1>2, <1>3, <1>4, <1>5, <1>6

\* The commands stay what they are, whatever happens to what they keep.
LEMMA SameStack ==
    ASSUME Typed, Structured, stack' \in Seq(Activation), Depth' = Depth,
           \A i \in 1 .. Depth : SameCommand(stack'[i], stack[i]),
           frames' \in Seq(CallFrame), Len(frames') = Len(frames),
           \A f \in 1 .. Len(frames) : Alike(frames'[f], frames[f]),
           framePtr' = framePtr, signalLevel' = signalLevel
    PROVE  Structured' /\ \A f : (Called(f)' <=> Called(f)) /\ (Awaited(f)' <=> Awaited(f))
<1> DEFINE n == Depth - 1
<1>1. /\ Depth \in Nat /\ Depth >= 1 /\ n \in 0 .. Depth /\ n + 1 = Depth
      /\ framePtr \in 1 .. Len(frames) /\ Len(frames) \in Nat
      /\ Len(frames) = 1 + OwnersIn(stack, n) + IF OwnsFrame(Top) THEN 1 ELSE 0
      /\ OwnersIn(stack, n) \in Nat
      /\ signalLevel = ListensIn(stack, n) + IF Listens(Top) THEN 1 ELSE 0
      /\ Depth = 1 => Top.kind = "base" /\ framePtr = 1
      /\ Depth > 1 => Top.kind # "base" /\ Top.caller = FrameAt(n)
                      /\ Top.caller \in 1 .. Len(frames)
  BY Innermost, Counted DEF Structured, Typed
<1>2. /\ SameCommand(Top', Top) /\ (OwnsFrame(Top') <=> OwnsFrame(Top))
      /\ (Listens(Top') <=> Listens(Top))
  <2>1. Depth \in 1 .. Depth /\ Top = stack[Depth] /\ Top' = stack'[Depth]
    BY <1>1 DEF Top
  <2>2. SameCommand(Top', Top)
    BY <2>1
  <2> QED BY <2>2 DEF SameCommand, OwnsFrame, Listens
<1>3. Linked' /\ CallFrameLimit'
  <2>1. Len(frames) \in 1 .. Len(frames)
    BY <1>1
  <2> QED BY <2>1, LinkedFrom DEF Structured
<1>4. (Top'.phase # "body" => Top'.kind = "proc") /\ "return" \notin Top'.ignore
  BY <1>1, <1>2 DEF Structured, Shaped, SameCommand, Top
<1>5. IF n = 0 THEN framePtr' = 1
      ELSE /\ Top'.caller = FrameAt(n)
           /\ IF OwnsFrame(Top')
              THEN /\ framePtr' = Len(frames')
                   /\ frames'[framePtr'].parent = Top'.caller
                   /\ frames'[framePtr'].namespace <=> Top'.kind = "namespace"
              ELSE framePtr' = IF Top'.kind = "uplevel" THEN frames[Top'.caller].parent
                               ELSE Top'.caller
  <2>1. CASE n = 0
    BY <1>1, <2>1
  <2>2. CASE n # 0
    <3>1. Depth \in 2 .. Depth /\ FrameAt(Depth) = framePtr /\ stack[Depth] = Top
          /\ Len(frames) = 1 + Owners(Depth)
      BY <1>1, <2>2 DEF FrameAt, Top, Structured, Framed
    <3>2. IF OwnsFrame(Top)
          THEN /\ framePtr = 1 + Owners(Depth)
               /\ frames[1 + Owners(Depth)].parent = Top.caller
               /\ frames[1 + Owners(Depth)].namespace <=> Top.kind = "namespace"
          ELSE framePtr = IF Top.kind = "uplevel" THEN frames[Top.caller].parent
                          ELSE Top.caller
      BY <3>1 DEF Structured, Framed
    <3>3. Top'.kind = Top.kind /\ Top'.caller = Top.caller /\ Alike(frames'[framePtr], frames[framePtr])
      BY <1>1, <1>2 DEF SameCommand
    <3> QED BY <1>1, <1>2, <2>2, <3>1, <3>2, <3>3 DEF Alike
  <2> QED BY <2>1, <2>2
<1>6. Structured'
  <2>1. \A i \in 1 .. n : SameCommand(stack'[i], stack[i])
    BY <1>1
  <2>2. \A f \in 1 .. 1 + OwnersIn(stack, n) : Alike(frames'[f], frames[f])
    BY <1>1
  <2>3. Top'.kind = "base" <=> n = 0
    BY <1>1, <1>2 DEF SameCommand
  <2> HIDE DEF n
  <2> QED BY <1>1, <1>2, <1>3, <1>4, <1>5, <2>1, <2>2, <2>3, StructuredFrom
<1>7. ASSUME NEW f PROVE (Called(f)' <=> Called(f)) /\ (Awaited(f)' <=> Awaited(f))
  <2>1. ASSUME NEW i \in 2 .. Depth
        PROVE  /\ stack'[i].kind = stack[i].kind /\ stack'[i].phase = stack[i].phase
               /\ stack'[i].caller = stack[i].caller
    <3>1. i \in 1 .. Depth
      BY <1>1
    <3> QED BY <3>1 DEF SameCommand
  <2> QED BY <2>1 DEF Called, Awaited
<1> QED BY <1>6, <1>7

\* A command begins: a procedure or [namespace eval] in a frame of its own.
LEMMA PushedStack ==
    ASSUME Typed, Structured, NEW act \in Activation, stack' = Append(stack, act),
           act.kind # "base", act.phase = "body", act.caller = framePtr,
           "return" \notin act.ignore,
           frames' \in Seq(CallFrame),
           \A f \in 1 .. Len(frames) : Alike(frames'[f], frames[f]),
           IF OwnsFrame(act)
           THEN /\ Len(frames') = Len(frames) + 1
                /\ framePtr' = Len(frames) + 1
                /\ Alike(frames'[framePtr'], NewFrame(framePtr, act.kind = "namespace"))
                /\ Frame.level # MaxCallFrameDepth \/ act.kind = "namespace"
                /\ act.kind = "namespace" => Frame.level + 1 # MaxCallFrameDepth
           ELSE /\ Len(frames') = Len(frames)
                /\ framePtr' = IF act.kind = "uplevel" THEN Frame.parent ELSE framePtr
                /\ act.kind = "uplevel" => Frame.level # 0,
           signalLevel' = signalLevel + IF Listens(act) THEN 1 ELSE 0
    PROVE  /\ Structured' /\ stack' \in Seq(Activation) /\ Depth' = Depth + 1 /\ Top' = act
           /\ \A i \in 1 .. Depth : stack'[i] = stack[i]
           /\ framePtr' \in 1 .. Len(frames')
           /\ \A f : (Called(f) => Called(f)') /\ (Awaited(f) => Awaited(f)')
<1>1. /\ Depth \in Nat /\ Depth >= 1 /\ Depth \in 0 .. Depth
      /\ framePtr \in 1 .. Len(frames) /\ Len(frames) \in Nat
      /\ Len(frames) = 1 + OwnersIn(stack, Depth)
      /\ signalLevel = ListensIn(stack, Depth) /\ FrameAt(Depth) = framePtr
      /\ Frame \in CallFrame
  BY Innermost, Counted DEF Structured, Typed
<1>2. /\ stack' \in Seq(Activation) /\ Depth' = Depth + 1
      /\ \A i \in 1 .. Depth : stack'[i] = stack[i]
      /\ stack'[Depth + 1] = act
  BY AppendAt, AppendLast DEF Typed, Depth
<1>3. Top' = act /\ \A i \in 1 .. Depth : stack'[i] = stack[i]
  BY <1>2 DEF Top
<1>4. Linked' /\ CallFrameLimit'
  <2>1. CASE OwnsFrame(act)
    <3>1. /\ frames'[Len(frames) + 1].parent = framePtr
          /\ frames'[Len(frames) + 1].level = Frame.level + 1
          /\ frames'[Len(frames) + 1].namespace <=> act.kind = "namespace"
      BY <2>1 DEF Alike, NewFrame, Frame
    <3>2. Len(frames) \in 1 .. Len(frames)
      BY <1>1
    <3> QED BY <1>1, <2>1, <3>1, <3>2, LinkedFrom DEF Structured
  <2>2. CASE ~OwnsFrame(act)
    <3>1. Len(frames) \in 1 .. Len(frames)
      BY <1>1
    <3> QED BY <2>2, <3>1, LinkedFrom DEF Structured
  <2> QED BY <2>1, <2>2
<1>5. framePtr' \in 1 .. Len(frames')
  <2>1. ASSUME ~OwnsFrame(act), act.kind = "uplevel" PROVE Frame.parent \in 1 .. Len(frames)
    <3>1. framePtr # 1
      BY <1>1, <2>1 DEF Structured, Linked, Frame
    <3>2. Frame.parent \in 1 .. framePtr - 1
      BY <1>1, <3>1 DEF Structured, Linked, Frame
    <3> QED BY <1>1, <3>2
  <2> QED BY <1>1, <2>1
<1>6. Structured'
  <2>1. \A i \in 1 .. Depth : SameCommand(stack'[i], stack[i])
    BY <1>3 DEF SameCommand
  <2>2. Len(frames') = 1 + OwnersIn(stack, Depth) + IF OwnsFrame(Top') THEN 1 ELSE 0
    BY <1>1, <1>3
  <2>3. /\ Top'.caller = FrameAt(Depth)
        /\ IF OwnsFrame(Top')
           THEN /\ framePtr' = Len(frames')
                /\ frames'[framePtr'].parent = Top'.caller
                /\ frames'[framePtr'].namespace <=> Top'.kind = "namespace"
           ELSE framePtr' = IF Top'.kind = "uplevel" THEN frames[Top'.caller].parent
                            ELSE Top'.caller
    BY <1>1, <1>3 DEF Alike, NewFrame, Frame
  <2>4. /\ Top'.kind = "base" <=> Depth = 0
        /\ Top'.phase # "body" => Top'.kind = "proc"
        /\ "return" \notin Top'.ignore
        /\ signalLevel' = ListensIn(stack, Depth) + IF Listens(Top') THEN 1 ELSE 0
    BY <1>1, <1>3
  <2>5. \A f \in 1 .. 1 + OwnersIn(stack, Depth) : Alike(frames'[f], frames[f])
    BY <1>1
  <2>6. Depth # 0
    BY <1>1
  <2> QED BY <1>1, <1>2, <1>4, <1>5, <2>1, <2>2, <2>3, <2>4, <2>5, <2>6, StructuredFrom
<1>7. ASSUME NEW f PROVE (Called(f) => Called(f)') /\ (Awaited(f) => Awaited(f)')
  <2>1. \A i \in 2 .. Depth : i \in 2 .. Depth' /\ i \in 1 .. Depth
    BY <1>1, <1>2
  <2>2. \A i \in 2 .. Depth : stack'[i] = stack[i]
    BY <1>3, <2>1
  <2> QED BY <2>1, <2>2 DEF Called, Awaited
<1> QED BY <1>2, <1>3, <1>5, <1>6, <1>7

\* The command below the innermost one, and what it leaves when that one ends.
LEMMA BelowTop ==
    ASSUME Typed, Structured, Depth > 1
    PROVE  LET n == Depth - 2
               m == Depth - 1
           IN  /\ Depth \in Nat /\ n \in 0 .. Depth /\ n \in Nat /\ n + 1 = m /\ m \in 1 .. Depth
               /\ n = 0 \/ n \in 1 .. Depth
               /\ Len(frames) \in Nat
               /\ Len(frames) = 1 + OwnersIn(stack, m) + IF OwnsFrame(Top) THEN 1 ELSE 0
               /\ OwnersIn(stack, m) \in Nat /\ FrameAt(m) \in 1 .. 1 + Owners(m)
               /\ Owners(m) = OwnersIn(stack, m)
               /\ signalLevel = ListensIn(stack, m) + IF Listens(Top) THEN 1 ELSE 0
               /\ ListensIn(stack, m) \in Nat
               /\ Top.caller = FrameAt(m) /\ Below = stack[m] /\ Below \in Activation
<1> DEFINE n == Depth - 2
           m == Depth - 1
<1>1. Framed /\ \A i \in 1 .. Depth : FrameAt(i) \in 1 .. 1 + Owners(i)
  BY DEF Structured, Framed
<1>2. Depth \in Nat
  BY Innermost
<1>3. /\ m \in Nat /\ n \in Nat /\ n + 1 = m /\ m \in 1 .. Depth /\ n \in 0 .. Depth
      /\ n = 0 \/ n \in 1 .. Depth
  BY <1>2
<1>4. Below = stack[m]
  BY DEF Below
<1>5. /\ Len(frames) \in Nat
      /\ \A i \in 1 .. Depth : Owners(i) = OwnersIn(stack, i) /\ stack[i] \in Activation
  BY <1>1, Counted
<1>6. /\ Len(frames) = 1 + OwnersIn(stack, m) + IF OwnsFrame(Top) THEN 1 ELSE 0
      /\ OwnersIn(stack, m) \in Nat /\ ListensIn(stack, m) \in Nat
      /\ signalLevel = ListensIn(stack, m) + IF Listens(Top) THEN 1 ELSE 0
      /\ Top.caller = FrameAt(m)
  BY Innermost
<1>7. FrameAt(m) \in 1 .. 1 + Owners(m)
  BY <1>1, <1>3
<1>8. Owners(m) = OwnersIn(stack, m) /\ stack[m] \in Activation
  BY <1>3, <1>5
<1> HIDE DEF n, m
<1> QED
  BY <1>2, <1>3, <1>4, <1>5, <1>6, <1>7, <1>8 DEF n, m

\* The innermost command is over, and with it the frame it may have made.
LEMMA PoppedStack ==
    ASSUME Typed, Structured, Depth > 1, stack' = Pop,
           frames' \in Seq(CallFrame),
           Len(frames') = IF OwnsFrame(Top) THEN Len(frames) - 1 ELSE Len(frames),
           \A f \in 1 .. Len(frames') : Alike(frames'[f], frames[f]),
           framePtr' = Top.caller,
           signalLevel' = signalLevel - IF Listens(Top) THEN 1 ELSE 0
    PROVE  /\ Structured' /\ stack' \in Seq(Activation) /\ Depth' = Depth - 1
           /\ \A i \in 1 .. Depth - 1 : stack'[i] = stack[i]
           /\ framePtr' \in 1 .. Len(frames') /\ Top' = Below /\ Below \in Activation
           /\ \A f : ~(Top.kind = "proc" /\ Top.caller = f) =>
                     (Called(f) => Called(f)') /\ (Awaited(f) => Awaited(f)')
<1> DEFINE n == Depth - 2
           m == Depth - 1
<1>1. /\ Depth \in Nat /\ n \in 0 .. Depth /\ n \in Nat /\ n + 1 = m /\ m \in 1 .. Depth
      /\ n = 0 \/ n \in 1 .. Depth
      /\ Len(frames) \in Nat
      /\ Len(frames) = 1 + OwnersIn(stack, m) + IF OwnsFrame(Top) THEN 1 ELSE 0
      /\ OwnersIn(stack, m) \in Nat /\ FrameAt(m) \in 1 .. 1 + Owners(m)
      /\ Owners(m) = OwnersIn(stack, m)
      /\ signalLevel = ListensIn(stack, m) + IF Listens(Top) THEN 1 ELSE 0
      /\ ListensIn(stack, m) \in Nat
      /\ Top.caller = FrameAt(m) /\ Below = stack[m] /\ Below \in Activation
  BY BelowTop
<1>2. /\ stack' \in Seq(Activation) /\ Depth' = m /\ \A i \in 1 .. m : stack'[i] = stack[i]
  BY FrontProperties DEF Typed, Depth, Pop
<1>3. Top' = Below
  BY <1>1, <1>2 DEF Top, Below
<1>4. /\ OwnersIn(stack, m) = OwnersIn(stack, n) + IF OwnsFrame(Below) THEN 1 ELSE 0
      /\ OwnersIn(stack, n) \in Nat
      /\ ListensIn(stack, m) = ListensIn(stack, n) + IF Listens(Below) THEN 1 ELSE 0
      /\ ListensIn(stack, n) \in Nat
  <2>1. n \in Nat /\ n + 1 = m /\ stack[m] = Below
    BY <1>1
  <2> HIDE DEF n, m
  <2>2. /\ OwnersIn(stack, n + 1) = OwnersIn(stack, n) + IF OwnsFrame(stack[n + 1]) THEN 1 ELSE 0
        /\ OwnersIn(stack, n) \in Nat
    BY <2>1, OwnersStep
  <2>3. /\ ListensIn(stack, n + 1) = ListensIn(stack, n) + IF Listens(stack[n + 1]) THEN 1 ELSE 0
        /\ ListensIn(stack, n) \in Nat
    BY <2>1, ListensStep
  <2> QED
    BY <2>1, <2>2, <2>3
<1>5. Len(frames') = 1 + OwnersIn(stack, m) /\ Len(frames') \in 1 .. Len(frames)
  BY <1>1
<1>6. Linked' /\ CallFrameLimit'
  BY <1>1, <1>5, LinkedFrom DEF Structured
<1>7. framePtr' \in 1 .. Len(frames')
  BY <1>1, <1>5
<1>8. IF n = 0 THEN framePtr' = 1
      ELSE /\ Below.caller = FrameAt(n)
           /\ IF OwnsFrame(Below)
              THEN /\ framePtr' = Len(frames')
                   /\ frames'[framePtr'].parent = Below.caller
                   /\ frames'[framePtr'].namespace <=> Below.kind = "namespace"
              ELSE framePtr' = IF Below.kind = "uplevel" THEN frames[Below.caller].parent
                               ELSE Below.caller
  <2>1. CASE n = 0
    BY <1>1, <2>1 DEF Structured, Framed
  <2>2. CASE n # 0
    <3>1. m \in 2 .. Depth /\ n # Depth
      BY <1>1, <2>2
    <3>2. IF OwnsFrame(Below)
          THEN /\ FrameAt(m) = 1 + Owners(m)
               /\ frames[1 + Owners(m)].parent = Below.caller
               /\ frames[1 + Owners(m)].namespace <=> Below.kind = "namespace"
          ELSE FrameAt(m) = IF Below.kind = "uplevel" THEN frames[Below.caller].parent
                            ELSE Below.caller
      BY <1>1, <3>1 DEF Structured, Framed
    <3>3. Below.caller = FrameAt(n)
      BY <1>1, <3>1 DEF FrameAt
    <3>4. Alike(frames'[framePtr'], frames[framePtr'])
      BY <1>7
    <3> QED BY <1>1, <1>5, <2>2, <3>2, <3>3, <3>4 DEF Alike
  <2> QED BY <2>1, <2>2
<1>9. Structured'
  <2>1. \A i \in 1 .. n : SameCommand(stack'[i], stack[i])
    <3>1. \A i \in 1 .. n : i \in 1 .. m
      BY <1>1
    <3> HIDE DEF m, n
    <3> QED BY <1>2, <3>1 DEF SameCommand
  <2>2. \A f \in 1 .. 1 + OwnersIn(stack, n) : Alike(frames'[f], frames[f])
    BY <1>4, <1>5
  <2>3. /\ Below.kind = "base" <=> n = 0
        /\ Below.phase # "body" => Below.kind = "proc"
        /\ "return" \notin Below.ignore
    BY <1>1 DEF Structured, Shaped
  <2>4. /\ Depth' = n + 1
        /\ Len(frames') = 1 + OwnersIn(stack, n) + IF OwnsFrame(Below) THEN 1 ELSE 0
        /\ signalLevel' = ListensIn(stack, n) + IF Listens(Below) THEN 1 ELSE 0
    <3>1. signalLevel' = ListensIn(stack, m)
      BY <1>1
    <3>2. Depth' = n + 1
      BY <1>1, <1>2
    <3>3. Len(frames') = 1 + OwnersIn(stack, n) + IF OwnsFrame(Below) THEN 1 ELSE 0
      BY <1>4, <1>5
    <3> QED BY <1>4, <3>1, <3>2, <3>3
  <2> HIDE DEF n, m
  <2> QED BY <1>1, <1>2, <1>3, <1>6, <1>7, <1>8, <2>1, <2>2, <2>3, <2>4, StructuredFrom
<1>10. ASSUME NEW f, ~(Top.kind = "proc" /\ Top.caller = f)
       PROVE  (Called(f) => Called(f)') /\ (Awaited(f) => Awaited(f)')
  <2>1. \A i \in 2 .. Depth : i = Depth \/ i \in 2 .. m
    BY <1>1
  <2>2. \A i \in 2 .. m : stack'[i] = stack[i]
    BY <1>2
  <2> QED BY <1>2, <1>10, <2>1, <2>2 DEF Called, Awaited, Top
<1> QED BY <1>1, <1>2, <1>3, <1>7, <1>9, <1>10

---------------------------------------------------------------------------
(* What the steps do to tailcalls and to the [return] in flight *)

\* What a frame knows of a tailcall.
SameTail(f, g) ==
    /\ f.tailcallObj = g.tailcallObj /\ f.tailcallCmd = g.tailcallCmd
    /\ f.stray = g.stray
NoTail(f) == f.tailcallObj = None /\ f.tailcallCmd = None

\* A step that evaluates no tailcall keeps what is stashed, forgets the command
\* once it has been looked up, or makes a stash that somebody waits for.
LEMMA StashesFrom ==
    ASSUME Stashes,
           \A f \in 1 .. Len(frames') :
               \/ NoTail(frames'[f])
               \/ /\ f \in 1 .. Len(frames) /\ ~AtTail(f)'
                  /\ frames'[f].tailcallObj = frames[f].tailcallObj
                  /\ \/ frames'[f].tailcallCmd = None
                     \/ frames'[f].tailcallCmd = frames[f].tailcallCmd /\ ~AtTail(f)
                  /\ frames'[f].stray = frames[f].stray \/ frames[f].tailcallObj = None
                  /\ (Called(f) => Called(f)') /\ (Awaited(f) => Awaited(f)')
               \/ /\ frames'[f].tailcallCmd = frames'[f].tailcallObj /\ ~AtTail(f)'
                  /\ frames'[f].stray \/ (Called(f)' /\ Awaited(f)')
               \/ Stash(f)'
    PROVE  Stashes'
<1> SUFFICES ASSUME NEW f \in 1 .. Len(frames') PROVE Stash(f)'
  BY DEF Stashes
<1>1. CASE NoTail(frames'[f])
  BY <1>1 DEF NoTail, Stash
<1>2. CASE /\ f \in 1 .. Len(frames) /\ ~AtTail(f)'
           /\ frames'[f].tailcallObj = frames[f].tailcallObj
           /\ \/ frames'[f].tailcallCmd = None
              \/ frames'[f].tailcallCmd = frames[f].tailcallCmd /\ ~AtTail(f)
           /\ frames'[f].stray = frames[f].stray \/ frames[f].tailcallObj = None
           /\ (Called(f) => Called(f)') /\ (Awaited(f) => Awaited(f)')
  <2>1. Stash(f)
    BY <1>2 DEF Stashes
  <2> QED BY <1>2, <2>1 DEF Stash
<1>3. CASE /\ frames'[f].tailcallCmd = frames'[f].tailcallObj /\ ~AtTail(f)'
           /\ frames'[f].stray \/ (Called(f)' /\ Awaited(f)')
  BY <1>3 DEF Stash
<1> QED BY <1>1, <1>2, <1>3

\* A [return] that waits goes on waiting, unless there is none.
LEMMA WaitsKept ==
    ASSUME Typed, Structured, ReturnWaits, stack' \in Seq(Activation), NEW n \in 0 .. Depth,
           Depth' = n + 1, \A i \in 1 .. n : stack'[i] = stack[i],
           \/ ~Deferring(n + 1)'
           \/ /\ n < Depth /\ stack'[n + 1].kind = stack[n + 1].kind
              /\ stack'[n + 1].phase = stack[n + 1].phase
              /\ stack'[n + 1].kept = stack[n + 1].kept
              /\ stack'[n + 1].keptAim = stack[n + 1].keptAim,
           \/ /\ \A i \in 1 .. n : ~Waits(i)
              /\ n < Depth => ~Waits(n + 1)
           \/ code' # "return" /\ UNCHANGED <<returnCode, returnLevel>>
    PROVE  ReturnWaits'
<1>0. Depth \in Nat /\ n \in Nat
  BY Counted DEF Structured
<1>1. ASSUME NEW i \in 1 .. n + 1
      PROVE  \/ i \in 1 .. Depth /\ stack'[i] = stack[i]
             \/ i \in 1 .. Depth /\ i = n + 1 /\ stack'[i].kind = stack[i].kind
                /\ stack'[i].phase = stack[i].phase /\ stack'[i].kept = stack[i].kept
                /\ stack'[i].keptAim = stack[i].keptAim
             \/ i = n + 1 /\ ~Deferring(i)'
  <2>1. CASE i = n + 1
    BY <1>0, <2>1
  <2>2. CASE i # n + 1
    BY <1>0, <2>2
  <2> QED BY <2>1, <2>2
<1>2. ASSUME NEW i \in 1 .. n + 1, Waits(i)'
      PROVE  /\ code' # "return"
             /\ \A j \in i + 1 .. n + 1 : ~Deferring(j)'
             /\ returnCode' = stack'[i].keptAim.code
             /\ stack'[i].keptAim.at = Target(SubSeq(stack', 1, i), LevelLeft')
  <2>1. Deferring(i)'
    BY <1>2 DEF Waits
  <2>2. /\ i \in 1 .. Depth /\ Waits(i)
        /\ stack'[i].kind = stack[i].kind /\ stack'[i].phase = stack[i].phase
        /\ stack'[i].keptAim = stack[i].keptAim
    BY <1>1, <1>2, <2>1 DEF Waits, Deferring
  <2>3. code' # "return" /\ UNCHANGED <<returnCode, returnLevel>>
    <3>1. i \in 1 .. n \/ (i = n + 1 /\ n < Depth)
      BY <1>0, <2>2
    <3> QED BY <2>2, <3>1
  <2>4. /\ \A j \in i + 1 .. Depth : ~Deferring(j)
        /\ returnCode = stack[i].keptAim.code
        /\ stack[i].keptAim.at = Target(SubSeq(stack, 1, i), LevelLeft)
    BY <2>2 DEF ReturnWaits
  <2>5. ASSUME NEW j \in i + 1 .. n + 1 PROVE ~Deferring(j)'
    <3>1. j \in 1 .. n + 1
      BY <1>0
    <3>2. j \in 1 .. Depth => j \in i + 1 .. Depth
      BY <1>0
    <3> QED BY <1>1, <2>4, <3>1, <3>2 DEF Deferring
  <2>6. Target(SubSeq(stack', 1, i), LevelLeft') = Target(SubSeq(stack, 1, i), LevelLeft)
    <3> DEFINE t == SubSeq(stack', 1, i)
               u == SubSeq(stack, 1, i)
    <3>1. /\ t \in Seq(Activation) /\ Len(t) = i /\ \A j \in 1 .. i : t[j] = stack'[j]
      <4>1. i \in 0 .. Len(stack')
        BY <1>0 DEF Depth
      <4> QED BY <4>1, PrefixProperties
    <3>2. /\ u \in Seq(Activation) /\ Len(u) = i /\ \A j \in 1 .. i : u[j] = stack[j]
      <4>1. i \in 0 .. Len(stack) /\ stack \in Seq(Activation)
        BY <1>0, <2>2 DEF Depth, Typed
      <4> QED BY <4>1, PrefixProperties
    <3>3. ASSUME NEW j \in 1 .. i
          PROVE  stack'[j].kind = stack[j].kind /\ stack'[j].phase = stack[j].phase
      <4>1. CASE j = i
        BY <2>2, <4>1
      <4>2. CASE j # i
        <5>1. j \in 1 .. n
          BY <1>0, <4>2
        <5> QED BY <5>1
      <4> QED BY <4>1, <4>2
    <3> HIDE DEF t, u
    <3>4. \A j \in 1 .. Len(t) : /\ Counts(t[j]) <=> Counts(u[j])
                                 /\ t[j].kind = "source" <=> u[j].kind = "source"
      BY <3>1, <3>2, <3>3 DEF Counts
    <3>5. Target(t, LevelLeft) = Target(u, LevelLeft)
      BY <3>1, <3>2, <3>4, TargetSame
    <3>6. LevelLeft' = LevelLeft
      BY <2>3 DEF LevelLeft
    <3> QED BY <3>5, <3>6 DEF t, u
  <2> QED BY <2>2, <2>3, <2>4, <2>5, <2>6
<1>3. ReturnWaits' <=> \A i \in 1 .. n + 1 : Waits(i)' =>
          /\ code' # "return"
          /\ \A j \in i + 1 .. n + 1 : ~Deferring(j)'
          /\ returnCode' = stack'[i].keptAim.code
          /\ stack'[i].keptAim.at = Target(SubSeq(stack', 1, i), LevelLeft')
  BY DEF ReturnWaits
<1> QED BY <1>2, <1>3, Zenon

\* Looking up a command forgets the one a tailcall has left.
LEMMA LookedUpIs ==
    ASSUME Typed
    PROVE  /\ LookedUp \in Seq(CallFrame) /\ Len(LookedUp) = Len(frames)
           /\ \A f \in 1 .. Len(frames) :
                 /\ LookedUp[f] \in CallFrame /\ Alike(LookedUp[f], frames[f])
                 /\ LookedUp[f].defers = frames[f].defers
                 /\ f # framePtr => LookedUp[f] = frames[f]
           /\ LET fr == LookedUp[framePtr]
              IN  /\ fr.tailcallObj = Frame.tailcallObj /\ fr.tailcallCmd = None
                  /\ fr.stray = Frame.stray \/ Frame.tailcallObj = None
<1> DEFINE a == [Frame EXCEPT !.stray = @ /\ Frame.tailcallObj # None]
           b == [a EXCEPT !.tailcallCmd = None]
<1>1. Frame \in CallFrame /\ framePtr \in 1 .. Len(frames) /\ Len(frames) \in Nat
  BY ElementOfSeq, LenProperties DEF Typed, Frame
<1>2. /\ a \in CallFrame /\ Alike(a, Frame) /\ a.defers = Frame.defers
      /\ a.tailcallObj = Frame.tailcallObj
      /\ a.stray = Frame.stray \/ Frame.tailcallObj = None
  <2>1. Frame.stray \in BOOLEAN
    BY <1>1 DEF CallFrame
  <2>2. CASE Frame.tailcallObj # None
    <3>1. a = [Frame EXCEPT !.stray = Frame.stray]
      BY <1>1, <2>1, <2>2 DEF CallFrame
    <3> QED BY <1>1, <2>1, <2>2, <3>1 DEF CallFrame, Alike
  <2>3. CASE Frame.tailcallObj = None
    <3>1. a = [Frame EXCEPT !.stray = FALSE]
      BY <1>1, <2>1, <2>3 DEF CallFrame
    <3> QED BY <1>1, <2>1, <2>3, <3>1 DEF CallFrame, Alike
  <2> QED BY <2>2, <2>3
<1>3. LookedUp = [frames EXCEPT ![framePtr] = b]
  BY Zenon DEF LookedUp, Frame, Used
<1> HIDE DEF a
<1>4. /\ b \in CallFrame /\ Alike(b, Frame) /\ b.defers = Frame.defers
      /\ b.tailcallObj = Frame.tailcallObj /\ b.tailcallCmd = None
      /\ b.stray = Frame.stray \/ Frame.tailcallObj = None
  BY <1>2 DEF CallFrame, Alike
<1> HIDE DEF b
<1>5. /\ LookedUp \in Seq(CallFrame) /\ Len(LookedUp) = Len(frames)
      /\ \A f \in 1 .. Len(frames) : LookedUp[f] = IF f = framePtr THEN b ELSE frames[f]
  BY <1>1, <1>3, <1>4, ExceptSeq DEF Typed
<1>6. \A f \in 1 .. Len(frames) : LookedUp[f] \in CallFrame
  BY <1>5, ElementOfSeq
<1>7. \A f \in 1 .. Len(frames) : Alike(LookedUp[f], frames[f]) /\ LookedUp[f].defers = frames[f].defers
  BY <1>4, <1>5 DEF Alike, Frame
<1> QED BY <1>1, <1>4, <1>5, <1>6, <1>7

---------------------------------------------------------------------------
(* Commands that end at once *)

AimType == [at: Nat, code: Codes, spoiled: BOOLEAN]

\* A command is looked up and changes no more than a tailcall, and what is kept
\* by the commands under it.
LEMMA Stays ==
    ASSUME Inv, code = "run", stack' \in Seq(Activation), Depth' = Depth,
           \A i \in 1 .. Depth : SameCommand(stack'[i], stack[i]),
           frames' \in Seq(CallFrame), Len(frames') = Len(frames),
           \A f \in 1 .. Len(frames) : Alike(frames'[f], frames[f]),
           \A f \in 1 .. Len(frames) :
               \/ SameTail(frames'[f], LookedUp[f])
               \/ /\ frames'[f].tailcallCmd = frames'[f].tailcallObj
                  /\ frames'[f].stray \/ Awaited(f),
           framePtr' = framePtr, signalLevel' = signalLevel, sigmask' \in BOOLEAN,
           code' \in Codes \cup {"run"}, code' = "run" => Top.phase # "tail",
           returnCode' \in Codes, returnLevel' \in Nat, aim' \in AimType,
           ReturnWaits', ReturnEndsItsLevels'
    PROVE  Inv'
<1>0. Typed /\ Structured /\ Stashes
  BY DEF Inv
<1>1. Structured' /\ \A f : (Called(f)' <=> Called(f)) /\ (Awaited(f)' <=> Awaited(f))
  BY <1>0, SameStack
<1>2. Typed'
  BY <1>0 DEF Typed, AimType
<1>3. Top'.phase = Top.phase
  <2>1. Depth \in 1 .. Depth
    BY <1>0, Innermost
  <2> QED BY <2>1 DEF Top, SameCommand
<1>4. Stashes'
  <2>1. ASSUME NEW f \in 1 .. Len(frames')
        PROVE  \/ /\ f \in 1 .. Len(frames) /\ ~AtTail(f)'
                  /\ frames'[f].tailcallObj = frames[f].tailcallObj
                  /\ \/ frames'[f].tailcallCmd = None
                     \/ frames'[f].tailcallCmd = frames[f].tailcallCmd /\ ~AtTail(f)
                  /\ frames'[f].stray = frames[f].stray \/ frames[f].tailcallObj = None
                  /\ (Called(f) => Called(f)') /\ (Awaited(f) => Awaited(f)')
               \/ /\ frames'[f].tailcallCmd = frames'[f].tailcallObj /\ ~AtTail(f)'
                  /\ frames'[f].stray \/ (Called(f)' /\ Awaited(f)')
    <3>1. ~AtTail(f)'
      BY <1>3 DEF AtTail
    <3>2. Awaited(f) => Called(f)
      BY DEF Awaited, Called
    <3>3. CASE SameTail(frames'[f], LookedUp[f])
      <4>1. CASE f = framePtr
        BY <1>0, <1>1, <3>1, <3>3, <4>1, LookedUpIs DEF SameTail, Frame
      <4>2. CASE f # framePtr
        <5>1. ~AtTail(f)
          BY <4>2 DEF AtTail
        <5>2. LookedUp[f] = frames[f]
          BY <1>0, <4>2, LookedUpIs
        <5> QED BY <1>1, <3>1, <3>3, <5>1, <5>2 DEF SameTail
      <4> QED BY <4>1, <4>2
    <3>4. CASE /\ frames'[f].tailcallCmd = frames'[f].tailcallObj
               /\ frames'[f].stray \/ Awaited(f)
      <4>1. (Called(f)' <=> Called(f)) /\ (Awaited(f)' <=> Awaited(f))
        BY <1>1
      <4> QED BY <3>1, <3>2, <3>4, <4>1
    <3> QED BY <3>3, <3>4
  <2> QED BY <1>0, <2>1, StashesFrom
<1> QED BY <1>1, <1>2, <1>4 DEF Inv

\* The same, for a command other than [return].
LEMMA EndsAtOnce ==
    ASSUME Inv, code = "run", UNCHANGED <<stack, framePtr, signalLevel>>,
           UNCHANGED <<returnCode, returnLevel, aim>>,
           frames' \in Seq(CallFrame), Len(frames') = Len(frames),
           \A f \in 1 .. Len(frames) : Alike(frames'[f], frames[f]),
           \A f \in 1 .. Len(frames) :
               \/ SameTail(frames'[f], LookedUp[f])
               \/ /\ frames'[f].tailcallCmd = frames'[f].tailcallObj
                  /\ frames'[f].stray \/ Awaited(f),
           sigmask' \in BOOLEAN,
           code' \in Codes \cup {"run"}, code' = "run" => Top.phase # "tail", code' # "return"
    PROVE  Inv'
<1>0. Typed /\ Structured /\ ReturnWaits
  BY DEF Inv
<1>1. /\ stack' \in Seq(Activation) /\ Depth' = Depth
      /\ \A i \in 1 .. Depth : SameCommand(stack'[i], stack[i])
      /\ returnCode' \in Codes /\ returnLevel' \in Nat /\ aim' \in AimType
  BY <1>0 DEF Typed, Depth, SameCommand, AimType
<1>2. ReturnEndsItsLevels'
  BY DEF ReturnEndsItsLevels
<1>3. ReturnWaits'
  <2> DEFINE n == Depth - 1
  <2>1. n \in 0 .. Depth /\ Depth' = n + 1 /\ n < Depth
    BY <1>0, <1>1, Innermost
  <2>2. \A i : stack'[i] = stack[i]
    OBVIOUS
  <2> HIDE DEF n
  <2> QED BY <1>0, <1>1, <2>1, <2>2, WaitsKept
<1> QED BY <1>1, <1>2, <1>3, Stays

\* Nothing but the command found is used up.
LEMMA EndsLookedUp ==
    ASSUME Inv, code = "run", UNCHANGED <<stack, framePtr, signalLevel>>,
           UNCHANGED <<returnCode, returnLevel, aim>>,
           frames' = LookedUp, sigmask' \in BOOLEAN,
           code' \in Codes \cup {"run"}, code' = "run" => Top.phase # "tail", code' # "return"
    PROVE  Inv'
<1>1. Typed
  BY DEF Inv
<1> QED BY <1>1, LookedUpIs, EndsAtOnce DEF SameTail

\* A command made the frame a command runs in: a procedure, unless it is the
\* global frame or one of [namespace eval].
LEMMA FrameOwner ==
    ASSUME Typed, Structured, framePtr # 1, ~Frame.namespace
    PROVE  Awaited(Frame.parent)
<1>1. Depth \in Nat /\ Len(frames) = 1 + OwnersIn(stack, Depth) /\ framePtr \in 1 .. Len(frames)
      /\ OwnersIn(stack, Depth) \in Nat
  BY Innermost, OwnersStep DEF Typed
<1>2. PICK i \in 1 .. Depth : OwnsFrame(stack[i]) /\ OwnersIn(stack, i) = framePtr - 1
  <2>1. framePtr - 1 \in 1 .. OwnersIn(stack, Depth)
    BY <1>1
  <2> QED BY <1>1, <2>1, OwnerExists
<1>3. i \in 2 .. Depth
  <2>1. stack[i].kind # "base"
    BY <1>2 DEF OwnsFrame
  <2> QED BY <1>1, <2>1 DEF Structured, Shaped
<1>4. 1 + Owners(i) = framePtr
  BY <1>1, <1>2, Counted DEF Structured
<1>5. /\ frames[1 + Owners(i)].parent = stack[i].caller
      /\ frames[1 + Owners(i)].namespace <=> stack[i].kind = "namespace"
  BY <1>2, <1>3 DEF Structured, Framed
<1>6. stack[i].kind = "proc" /\ stack[i].phase # "tail" /\ stack[i].caller = Frame.parent
  BY <1>2, <1>4, <1>5 DEF Frame, OwnsFrame
<1> QED BY <1>3, <1>6 DEF Awaited

\* [tailcall]: the stash in the parent's frame waits for the procedure.
LEMMA TailcallStep ==
    ASSUME Inv, NEW target \in Targets, Tailcall(target)
    PROVE  Inv'
<1>0. Typed /\ Structured /\ target \in Names
  BY InputsAssumption DEF Inv
<1>1. /\ code = "run" /\ UNCHANGED <<stack, framePtr, signalLevel>> /\ sigmask' \in BOOLEAN
      /\ UNCHANGED <<returnCode, returnLevel, aim>>
  BY <1>0 DEF Tailcall, Invokes, Quiet, Typed
<1>2. CASE Frame.level = 0
  <2>1. frames' = LookedUp /\ code' = AfterCommand(Top, "err")
    BY <1>2 DEF Tailcall, Ends
  <2>2. /\ code' \in Codes \cup {"run"} /\ (code' = "run" => Top.phase # "tail")
        /\ code' # "return"
    BY <2>1, AfterCommandIs DEF Codes
  <2> QED BY <1>1, <2>1, <2>2, EndsLookedUp
<1>3. CASE Frame.level # 0
  <2> DEFINE p == Frame.parent
             g == LookedUp[p]
             a == [g EXCEPT !.tailcallObj = target]
             b == [a EXCEPT !.tailcallCmd = target]
             c == [b EXCEPT !.stray = Frame.namespace]
  <2>1. code' = AfterCommand(Top, "eval")
    BY <1>3 DEF Tailcall, Ends
  <2>2. /\ code' \in Codes \cup {"run"} /\ (code' = "run" => Top.phase # "tail")
        /\ code' # "return"
    BY <2>1, AfterCommandIs DEF Codes
  <2>3. /\ framePtr \in 1 .. Len(frames) /\ Len(frames) \in Nat /\ framePtr # 1
        /\ p \in 1 .. Len(frames) /\ Frame \in CallFrame
    <3>1. framePtr \in 1 .. Len(frames) /\ Len(frames) \in Nat /\ Frame \in CallFrame
      BY <1>0, Innermost, Counted DEF Typed, Structured
    <3>2. framePtr # 1
      BY <1>0, <1>3, <3>1 DEF Structured, Linked, Frame
    <3>3. p \in 1 .. framePtr - 1
      BY <1>0, <3>1, <3>2 DEF Structured, Linked, Frame
    <3> QED BY <3>1, <3>2, <3>3
  <2>4. g \in CallFrame /\ Alike(g, frames[p]) /\ LookedUp \in Seq(CallFrame)
        /\ Len(LookedUp) = Len(frames)
    BY <1>0, <2>3, LookedUpIs
  <2>5. a \in CallFrame /\ Alike(a, frames[p]) /\ a.tailcallObj = target
    <3> HIDE DEF g, p
    <3> QED BY <1>0, <2>4 DEF CallFrame, Alike
  <2>6. b \in CallFrame /\ Alike(b, frames[p]) /\ b.tailcallObj = target /\ b.tailcallCmd = target
    <3> HIDE DEF a, p
    <3> QED BY <1>0, <2>5 DEF CallFrame, Alike
  <2>7. /\ c \in CallFrame /\ Alike(c, frames[p]) /\ c.tailcallObj = target
        /\ c.tailcallCmd = target /\ c.stray = Frame.namespace
    <3>1. Frame.namespace \in BOOLEAN
      BY <2>3 DEF CallFrame
    <3> HIDE DEF b, p
    <3> QED BY <2>6, <3>1 DEF CallFrame, Alike
  <2>8. frames' = [LookedUp EXCEPT ![p] = c]
    BY <1>3, Zenon DEF Tailcall, Stashed
  <2> HIDE DEF c
  <2>9. /\ frames' \in Seq(CallFrame) /\ Len(frames') = Len(frames)
        /\ \A f \in 1 .. Len(frames) : frames'[f] = IF f = p THEN c ELSE LookedUp[f]
    BY <2>3, <2>4, <2>7, <2>8, ExceptSeq
  <2>10. \A f \in 1 .. Len(frames) : Alike(frames'[f], frames[f])
    BY <1>0, <2>7, <2>9, LookedUpIs
  <2>11. c.stray \/ Awaited(p)
    BY <1>0, <2>3, <2>7, FrameOwner
  <2>12. ASSUME NEW f \in 1 .. Len(frames)
         PROVE  \/ SameTail(frames'[f], LookedUp[f])
                \/ /\ frames'[f].tailcallCmd = frames'[f].tailcallObj
                   /\ frames'[f].stray \/ Awaited(f)
    BY <2>7, <2>9, <2>11 DEF SameTail
  <2> QED BY <1>1, <2>2, <2>9, <2>10, <2>12, EndsAtOnce
<1> QED BY <1>2, <1>3

\* [defer]: one script more in the frame.
LEMMA DeferStep ==
    ASSUME Inv, Defer
    PROVE  Inv'
<1> DEFINE g == LookedUp[framePtr]
           a == [g EXCEPT !.defers = @ + 1]
<1>0. Typed /\ Structured
  BY DEF Inv
<1>1. /\ code = "run" /\ UNCHANGED <<stack, framePtr, signalLevel>> /\ sigmask' \in BOOLEAN
      /\ UNCHANGED <<returnCode, returnLevel, aim>>
      /\ code' = AfterCommand(Top, "ok")
      /\ frames' = [LookedUp EXCEPT ![framePtr] = a]
  BY <1>0 DEF Defer, Invokes, Quiet, Typed, Ends
<1>2. /\ code' \in Codes \cup {"run"} /\ (code' = "run" => Top.phase # "tail")
      /\ code' # "return"
  BY <1>1, AfterCommandIs DEF Codes
<1>3. /\ framePtr \in 1 .. Len(frames) /\ g \in CallFrame /\ Alike(g, frames[framePtr])
      /\ LookedUp \in Seq(CallFrame) /\ Len(LookedUp) = Len(frames)
  BY <1>0, LookedUpIs DEF Typed
<1>4. a \in CallFrame /\ Alike(a, frames[framePtr]) /\ SameTail(a, g)
  <2> DEFINE n == g.defers + 1
  <2>1. n \in Nat
    BY <1>3 DEF CallFrame
  <2>2. a = [g EXCEPT !.defers = n]
    OBVIOUS
  <2> HIDE DEF g, n, a
  <2> QED BY <1>3, <2>1, <2>2 DEF CallFrame, Alike, SameTail
<1> HIDE DEF a
<1>5. /\ frames' \in Seq(CallFrame) /\ Len(frames') = Len(frames)
      /\ \A f \in 1 .. Len(frames) : frames'[f] = IF f = framePtr THEN a ELSE LookedUp[f]
  BY <1>1, <1>3, <1>4, ExceptSeq
<1>6. ASSUME NEW f \in 1 .. Len(frames)
      PROVE  Alike(frames'[f], frames[f]) /\ SameTail(frames'[f], LookedUp[f])
  <2>1. CASE f = framePtr
    BY <1>4, <1>5, <2>1
  <2>2. CASE f # framePtr
    BY <1>0, <1>5, <2>2, LookedUpIs DEF SameTail
  <2> QED BY <2>1, <2>2
<1> QED BY <1>1, <1>2, <1>5, <1>6, EndsAtOnce

\* [return]: the one in flight, and no other is waiting.
LEMMA ReturnStep ==
    ASSUME Inv, NEW level \in Levels, NEW c \in ReturnCodes, Return(level, c)
    PROVE  Inv'
<1>0. Typed /\ Structured /\ level \in Nat /\ c \in Codes
  BY InputsAssumption, BoundsAssumption DEF Inv
<1>1. /\ code = "run" /\ frames' = LookedUp /\ UNCHANGED <<framePtr, signalLevel>>
      /\ sigmask' \in BOOLEAN /\ returnCode' = c /\ returnLevel' = level
      /\ code' = AfterCommand(Top, "return")
      /\ aim' = IF code' = "return" THEN Aim(stack, level, c) ELSE NoAim
  BY <1>0 DEF Return, Invokes, Quiet, Typed, Ends
<1>2. code' \in Codes \cup {"run"} /\ (code' = "run" => Top.phase # "tail")
  BY <1>1, AfterCommandIs DEF Codes
<1>3. Depth \in Nat /\ \A i \in 1 .. Depth : stack[i] \in Activation
  BY <1>0, Counted DEF Structured
<1>4. ASSUME NEW a \in Activation
      PROVE  LET b == [a EXCEPT !.keptAim.spoiled = TRUE]
             IN  b \in Activation /\ SameCommand(b, a) /\ b.keptAim.spoiled
  <2> DEFINE k == [a.keptAim EXCEPT !.spoiled = TRUE]
             b == [a EXCEPT !.keptAim = k]
  <2>1. k \in AimType /\ k.spoiled
    BY DEF Activation, AimType
  <2>2. [a EXCEPT !.keptAim.spoiled = TRUE] = b
    BY Zenon
  <2> HIDE DEF k
  <2> QED BY <2>1, <2>2 DEF Activation, AimType, SameCommand
<1>5. stack' = [i \in 1 .. Depth |->
                  IF Deferring(i) THEN [stack[i] EXCEPT !.keptAim.spoiled = TRUE] ELSE stack[i]]
  BY DEF Return, Deferring
<1>6. ASSUME NEW i \in 1 .. Depth
      PROVE  stack'[i] \in Activation /\ SameCommand(stack'[i], stack[i]) /\ ~Waits(i)'
  <2>1. CASE Deferring(i)
    <3>1. /\ stack'[i] \in Activation /\ SameCommand(stack'[i], stack[i])
          /\ stack'[i].keptAim.spoiled
      BY <1>3, <1>4, <1>5, <2>1
    <3> QED BY <3>1 DEF Waits
  <2>2. CASE ~Deferring(i)
    <3>1. stack'[i] = stack[i]
      BY <1>5, <2>2
    <3> QED BY <1>3, <2>2, <3>1 DEF Waits, Deferring, SameCommand
  <2> QED BY <2>1, <2>2
<1>7. stack' \in Seq(Activation) /\ Depth' = Depth
  <2>1. stack' \in [1 .. Depth -> Activation]
    BY <1>5, <1>6
  <2> QED BY <1>3, <2>1, FunctionIsSeq DEF Depth
<1>8. ReturnWaits'
  BY <1>6, <1>7 DEF ReturnWaits
<1>9. ASSUME NEW l PROVE Target(stack', l) = Target(stack, l)
  <2>1. /\ stack' \in Seq(Activation) /\ stack \in Seq(Activation) /\ Len(stack') = Len(stack)
        /\ \A i \in 1 .. Len(stack') : /\ Counts(stack'[i]) <=> Counts(stack[i])
                                       /\ stack'[i].kind = "source" <=> stack[i].kind = "source"
    BY <1>0, <1>6, <1>7 DEF Typed, Depth, SameCommand, Counts
  <2> QED BY <2>1, TargetSame
<1>10. aim' \in AimType
  <2>1. Target(stack, IF level = 0 THEN 1 ELSE level) \in Nat
    BY <1>0, TargetType DEF Typed
  <2> QED BY <1>0, <1>1, <2>1 DEF AimType, Aim, NoAim, Codes
<1>11. ReturnEndsItsLevels'
  BY <1>1, <1>9 DEF ReturnEndsItsLevels, Aim
<1>12. /\ LookedUp \in Seq(CallFrame) /\ Len(LookedUp) = Len(frames)
       /\ \A f \in 1 .. Len(frames) : Alike(LookedUp[f], frames[f]) /\ SameTail(LookedUp[f], LookedUp[f])
  BY <1>0, LookedUpIs DEF SameTail
<1>13. returnCode' \in Codes /\ returnLevel' \in Nat
  BY <1>0, <1>1
<1> QED BY <1>1, <1>2, <1>6, <1>7, <1>8, <1>10, <1>11, <1>12, <1>13, Stays

\* What a command that fails or ends at once does.
Fails(c) ==
    /\ Ends(c) /\ frames' = LookedUp /\ sigmask' = sigmask /\ signalLevel' = signalLevel
    /\ UNCHANGED <<stack, framePtr, returnCode, returnLevel, aim>>

\* A command that ends at once with a code other than that of [return].
LEMMA FailsStep ==
    ASSUME Inv, code = "run", NEW c \in Codes \ {"return"}, Fails(c)
    PROVE  Inv'
<1>1. /\ code' \in Codes \cup {"run"} /\ (code' = "run" => Top.phase # "tail")
      /\ code' # "return"
  BY AfterCommandIs DEF Fails, Ends
<1>2. sigmask' \in BOOLEAN
  BY DEF Inv, Typed, Fails
<1> QED BY <1>1, <1>2, EndsLookedUp DEF Fails

\* The other commands that end at once.
LEMMA PlainStep ==
    ASSUME Inv,
           RecursionLimit \/ (\E name \in DOMAIN PlainCode : Plain(name)) \/ Throw
    PROVE  Inv'
<1>1. CASE RecursionLimit
  BY <1>1, FailsStep DEF RecursionLimit, Fails, Quiet, Codes
<1>2. ASSUME NEW name \in DOMAIN PlainCode, Plain(name) PROVE Inv'
  <2>1. PlainCode[name] \in Codes \ {"return"}
    BY DEF PlainCode, Codes
  <2> QED BY <1>2, <2>1, FailsStep DEF Plain, Fails, Quiet, Invokes
<1>3. CASE Throw
  BY <1>3, EndsLookedUp DEF Throw, Invokes, Codes
<1> QED BY <1>1, <1>2, <1>3

---------------------------------------------------------------------------
(* Commands that evaluate scripts *)

\* A command that has just begun.
LEMMA RunningIs ==
    ASSUME Typed, Structured,
           NEW kind \in {"proc", "catch", "loop", "uplevel", "namespace", "source"}
    PROVE  /\ Running(kind) \in Activation
           /\ Running(kind).kind = kind /\ Running(kind).phase = "body"
           /\ Running(kind).caller = framePtr /\ Running(kind).ignore = {}
<1>1. framePtr \in Nat \ {0}
  BY Counted DEF Structured, Typed
<1> QED BY <1>1 DEF Running, Activation, NoAim, Codes, None

\* A command is looked up and pushed, with a frame of its own or without.
LEMMA BegunStep ==
    ASSUME Inv, code = "run", ~TooDeep, NEW act \in Activation, stack' = Append(stack, act),
           act.kind # "base", act.phase = "body", act.caller = framePtr,
           "return" \notin act.ignore,
           IF OwnsFrame(act)
           THEN /\ frames' = Append(LookedUp, NewFrame(framePtr, act.kind = "namespace"))
                /\ framePtr' = Len(frames) + 1
                /\ Frame.level # MaxCallFrameDepth \/ act.kind = "namespace"
                /\ act.kind = "namespace" => Frame.level + 1 # MaxCallFrameDepth
           ELSE /\ frames' = LookedUp
                /\ framePtr' = IF act.kind = "uplevel" THEN Frame.parent ELSE framePtr
                /\ act.kind = "uplevel" => Frame.level # 0,
           signalLevel' = signalLevel + IF Listens(act) THEN 1 ELSE 0,
           sigmask' \in BOOLEAN, code' \in {"run", "signal"},
           UNCHANGED <<returnCode, returnLevel, aim>>
    PROVE  Inv'
<1> DEFINE new == NewFrame(framePtr, act.kind = "namespace")
<1>0. Typed /\ Structured /\ Stashes /\ ReturnWaits
  BY DEF Inv
<1>1. /\ Depth \in Nat /\ Len(frames) \in Nat /\ framePtr \in 1 .. Len(frames) /\ Frame \in CallFrame
      /\ Depth \in 1 .. MaxEvalDepth + 1 /\ Depth # MaxEvalDepth + 1 /\ Depth \in 0 .. Depth
  BY <1>0, Innermost, Counted, BoundsAssumption DEF Typed, Structured, TooDeep
<1>2. new \in CallFrame /\ NoTail(new)
  <2>1. framePtr \in Nat /\ Frame.level + 1 \in Nat
    BY <1>1 DEF CallFrame
  <2> QED BY <2>1 DEF NewFrame, CallFrame, NoTail, Frame
<1>3. /\ LookedUp \in Seq(CallFrame) /\ Len(LookedUp) = Len(frames)
      /\ \A f \in 1 .. Len(frames) : Alike(LookedUp[f], frames[f])
  BY <1>0, LookedUpIs
<1> HIDE DEF new
<1>4. /\ frames' \in Seq(CallFrame)
      /\ \A f \in 1 .. Len(frames) : frames'[f] = LookedUp[f]
      /\ IF OwnsFrame(act)
         THEN Len(frames') = Len(frames) + 1 /\ frames'[Len(frames) + 1] = new
         ELSE Len(frames') = Len(frames)
  <2>1. CASE OwnsFrame(act)
    <3>1. frames' = Append(LookedUp, new)
      BY <2>1 DEF new
    <3> QED BY <1>2, <1>3, <2>1, <3>1, AppendAt, AppendLast
  <2>2. CASE ~OwnsFrame(act)
    BY <1>3, <2>2
  <2> QED BY <2>1, <2>2
<1>5. /\ Structured' /\ stack' \in Seq(Activation) /\ Depth' = Depth + 1 /\ Top' = act
      /\ \A i \in 1 .. Depth : stack'[i] = stack[i]
      /\ framePtr' \in 1 .. Len(frames')
      /\ \A f : (Called(f) => Called(f)') /\ (Awaited(f) => Awaited(f)')
  <2>1. \A f \in 1 .. Len(frames) : Alike(frames'[f], frames[f])
    BY <1>3, <1>4
  <2>2. IF OwnsFrame(act)
        THEN /\ Len(frames') = Len(frames) + 1
             /\ framePtr' = Len(frames) + 1
             /\ Alike(frames'[framePtr'], NewFrame(framePtr, act.kind = "namespace"))
             /\ Frame.level # MaxCallFrameDepth \/ act.kind = "namespace"
             /\ act.kind = "namespace" => Frame.level + 1 # MaxCallFrameDepth
        ELSE /\ Len(frames') = Len(frames)
             /\ framePtr' = IF act.kind = "uplevel" THEN Frame.parent ELSE framePtr
             /\ act.kind = "uplevel" => Frame.level # 0
    BY <1>4 DEF Alike, new
  <2> QED BY <1>0, <1>4, <2>1, <2>2, PushedStack
<1>6. Typed'
  <2>1. /\ code' \in Codes \cup {"run"} /\ returnCode' \in Codes /\ returnLevel' \in Nat
        /\ aim' \in [at: Nat, code: Codes, spoiled: BOOLEAN]
    BY <1>0 DEF Typed, Codes
  <2>2. Depth' \in 1 .. MaxEvalDepth + 1
    BY <1>1, <1>5, BoundsAssumption
  <2>3. signalLevel' \in Int
    BY <1>0 DEF Typed
  <2> QED BY <1>4, <1>5, <2>1, <2>2, <2>3 DEF Typed
<1>7. Stashes'
  <2>1. ASSUME NEW f \in 1 .. Len(frames')
        PROVE  \/ NoTail(frames'[f])
               \/ /\ f \in 1 .. Len(frames) /\ ~AtTail(f)'
                  /\ frames'[f].tailcallObj = frames[f].tailcallObj
                  /\ \/ frames'[f].tailcallCmd = None
                     \/ frames'[f].tailcallCmd = frames[f].tailcallCmd /\ ~AtTail(f)
                  /\ frames'[f].stray = frames[f].stray \/ frames[f].tailcallObj = None
                  /\ (Called(f) => Called(f)') /\ (Awaited(f) => Awaited(f)')
    <3>1. CASE f = Len(frames) + 1
      BY <1>1, <1>2, <1>4, <3>1
    <3>2. CASE f \in 1 .. Len(frames)
      <4>1. ~AtTail(f)' /\ (Called(f) => Called(f)') /\ (Awaited(f) => Awaited(f)')
        BY <1>5 DEF AtTail
      <4>2. CASE f = framePtr
        BY <1>0, <1>4, <3>2, <4>1, <4>2, LookedUpIs DEF Frame
      <4>3. CASE f # framePtr
        <5>1. ~AtTail(f) /\ frames'[f] = frames[f]
          BY <1>0, <1>4, <3>2, <4>3, LookedUpIs DEF AtTail
        <5> QED BY <3>2, <4>1, <5>1
      <4> QED BY <4>2, <4>3
    <3>3. f = Len(frames) + 1 \/ f \in 1 .. Len(frames)
      BY <1>1, <1>4
    <3> QED BY <3>1, <3>2, <3>3
  <2> QED BY <1>0, <2>1, StashesFrom
<1>8. ReturnWaits' /\ ReturnEndsItsLevels'
  <2>1. code' # "return" /\ UNCHANGED <<returnCode, returnLevel>>
    OBVIOUS
  <2>2. PICK n \in 0 .. Depth : n = Depth
    BY <1>1
  <2>3. ~Deferring(n + 1)'
    BY <1>5, <2>2 DEF Deferring, Top
  <2>4. ReturnWaits'
    BY <1>0, <1>5, <2>1, <2>2, <2>3, WaitsKept
  <2> QED BY <2>1, <2>4 DEF ReturnEndsItsLevels
<1> QED BY <1>5, <1>6, <1>7, <1>8 DEF Inv

\* Procedures, scripts in another frame or in the same one.
LEMMA InvokeScriptStep ==
    ASSUME Inv,
           \/ CallProc \/ NamespaceEval \/ Uplevel
           \/ \E kind \in {"loop", "source"} : Evaluate(kind)
           \/ \E ignore \in CatchIgnores : Catch(ignore)
    PROVE  Inv'
<1>0. Typed /\ Structured /\ signalLevel \in Int /\ signalLevel + 0 = signalLevel
      /\ sigmask \in BOOLEAN /\ Len(LookedUp) = Len(frames)
  BY LookedUpIs DEF Inv, Typed
<1>1. CASE CallProc
  <2>1. code = "run" /\ ~TooDeep /\ UNCHANGED <<sigmask, signalLevel, returnCode, returnLevel, aim>>
    BY <1>1 DEF CallProc, Invokes, Quiet
  <2>2. CASE /\ \E c \in {"ok", "err"} : Ends(c)
             /\ frames' = LookedUp
             /\ UNCHANGED <<stack, framePtr>>
    <3>1. PICK c \in {"ok", "err"} : Ends(c)
      BY <2>2
    <3>2. c \in Codes \ {"return"}
      BY DEF Codes
    <3> QED BY <2>1, <2>2, <3>1, <3>2, FailsStep DEF Fails
  <2>3. CASE /\ ~AtLimit
             /\ Begins(Running("proc"), Append(LookedUp, NewFrame(framePtr, FALSE)),
                       Len(frames) + 1)
    <3> DEFINE act == Running("proc")
    <3>1. /\ act \in Activation /\ act.kind = "proc" /\ act.phase = "body"
          /\ act.caller = framePtr /\ "return" \notin act.ignore
      BY <1>0, RunningIs
    <3>2. OwnsFrame(act) /\ ~Listens(act)
      BY <3>1 DEF OwnsFrame, Listens
    <3>3. /\ stack' = Append(stack, act) /\ framePtr' = Len(frames) + 1 /\ code' = "run"
          /\ frames' = Append(LookedUp, NewFrame(framePtr, FALSE))
          /\ Frame.level # MaxCallFrameDepth
      BY <2>3 DEF Begins, AtLimit
    <3> HIDE DEF act
    <3>4. (act.kind = "namespace") = FALSE
      BY <3>1
    <3> QED BY <1>0, <2>1, <3>1, <3>2, <3>3, <3>4, BegunStep
  <2> QED BY <1>1, <2>2, <2>3 DEF CallProc
<1>2. CASE NamespaceEval
  <2>1. code = "run" /\ ~TooDeep /\ UNCHANGED <<sigmask, signalLevel, returnCode, returnLevel, aim>>
    BY <1>2 DEF NamespaceEval, Invokes, Quiet
  <2>2. CASE Frame.level + 1 = MaxCallFrameDepth
    <3>1. "err" \in Codes \ {"return"}
      BY DEF Codes
    <3> QED BY <1>2, <2>1, <2>2, <3>1, FailsStep DEF NamespaceEval, Fails
  <2>3. CASE Frame.level + 1 # MaxCallFrameDepth
    <3> DEFINE act == Running("namespace")
    <3>1. /\ act \in Activation /\ act.kind = "namespace" /\ act.phase = "body"
          /\ act.caller = framePtr /\ "return" \notin act.ignore
      BY <1>0, RunningIs
    <3>2. OwnsFrame(act) /\ ~Listens(act)
      BY <3>1 DEF OwnsFrame, Listens
    <3>3. /\ stack' = Append(stack, act) /\ framePtr' = Len(frames) + 1 /\ code' = "run"
          /\ frames' = Append(LookedUp, NewFrame(framePtr, TRUE))
      BY <1>2, <2>3 DEF Begins, NamespaceEval
    <3> HIDE DEF act
    <3>4. (act.kind = "namespace") = TRUE
      BY <3>1
    <3> QED BY <1>0, <2>1, <2>3, <3>1, <3>2, <3>3, <3>4, BegunStep
  <2> QED BY <2>2, <2>3
<1>3. CASE Uplevel
  <2>1. code = "run" /\ ~TooDeep /\ UNCHANGED <<sigmask, signalLevel, returnCode, returnLevel, aim>>
    BY <1>3 DEF Uplevel, Invokes, Quiet
  <2>2. CASE Frame.level = 0
    <3>1. "err" \in Codes \ {"return"}
      BY DEF Codes
    <3> QED BY <1>3, <2>1, <2>2, <3>1, FailsStep DEF Uplevel, Fails
  <2>3. CASE Frame.level # 0
    <3> DEFINE act == Running("uplevel")
    <3>1. /\ act \in Activation /\ act.kind = "uplevel" /\ act.phase = "body"
          /\ act.caller = framePtr /\ "return" \notin act.ignore
      BY <1>0, RunningIs
    <3>2. ~OwnsFrame(act) /\ ~Listens(act)
      BY <3>1 DEF OwnsFrame, Listens
    <3>3. /\ stack' = Append(stack, act) /\ framePtr' = Frame.parent /\ code' = "run"
          /\ frames' = LookedUp
      BY <1>3, <2>3 DEF Begins, Uplevel
    <3> HIDE DEF act
    <3> QED BY <1>0, <2>1, <2>3, <3>1, <3>2, <3>3, BegunStep
  <2> QED BY <2>2, <2>3
<1>4. ASSUME NEW kind \in {"loop", "source"}, Evaluate(kind) PROVE Inv'
  <2> DEFINE act == Running(kind)
  <2>1. code = "run" /\ ~TooDeep /\ UNCHANGED <<sigmask, signalLevel, returnCode, returnLevel, aim>>
    BY <1>4 DEF Evaluate, Invokes, Quiet
  <2>2. /\ act \in Activation /\ act.kind = kind /\ act.phase = "body"
        /\ act.caller = framePtr /\ "return" \notin act.ignore
    BY <1>0, RunningIs
  <2>3. ~OwnsFrame(act) /\ ~Listens(act) /\ act.kind # "uplevel" /\ act.kind # "base"
    BY <2>2 DEF OwnsFrame, Listens
  <2>4. /\ stack' = Append(stack, act) /\ framePtr' = framePtr /\ code' = "run"
        /\ frames' = LookedUp
    BY <1>4 DEF Begins, Evaluate
  <2> HIDE DEF act
  <2> QED BY <1>0, <2>1, <2>2, <2>3, <2>4, BegunStep
<1>5. ASSUME NEW ignore \in CatchIgnores, Catch(ignore) PROVE Inv'
  <2> DEFINE act == [Running("catch") EXCEPT !.ignore = ignore]
  <2>1. /\ act \in Activation /\ act.kind = "catch" /\ act.phase = "body"
        /\ act.caller = framePtr /\ act.ignore = ignore /\ "return" \notin act.ignore
    <3>1. ignore \in SUBSET Codes /\ "return" \notin ignore
      BY DEF CatchIgnores, Codes
    <3>2. /\ Running("catch") \in Activation /\ Running("catch").kind = "catch"
          /\ Running("catch").phase = "body" /\ Running("catch").caller = framePtr
      BY <1>0, RunningIs
    <3> QED BY <3>1, <3>2 DEF Activation
  <2>2. ~OwnsFrame(act) /\ (Listens(act) <=> "signal" \notin ignore)
    BY <2>1 DEF OwnsFrame, Listens
  <2>3. /\ code = "run" /\ ~TooDeep /\ UNCHANGED <<returnCode, returnLevel, aim>>
        /\ sigmask' = sigmask /\ stack' = Append(stack, act) /\ framePtr' = framePtr
        /\ code' \in {"run", "signal"} /\ frames' = LookedUp
        /\ signalLevel' = signalLevel + IF "signal" \in ignore THEN 0 ELSE 1
    BY <1>5 DEF Catch, Invokes
  <2> HIDE DEF act
  <2>4. signalLevel' = signalLevel + IF Listens(act) THEN 1 ELSE 0
    BY <2>2, <2>3
  <2> QED BY <1>0, <2>1, <2>2, <2>3, <2>4, BegunStep
<1> QED BY <1>1, <1>2, <1>3, <1>4, <1>5

---------------------------------------------------------------------------
(* Commands that end, and scripts *)

\* What waits below the innermost command: nothing, if a [return] is in flight or
\* waits for the defer scripts of that command.
LEMMA NoneWaits ==
    ASSUME Depth \in Nat, ReturnWaits, code = "return" \/ Deferring(Depth)
    PROVE  \A i \in 1 .. Depth - 1 : ~Waits(i)
<1> SUFFICES ASSUME NEW i \in 1 .. Depth - 1, Waits(i) PROVE FALSE
  OBVIOUS
<1>1. i \in 1 .. Depth /\ Depth \in i + 1 .. Depth
  OBVIOUS
<1>2. code # "return" /\ ~Deferring(Depth)
  BY <1>1 DEF ReturnWaits
<1> QED BY <1>2

\* The innermost command ends and its code goes to the one under it.
LEMMA EndedStep ==
    ASSUME Inv, code # "run", Depth > 1, stack' = Pop,
           frames' \in Seq(CallFrame),
           Len(frames') = IF OwnsFrame(Top) THEN Len(frames) - 1 ELSE Len(frames),
           \A f \in 1 .. Len(frames') : Alike(frames'[f], frames[f]),
           \A f \in 1 .. Len(frames') :
               \/ NoTail(frames'[f])
               \/ SameTail(frames'[f], frames[f]) /\ ~(Top.kind = "proc" /\ Top.caller = f),
           framePtr' = Top.caller,
           signalLevel' = signalLevel - IF Listens(Top) THEN 1 ELSE 0,
           sigmask' \in BOOLEAN, code' \in Codes \cup {"run"},
           code' = "run" => Below.phase # "tail",
           returnCode' \in Codes, returnLevel' \in Nat, aim' \in AimType,
           ReturnEndsItsLevels',
           \/ \A i \in 1 .. Depth - 1 : ~Waits(i)
           \/ code' # "return" /\ UNCHANGED <<returnCode, returnLevel>>
    PROVE  Inv'
<1>0. Typed /\ Structured /\ Stashes /\ ReturnWaits
  BY DEF Inv
<1>1. /\ Structured' /\ stack' \in Seq(Activation) /\ Depth' = Depth - 1
      /\ \A i \in 1 .. Depth - 1 : stack'[i] = stack[i]
      /\ framePtr' \in 1 .. Len(frames') /\ Top' = Below
      /\ \A f : ~(Top.kind = "proc" /\ Top.caller = f) =>
                (Called(f) => Called(f)') /\ (Awaited(f) => Awaited(f)')
  BY <1>0, PoppedStack
<1>2. Depth \in Nat /\ Depth \in 1 .. MaxEvalDepth + 1 /\ Len(frames) \in Nat
  BY <1>0, Counted DEF Typed, Structured
<1>3. Typed'
  <2>1. Depth' \in 1 .. MaxEvalDepth + 1
    BY <1>1, <1>2, BoundsAssumption
  <2>2. signalLevel' \in Int
    BY <1>0 DEF Typed
  <2> QED BY <1>1, <2>1, <2>2 DEF Typed, AimType
<1>4. Stashes'
  <2>1. ASSUME NEW f \in 1 .. Len(frames'), ~NoTail(frames'[f])
        PROVE  /\ f \in 1 .. Len(frames) /\ ~AtTail(f)'
               /\ frames'[f].tailcallObj = frames[f].tailcallObj
               /\ frames'[f].tailcallCmd = frames[f].tailcallCmd /\ ~AtTail(f)
               /\ frames'[f].stray = frames[f].stray
               /\ (Called(f) => Called(f)') /\ (Awaited(f) => Awaited(f)')
    <3>1. SameTail(frames'[f], frames[f]) /\ ~(Top.kind = "proc" /\ Top.caller = f)
      BY <2>1
    <3>2. ~AtTail(f) /\ ~AtTail(f)'
      BY <1>1 DEF AtTail
    <3>3. f \in 1 .. Len(frames)
      BY <1>2
    <3>4. (Called(f) => Called(f)') /\ (Awaited(f) => Awaited(f)')
      BY <1>1, <3>1
    <3> QED BY <3>1, <3>2, <3>3, <3>4 DEF SameTail
  <2> QED BY <1>0, <2>1, StashesFrom
<1>5. ReturnWaits'
  <2>1. PICK n \in 0 .. Depth : n = Depth - 2
    BY <1>2
  <2>2. /\ Depth' = n + 1 /\ n < Depth /\ stack'[n + 1] = stack[n + 1]
        /\ \A i \in 1 .. n : stack'[i] = stack[i]
    BY <1>1, <1>2, <2>1
  <2>3. \/ /\ \A i \in 1 .. n : ~Waits(i)
           /\ n < Depth => ~Waits(n + 1)
        \/ code' # "return" /\ UNCHANGED <<returnCode, returnLevel>>
    <3>1. (\A i \in 1 .. n : i \in 1 .. Depth - 1) /\ n + 1 \in 1 .. Depth - 1
      BY <1>2, <2>1
    <3> QED BY <3>1
  <2> QED BY <1>0, <1>1, <2>2, <2>3, WaitsKept
<1> QED BY <1>1, <1>3, <1>4, <1>5 DEF Inv

\* A command that uses up no level passes a [return] on as it is.
LEMMA PassedUp ==
    ASSUME Inv, code # "run", Depth > 1, ~Counts(Top), NEW c \in Codes,
           c = "return" => code = "return", Returns(c), aim' = AimAfter(aim),
           UNCHANGED <<returnCode, returnLevel>>, Top.kind # "proc",
           frames' \in Seq(CallFrame),
           Len(frames') = IF OwnsFrame(Top) THEN Len(frames) - 1 ELSE Len(frames),
           \A f \in 1 .. Len(frames') : frames'[f] = frames[f],
           framePtr' = Top.caller,
           signalLevel' = signalLevel - IF Listens(Top) THEN 1 ELSE 0,
           sigmask' \in BOOLEAN
    PROVE  Inv'
<1>0. Typed /\ Structured /\ ReturnWaits /\ ReturnEndsItsLevels
  BY DEF Inv
<1>1. /\ stack' = Pop /\ code' \in Codes \cup {"run"} /\ (code' = "run" => Below.phase # "tail")
      /\ code' = "return" => code = "return"
  BY AfterCommandIs DEF Returns
<1>2. /\ returnCode' \in Codes /\ returnLevel' \in Nat /\ aim' \in AimType
  BY <1>0 DEF Typed, AimType, AimAfter, NoAim, Codes
<1>3. ReturnEndsItsLevels'
  <2>1. ASSUME code' = "return", ~aim'.spoiled
        PROVE  returnCode' = aim'.code /\ aim'.at = Target(stack', LevelLeft')
    <3>1. aim' = aim /\ returnCode = aim.code /\ aim.at = Target(stack, LevelLeft)
      BY <1>0, <1>1, <2>1 DEF AimAfter, ReturnEndsItsLevels, LevelLeft
    <3>2. LevelLeft \in Nat /\ LevelLeft' = LevelLeft
      BY <1>0 DEF LevelLeft, Typed
    <3>3. Target(stack, LevelLeft) = Target(stack', LevelLeft)
      <4>1. stack \in Seq(Activation) /\ Len(stack) >= 1 /\ ~Counts(stack[Len(stack)])
        BY <1>0, Innermost DEF Typed, Depth, Top
      <4>2. Target(stack, LevelLeft) = Target(SubSeq(stack, 1, Len(stack) - 1), LevelLeft)
        BY <3>2, <4>1, TargetFront
      <4> QED BY <1>1, <4>2 DEF Pop, Depth
    <3> QED BY <3>1, <3>2, <3>3
  <2> QED BY <2>1 DEF ReturnEndsItsLevels, LevelLeft
<1>4. \/ \A i \in 1 .. Depth - 1 : ~Waits(i)
      \/ code' # "return" /\ UNCHANGED <<returnCode, returnLevel>>
  <2>1. Depth \in Nat
    BY <1>0, Innermost
  <2> QED BY <1>0, <1>1, <2>1, NoneWaits
<1>5. \A f \in 1 .. Len(frames') : Alike(frames'[f], frames[f]) /\ SameTail(frames'[f], frames[f])
  BY DEF Alike, SameTail
<1> QED BY <1>1, <1>2, <1>3, <1>4, <1>5, EndedStep

\* Where the innermost command returns to, and what is left of the frames.
LEMMA ReturnsTo ==
    ASSUME Typed, Structured, Depth > 1
    PROVE  /\ Top.caller \in 1 .. Len(frames)
           /\ ~OwnsFrame(Top) /\ Top.kind # "uplevel" => framePtr = Top.caller
           /\ OwnsFrame(Top) =>
                 LET left == SubSeq(frames, 1, framePtr - 1)
                 IN  /\ framePtr = Len(frames) /\ Frame.parent = Top.caller
                     /\ left \in Seq(CallFrame) /\ Len(left) = Len(frames) - 1
                     /\ \A f \in 1 .. Len(left) : left[f] = frames[f]
                     /\ Top.caller \in 1 .. Len(left)
<1>1. /\ Depth \in 2 .. Depth /\ FrameAt(Depth) = framePtr /\ stack[Depth] = Top
      /\ Len(frames) = 1 + Owners(Depth) /\ Depth \in Nat /\ Len(frames) \in Nat
      /\ framePtr \in 1 .. Len(frames) /\ Top.caller \in 1 .. Len(frames)
      /\ Len(frames) = 1 + OwnersIn(stack, Depth - 1) + IF OwnsFrame(Top) THEN 1 ELSE 0
      /\ OwnersIn(stack, Depth - 1) \in Nat
  BY Innermost, Counted DEF Top, Structured, Framed, FrameAt, Typed
<1>2. IF OwnsFrame(Top)
      THEN framePtr = 1 + Owners(Depth) /\ frames[1 + Owners(Depth)].parent = Top.caller
      ELSE framePtr = IF Top.kind = "uplevel" THEN frames[Top.caller].parent ELSE Top.caller
  BY <1>1 DEF Structured, Framed
<1>3. ASSUME OwnsFrame(Top)
      PROVE  LET left == SubSeq(frames, 1, framePtr - 1)
             IN  /\ framePtr = Len(frames) /\ Frame.parent = Top.caller
                 /\ left \in Seq(CallFrame) /\ Len(left) = Len(frames) - 1
                 /\ \A f \in 1 .. Len(left) : left[f] = frames[f]
                 /\ Top.caller \in 1 .. Len(left)
  <2>1. framePtr = Len(frames) /\ Frame.parent = Top.caller /\ framePtr # 1
    BY <1>1, <1>2, <1>3 DEF Frame
  <2>2. Top.caller \in 1 .. framePtr - 1
    BY <1>1, <2>1 DEF Structured, Linked, Frame
  <2>3. framePtr - 1 \in 0 .. Len(frames) /\ frames \in Seq(CallFrame)
    BY <1>1 DEF Typed
  <2> QED BY <2>1, <2>2, <2>3, PrefixProperties
<1> QED BY <1>1, <1>2, <1>3

\* The interpreter goes on where it is, or a signal arrives.
LEMMA GoesOn ==
    ASSUME Inv, stack' \in Seq(Activation), Depth' = Depth,
           \A i \in 1 .. Depth - 1 : stack'[i] = stack[i],
           SameCommand(Top', Top), Top'.kept = Top.kept, Top'.keptAim = Top.keptAim,
           UNCHANGED <<frames, framePtr, returnCode, returnLevel, signalLevel>>,
           sigmask' \in BOOLEAN, code' \in Codes \cup {"run"}, aim' \in AimType,
           \/ UNCHANGED <<stack, code, aim>>
           \/ Top.phase # "tail" /\ code' # "return"
    PROVE  Inv'
<1>0. Typed /\ Structured /\ Stashes /\ ReturnWaits /\ ReturnEndsItsLevels
  BY DEF Inv
<1>1. /\ Depth \in Nat /\ Depth >= 1 /\ Depth \in 1 .. Depth
      /\ Top = stack[Depth] /\ Top' = stack'[Depth]
  BY <1>0, Innermost DEF Top
<1>2. \A i \in 1 .. Depth : SameCommand(stack'[i], stack[i])
  <2>1. ASSUME NEW i \in 1 .. Depth PROVE SameCommand(stack'[i], stack[i])
    <3>1. CASE i = Depth
      BY <1>1, <3>1
    <3>2. CASE i # Depth
      BY <1>1, <3>2 DEF SameCommand
    <3> QED BY <3>1, <3>2
  <2> QED BY <2>1
<1>3. Structured' /\ \A f : (Called(f)' <=> Called(f)) /\ (Awaited(f)' <=> Awaited(f))
  <2>1. frames' \in Seq(CallFrame) /\ \A f \in 1 .. Len(frames) : Alike(frames'[f], frames[f])
    BY <1>0 DEF Typed, Alike
  <2> QED BY <1>0, <1>2, <2>1, SameStack
<1>4. Typed'
  BY <1>0 DEF Typed, AimType
<1>5. Stashes'
  <2>1. ASSUME NEW f \in 1 .. Len(frames') PROVE Stash(f)'
    <3>1. Stash(f)
      BY <1>0 DEF Stashes
    <3>2. AtTail(f)' <=> AtTail(f)
      BY DEF AtTail, SameCommand
    <3>3. AtTail(f) => Top'.list = Top.list
      BY DEF AtTail, Top
    <3>4. (Called(f)' <=> Called(f)) /\ (Awaited(f)' <=> Awaited(f))
      BY <1>3
    <3> QED BY <3>1, <3>2, <3>3, <3>4 DEF Stash
  <2> QED BY <2>1 DEF Stashes
<1>6. ReturnWaits'
  <2>1. PICK n \in 0 .. Depth : n = Depth - 1
    BY <1>1
  <2>2. /\ Depth' = n + 1 /\ n < Depth
        /\ \A i \in 1 .. n : stack'[i] = stack[i]
        /\ stack'[n + 1] = Top' /\ stack[n + 1] = Top
    BY <1>1, <2>1
  <2>3. \/ \A i \in 1 .. Depth : ~Waits(i)
        \/ code' # "return"
    BY <1>0 DEF ReturnWaits
  <2>4. \/ /\ \A i \in 1 .. n : ~Waits(i)
           /\ n < Depth => ~Waits(n + 1)
        \/ code' # "return" /\ UNCHANGED <<returnCode, returnLevel>>
    <3>1. (\A i \in 1 .. n : i \in 1 .. Depth) /\ n + 1 \in 1 .. Depth
      BY <1>1, <2>1
    <3> QED BY <2>3, <3>1
  <2>5. /\ stack'[n + 1].kind = stack[n + 1].kind /\ stack'[n + 1].phase = stack[n + 1].phase
        /\ stack'[n + 1].kept = stack[n + 1].kept
        /\ stack'[n + 1].keptAim = stack[n + 1].keptAim
    BY <2>2 DEF SameCommand
  <2> QED BY <1>0, <2>2, <2>4, <2>5, WaitsKept
<1>7. ReturnEndsItsLevels'
  BY <1>0 DEF ReturnEndsItsLevels
<1> QED BY <1>3, <1>4, <1>5, <1>6, <1>7 DEF Inv

\* Nothing happens, a signal arrives, a script ends or the next one begins.
LEMMA WaitingStep ==
    ASSUME Inv, UNCHANGED vars \/ SignalArrives \/ ScriptEnds \/ NextScript
    PROVE  Inv'
<1>0. Typed /\ Structured
  BY DEF Inv
<1>1. NoAim \in AimType /\ "ok" \in Codes /\ aim \in AimType
  BY <1>0 DEF NoAim, AimType, Codes, Typed
<1>2. /\ stack' = stack /\ UNCHANGED <<frames, framePtr, returnCode, returnLevel, signalLevel>>
      /\ sigmask' \in BOOLEAN /\ code' \in Codes \cup {"run"} /\ aim' \in AimType
  BY <1>0, <1>1 DEF vars, SignalArrives, ScriptEnds, NextScript, Quiet, Typed
<1>3. stack' \in Seq(Activation) /\ Depth' = Depth /\ Top' = Top
  BY <1>0, <1>2 DEF Typed, Depth, Top
<1>4. \/ UNCHANGED <<stack, code, aim>>
      \/ Top.phase # "tail" /\ code' # "return"
  <2>1. CASE NextScript
    <3>1. Top.phase # "tail"
      BY <1>0, <2>1, Innermost DEF NextScript, Structured, Shaped, Top
    <3> QED BY <2>1, <3>1 DEF NextScript
  <2> QED BY <2>1 DEF vars, SignalArrives, ScriptEnds
<1> QED BY <1>2, <1>3, <1>4, GoesOn DEF SameCommand

\* Commands that use up no level.
LEMMA LoopStep ==
    ASSUME Inv, LoopEnds
    PROVE  Inv'
<1>0. Typed /\ Structured
  BY DEF Inv
<1>1. /\ code # "run" /\ Depth > 1 /\ Top.kind = "loop" /\ sigmask' \in BOOLEAN
      /\ UNCHANGED <<frames, framePtr, returnCode, returnLevel, signalLevel>>
  BY <1>0 DEF LoopEnds, Finished, Quiet, Typed
<1>2. CASE code' = "run" /\ UNCHANGED <<stack, aim>>
  <2>1. Top.phase # "tail"
    BY <1>0, <1>1, Innermost DEF Structured, Shaped, Top
  <2>2. aim' \in AimType /\ stack' \in Seq(Activation) /\ Depth' = Depth /\ Top' = Top
    BY <1>0, <1>2 DEF Typed, AimType, Depth, Top
  <2> QED BY <1>1, <1>2, <2>1, <2>2, GoesOn DEF SameCommand
<1>3. CASE /\ Returns(IF code \in {"ok", "continue", "break"} THEN "ok" ELSE code)
           /\ aim' = AimAfter(aim)
  <2> DEFINE c == IF code \in {"ok", "continue", "break"} THEN "ok" ELSE code
  <2>1. c \in Codes /\ (c = "return" => code = "return") /\ Returns(c)
    BY <1>0, <1>1, <1>3 DEF Typed, Codes
  <2>2. ~Counts(Top) /\ ~OwnsFrame(Top) /\ ~Listens(Top)
    BY <1>1 DEF Counts, OwnsFrame, Listens
  <2>3. framePtr' = Top.caller /\ frames' \in Seq(CallFrame) /\ signalLevel' = signalLevel - 0
    BY <1>0, <1>1, <2>2, ReturnsTo DEF Typed
  <2> HIDE DEF c
  <2> QED BY <1>1, <1>3, <2>1, <2>2, <2>3, PassedUp
<1> QED BY <1>2, <1>3 DEF LoopEnds

\* The same, for the two that run a script in another frame.
LEMMA ElsewhereStep ==
    ASSUME Inv, UplevelEnds \/ NamespaceEnds
    PROVE  Inv'
<1>0. Typed /\ Structured
  BY DEF Inv
<1>1. /\ code # "run" /\ Depth > 1 /\ sigmask' \in BOOLEAN /\ Top.kind \in {"uplevel", "namespace"}
      /\ UNCHANGED <<returnCode, returnLevel, signalLevel>>
      /\ Returns(code) /\ aim' = AimAfter(aim) /\ code \in Codes
  BY <1>0 DEF UplevelEnds, NamespaceEnds, Finished, Quiet, Typed
<1>2. ~Counts(Top) /\ ~Listens(Top) /\ signalLevel' = signalLevel - 0
  BY <1>0, <1>1 DEF Counts, Listens, Typed
<1>3. CASE UplevelEnds
  <2>1. ~OwnsFrame(Top) /\ framePtr' = Top.caller /\ frames' = frames /\ frames' \in Seq(CallFrame)
    BY <1>0, <1>3 DEF UplevelEnds, Finished, OwnsFrame, SavedCallFrame, Typed
  <2> QED BY <1>1, <1>2, <2>1, PassedUp
<1>4. CASE NamespaceEnds
  <2>1. OwnsFrame(Top) /\ framePtr' = Frame.parent /\ frames' = SubSeq(frames, 1, framePtr - 1)
    BY <1>4 DEF NamespaceEnds, Finished, OwnsFrame
  <2> QED BY <1>0, <1>1, <1>2, <2>1, ReturnsTo, PassedUp
<1> QED BY <1>3, <1>4

\* [catch] takes every [return].
LEMMA CatchStep ==
    ASSUME Inv, CatchEnds
    PROVE  Inv'
<1>0. Typed /\ Structured
  BY DEF Inv
<1> DEFINE caught == code \notin Top.ignore
           c == IF caught THEN "ok" ELSE code
<1>1. /\ code # "run" /\ Depth > 1 /\ Top.kind = "catch" /\ code \in Codes
      /\ UNCHANGED <<frames, framePtr, returnCode, returnLevel>> /\ Returns(c)
      /\ signalLevel' = IF "signal" \notin Top.ignore THEN signalLevel - 1 ELSE signalLevel
      /\ aim' = NoAim
  BY <1>0 DEF CatchEnds, Finished, Typed, Listened
<1>2. sigmask' \in BOOLEAN
  BY <1>0 DEF CatchEnds, Typed
<1>3. "return" \notin Top.ignore
  BY <1>0, <1>1, Innermost DEF Structured, Shaped, Top
<1>4. c \in Codes /\ c # "return"
  BY <1>1, <1>3 DEF Codes
<1> HIDE DEF c
<1>5. ~Counts(Top) /\ ~OwnsFrame(Top) /\ (Listens(Top) <=> "signal" \notin Top.ignore)
  BY <1>1 DEF Counts, OwnsFrame, Listens
<1>6. code' # "return"
  BY <1>1, <1>4, AfterCommandIs DEF Returns
<1>7. /\ framePtr' = Top.caller /\ frames' \in Seq(CallFrame)
      /\ signalLevel' = signalLevel - IF Listens(Top) THEN 1 ELSE 0
  BY <1>0, <1>1, <1>5, ReturnsTo DEF Typed
<1>8. aim' = AimAfter(aim)
  BY <1>1, <1>6 DEF AimAfter
<1> QED BY <1>1, <1>2, <1>4, <1>5, <1>7, <1>8, PassedUp

---------------------------------------------------------------------------
(* Procedures and [source] end *)

\* One level of the [return] in flight is used up.
LEMMA EndsLevelStep ==
    ASSUME Inv, code # "run", Depth > 1, Top.kind \in {"source", "proc"},
           NEW c \in Codes, NEW level \in Nat, NEW a \in AimType, NEW absorbs \in BOOLEAN,
           EndsLevel(c, level, a, absorbs), Quiet,
           c # "return" => level = returnLevel,
           c = "return" => \A i \in 1 .. Depth - 1 : ~Waits(i),
           c = "return" /\ ~a.spoiled /\ ~LastLevel(level) /\ ~absorbs
             => returnCode = a.code /\ a.at = Target(Pop, level - 1),
           frames' \in Seq(CallFrame),
           Len(frames') = IF OwnsFrame(Top) THEN Len(frames) - 1 ELSE Len(frames),
           \A f \in 1 .. Len(frames') : Alike(frames'[f], frames[f]),
           \A f \in 1 .. Len(frames') :
               \/ NoTail(frames'[f])
               \/ SameTail(frames'[f], frames[f]) /\ ~(Top.kind = "proc" /\ Top.caller = f),
           framePtr' = Top.caller
    PROVE  Inv'
<1> DEFINE r == Level(c, level)
           res == IF absorbs /\ r.code = "return" THEN "ok" ELSE r.code
           landed == c = "return" /\ LastLevel(level)
<1>0. Typed /\ Structured /\ returnCode \in Codes /\ "ok" \in Codes /\ "return" \in Codes
  BY DEF Inv, Typed, Codes
<1>1. /\ stack' = Pop /\ code' = AfterCommand(Below, res)
      /\ returnCode' = r.returnCode /\ returnLevel' = r.returnLevel
      /\ aim' = IF code' # "return" THEN NoAim
                ELSE IF landed THEN Aim(Pop, 0, "ok") ELSE a
  BY DEF EndsLevel, Returns
<1>2. IF c # "return" THEN r.code = c /\ r.returnCode = returnCode /\ r.returnLevel = level
      ELSE IF landed THEN r.code = returnCode /\ r.returnCode = "ok" /\ r.returnLevel = 0
      ELSE /\ r.code = "return" /\ r.returnCode = returnCode /\ r.returnLevel = level - 1
           /\ level > 1
  BY DEF Level, LastLevel
<1> HIDE DEF r
<1>3. res \in Codes /\ (res = "return" => c = "return") /\ (absorbs => res # "return")
  BY <1>0, <1>2
<1>4. r.returnCode \in Codes /\ r.returnLevel \in Nat
  BY <1>0, <1>2
<1> HIDE DEF res
<1>5. /\ code' \in Codes \cup {"run"} /\ (code' = "run" => Below.phase # "tail")
      /\ code' = "return" => res = "return"
  BY <1>1, <1>3, AfterCommandIs
<1>6. Pop \in Seq(Activation)
  BY <1>0, FrontProperties, Innermost DEF Pop, Typed, Depth
<1>7. aim' \in AimType
  <2>1. NoAim \in AimType
    BY <1>0 DEF NoAim, AimType
  <2>2. Target(Pop, 1) \in Nat
    BY <1>6, TargetType
  <2>3. Aim(Pop, 0, "ok") \in AimType
    BY <1>0, <2>2 DEF Aim, AimType
  <2> QED BY <1>1, <2>1, <2>3
<1>8. ReturnEndsItsLevels'
  <2>1. ASSUME code' = "return", ~aim'.spoiled
        PROVE  returnCode' = aim'.code /\ aim'.at = Target(stack', LevelLeft')
    <3>1. c = "return" /\ ~absorbs
      BY <1>3, <1>5, <2>1
    <3>2. CASE landed
      <4>1. aim' = Aim(Pop, 0, "ok") /\ returnCode' = "ok" /\ returnLevel' = 0
        BY <1>1, <1>2, <2>1, <3>1, <3>2
      <4> QED BY <1>1, <4>1 DEF Aim, LevelLeft
    <3>3. CASE ~landed
      <4>1. aim' = a /\ returnCode' = returnCode /\ returnLevel' = level - 1 /\ level > 1
        BY <1>1, <1>2, <2>1, <3>1, <3>3
      <4>2. returnCode = a.code /\ a.at = Target(Pop, level - 1)
        BY <2>1, <3>1, <3>3, <4>1
      <4>3. LevelLeft' = level - 1
        BY <4>1 DEF LevelLeft
      <4> QED BY <1>1, <4>1, <4>2, <4>3
    <3> QED BY <3>2, <3>3
  <2> QED BY <2>1 DEF ReturnEndsItsLevels, LevelLeft
<1>9. \/ \A i \in 1 .. Depth - 1 : ~Waits(i)
      \/ code' # "return" /\ UNCHANGED <<returnCode, returnLevel>>
  BY <1>1, <1>2, <1>3, <1>5
<1>10. signalLevel' = signalLevel - IF Listens(Top) THEN 1 ELSE 0
  BY <1>0 DEF Quiet, Listens, Typed
<1>11. sigmask' \in BOOLEAN
  BY <1>0 DEF Quiet, Typed
<1>12. returnCode' \in Codes /\ returnLevel' \in Nat
  BY <1>1, <1>4
<1> QED BY <1>1, <1>5, <1>7, <1>8, <1>9, <1>10, <1>11, <1>12, EndedStep

\* Whatever a [return] in flight has left, seen from the command below.
LEMMA LevelsLeft ==
    ASSUME Inv, Depth > 1
    PROVE  /\ Depth \in Nat /\ returnLevel \in Nat /\ LevelLeft \in Nat
           /\ Counts(Top) /\ Top.kind # "source" /\ returnLevel >= 2
                => Target(stack, LevelLeft) = Target(Pop, returnLevel - 1)
           /\ ~Counts(Top) => Target(stack, LevelLeft) = Target(Pop, LevelLeft)
<1>1. /\ stack \in Seq(Activation) /\ Len(stack) >= 1 /\ Depth \in Nat /\ returnLevel \in Nat
  BY Innermost DEF Inv, Typed, Depth
<1>2. LevelLeft \in Nat /\ (returnLevel >= 2 => LevelLeft = returnLevel)
  BY <1>1 DEF LevelLeft
<1>3. LET f == SubSeq(stack, 1, Len(stack) - 1)
      IN  IF Counts(stack[Len(stack)])
          THEN stack[Len(stack)].kind # "source" /\ LevelLeft >= 2
                 => Target(stack, LevelLeft) = Target(f, LevelLeft - 1)
          ELSE Target(stack, LevelLeft) = Target(f, LevelLeft)
  BY <1>1, <1>2, TargetFront
<1> QED BY <1>1, <1>2, <1>3 DEF Top, Pop, Depth

\* [source] ends every [return].
LEMMA SourceStep ==
    ASSUME Inv, SourceEnds
    PROVE  Inv'
<1>0. Typed /\ Structured /\ ReturnWaits /\ Depth \in Nat
  BY Innermost DEF Inv
<1>1. /\ code # "run" /\ Depth > 1 /\ Top.kind = "source" /\ code \in Codes /\ Quiet
      /\ EndsLevel(code, returnLevel, aim, TRUE) /\ UNCHANGED <<frames, framePtr>>
      /\ returnLevel \in Nat /\ aim \in AimType
  BY <1>0 DEF SourceEnds, Finished, Typed, AimType
<1>2. ~OwnsFrame(Top) /\ framePtr' = Top.caller /\ frames' \in Seq(CallFrame)
      /\ Len(frames') = Len(frames)
  BY <1>0, <1>1, ReturnsTo DEF OwnsFrame, Typed
<1>3. code = "return" => \A i \in 1 .. Depth - 1 : ~Waits(i)
  BY <1>0, NoneWaits
<1>4. \A f \in 1 .. Len(frames') :
        Alike(frames'[f], frames[f]) /\ SameTail(frames'[f], frames[f])
  BY <1>1 DEF Alike, SameTail
<1> QED BY <1>1, <1>2, <1>3, <1>4, EndsLevelStep

\* The innermost command with another state.
LEMMA SetTopIs ==
    ASSUME Typed, NEW act \in Activation, stack' = SetTop(act)
    PROVE  /\ stack' \in Seq(Activation) /\ Depth' = Depth /\ Top' = act
           /\ Depth \in Nat /\ Depth >= 1
           /\ \A i \in 1 .. Depth - 1 : stack'[i] = stack[i]
<1>1. stack \in Seq(Activation) /\ Depth \in Nat /\ Depth \in 1 .. Len(stack) /\ Depth = Len(stack)
  BY LenProperties DEF Typed, Depth
<1>2. /\ stack' \in Seq(Activation) /\ Len(stack') = Len(stack)
      /\ \A i \in 1 .. Len(stack) : stack'[i] = IF i = Depth THEN act ELSE stack[i]
  <2>1. stack' = [stack EXCEPT ![Depth] = act]
    BY DEF SetTop
  <2> QED BY <1>1, <2>1, ExceptSeq
<1>3. Depth' = Depth
  BY <1>2 DEF Depth
<1>4. \A i \in 1 .. Depth - 1 : stack'[i] = stack[i]
  BY <1>1, <1>2
<1> QED BY <1>1, <1>2, <1>3, <1>4 DEF Top

\* A procedure goes on to its defer scripts or, its frame freed, to its tailcall.
LEMMA NextPhase ==
    ASSUME Typed, Structured, Depth > 1, Top.kind = "proc", NEW act \in Activation,
           stack' = SetTop(act), act.kind = "proc", act.caller = Top.caller,
           "return" \notin act.ignore,
           frames' \in Seq(CallFrame), \A f \in 1 .. Len(frames') : Alike(frames'[f], frames[f]),
           IF OwnsFrame(act)
           THEN OwnsFrame(Top) /\ Len(frames') = Len(frames) /\ framePtr' = framePtr
           ELSE /\ Len(frames') = IF OwnsFrame(Top) THEN Len(frames) - 1 ELSE Len(frames)
                /\ framePtr' = Top.caller,
           signalLevel' = signalLevel
    PROVE  /\ Structured' /\ framePtr' \in 1 .. Len(frames')
           /\ \A f : /\ Called(f) => Called(f)'
                     /\ f # Top.caller \/ OwnsFrame(act) => (Awaited(f) => Awaited(f)')
<1> DEFINE n == Depth - 1
<1>1. /\ Depth \in Nat /\ n \in 0 .. Depth /\ n \in Nat /\ n # 0 /\ n + 1 = Depth
      /\ n \in 1 .. Depth /\ Len(frames) \in Nat
      /\ Len(frames) = 1 + OwnersIn(stack, n) + IF OwnsFrame(Top) THEN 1 ELSE 0
      /\ OwnersIn(stack, n) \in Nat
      /\ FrameAt(n) \in 1 .. 1 + Owners(n) /\ Owners(n) = OwnersIn(stack, n)
      /\ signalLevel = ListensIn(stack, n) + IF Listens(Top) THEN 1 ELSE 0
      /\ Top.caller = FrameAt(n)
  BY Innermost, Counted DEF Structured, Framed
<1>2. /\ stack' \in Seq(Activation) /\ Depth' = Depth /\ Top' = act
      /\ \A i \in 1 .. n : stack'[i] = stack[i]
  BY SetTopIs
<1>3. ~Listens(Top) /\ ~Listens(act)
  BY DEF Listens
<1>4. Len(frames') = 1 + OwnersIn(stack, n) + IF OwnsFrame(act) THEN 1 ELSE 0
  BY <1>1
<1>5. framePtr' \in 1 .. Len(frames')
  BY <1>1, <1>4 DEF Typed
<1>6. Linked' /\ CallFrameLimit'
  <2>1. Len(frames') \in 1 .. Len(frames)
    BY <1>1
  <2> QED BY <2>1, LinkedFrom DEF Structured
<1>7. IF OwnsFrame(act)
      THEN /\ framePtr' = Len(frames')
           /\ frames'[framePtr'].parent = act.caller
           /\ frames'[framePtr'].namespace <=> act.kind = "namespace"
      ELSE framePtr' = act.caller
  <2>1. CASE OwnsFrame(act)
    <3>1. /\ Depth \in 2 .. Depth /\ FrameAt(Depth) = framePtr /\ stack[Depth] = Top
          /\ Len(frames) = 1 + Owners(Depth)
      BY <1>1 DEF FrameAt, Top, Structured, Framed
    <3>2. /\ framePtr = 1 + Owners(Depth)
          /\ frames[1 + Owners(Depth)].parent = Top.caller
          /\ frames[1 + Owners(Depth)].namespace <=> Top.kind = "namespace"
      BY <2>1, <3>1 DEF Structured, Framed
    <3>3. Alike(frames'[framePtr'], frames[framePtr'])
      BY <1>5
    <3> QED BY <2>1, <3>1, <3>2, <3>3 DEF Alike
  <2>2. CASE ~OwnsFrame(act)
    BY <2>2
  <2> QED BY <2>1, <2>2
<1>8. Structured'
  <2>1. \A i \in 1 .. n : SameCommand(stack'[i], stack[i])
    BY <1>2 DEF SameCommand
  <2>2. \A f \in 1 .. 1 + OwnersIn(stack, n) : Alike(frames'[f], frames[f])
    BY <1>1, <1>4
  <2>3. /\ Top'.kind = "base" <=> n = 0
        /\ Top'.phase # "body" => Top'.kind = "proc"
        /\ "return" \notin Top'.ignore
        /\ signalLevel' = ListensIn(stack, n) + IF Listens(Top') THEN 1 ELSE 0
        /\ Top'.caller = FrameAt(n) /\ Top'.kind # "uplevel"
        /\ Depth' = n + 1
    BY <1>1, <1>2, <1>3
  <2> HIDE DEF n
  <2> QED BY <1>1, <1>2, <1>4, <1>5, <1>6, <1>7, <2>1, <2>2, <2>3, StructuredFrom
<1>9. ASSUME NEW f
      PROVE  /\ Called(f) => Called(f)'
             /\ f # Top.caller \/ OwnsFrame(act) => (Awaited(f) => Awaited(f)')
  <2>1. ASSUME NEW i \in 2 .. Depth
        PROVE  stack'[i] = stack[i] \/ (i = Depth /\ stack[i] = Top /\ stack'[i] = act)
    <3>1. i = Depth \/ i \in 1 .. n
      BY <1>1
    <3> QED BY <1>2, <3>1 DEF Top
  <2>2. Called(f) => Called(f)'
    BY <1>2, <2>1 DEF Called
  <2>3. OwnsFrame(act) => act.phase # "tail"
    BY DEF OwnsFrame
  <2>4. f # Top.caller \/ OwnsFrame(act) => (Awaited(f) => Awaited(f)')
    BY <1>2, <2>1, <2>3 DEF Awaited
  <2> QED BY <2>2, <2>4
<1> QED BY <1>5, <1>8, <1>9

\* The same in full: the procedure keeps its frame, or evaluates a tailcall, for
\* which `pending' has been taken from the frame it returns to.
LEMMA PhaseStep ==
    ASSUME Inv, code # "run", Depth > 1, Top.kind = "proc", NEW act \in Activation,
           stack' = SetTop(act), act.kind = "proc", act.caller = Top.caller,
           "return" \notin act.ignore,
           frames' \in Seq(CallFrame), \A f \in 1 .. Len(frames') : Alike(frames'[f], frames[f]),
           IF OwnsFrame(act)
           THEN /\ OwnsFrame(Top) /\ Len(frames') = Len(frames) /\ framePtr' = framePtr
                /\ \A f \in 1 .. Len(frames') : SameTail(frames'[f], frames[f])
           ELSE /\ Len(frames') = IF OwnsFrame(Top) THEN Len(frames) - 1 ELSE Len(frames)
                /\ framePtr' = Top.caller /\ act.phase = "tail"
                /\ \A f \in 1 .. Len(frames') : f # Top.caller => SameTail(frames'[f], frames[f])
                /\ frames'[Top.caller].tailcallObj = None
                /\ frames'[Top.caller].tailcallCmd = frames[Top.caller].tailcallCmd
                /\ frames'[Top.caller].stray = frames[Top.caller].stray
                /\ act.list = frames[Top.caller].tailcallObj /\ act.list # None,
           code' = "run", Quiet, UNCHANGED <<returnCode, returnLevel>>, aim' \in AimType,
           ReturnWaits'
    PROVE  Inv'
<1>0. Typed /\ Structured /\ Stashes
  BY DEF Inv
<1>1. /\ stack' \in Seq(Activation) /\ Depth' = Depth /\ Top' = act
      /\ UNCHANGED <<sigmask, signalLevel>>
  BY <1>0, SetTopIs DEF Quiet
<1>2. /\ Structured' /\ framePtr' \in 1 .. Len(frames')
      /\ \A f : /\ Called(f) => Called(f)'
                /\ f # Top.caller \/ OwnsFrame(act) => (Awaited(f) => Awaited(f)')
  BY <1>0, <1>1, NextPhase
<1>3. Typed'
  BY <1>0, <1>1, <1>2 DEF Typed, AimType, Codes
<1>4. Len(frames') \in Nat /\ Len(frames) \in Nat /\ Len(frames') <= Len(frames)
  BY <1>0, LenProperties DEF Typed
<1>5. Stashes'
  <2>1. ASSUME NEW f \in 1 .. Len(frames')
        PROVE  \/ /\ f \in 1 .. Len(frames) /\ ~AtTail(f)'
                  /\ frames'[f].tailcallObj = frames[f].tailcallObj
                  /\ frames'[f].tailcallCmd = frames[f].tailcallCmd /\ ~AtTail(f)
                  /\ frames'[f].stray = frames[f].stray
                  /\ (Called(f) => Called(f)') /\ (Awaited(f) => Awaited(f)')
               \/ Stash(f)'
    <3>1. f \in 1 .. Len(frames) /\ ~AtTail(f)
      BY <1>4 DEF AtTail
    <3>2. CASE OwnsFrame(act) \/ f # Top.caller
      <4>1. ~AtTail(f)'
        BY <1>1, <3>2 DEF AtTail, OwnsFrame
      <4>2. SameTail(frames'[f], frames[f])
        BY <3>2
      <4> QED BY <1>2, <3>1, <3>2, <4>1, <4>2 DEF SameTail
    <3>3. CASE ~OwnsFrame(act) /\ f = Top.caller
      <4>1. AtTail(f)' /\ Top'.list = act.list
        BY <1>1, <3>3 DEF AtTail
      <4>2. frames[f].tailcallCmd \in {None, act.list}
        <5>1. Stash(f)
          BY <1>0, <3>1 DEF Stashes
        <5> QED BY <3>3, <5>1 DEF Stash
      <4> QED BY <3>3, <4>1, <4>2 DEF Stash
    <3> QED BY <3>2, <3>3
  <2> QED BY <1>0, <2>1, StashesFrom
<1>6. ReturnEndsItsLevels'
  BY DEF ReturnEndsItsLevels
<1> QED BY <1>2, <1>3, <1>5, <1>6 DEF Inv

\* A frame whose tailcall is dropped.
LEMMA DroppedIs ==
    ASSUME NEW f \in CallFrame
    PROVE  Dropped(f) \in CallFrame /\ Alike(Dropped(f), f) /\ NoTail(Dropped(f))
<1> DEFINE a == [f EXCEPT !.tailcallObj = None]
           b == [a EXCEPT !.tailcallCmd = None]
           c == [b EXCEPT !.stray = FALSE]
<1>1. a \in CallFrame /\ Alike(a, f) /\ a.tailcallObj = None
  BY DEF CallFrame, Alike
<1> HIDE DEF a
<1>2. b \in CallFrame /\ Alike(b, f) /\ NoTail(b)
  BY <1>1 DEF CallFrame, Alike, NoTail
<1> HIDE DEF b
<1>3. c \in CallFrame /\ Alike(c, f) /\ NoTail(c)
  BY <1>2 DEF CallFrame, Alike, NoTail
<1>4. Dropped(f) = c
  BY DEF Dropped, a, b
<1> QED BY <1>3, <1>4

\* A procedure's frame is freed: its code goes on to the caller, or its tailcall.
LEMMA LeavesFrameStep ==
    ASSUME Inv, code # "run", Depth > 1, Top.kind = "proc", Top.phase # "tail",
           NEW c \in Codes, NEW a \in AimType, LeavesFrame(c, a), Quiet,
           c = "return" => \A i \in 1 .. Depth - 1 : ~Waits(i),
           c = "return" /\ ~a.spoiled => returnCode = a.code /\ a.at = Target(stack, LevelLeft)
    PROVE  Inv'
<1> DEFINE parent == Frame.parent
           left == SubSeq(frames, 1, framePtr - 1)
           pending == frames[parent].tailcallObj
<1>0. Typed /\ Structured /\ Stashes /\ ReturnWaits /\ Depth \in Nat /\ Top \in Activation
  BY Innermost DEF Inv
<1>1. OwnsFrame(Top) /\ Counts(Top)
  BY DEF OwnsFrame, Counts
<1>2. /\ framePtr = Len(frames) /\ parent = Top.caller
      /\ left \in Seq(CallFrame) /\ Len(left) = Len(frames) - 1 /\ Len(frames) \in Nat
      /\ \A f \in 1 .. Len(left) : left[f] = frames[f] /\ f \in 1 .. Len(frames)
      /\ parent \in 1 .. Len(left) /\ left[parent] \in CallFrame
  <2>1. /\ framePtr = Len(frames) /\ parent = Top.caller
        /\ left \in Seq(CallFrame) /\ Len(left) = Len(frames) - 1
        /\ \A f \in 1 .. Len(left) : left[f] = frames[f]
        /\ parent \in 1 .. Len(left)
    BY <1>0, <1>1, ReturnsTo
  <2>2. Len(frames) \in Nat
    BY <1>0, LenProperties DEF Typed
  <2>3. left[parent] \in CallFrame
    BY <2>1, ElementOfSeq
  <2> HIDE DEF left, parent
  <2>4. \A f \in 1 .. Len(left) : f \in 1 .. Len(frames)
    BY <2>1, <2>2
  <2> QED BY <2>1, <2>2, <2>3, <2>4
<1>3. /\ framePtr' = parent
      /\ IF pending = None
         THEN frames' = left /\ EndsLevel(c, returnLevel, a, FALSE)
         ELSE IF c = "eval"
         THEN /\ frames' = [left EXCEPT ![parent] = [left[parent] EXCEPT !.tailcallObj = None]]
              /\ stack' = SetTop([Top EXCEPT !.phase = "tail", !.list = pending])
              /\ code' = "run"
              /\ aim' = NoAim
              /\ UNCHANGED <<returnCode, returnLevel>>
         ELSE /\ frames' = [left EXCEPT ![parent] = Dropped(left[parent])]
              /\ EndsLevel(c, returnLevel, a, FALSE)
  BY Zenon DEF LeavesFrame
<1> HIDE DEF parent, left, pending
<1>4. returnLevel \in Nat /\ NoAim \in AimType
  BY <1>0 DEF Typed, NoAim, AimType, Codes
<1>5. ASSUME EndsLevel(c, returnLevel, a, FALSE), frames' \in Seq(CallFrame),
             Len(frames') = Len(left),
             \A f \in 1 .. Len(left) : Alike(frames'[f], frames[f]),
             \A f \in 1 .. Len(left) :
                f # parent => SameTail(frames'[f], frames[f]),
             NoTail(frames'[parent])
      PROVE  Inv'
  <2>1. c = "return" /\ ~a.spoiled /\ ~LastLevel(returnLevel)
          => returnCode = a.code /\ a.at = Target(Pop, returnLevel - 1)
    <3>1. ASSUME ~LastLevel(returnLevel) PROVE returnLevel >= 2
      BY <1>4, <3>1 DEF LastLevel
    <3>2. returnLevel >= 2 => Target(stack, LevelLeft) = Target(Pop, returnLevel - 1)
      BY <1>1, LevelsLeft
    <3> QED BY <3>1, <3>2
  <2> QED BY <1>1, <1>2, <1>3, <1>4, <1>5, <2>1, EndsLevelStep
<1>6. CASE pending = None
  <2>1. NoTail(left[parent])
    <3>1. Stash(parent) /\ frames[parent].tailcallObj = None /\ left[parent] = frames[parent]
      BY <1>0, <1>2, <1>6 DEF Stashes, pending
    <3> QED BY <3>1 DEF Stash, AtTail, NoTail
  <2>2. \A f \in 1 .. Len(left) : Alike(left[f], frames[f]) /\ SameTail(left[f], frames[f])
    BY <1>2 DEF Alike, SameTail
  <2> QED BY <1>2, <1>3, <1>5, <1>6, <2>1, <2>2
<1>7. CASE pending # None /\ c # "eval"
  <2>1. frames' = [left EXCEPT ![parent] = Dropped(left[parent])]
        /\ EndsLevel(c, returnLevel, a, FALSE)
    BY <1>3, <1>7
  <2>2. /\ Dropped(left[parent]) \in CallFrame /\ Alike(Dropped(left[parent]), left[parent])
        /\ NoTail(Dropped(left[parent]))
    BY <1>2, DroppedIs
  <2>3. /\ frames' \in Seq(CallFrame) /\ Len(frames') = Len(left)
        /\ \A f \in 1 .. Len(left) :
             frames'[f] = IF f = parent THEN Dropped(left[parent]) ELSE left[f]
    BY <1>2, <2>1, <2>2, ExceptSeq
  <2>4. ASSUME NEW f \in 1 .. Len(left)
        PROVE  Alike(frames'[f], frames[f]) /\ (f # parent => SameTail(frames'[f], frames[f]))
    BY <1>2, <2>2, <2>3 DEF Alike, SameTail
  <2>5. NoTail(frames'[parent])
    BY <1>2, <2>2, <2>3
  <2> QED BY <1>5, <2>1, <2>3, <2>4, <2>5
<1>8. CASE pending # None /\ c = "eval"
  <2> DEFINE g == [left[parent] EXCEPT !.tailcallObj = None]
             b == [Top EXCEPT !.phase = "tail"]
             act == [b EXCEPT !.list = pending]
  <2>1. /\ frames' = [left EXCEPT ![parent] = g]
        /\ stack' = SetTop(act) /\ code' = "run" /\ aim' = NoAim
        /\ UNCHANGED <<returnCode, returnLevel>>
    BY <1>3, <1>8
  <2>2. /\ g \in CallFrame /\ Alike(g, left[parent]) /\ g.tailcallObj = None
        /\ g.tailcallCmd = left[parent].tailcallCmd /\ g.stray = left[parent].stray
    BY <1>2 DEF CallFrame, Alike
  <2> HIDE DEF g
  <2>3. b \in Activation /\ b.kind = "proc" /\ b.caller = Top.caller /\ b.phase = "tail"
        /\ b.ignore = Top.ignore
    BY <1>0 DEF Activation
  <2> HIDE DEF b
  <2>4. /\ act \in Activation /\ act.kind = "proc" /\ act.caller = Top.caller
        /\ act.phase = "tail" /\ act.ignore = Top.ignore /\ act.list = pending
    <3>1. pending \in Names \cup {None}
      BY <1>2 DEF pending, CallFrame
    <3> QED BY <2>3, <3>1 DEF Activation
  <2> HIDE DEF act
  <2>5. /\ frames' \in Seq(CallFrame) /\ Len(frames') = Len(left)
        /\ \A f \in 1 .. Len(left) : frames'[f] = IF f = parent THEN g ELSE left[f]
    BY <1>2, <2>1, <2>2, ExceptSeq
  <2>6. \A f \in 1 .. Len(frames') : /\ Alike(frames'[f], frames[f])
                                     /\ f # parent => SameTail(frames'[f], frames[f])
    BY <1>2, <2>2, <2>5 DEF Alike, SameTail
  <2>7. /\ frames'[parent].tailcallObj = None
        /\ frames'[parent].tailcallCmd = frames[parent].tailcallCmd
        /\ frames'[parent].stray = frames[parent].stray
    BY <1>2, <2>2, <2>5
  <2>8. "return" \notin act.ignore
    <3>1. "return" \notin Top.ignore
      BY <1>0 DEF Structured, Shaped, Top
    <3> QED BY <2>4, <3>1
  <2>9. ReturnWaits'
    <3>1. PICK n \in 0 .. Depth : n = Depth - 1
      BY <1>0
    <3>2. /\ stack' \in Seq(Activation) /\ Depth' = n + 1 /\ Top' = act /\ Top' = stack'[n + 1]
          /\ \A i \in 1 .. n : stack'[i] = stack[i]
      BY <1>0, <2>1, <2>4, <3>1, SetTopIs DEF Top
    <3>3. ~Deferring(n + 1)'
      BY <2>4, <3>2 DEF Deferring
    <3>4. code' # "return" /\ UNCHANGED <<returnCode, returnLevel>>
      BY <2>1
    <3> QED BY <1>0, <3>2, <3>3, <3>4, WaitsKept
  <2>10. ~OwnsFrame(act) /\ act.list = frames[Top.caller].tailcallObj /\ act.list # None
    BY <1>2, <1>8, <2>4 DEF OwnsFrame, pending
  <2>11. Len(frames') = IF OwnsFrame(Top) THEN Len(frames) - 1 ELSE Len(frames)
    BY <1>1, <1>2, <2>5
  <2> QED BY <1>1, <1>2, <1>3, <1>4, <2>1, <2>4, <2>5, <2>6, <2>7, <2>8, <2>9, <2>10, <2>11, PhaseStep
<1> QED BY <1>6, <1>7, <1>8

\* What is to be shown of the [return] in flight when a procedure ends.
LEMMA InFlight ==
    ASSUME Inv, Depth > 1, code = "return"
    PROVE  /\ \A i \in 1 .. Depth - 1 : ~Waits(i)
           /\ ~aim.spoiled => returnCode = aim.code /\ aim.at = Target(stack, LevelLeft)
<1>1. Typed /\ Structured /\ ReturnWaits /\ ReturnEndsItsLevels /\ Depth \in Nat
  BY Innermost DEF Inv
<1> QED BY <1>1, NoneWaits DEF ReturnEndsItsLevels, LevelLeft

\* The body has ended: its defer scripts are run, or its frame is freed.
LEMMA BodyStep ==
    ASSUME Inv, BodyEnds
    PROVE  Inv'
<1>0. /\ Typed /\ Structured /\ ReturnWaits /\ ReturnEndsItsLevels
      /\ Depth \in Nat /\ Depth \in 1 .. Depth /\ Top \in Activation /\ Frame \in CallFrame
  BY Innermost DEF Inv
<1>1. /\ code # "run" /\ Depth > 1 /\ Top.kind = "proc" /\ Top.phase = "body" /\ Quiet
      /\ code \in Codes /\ aim \in AimType
  BY <1>0 DEF BodyEnds, Finished, Typed, AimType
<1>2. CASE Frame.defers = 0
  <2>1. LeavesFrame(code, aim)
    BY <1>2 DEF BodyEnds
  <2> QED BY <1>1, <2>1, InFlight, LeavesFrameStep
<1>3. CASE Frame.defers # 0
  <2> DEFINE left == Frame.defers - 1
             a == [Top EXCEPT !.phase = "defer"]
             b == [a EXCEPT !.left = left]
             d == [b EXCEPT !.kept = code]
             act == [d EXCEPT !.keptAim = aim]
  <2>1. /\ stack' = SetTop(act) /\ code' = "run" /\ aim' = NoAim
        /\ UNCHANGED <<frames, framePtr, returnCode, returnLevel>>
    BY <1>3 DEF BodyEnds
  <2>2. left \in Nat
    BY <1>0, <1>3 DEF CallFrame
  <2> HIDE DEF left
  <2>3. /\ a \in Activation /\ a.kind = "proc" /\ a.caller = Top.caller /\ a.phase = "defer"
        /\ a.ignore = Top.ignore
    BY <1>0, <1>1 DEF Activation
  <2> HIDE DEF a
  <2>4. /\ b \in Activation /\ b.kind = "proc" /\ b.caller = Top.caller /\ b.phase = "defer"
        /\ b.ignore = Top.ignore
    BY <2>2, <2>3 DEF Activation
  <2> HIDE DEF b
  <2>5. /\ d \in Activation /\ d.kind = "proc" /\ d.caller = Top.caller /\ d.phase = "defer"
        /\ d.ignore = Top.ignore /\ d.kept = code
    BY <1>1, <2>4 DEF Activation
  <2> HIDE DEF d
  <2>6. /\ act \in Activation /\ act.kind = "proc" /\ act.caller = Top.caller /\ act.phase = "defer"
        /\ act.ignore = Top.ignore /\ act.kept = code /\ act.keptAim = aim
    BY <1>1, <2>5 DEF Activation, AimType
  <2> HIDE DEF act
  <2>7. OwnsFrame(act) /\ OwnsFrame(Top)
    BY <1>1, <2>6 DEF OwnsFrame
  <2>8. "return" \notin act.ignore
    <3>1. "return" \notin Top.ignore
      BY <1>0 DEF Structured, Shaped, Top
    <3> QED BY <2>6, <3>1
  <2>9. PICK n \in 0 .. Depth : n = Depth - 1
    BY <1>0
  <2>10. /\ stack' \in Seq(Activation) /\ Depth' = n + 1 /\ Depth' = Depth
         /\ Top' = act /\ Top' = stack'[n + 1]
         /\ \A i \in 1 .. n : stack'[i] = stack[i]
    BY <1>0, <2>1, <2>6, <2>9, SetTopIs DEF Top
  <2>11. ReturnWaits'
    <3>1. CASE code # "return"
      <4>1. ~Deferring(n + 1)'
        BY <2>6, <2>10, <3>1 DEF Deferring
      <4>2. code' # "return" /\ UNCHANGED <<returnCode, returnLevel>>
        BY <2>1
      <4> QED BY <1>0, <2>10, <4>1, <4>2, WaitsKept
    <3>2. CASE code = "return"
      <4>1. /\ \A i \in 1 .. Depth - 1 : ~Waits(i)
            /\ ~aim.spoiled => returnCode = aim.code /\ aim.at = Target(stack, LevelLeft)
        BY <1>1, <3>2, InFlight
      <4>2. ASSUME NEW i \in 1 .. n + 1, Waits(i)'
            PROVE  /\ code' # "return"
                   /\ \A j \in i + 1 .. n + 1 : ~Deferring(j)'
                   /\ returnCode' = stack'[i].keptAim.code
                   /\ stack'[i].keptAim.at = Target(SubSeq(stack', 1, i), LevelLeft')
        <5>1. i = n + 1
          <6>1. ASSUME i # n + 1 PROVE FALSE
            <7>1. i \in 1 .. n /\ i \in 1 .. Depth - 1
              BY <1>0, <2>9, <6>1
            <7>2. Waits(i)
              BY <2>10, <4>2, <7>1 DEF Waits, Deferring
            <7> QED BY <4>1, <7>1, <7>2
          <6> QED BY <6>1
        <5>2. stack'[i] = act /\ ~aim.spoiled
          BY <2>6, <2>10, <4>2, <5>1 DEF Waits
        <5>3. returnCode = aim.code /\ aim.at = Target(stack, LevelLeft)
          BY <4>1, <5>2
        <5>4. LevelLeft' = LevelLeft
          BY <2>1 DEF LevelLeft
        <5>5. Target(stack', LevelLeft) = Target(stack, LevelLeft)
          <6>1. ASSUME NEW j \in 1 .. Len(stack')
                PROVE  /\ Counts(stack'[j]) <=> Counts(stack[j])
                       /\ stack'[j].kind = "source" <=> stack[j].kind = "source"
            <7>1. CASE j = n + 1
              BY <1>1, <2>6, <2>9, <2>10, <7>1 DEF Counts, Top
            <7>2. CASE j # n + 1
              <8>1. j \in 1 .. n
                BY <2>10, <7>2 DEF Depth
              <8> QED BY <2>10, <8>1
            <7> QED BY <7>1, <7>2
          <6>2. stack \in Seq(Activation) /\ Len(stack') = Len(stack)
            BY <1>0, <2>10 DEF Typed, Depth
          <6> QED BY <2>10, <6>1, <6>2, TargetSame
        <5>6. SubSeq(stack', 1, i) = stack'
          <6>1. stack' \in Seq(Activation) /\ i = Len(stack')
            BY <2>10, <5>1 DEF Depth
          <6> QED BY <6>1
        <5>7. \A j \in i + 1 .. n + 1 : ~Deferring(j)'
          BY <5>1
        <5> QED BY <2>1, <2>6, <5>2, <5>3, <5>4, <5>5, <5>6, <5>7
      <4>3. ReturnWaits' <=> \A i \in 1 .. n + 1 : Waits(i)' =>
                /\ code' # "return"
                /\ \A j \in i + 1 .. n + 1 : ~Deferring(j)'
                /\ returnCode' = stack'[i].keptAim.code
                /\ stack'[i].keptAim.at = Target(SubSeq(stack', 1, i), LevelLeft')
        BY <2>10 DEF ReturnWaits
      <4> QED BY <4>2, <4>3, Zenon
    <3> QED BY <3>1, <3>2
  <2>12. NoAim \in AimType
    BY DEF NoAim, AimType, Codes
  <2>13. /\ frames' \in Seq(CallFrame) /\ Len(frames') = Len(frames)
         /\ \A f \in 1 .. Len(frames') : Alike(frames'[f], frames[f]) /\ SameTail(frames'[f], frames[f])
    BY <1>0, <2>1 DEF Typed, Alike, SameTail
  <2> QED BY <1>1, <2>1, <2>6, <2>7, <2>8, <2>11, <2>12, <2>13, PhaseStep
<1> QED BY <1>2, <1>3

\* A defer script has ended: the next one is run, or the frame is freed.
LEMMA DeferEndsStep ==
    ASSUME Inv, DeferEnds
    PROVE  Inv'
<1>0. /\ Typed /\ Structured /\ ReturnWaits /\ Depth \in Nat /\ Top \in Activation
      /\ Depth \in 1 .. Depth
  BY Innermost DEF Inv
<1>1. /\ code # "run" /\ Depth > 1 /\ Top.kind = "proc" /\ Top.phase = "defer" /\ Quiet
      /\ code \in Codes /\ aim \in AimType /\ Top.kept \in Codes /\ Top.keptAim \in AimType
  BY <1>0 DEF DeferEnds, Finished, Typed, AimType, Activation
<1>2. CASE code = "ok" /\ Top.left > 0
  <2> DEFINE left == Top.left - 1
             act == [Top EXCEPT !.left = left]
  <2>1. /\ stack' = SetTop(act) /\ code' = "run"
        /\ UNCHANGED <<frames, framePtr, returnCode, returnLevel, aim>>
    BY <1>2 DEF DeferEnds
  <2>2. left \in Nat
    BY <1>0, <1>2 DEF Activation
  <2> HIDE DEF left
  <2>3. /\ act \in Activation /\ SameCommand(act, Top) /\ act.kept = Top.kept
        /\ act.keptAim = Top.keptAim
    BY <1>0, <2>2 DEF Activation, SameCommand
  <2> HIDE DEF act
  <2>4. /\ stack' \in Seq(Activation) /\ Depth' = Depth /\ Top' = act
        /\ \A i \in 1 .. Depth - 1 : stack'[i] = stack[i]
    BY <1>0, <2>1, <2>3, SetTopIs
  <2>5. UNCHANGED signalLevel /\ sigmask' \in BOOLEAN
    BY <1>0, <1>1 DEF Quiet, Typed
  <2> QED BY <1>1, <2>1, <2>3, <2>4, <2>5, GoesOn
<1>3. CASE ~(code = "ok" /\ Top.left > 0) /\ (code = "ok" \/ Top.kept = "err")
  <2>1. LeavesFrame(Top.kept, Top.keptAim)
    BY <1>3 DEF DeferEnds
  <2>2. ASSUME Top.kept = "return"
        PROVE  /\ \A i \in 1 .. Depth - 1 : ~Waits(i)
               /\ ~Top.keptAim.spoiled
                    => returnCode = Top.keptAim.code /\ Top.keptAim.at = Target(stack, LevelLeft)
    <3>1. Deferring(Depth) /\ (~Top.keptAim.spoiled => Waits(Depth))
      BY <1>1, <2>2 DEF Deferring, Waits, Top
    <3>2. Waits(Depth) => /\ returnCode = Top.keptAim.code
                          /\ Top.keptAim.at = Target(SubSeq(stack, 1, Depth), LevelLeft)
      BY <1>0 DEF ReturnWaits, Top
    <3>3. SubSeq(stack, 1, Depth) = stack
      <4>1. stack \in Seq(Activation) /\ Depth = Len(stack)
        BY <1>0 DEF Typed, Depth
      <4> QED BY <4>1
    <3> QED BY <1>0, <3>1, <3>2, <3>3, NoneWaits
  <2> QED BY <1>1, <2>1, <2>2, LeavesFrameStep
<1>4. CASE ~(code = "ok" /\ Top.left > 0) /\ ~(code = "ok" \/ Top.kept = "err")
  <2>1. LeavesFrame(code, aim)
    BY <1>4 DEF DeferEnds
  <2> QED BY <1>1, <2>1, InFlight, LeavesFrameStep
<1> QED BY <1>2, <1>3, <1>4

\* A tailcall has ended: its code goes on to the caller, or to the next tailcall.
LEMMA TailcallEndsStep ==
    ASSUME Inv, TailcallEnds
    PROVE  Inv'
<1> DEFINE again == Frame.tailcallObj
           level == TailcallLevel(code)
<1>0. /\ Typed /\ Structured /\ ReturnWaits /\ Depth \in Nat /\ Top \in Activation
      /\ Depth \in 1 .. Depth
      /\ Frame \in CallFrame /\ Frame = frames[framePtr] /\ framePtr \in 1 .. Len(frames)
      /\ frames \in Seq(CallFrame)
  BY Innermost DEF Inv, Frame, Typed
<1>1. /\ code # "run" /\ Depth > 1 /\ Top.kind = "proc" /\ Top.phase = "tail" /\ Quiet
      /\ code \in Codes /\ aim \in AimType /\ framePtr' = framePtr /\ returnLevel \in Nat
  BY <1>0 DEF TailcallEnds, Finished, Typed, AimType
<1>2. ~OwnsFrame(Top) /\ ~Counts(Top) /\ framePtr = Top.caller
  BY <1>0, <1>1, ReturnsTo DEF OwnsFrame, Counts
<1>3. IF again # None /\ code = "eval"
      THEN /\ frames' = [frames EXCEPT ![framePtr] = [Frame EXCEPT !.tailcallObj = None]]
           /\ stack' = SetTop([Top EXCEPT !.list = again])
           /\ code' = "run"
           /\ UNCHANGED <<returnCode, returnLevel, aim>>
      ELSE /\ frames' = [frames EXCEPT ![framePtr] = Dropped(Frame)]
           /\ EndsLevel(code, level, aim, FALSE)
  BY Zenon DEF TailcallEnds, Frame
<1> HIDE DEF again
<1>4. CASE again # None /\ code = "eval"
  <2> DEFINE g == [Frame EXCEPT !.tailcallObj = None]
             act == [Top EXCEPT !.list = again]
  <2>1. /\ frames' = [frames EXCEPT ![framePtr] = g]
        /\ stack' = SetTop(act) /\ code' = "run" /\ UNCHANGED <<returnCode, returnLevel, aim>>
    BY <1>3, <1>4
  <2>2. /\ g \in CallFrame /\ Alike(g, Frame) /\ g.tailcallObj = None
        /\ g.tailcallCmd = Frame.tailcallCmd /\ g.stray = Frame.stray
    BY <1>0 DEF CallFrame, Alike
  <2> HIDE DEF g
  <2>3. /\ act \in Activation /\ act.kind = "proc" /\ act.caller = Top.caller
        /\ act.phase = "tail" /\ act.ignore = Top.ignore /\ act.list = again
    <3>1. again \in Names \cup {None}
      BY <1>0 DEF again, CallFrame
    <3> QED BY <1>0, <1>1, <3>1 DEF Activation
  <2> HIDE DEF act
  <2>4. /\ frames' \in Seq(CallFrame) /\ Len(frames') = Len(frames)
        /\ \A f \in 1 .. Len(frames) : frames'[f] = IF f = framePtr THEN g ELSE frames[f]
    BY <1>0, <2>1, <2>2, ExceptSeq
  <2>5. \A f \in 1 .. Len(frames') : /\ Alike(frames'[f], frames[f])
                                     /\ f # Top.caller => SameTail(frames'[f], frames[f])
    BY <1>0, <1>2, <2>2, <2>4 DEF Alike, SameTail
  <2>6. /\ frames'[Top.caller].tailcallObj = None
        /\ frames'[Top.caller].tailcallCmd = frames[Top.caller].tailcallCmd
        /\ frames'[Top.caller].stray = frames[Top.caller].stray
        /\ act.list = frames[Top.caller].tailcallObj /\ act.list # None
    BY <1>0, <1>2, <1>4, <2>2, <2>3, <2>4 DEF again
  <2>7. "return" \notin act.ignore
    <3>1. "return" \notin Top.ignore
      BY <1>0 DEF Structured, Shaped, Top
    <3> QED BY <2>3, <3>1
  <2>8. ReturnWaits'
    <3>1. PICK n \in 0 .. Depth : n = Depth - 1
      BY <1>0
    <3>2. /\ stack' \in Seq(Activation) /\ Depth' = n + 1 /\ Top' = act /\ Top' = stack'[n + 1]
          /\ \A i \in 1 .. n : stack'[i] = stack[i]
      BY <1>0, <2>1, <2>3, <3>1, SetTopIs DEF Top
    <3>3. ~Deferring(n + 1)'
      BY <2>3, <3>2 DEF Deferring
    <3>4. code' # "return" /\ UNCHANGED <<returnCode, returnLevel>>
      BY <2>1
    <3> QED BY <1>0, <3>2, <3>3, <3>4, WaitsKept
  <2>9. ~OwnsFrame(act) /\ aim' \in AimType
    BY <1>1, <2>1, <2>3 DEF OwnsFrame
  <2> QED BY <1>1, <1>2, <2>1, <2>3, <2>4, <2>5, <2>6, <2>7, <2>8, <2>9, PhaseStep
<1>5. CASE ~(again # None /\ code = "eval")
  <2>1. /\ frames' = [frames EXCEPT ![framePtr] = Dropped(Frame)]
        /\ EndsLevel(code, level, aim, FALSE)
    BY <1>3, <1>5
  <2>2. /\ Dropped(Frame) \in CallFrame /\ Alike(Dropped(Frame), Frame)
        /\ NoTail(Dropped(Frame))
    BY <1>0, DroppedIs
  <2>3. /\ frames' \in Seq(CallFrame) /\ Len(frames') = Len(frames)
        /\ \A f \in 1 .. Len(frames) :
             frames'[f] = IF f = framePtr THEN Dropped(Frame) ELSE frames[f]
    BY <1>0, <2>1, <2>2, ExceptSeq
  <2>4. ASSUME NEW f \in 1 .. Len(frames')
        PROVE  /\ Alike(frames'[f], frames[f])
               /\ \/ NoTail(frames'[f])
                  \/ SameTail(frames'[f], frames[f]) /\ f # Top.caller
    BY <1>0, <1>2, <2>2, <2>3 DEF Alike, SameTail
  <2>5. /\ level \in Nat /\ (code # "return" => level = returnLevel)
        /\ code = "return" => level = returnLevel + 1
    BY <1>1 DEF TailcallLevel
  <2> HIDE DEF level
  <2>6. code = "return" /\ ~aim.spoiled /\ ~LastLevel(level)
          => returnCode = aim.code /\ aim.at = Target(Pop, level - 1)
    <3>1. ASSUME code = "return", ~aim.spoiled, ~LastLevel(level)
          PROVE  returnCode = aim.code /\ aim.at = Target(Pop, level - 1)
      <4>1. LevelLeft = level - 1
        BY <1>1, <2>5, <3>1 DEF LastLevel, LevelLeft
      <4>2. returnCode = aim.code /\ aim.at = Target(stack, LevelLeft)
        BY <1>1, <3>1, InFlight
      <4>3. Target(stack, LevelLeft) = Target(Pop, LevelLeft)
        BY <1>1, <1>2, LevelsLeft
      <4> QED BY <4>1, <4>2, <4>3
    <3> QED BY <3>1
  <2>7. code = "return" => \A i \in 1 .. Depth - 1 : ~Waits(i)
    BY <1>1, InFlight
  <2> QED BY <1>1, <1>2, <2>1, <2>3, <2>4, <2>5, <2>6, <2>7, EndsLevelStep
<1> QED BY <1>4, <1>5

---------------------------------------------------------------------------
(* The invariant *)

\* Every step preserves the invariant.
LEMMA NextInv ==
    ASSUME Inv, [Next]_vars
    PROVE  Inv'
<1>1. CASE Invoke
  BY <1>1, PlainStep, ReturnStep, DeferStep, TailcallStep, InvokeScriptStep DEF Invoke
<1>2. CASE Unwind
  BY <1>2, WaitingStep, LoopStep, ElsewhereStep, CatchStep, SourceStep, BodyStep,
     DeferEndsStep, TailcallEndsStep DEF Unwind
<1>3. CASE SignalArrives \/ UNCHANGED vars
  BY <1>3, WaitingStep
<1> QED BY <1>1, <1>2, <1>3 DEF Next, Interpret

\* The interpreter begins in its global frame, with nothing in flight.
LEMMA InitInv ==
    ASSUME Init
    PROVE  Inv
<1>1. /\ Depth = 1 /\ Len(frames) = 1 /\ framePtr = 1 /\ code = "run"
      /\ stack[1].kind = "base" /\ stack[1].phase = "body" /\ stack[1].ignore = {}
      /\ Top = stack[1] /\ frames[1].level = 0 /\ NoTail(frames[1])
  BY DEF Init, Depth, Top, NoTail
<1>2. Typed
  <2>0. NoAim \in [at: Nat, code: Codes, spoiled: BOOLEAN]
    BY DEF NoAim, Codes
  <2>1. \E act \in Activation : stack = <<act>>
    <3> DEFINE act == [kind |-> "base", phase |-> "body", caller |-> 1, ignore |-> {},
                       left |-> 0, kept |-> "ok", list |-> None, keptAim |-> NoAim]
    <3>1. act \in Activation
      BY <2>0 DEF Activation, Codes, None
    <3>2. stack = <<act>>
      BY DEF Init
    <3> HIDE DEF act
    <3> QED BY <3>1, <3>2
  <2>2. \E f \in CallFrame : frames = <<f>>
    BY DEF Init, CallFrame, None
  <2>3. stack \in Seq(Activation) /\ frames \in Seq(CallFrame)
    BY <2>1, <2>2
  <2>4. Depth \in 1 .. MaxEvalDepth + 1 /\ framePtr \in 1 .. Len(frames)
    BY <1>1, BoundsAssumption
  <2>5. /\ code \in Codes \cup {"run"} /\ returnCode \in Codes /\ returnLevel \in Nat
        /\ sigmask \in BOOLEAN /\ signalLevel \in Int
        /\ aim \in [at: Nat, code: Codes, spoiled: BOOLEAN]
    <3>1. aim \in [at: Nat, code: Codes, spoiled: BOOLEAN]
      BY <2>0 DEF Init
    <3>2. code \in Codes \cup {"run"} /\ returnCode \in Codes
      BY DEF Init, Codes
    <3>3. returnLevel \in Nat /\ signalLevel \in Int
      BY DEF Init
    <3>4. sigmask \in BOOLEAN
      BY DEF Init
    <3> QED BY <3>1, <3>2, <3>3, <3>4
  <2> QED BY <2>3, <2>4, <2>5 DEF Typed
<1>3. /\ {j \in 1 .. 1 : OwnsFrame(stack[j])} = {}
      /\ {i \in 1 .. 1 : stack[i].kind = "catch" /\ "signal" \notin stack[i].ignore} = {}
  BY <1>1 DEF OwnsFrame
<1>4. Owners(1) = 0
  BY <1>3, FS_EmptySet DEF Owners
<1>5. Framed
  BY <1>1, <1>4 DEF Framed, FrameAt
<1>6. SignalLevelExact
  BY <1>1, <1>3, FS_EmptySet DEF SignalLevelExact, Init
<1>7. Shaped /\ Linked /\ CallFrameLimit
  BY <1>1, BoundsAssumption DEF Shaped, Linked, CallFrameLimit
<1>8. Stashes /\ ReturnWaits /\ ReturnEndsItsLevels
  BY <1>1 DEF Stashes, Stash, NoTail, AtTail, ReturnWaits, Waits, Deferring, ReturnEndsItsLevels
<1> QED BY <1>2, <1>5, <1>6, <1>7, <1>8 DEF Inv, Structured

\* The inductive invariant holds in every behaviour of the interpreter.
THEOREM Invariant == Spec => []Inv
<1>1. Inv /\ [Next]_vars => Inv'
  BY NextInv
<1> QED BY InitInv, <1>1, PTL DEF Spec

---------------------------------------------------------------------------
(* What follows *)

\* The records have their types and the bounds hold: no more [catch -signal] than
\* commands can be nested.
THEOREM TypeCorrect == Spec => []TypeOK
<1>1. ASSUME Inv PROVE TypeOK
  <2> DEFINE A == {i \in 1 .. Depth : stack[i].kind = "catch" /\ "signal" \notin stack[i].ignore}
  <2>1. Typed /\ Structured /\ Depth \in Nat /\ Depth >= 1 /\ Depth <= MaxEvalDepth + 1
    BY <1>1, Innermost, BoundsAssumption DEF Inv, Typed
  <2>2. A \subseteq 2 .. Depth
    <3>1. ASSUME NEW i \in A PROVE i \in 2 .. Depth
      <4>1. i \in 1 .. Depth /\ stack[i].kind # "base"
        OBVIOUS
      <4>2. i # 1
        BY <2>1, <4>1 DEF Structured, Shaped
      <4> QED BY <2>1, <4>1, <4>2
    <3> QED BY <3>1
  <2>3. signalLevel = Cardinality(A)
    BY <2>1 DEF Structured, SignalLevelExact
  <2> HIDE DEF A
  <2>4. IsFiniteSet(2 .. Depth) /\ Cardinality(2 .. Depth) = Depth - 1
    BY <2>1, FS_Interval
  <2>5. Cardinality(A) \in Nat /\ Cardinality(A) <= Depth - 1
    BY <2>2, <2>4, FS_Subset, FS_CardinalityType
  <2>6. signalLevel \in 0 .. MaxEvalDepth
    BY <2>1, <2>3, <2>5, BoundsAssumption
  <2> QED BY <2>1, <2>6 DEF TypeOK, Typed
<1> QED BY Invariant, <1>1, PTL

\* signal_level is the number of [catch -signal] in progress, on every way out.
THEOREM SignalLevelIsExact == Spec => []SignalLevelExact
<1>1. Inv => SignalLevelExact
  BY DEF Inv, Structured
<1> QED BY Invariant, <1>1, PTL

\* No frame lies beyond the limit, unless in one that [namespace eval] made there.
THEOREM CallFramesLimited == Spec => []CallFrameLimit
<1>1. Inv => CallFrameLimit
  BY DEF Inv, Structured
<1> QED BY Invariant, <1>1, PTL

\* A [return -level n -code c] ends n procedures, the last of them with code c.
THEOREM ReturnIsExact == Spec => []ReturnEndsItsLevels
<1>1. Inv => ReturnEndsItsLevels
  BY DEF Inv
<1> QED BY Invariant, <1>1, PTL

\* The frame of a command, computed from the outermost one on.
LEMMA FrameOfIs ==
    ASSUME Typed, Structured
    PROVE  \A i \in 1 .. Depth : FrameOf[i] = FrameAt(i)
<1> DEFINE E(h, i) == IF i = 1 THEN 1
                      ELSE IF OwnsFrame(stack[i]) THEN 1 + Owners(i)
                      ELSE IF stack[i].kind = "uplevel" THEN frames[h[i - 1]].parent
                      ELSE h[i - 1]
           g == [i \in 1 .. Depth |-> FrameAt(i)]
<1>0. Depth \in Nat /\ Depth >= 1
  BY Innermost
<1>1. ASSUME NEW i \in 1 .. Depth PROVE FrameAt(i) = E(g, i)
  <2>1. CASE i = 1
    BY <2>1 DEF Structured, Framed
  <2>2. CASE i # 1
    <3>1. i \in 2 .. Depth /\ i - 1 \in 1 .. Depth /\ i - 1 # Depth /\ i - 1 + 1 = i
      BY <1>0, <2>2
    <3>2. g[i - 1] = stack[i].caller
      BY <3>1 DEF FrameAt
    <3>3. IF OwnsFrame(stack[i])
          THEN FrameAt(i) = 1 + Owners(i)
          ELSE FrameAt(i) = IF stack[i].kind = "uplevel" THEN frames[stack[i].caller].parent
                            ELSE stack[i].caller
      BY <3>1 DEF Structured, Framed
    <3> HIDE DEF g
    <3> QED BY <2>2, <3>2, <3>3
  <2> QED BY <2>1, <2>2
<1>2. FrameOf = CHOOSE h : h = [i \in 1 .. Depth |-> E(h, i)]
  BY Zenon DEF FrameOf
<1>3. g = [i \in 1 .. Depth |-> E(g, i)]
  <2> HIDE DEF E
  <2> QED BY <1>1
<1> HIDE DEF E
<1>4. FrameOf = [i \in 1 .. Depth |-> E(FrameOf, i)]
  <2> HIDE DEF g
  <2> QED BY <1>2, <1>3, Zenon
<1> DEFINE S == {n \in Nat : n + 1 \in 1 .. Depth => FrameOf[n + 1] = g[n + 1]}
<1>5. ASSUME NEW i \in 1 .. Depth, i # 1 => FrameOf[i - 1] = g[i - 1]
      PROVE  FrameOf[i] = g[i]
  <2>1. FrameOf[i] = E(FrameOf, i) /\ g[i] = E(g, i)
    BY <1>3, <1>4
  <2>2. E(FrameOf, i) = E(g, i)
    <3> HIDE DEF g
    <3> QED BY <1>5 DEF E
  <2> QED BY <2>1, <2>2
<1> HIDE DEF g
<1>6. 0 \in S
  BY <1>0, <1>5
<1>7. ASSUME NEW n \in Nat, n \in S PROVE n + 1 \in S
  <2>1. ASSUME n + 1 + 1 \in 1 .. Depth PROVE FrameOf[n + 1 + 1] = g[n + 1 + 1]
    <3>1. n + 1 \in 1 .. Depth /\ n + 1 + 1 - 1 = n + 1
      BY <1>0, <2>1
    <3> QED BY <1>5, <1>7, <2>1, <3>1
  <2> QED BY <2>1
<1>8. Nat \subseteq S
  <2> HIDE DEF S
  <2> QED BY <1>6, <1>7, SetInduction
<1>9. ASSUME NEW i \in 1 .. Depth PROVE FrameOf[i] = FrameAt(i)
  <2>1. i - 1 \in S /\ i - 1 + 1 = i
    BY <1>8
  <2> QED BY <2>1 DEF g
<1> QED BY <1>9

\* interp.framePtr is the frame of the innermost command after every unwinding, and
\* the frames left are those of what is still being executed.
THEOREM FramesAreRestored == Spec => []FramesMatchCalls
<1>1. ASSUME Inv PROVE FramesMatchCalls
  <2>1. Typed /\ Structured /\ Depth \in 1 .. Depth
    BY <1>1, Innermost DEF Inv
  <2> QED BY <2>1, FrameOfIs DEF FramesMatchCalls, Structured, Framed, FrameAt
<1> QED BY Invariant, <1>1, PTL

\* Whatever a callee left in a frame is used or dropped before the caller goes on.
THEOREM TailcallsAreUsed == Spec => []NoStrayTailcall
<1>1. ASSUME Inv PROVE NoStrayTailcall
  <2>1. Typed /\ Structured /\ Stashes /\ Depth \in Nat /\ Depth \in 1 .. Depth
    BY <1>1, Innermost DEF Inv
  <2>2. ASSUME NEW f \in 1 .. Len(frames),
               frames[f].tailcallObj # None \/ frames[f].tailcallCmd # None, ~frames[f].stray
        PROVE  \E i \in 1 .. Depth : stack[i].kind = "proc" /\ stack[i].caller = f
    <3>1. Stash(f)
      BY <2>1 DEF Stashes
    <3>2. Called(f) \/ AtTail(f)
      BY <2>2, <3>1 DEF Stash, Awaited, Called
    <3>3. CASE Called(f)
      <4>1. \A i \in 2 .. Depth : i \in 1 .. Depth
        OBVIOUS
      <4> QED BY <3>3, <4>1 DEF Called
    <3>4. CASE AtTail(f)
      <4>1. stack[Depth] = Top /\ Top.phase = "tail" /\ Top.kind = "proc" /\ framePtr = f
        BY <2>1, <3>4 DEF AtTail, Structured, Shaped, Top
      <4>2. Depth > 1
        BY <2>1, <4>1, Innermost
      <4>3. Top.caller = f
        BY <2>1, <4>1, <4>2, ReturnsTo DEF OwnsFrame
      <4> QED BY <2>1, <4>1, <4>3
    <3> QED BY <3>2, <3>3, <3>4
  <2> QED BY <2>2 DEF NoStrayTailcall
<1> QED BY Invariant, <1>1, PTL

\* Unless [uplevel] has gone elsewhere, every command runs in the latest frame.
LEMMA LatestFrame ==
    ASSUME Typed, Structured, \A i \in 1 .. Depth : stack[i].kind # "uplevel"
    PROVE  framePtr = Len(frames)
<1> DEFINE S == {n \in Nat : n + 1 \in 1 .. Depth => FrameAt(n + 1) = 1 + Owners(n + 1)}
<1>0. /\ Depth \in Nat /\ Depth >= 1
      /\ \A i \in 1 .. Depth : Owners(i) = OwnersIn(stack, i) /\ Owners(i) \in Nat
  BY Innermost, Counted DEF Structured
<1>1. 0 \in S
  <2>1. 1 \in 1 .. Depth /\ FrameAt(1) = 1 /\ FrameAt(1) \in 1 .. 1 + Owners(1)
    BY <1>0 DEF Structured, Framed
  <2>2. ~OwnsFrame(stack[1])
    BY <2>1 DEF Structured, Shaped, OwnsFrame
  <2>3. OwnersIn(stack, 0) = 0
    BY FS_EmptySet DEF OwnersIn
  <2>4. OwnersIn(stack, 0 + 1) = OwnersIn(stack, 0) + IF OwnsFrame(stack[0 + 1]) THEN 1 ELSE 0
    BY OwnersStep
  <2> QED BY <1>0, <2>1, <2>2, <2>3, <2>4
<1>2. ASSUME NEW n \in Nat, n \in S PROVE n + 1 \in S
  <2> DEFINE k == n + 1
  <2>1. ASSUME k + 1 \in 1 .. Depth PROVE FrameAt(k + 1) = 1 + Owners(k + 1)
    <3>1. k \in 1 .. Depth /\ k # Depth /\ k + 1 \in 2 .. Depth /\ k \in Nat
      BY <1>0, <2>1
    <3>2. FrameAt(k) = 1 + Owners(k) /\ FrameAt(k) = stack[k + 1].caller
      BY <1>2, <3>1 DEF FrameAt
    <3> HIDE DEF k, S
    <3>3. Owners(k + 1) = Owners(k) + IF OwnsFrame(stack[k + 1]) THEN 1 ELSE 0
      BY <1>0, <2>1, <3>1, OwnersStep
    <3>4. stack[k + 1].kind # "uplevel"
      BY <2>1
    <3>5. IF OwnsFrame(stack[k + 1])
          THEN FrameAt(k + 1) = 1 + Owners(k + 1)
          ELSE FrameAt(k + 1) = IF stack[k + 1].kind = "uplevel"
                                THEN frames[stack[k + 1].caller].parent
                                ELSE stack[k + 1].caller
      BY <3>1 DEF Structured, Framed
    <3>6. Owners(k) \in Nat
      BY <1>0, <3>1
    <3> QED BY <3>2, <3>3, <3>4, <3>5, <3>6
  <2> QED BY <2>1
<1>3. Nat \subseteq S
  <2> HIDE DEF S
  <2> QED BY <1>1, <1>2, SetInduction
<1>4. Depth - 1 \in S /\ Depth - 1 + 1 = Depth /\ Depth \in 1 .. Depth
  BY <1>0, <1>3
<1>5. FrameAt(Depth) = 1 + Owners(Depth)
  BY <1>4
<1> QED BY <1>5 DEF FrameAt, Structured, Framed

\* The command resolved by [tailcall] is used for the list it was stashed with, and
\* never for the command a script in that frame names.
THEOREM TailcallsAreTheirOwn == Spec => []TailcallIsItsOwn
<1>1. ASSUME Inv PROVE TailcallIsItsOwn
  <2>1. Typed /\ Structured /\ Depth \in Nat /\ Stash(framePtr)
        /\ framePtr \in 1 .. Len(frames) /\ Len(frames) \in Nat
    BY <1>1, Innermost, Counted DEF Inv, Typed, Stashes, Structured
  <2>2. ASSUME code = "run", Top.phase = "tail" PROVE Frame.tailcallCmd \in {None, Top.list}
    BY <2>1, <2>2 DEF Stash, AtTail, Frame
  <2>3. ASSUME code = "run", Top.phase # "tail", Frame.tailcallCmd # None, ~Frame.stray,
               \A i \in 1 .. Depth : stack[i].kind # "uplevel"
        PROVE  FALSE
    <3>1. Awaited(framePtr)
      BY <2>1, <2>3 DEF Stash, AtTail, Frame
    <3>2. PICK i \in 2 .. Depth : /\ stack[i].kind = "proc" /\ stack[i].phase # "tail"
                                  /\ stack[i].caller = framePtr
      BY <3>1 DEF Awaited
    <3>3. framePtr = Len(frames)
      BY <2>1, <2>3, LatestFrame
    <3>4. i \in 1 .. Depth /\ i - 1 \in 1 .. Depth /\ i - 1 # Depth /\ i - 1 \in Nat /\ i - 1 + 1 = i
      BY <2>1
    <3>5. FrameAt(i - 1) = framePtr
      BY <3>2, <3>4 DEF FrameAt
    <3>6. OwnersIn(stack, i) = OwnersIn(stack, i - 1) + 1
      <4>1. OwnsFrame(stack[i])
        BY <3>2 DEF OwnsFrame
      <4>2. OwnersIn(stack, i - 1 + 1)
              = OwnersIn(stack, i - 1) + IF OwnsFrame(stack[i - 1 + 1]) THEN 1 ELSE 0
        BY <3>4, OwnersStep
      <4> QED BY <3>4, <4>1, <4>2
    <3>7. /\ FrameAt(i - 1) \in 1 .. 1 + Owners(i - 1)
          /\ Owners(i - 1) = OwnersIn(stack, i - 1) /\ Owners(i) = OwnersIn(stack, i)
          /\ Owners(i - 1) \in Nat /\ 1 + Owners(i) <= Len(frames)
      BY <2>1, <3>4, Counted DEF Structured, Framed
    <3> QED BY <2>1, <3>3, <3>5, <3>6, <3>7
  <2> QED BY <2>2, <2>3 DEF TailcallIsItsOwn
<1> QED BY Invariant, <1>1, PTL
=============================================================================
