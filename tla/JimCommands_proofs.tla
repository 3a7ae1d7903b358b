------------------------- MODULE JimCommands_proofs -------------------------
(***************************************************************************)
(* Proofs about JimCommands: the types of its state, the soundness of the  *)
(* lookup cache for every set of words, namespaces and commands, its       *)
(* freshness where there are no namespaces, and the reference counts and   *)
(* the chains of pushed definitions.                                       *)
(***************************************************************************)
EXTENDS JimLocalScope, JimLemmas, SequenceTheorems, FiniteSetTheorems, TLAPS

\* The frames of the activations: each was entered from a live frame, and an
\* outer activation from one that is not above that of an inner one; calls and
\* upcalls hold a definition.
FramesOK ==
    /\ Len(frames) >= 1
    /\ \A i \in 1..Len(stack) : stack[i].parent \in 1..Len(frames)
    /\ \A i, j \in 1..Len(stack) : i <= j => stack[i].parent <= stack[j].parent
    /\ \A i \in 1..Len(stack) : stack[i].kind \in {"call", "upcall"} => stack[i].cmd \in CmdIds

\* No word remembers an epoch that has not come yet.
CachePast == \A w \in Words : cache[w].epoch <= procEpoch

Inv == TypeOK /\ FramesOK /\ CachePast /\ CacheSound

MaybeCmd == CmdIds \cup {Nil}
FrameType == [ns : Seq(Parts), locals : Seq(Words)]
ActivationType ==
    [kind : {"call", "upcall", "eval", "local"}, cmd : MaybeCmd, parent : Nat]
FreeingType == [on : BOOLEAN, ns : Seq(Parts), locals : Seq(Words), cmd : MaybeCmd]
CacheType == [cmd : MaybeCmd, ns : Seq(Parts), epoch : Int]

---------------------------------------------------------------------------
(* The operators of the model *)

\* Words and names have the types WordsAssumption gives them.
LEMMA WordType == \A w \in Words : w.abs \in BOOLEAN /\ w.path \in Seq(Parts)
BY WordsAssumption DEF Names

\* A qualified name is a key.
LEMMA QualifyType ==
    ASSUME NEW w \in Words, NEW ns \in Seq(Parts)
    PROVE  Qualify(ns, w) \in Seq(Parts)
BY WordType, ConcatProperties DEF Qualify

\* The definition that ends a run of pushed definitions is a definition or Nil,
\* for the two runs the model takes.
LEMMA AfterRunType ==
    ASSUME TypeOK, NEW c \in CmdIds
    PROVE  /\ AfterRun(c, InUpcall) \in MaybeCmd
           /\ AfterRun(c, LastUse) \in MaybeCmd
<1>1. ASSUME NEW y \in CmdIds PROVE cmd[y].prev \in MaybeCmd
  BY DEF TypeOK, CmdType, MaybeCmd
<1>2. Run(c, InUpcall) \subseteq CmdIds /\ Run(c, LastUse) \subseteq CmdIds
  BY DEF Run
<1>3. AfterRun(c, InUpcall) \in MaybeCmd
  BY <1>1, <1>2 DEF AfterRun, MaybeCmd
<1>4. AfterRun(c, LastUse) \in MaybeCmd
  BY <1>1, <1>2 DEF AfterRun, MaybeCmd
<1> QED BY <1>3, <1>4

\* Dropping a hold leaves a well-typed pool.
LEMMA DecrType ==
    ASSUME TypeOK, NEW c \in CmdIds
    PROVE  Decr(c) \in [CmdIds -> CmdType]
<1>1. ASSUME NEW r \in CmdType PROVE [r EXCEPT !.inUse = @ - 1] \in CmdType
  BY DEF CmdType
<1>2. ASSUME NEW x \in CmdIds PROVE cmd[x] \in CmdType
  BY DEF TypeOK
<1>3. NoCmd \in CmdType
  BY EmptySeq DEF NoCmd, CmdType
<1> QED BY <1>1, <1>2, <1>3 DEF Decr

\* The namespace of the current frame is a path.
LEMMA CurNsType ==
    ASSUME TypeOK, FramesOK
    PROVE  CurNs \in Seq(Parts) /\ Len(frames) \in 1..Len(frames)
<1>1. frames \in Seq(FrameType) /\ Len(frames) \in Nat
  BY DEF TypeOK, FrameType
<1>2. Len(frames) \in 1..Len(frames)
  BY <1>1 DEF FramesOK
<1>3. frames[Len(frames)] \in FrameType
  BY <1>1, <1>2, ElementOfSeq
<1> QED BY <1>2, <1>3 DEF CurNs, FrameType

\* What a lookup finds is a definition or Nil.
LEMMA LookupType ==
    ASSUME TypeOK, FramesOK, NEW w \in Words
    PROVE  /\ Lookup(CurNs, w) \in MaybeCmd
           /\ Cached(w) \in MaybeCmd
           /\ GetCommand(w) \in MaybeCmd
           /\ Remembered(w) \in [Words -> CacheType]
<1>1. Lookup(CurNs, w) \in MaybeCmd
  BY DEF Lookup, TypeOK, MaybeCmd
<1>2. Cached(w) \in MaybeCmd
  BY <1>1 DEF Cached, TypeOK, MaybeCmd
<1>3. GetCommand(w) \in MaybeCmd
  BY <1>2, AfterRunType DEF GetCommand, MaybeCmd
<1>4. Remembered(w) \in [Words -> CacheType]
  <2>1. cache \in [Words -> CacheType] /\ procEpoch \in Int
    BY DEF TypeOK, CacheType, MaybeCmd
  <2>2. CurNs \in Seq(Parts)
    BY CurNsType
  <2>3. PICK r \in CacheType : r = [cmd |-> Cached(w), ns |-> CurNs, epoch |-> procEpoch]
    BY <1>2, <2>1, <2>2 DEF CacheType
  <2>4. Remembered(w) = cache \/ Remembered(w) = [cache EXCEPT ![w] = r]
    BY <2>3 DEF Remembered
  <2> QED BY <2>1, <2>4
<1> QED BY <1>1, <1>2, <1>3, <1>4

---------------------------------------------------------------------------
(* Steps keep the types *)

\* A key of the table in the place of another, or gone.
LEMMA TableType ==
    ASSUME TypeOK, NEW k \in Seq(Parts), NEW c \in CmdIds
    PROVE  /\ DOMAIN With(k, c) \subseteq Seq(Parts)
           /\ With(k, c) \in [DOMAIN With(k, c) -> CmdIds]
           /\ DOMAIN Without(k) \subseteq Seq(Parts)
           /\ Without(k) \in [DOMAIN Without(k) -> CmdIds]
BY DEF TypeOK, With, Without

\* A new definition is well typed.
LEMMA NewCmdType ==
    ASSUME NEW k \in Seq(Parts), NEW proc \in BOOLEAN, NEW before \in MaybeCmd
    PROVE  NewCmd(proc, before, IF proc THEN NamedNs(k, <<>>) ELSE <<>>) \in CmdType
<1>1. NamedNs(k, <<>>) \in Seq(Parts)
  BY SubSeqProperties DEF NamedNs
<1>2. <<>> \in Seq(Parts)
  OBVIOUS
<1> QED BY <1>1, <1>2 DEF NewCmd, CmdType, MaybeCmd

\* Defining a command, by [proc] or [alias], keeps the types.
LEMMA CreateTypes ==
    ASSUME TypeOK, NEW k \in Seq(Parts), NEW c \in CmdIds, NEW proc \in BOOLEAN,
           Create(k, c, proc)
    PROVE  TypeOK'
<1>1. DOMAIN commands' \subseteq Seq(Parts) /\ commands' \in [DOMAIN commands' -> CmdIds]
  BY TableType DEF Create
<1>2. (IF k \in DOMAIN commands /\ ~Pushes(k) THEN Decr(commands[k]) ELSE cmd)
           \in [CmdIds -> CmdType]
  BY DecrType DEF TypeOK
<1>3. (IF Pushes(k) THEN commands[k] ELSE Nil) \in MaybeCmd
  BY DEF Pushes, TypeOK, MaybeCmd
<1>4. cmd' \in [CmdIds -> CmdType]
  BY <1>2, <1>3, NewCmdType DEF Create
<1>5. procEpoch' \in Nat
  BY DEF Create, EpochAfterCreate, TypeOK
<1> QED BY <1>1, <1>4, <1>5 DEF Create, control, TypeOK, CmdType

\* Deleting a command keeps the types.
LEMMA DeleteTypes ==
    ASSUME TypeOK, FramesOK, NEW w \in Words, Delete(w)
    PROVE  TypeOK'
<1> DEFINE k == Qualify(CurNs, w)
<1>1. k \in Seq(Parts)
  BY CurNsType, QualifyType
<1>2. commands[k] \in CmdIds
  BY DEF Delete, TypeOK
<1>3. cmd' \in [CmdIds -> CmdType]
  BY <1>2, DecrType DEF Delete
<1>4. DOMAIN commands' \subseteq Seq(Parts) /\ commands' \in [DOMAIN commands' -> CmdIds]
  BY DEF Delete, Without, TypeOK
<1> QED BY <1>3, <1>4, SMTT(30) DEF Delete, control, TypeOK, CmdType

\* Renaming a command keeps the types.
LEMMA RenameTypes ==
    ASSUME TypeOK, FramesOK, NEW w \in Words, NEW v \in Words, Rename(w, v)
    PROVE  TypeOK'
<1> DEFINE old == Qualify(CurNs, w)
           new == Qualify(CurNs, v)
           c == commands[old]
<1>1. old \in Seq(Parts) /\ new \in Seq(Parts) /\ c \in CmdIds
  BY CurNsType, QualifyType DEF Rename, TypeOK
<1>2. ASSUME NEW r \in CmdType PROVE [r EXCEPT !.ns = NamedNs(new, @)] \in CmdType
  <2>1. NamedNs(new, r.ns) \in Seq(Parts)
    BY <1>1, SubSeqProperties DEF NamedNs, CmdType
  <2> QED BY <2>1 DEF CmdType
<1>3. cmd' \in [CmdIds -> CmdType]
  <2>1. cmd[c] \in CmdType /\ cmd \in [CmdIds -> CmdType]
    BY <1>1 DEF TypeOK
  <2>2. [cmd[c] EXCEPT !.ns = NamedNs(new, @)] \in CmdType
    BY <1>2, <2>1
  <2>3. cmd' = cmd \/ cmd' = [cmd EXCEPT ![c] = [cmd[c] EXCEPT !.ns = NamedNs(new, @)]]
    BY DEF Rename, Renamed
  <2> QED BY <2>1, <2>2, <2>3
<1>4. DOMAIN commands' \subseteq Seq(Parts) /\ commands' \in [DOMAIN commands' -> CmdIds]
  BY <1>1 DEF Rename, TypeOK
<1>5. procEpoch' \in Nat
  BY DEF Rename, TypeOK
<1> QED BY <1>3, <1>4, <1>5 DEF Rename, control, TypeOK, CmdType

\* A new activation on top of the others.
LEMMA EnterTypes ==
    ASSUME TypeOK, FramesOK, NEW c \in CmdIds, NEW a \in Seq(ActivationType),
           Enter(c, a)
    PROVE  /\ frames' \in Seq(FrameType)
           /\ stack' \in Seq(ActivationType)
<1>1. Frame(cmd[c].ns) \in FrameType
  BY EmptySeq DEF Frame, FrameType, TypeOK, CmdType
<1>2. frames \in Seq(FrameType) /\ stack \in Seq(ActivationType)
  BY DEF TypeOK, FrameType, ActivationType, MaybeCmd
<1>3. frames' \in Seq(FrameType)
  BY <1>1, <1>2, AppendProperties DEF Enter
<1>4. stack' \in Seq(ActivationType)
  BY <1>2, ConcatProperties DEF Enter
<1> QED BY <1>3, <1>4

\* A structure gains a hold, or the mark of an upcall.
LEMMA CountUp ==
    ASSUME NEW p \in [CmdIds -> CmdType], NEW c \in CmdIds
    PROVE  /\ [p EXCEPT ![c].inUse = @ + 1] \in [CmdIds -> CmdType]
           /\ [p EXCEPT ![c].upcall = @ + 1] \in [CmdIds -> CmdType]
<1>1. ASSUME NEW r \in CmdType
      PROVE  [r EXCEPT !.inUse = @ + 1] \in CmdType /\ [r EXCEPT !.upcall = @ + 1] \in CmdType
  BY SMTT(30) DEF CmdType
<1>2. p[c] \in CmdType
  OBVIOUS
<1> QED BY <1>1, <1>2

\* Changing the count of a definition leaves every namespace and flag alone.
LEMMA CountKeepsNs ==
    ASSUME NEW p \in [CmdIds -> CmdType], NEW c \in CmdIds, NEW x \in CmdIds
    PROVE  /\ [p EXCEPT ![c].inUse = @ + 1][x].ns = p[x].ns
           /\ [p EXCEPT ![c].upcall = @ + 1][x].ns = p[x].ns
<1>1. p[c] \in CmdType /\ p[x] \in CmdType
  OBVIOUS
<1>2. ASSUME NEW r \in CmdType
      PROVE  [r EXCEPT !.inUse = @ + 1].ns = r.ns /\ [r EXCEPT !.upcall = @ + 1].ns = r.ns
  BY DEF CmdType
<1> QED BY <1>1, <1>2

\* Invoking a command keeps the types.
LEMMA InvokeTypes ==
    ASSUME TypeOK, FramesOK, NEW w \in Words, Invoke(w)
    PROVE  TypeOK'
<1> DEFINE c == GetCommand(w)
<1>1. c \in CmdIds
  BY LookupType DEF Invoke, MaybeCmd
<1> DEFINE a == <<Activation("call", c)>>
<1>2. Enter(c, a) /\ a \in Seq(ActivationType)
  BY <1>1 DEF Invoke, Activation, ActivationType, MaybeCmd, TypeOK
<1>3. frames' \in Seq(FrameType) /\ stack' \in Seq(ActivationType)
  BY <1>1, <1>2, EnterTypes
<1>4. cmd' \in [CmdIds -> CmdType]
  BY <1>1, CountUp DEF Invoke, TypeOK
<1>5. cache' \in [Words -> CacheType]
  BY LookupType DEF Invoke
<1> QED BY <1>3, <1>4, <1>5 DEF Invoke, TypeOK, CmdType, FrameType, ActivationType, CacheType, MaybeCmd

\* Beginning an upcall keeps the types.
LEMMA UpcallTypes ==
    ASSUME TypeOK, FramesOK, NEW w \in Words, Upcall(w)
    PROVE  TypeOK'
<1> DEFINE c == GetCommand(w)
           target == AfterRun(cmd[c].prev, InUpcall)
<1>1. c \in CmdIds
  BY LookupType DEF Upcall, MaybeCmd
<1>2. cmd[c].prev \in CmdIds
  BY <1>1 DEF Upcall, TypeOK, CmdType
<1>3. target \in CmdIds
  BY <1>2, AfterRunType DEF Upcall, MaybeCmd
<1> DEFINE a == <<Activation("upcall", c), Activation("call", target)>>
<1>4. Activation("upcall", c) \in ActivationType /\ Activation("call", target) \in ActivationType
  BY <1>1, <1>3 DEF Activation, ActivationType, MaybeCmd, TypeOK
<1>5. Enter(target, a)
  BY DEF Upcall
<1>6. a \in Seq(ActivationType)
  BY <1>4
<1>7. frames' \in Seq(FrameType) /\ stack' \in Seq(ActivationType)
  BY <1>3, <1>5, <1>6, EnterTypes
<1>8. cmd' \in [CmdIds -> CmdType]
  <2> DEFINE marked == [cmd EXCEPT ![c].upcall = @ + 1]
             held == [marked EXCEPT ![c].inUse = @ + 1]
  <2>1. marked \in [CmdIds -> CmdType]
    BY <1>1, CountUp DEF TypeOK
  <2>2. cmd' = [held EXCEPT ![target].inUse = @ + 1]
    BY DEF Upcall
  <2> HIDE DEF marked
  <2>3. held \in [CmdIds -> CmdType]
    BY <1>1, <2>1, CountUp
  <2> HIDE DEF held
  <2> QED BY <1>3, <2>2, <2>3, CountUp
<1>9. cache' \in [Words -> CacheType]
  BY LookupType DEF Upcall
<1> QED
  BY <1>7, <1>8, <1>9 DEF Upcall, TypeOK, CmdType, FrameType, ActivationType, CacheType, MaybeCmd

\* A new activation and, for [namespace eval], a new frame.
LEMMA BeginTypes ==
    ASSUME TypeOK, FramesOK, LocalBegin \/ \E n \in Namespaces : NamespaceEval(n)
    PROVE  TypeOK'
<1>1. frames \in Seq(FrameType) /\ stack \in Seq(ActivationType) /\ Nil \in MaybeCmd
  BY DEF TypeOK, FrameType, ActivationType, MaybeCmd
<1>2. Activation("local", Nil) \in ActivationType /\ Activation("eval", Nil) \in ActivationType
  BY <1>1 DEF Activation, ActivationType
<1>3. stack' \in Seq(ActivationType)
  <2>1. \/ stack' = Append(stack, Activation("local", Nil))
        \/ stack' = Append(stack, Activation("eval", Nil))
    BY DEF LocalBegin, NamespaceEval
  <2> QED BY <1>1, <1>2, <2>1, AppendProperties
<1>4. ASSUME NEW n \in Namespaces PROVE Frame(n) \in FrameType
  BY WordsAssumption, EmptySeq DEF Frame, FrameType
<1>5. frames' \in Seq(FrameType)
  BY <1>1, <1>4, AppendProperties DEF LocalBegin, NamespaceEval
<1>6. local' \in Int
  BY DEF LocalBegin, NamespaceEval, TypeOK
<1> QED
  BY <1>3, <1>5, <1>6
  DEF LocalBegin, NamespaceEval, TypeOK, CmdType, FrameType, ActivationType, MaybeCmd

\* The innermost activation and what is left when it ends.
LEMMA PopTypes ==
    ASSUME TypeOK, stack # <<>>
    PROVE  /\ Len(stack) \in 1..Len(stack)
           /\ Top \in ActivationType
           /\ Pop(stack) \in Seq(ActivationType)
           /\ Len(Pop(stack)) = Len(stack) - 1
           /\ \A i \in 1..Len(stack) - 1 : Pop(stack)[i] = stack[i]
<1>1. stack \in Seq(ActivationType)
  BY DEF TypeOK, ActivationType, MaybeCmd
<1>2. Len(stack) \in 1..Len(stack)
  BY <1>1, EmptySeq
<1>3. Top \in ActivationType
  BY <1>1, <1>2, ElementOfSeq DEF Top
<1>4. Len(stack) - 1 \in 0..Len(stack)
  BY <1>1, <1>2
<1>5. 1 \in 1..Len(stack) + 1 /\ Len(stack) - 1 \in 1 - 1..Len(stack)
  BY <1>1, <1>4
<1> DEFINE s == Pop(stack)
<1>6. /\ s \in Seq(ActivationType)
      /\ Len(s) = IF 1 <= Len(stack) - 1 THEN Len(stack) - 1 - 1 + 1 ELSE 0
      /\ \A i \in 1..(Len(stack) - 1 - 1 + 1) : s[i] = stack[1 + i - 1]
  BY <1>1, <1>5, SubSeqProperties DEF Pop
<1> DEFINE n == Len(stack)
           m == Len(s)
<1> HIDE DEF s
<1>7a. n \in Nat /\ n >= 1 /\ m = IF 1 <= n - 1 THEN n - 1 - 1 + 1 ELSE 0
  BY <1>1, <1>2, <1>6
<1> HIDE DEF n, m
<1>7b. m = n - 1
  BY <1>7a
<1>7. Len(s) = Len(stack) - 1
  BY <1>7b DEF n, m
<1>8. \A i \in 1..Len(stack) - 1 : s[i] = stack[i]
  BY <1>2, <1>6
<1> QED BY <1>2, <1>3, <1>6, <1>7, <1>8 DEF s

\* Beginning and ending [local] keep the types.
LEMMA LocalTypes ==
    ASSUME TypeOK, FramesOK, LocalFail \/ \E w \in Words : LocalEnd(w)
    PROVE  TypeOK'
<1>1. stack # <<>>
  BY DEF LocalFail, LocalEnd, Ending
<1>2. stack' \in Seq(ActivationType)
  BY <1>1, PopTypes DEF LocalFail, LocalEnd
<1>3. frames' \in Seq(FrameType)
  <2>1. frames \in Seq(FrameType) /\ Len(frames) \in 1..Len(frames)
    BY CurNsType DEF TypeOK, FrameType
  <2>2. ASSUME NEW f \in FrameType, NEW w \in Words
        PROVE  [f EXCEPT !.locals = <<w>> \o @] \in FrameType
    <3>1. <<w>> \in Seq(Words) /\ f.locals \in Seq(Words)
      BY DEF FrameType
    <3>2. <<w>> \o f.locals \in Seq(Words)
      BY <3>1, ConcatProperties
    <3> QED BY <3>2 DEF FrameType
  <2>3. CASE LocalFail
    BY <2>1, <2>3 DEF LocalFail
  <2>4. ASSUME NEW w \in Words, LocalEnd(w) PROVE frames' \in Seq(FrameType)
    <3>1. frames[Len(frames)] \in FrameType
      BY <2>1, ElementOfSeq
    <3> DEFINE g == [frames[Len(frames)] EXCEPT !.locals = <<w>> \o @]
    <3>2. g \in FrameType
      BY <2>2, <3>1
    <3>3. frames' = [frames EXCEPT ![Len(frames)] = g]
      BY <2>4 DEF LocalEnd
    <3> HIDE DEF g
    <3> QED BY <2>1, <3>2, <3>3
  <2> QED BY <2>3, <2>4
<1>4. cache' \in [Words -> CacheType]
  BY LookupType DEF LocalFail, LocalEnd, TypeOK, CacheType, MaybeCmd
<1>5. local' = local - 1
  BY DEF LocalFail, LocalEnd
<1>6. UNCHANGED <<commands, cmd, procEpoch, freeing>>
  BY DEF LocalFail, LocalEnd
<1> QED
  BY <1>2, <1>3, <1>4, <1>5, <1>6, SMTT(30)
  DEF TypeOK, CmdType, FrameType, ActivationType, CacheType, MaybeCmd

\* Ending an upcall keeps the types.
LEMMA UpcallEndTypes ==
    ASSUME TypeOK, FramesOK, UpcallEnd
    PROVE  TypeOK'
<1> DEFINE c == Top.cmd
           D == Decr(Top.cmd)
<1>1. stack # <<>> /\ Top.kind = "upcall"
  BY DEF UpcallEnd, Ending
<1>2. stack' \in Seq(ActivationType)
  BY <1>1, PopTypes DEF UpcallEnd
<1>3. c \in CmdIds
  <2>1. Len(stack) \in 1..Len(stack)
    BY <1>1, PopTypes
  <2> QED BY <1>1, <2>1 DEF FramesOK, Top
<1>4. D \in [CmdIds -> CmdType]
  BY <1>3, DecrType
<1>5. ASSUME NEW r \in CmdType PROVE [r EXCEPT !.upcall = @ - 1] \in CmdType
  BY DEF CmdType
<1>6. cmd' \in [CmdIds -> CmdType]
  <2>1. cmd' = [x \in CmdIds |-> IF x = c /\ D[x].inUse > 0
                                THEN [D[x] EXCEPT !.upcall = @ - 1] ELSE D[x]]
    BY DEF UpcallEnd
  <2> HIDE DEF D, c
  <2> QED BY <1>4, <1>5, <2>1
<1> QED BY <1>2, <1>6 DEF UpcallEnd, TypeOK, CmdType, ActivationType, MaybeCmd

\* The frames and the locals left when the innermost activation returns.
LEMMA ReturnTypes ==
    ASSUME TypeOK, FramesOK, Return
    PROVE  TypeOK'
<1>1. stack # <<>>
  BY DEF Return, Ending
<1>2. stack' \in Seq(ActivationType)
  BY <1>1, PopTypes DEF Return
<1>3. frames \in Seq(FrameType) /\ Len(frames) \in 1..Len(frames)
  BY CurNsType DEF TypeOK, FrameType
<1>4. Top \in ActivationType
  BY <1>1, PopTypes
<1>5. Top.parent \in 1..Len(frames)
  <2>1. Len(stack) \in 1..Len(stack)
    BY <1>1, PopTypes
  <2> QED BY <2>1 DEF FramesOK, Top
<1>6. frames' \in Seq(FrameType)
  BY <1>3, <1>5, SubSeqProperties DEF Return
<1>7. frames[Len(frames)] \in FrameType /\ Frame(<<>>) \in FrameType
  BY <1>3, ElementOfSeq, EmptySeq DEF Frame, FrameType
<1>8. freeing' \in FreeingType
  BY <1>4, <1>7 DEF Return, FreeingType, FrameType, ActivationType
<1> QED
  BY <1>2, <1>6, <1>8
  DEF Return, TypeOK, CmdType, FrameType, ActivationType, FreeingType, MaybeCmd

\* Removing a local command of a frame keeps the types.
LEMMA DeleteLocalTypes ==
    ASSUME TypeOK, FramesOK, DeleteLocal
    PROVE  TypeOK'
<1> DEFINE w == Head(freeing.locals)
           k == Qualify(CurNs, w)
           c == commands[k]
<1>1. freeing \in FreeingType
  BY DEF TypeOK, FreeingType, MaybeCmd
<1>2. w \in Words /\ Tail(freeing.locals) \in Seq(Words)
  BY <1>1, HeadTailProperties DEF DeleteLocal, FreeingType
<1>3. k \in Seq(Parts)
  BY <1>2, CurNsType, QualifyType
<1>4. freeing' \in FreeingType
  BY <1>1, <1>2 DEF DeleteLocal, FreeingType
<1>5. CASE k \notin DOMAIN commands
  BY <1>4, <1>5 DEF DeleteLocal, TypeOK, CmdType, FreeingType, MaybeCmd
<1>6. CASE k \in DOMAIN commands
  <2>1. c \in CmdIds /\ cmd \in [CmdIds -> CmdType] /\ cmd[c] \in CmdType
    BY <1>6 DEF TypeOK
  <2>2. cmd[c].prev \in MaybeCmd
    BY <2>1 DEF CmdType, MaybeCmd
  <2>3. (commands' = With(k, cmd[c].prev) /\ cmd[c].prev \in CmdIds) \/ commands' = Without(k)
    BY <1>6, <2>2 DEF DeleteLocal, Restored, MaybeCmd
  <2>4. DOMAIN commands' \subseteq Seq(Parts) /\ commands' \in [DOMAIN commands' -> CmdIds]
    <3>1. CASE commands' = With(k, cmd[c].prev) /\ cmd[c].prev \in CmdIds
      BY <1>3, <3>1, TableType
    <3>2. CASE commands' = Without(k)
      BY <1>3, <2>1, <3>2, TableType
    <3> QED BY <2>3, <3>1, <3>2
  <2>5. ASSUME NEW r \in CmdType
        PROVE  [r EXCEPT !.inUse = @ - 1] \in CmdType /\ [r EXCEPT !.prev = Nil] \in CmdType
    BY DEF CmdType
  <2>6. NoCmd \in CmdType
    BY EmptySeq DEF NoCmd, CmdType
  <2> DEFINE unlinked == [cmd EXCEPT ![c].prev = Nil]
  <2>7. unlinked \in [CmdIds -> CmdType]
    BY <2>1, <2>5
  <2>8. cmd' \in [CmdIds -> CmdType]
    <3> DEFINE g == IF LastUse(c) THEN NoCmd ELSE [unlinked[c] EXCEPT !.inUse = @ - 1]
    <3>1. cmd' = [unlinked EXCEPT ![c] = g]
      BY <1>6 DEF DeleteLocal
    <3> HIDE DEF unlinked
    <3>2. g \in CmdType
      BY <2>1, <2>5, <2>6, <2>7
    <3> HIDE DEF g
    <3> QED BY <2>1, <2>7, <3>1, <3>2
  <2>9. procEpoch' \in Nat
    BY <1>6 DEF DeleteLocal, TypeOK
  <2> QED
    BY <1>4, <2>4, <2>8, <2>9 DEF DeleteLocal, TypeOK, CmdType, FreeingType, MaybeCmd
<1> QED BY <1>5, <1>6

\* Dropping the hold on a command that returned keeps the types.
LEMMA EndReturnTypes ==
    ASSUME TypeOK, FramesOK, EndReturn
    PROVE  TypeOK'
<1>1. freeing.cmd \in MaybeCmd
  BY DEF TypeOK, MaybeCmd
<1>2. cmd' \in [CmdIds -> CmdType]
  BY <1>1, DecrType DEF EndReturn, TypeOK, MaybeCmd
<1>3. freeing' \in FreeingType
  BY EmptySeq DEF EndReturn, NotFreeing, FreeingType, MaybeCmd
<1> QED BY <1>2, <1>3 DEF EndReturn, TypeOK, CmdType, FreeingType, MaybeCmd

\* Every step keeps the types.
LEMMA NextTypes == Inv /\ [Next]_vars => TypeOK'
<1> SUFFICES ASSUME TypeOK, FramesOK, [Next]_vars PROVE TypeOK'
  BY DEF Inv
<1>1. ASSUME NEW w \in Words, Proc(w) PROVE TypeOK'
  BY <1>1, CurNsType, QualifyType, CreateTypes DEF Proc
<1>2. ASSUME NEW w \in Words, Alias(w) PROVE TypeOK'
  BY <1>2, WordType, CreateTypes DEF Alias
<1>3. CASE \E w \in Words : Delete(w) \/ Invoke(w) \/ Upcall(w) \/ LocalEnd(w)
  BY <1>3, DeleteTypes, InvokeTypes, UpcallTypes, LocalTypes
<1>4. CASE \E w, v \in Words : Rename(w, v)
  BY <1>4, RenameTypes
<1>5. CASE LocalBegin \/ \E n \in Namespaces : NamespaceEval(n)
  BY <1>5, BeginTypes
<1>6. CASE LocalFail \/ UpcallEnd \/ Return \/ DeleteLocal \/ EndReturn
  BY <1>6, LocalTypes, UpcallEndTypes, ReturnTypes, DeleteLocalTypes, EndReturnTypes
<1>7. CASE UNCHANGED vars
  BY <1>7 DEF vars, TypeOK, CmdType
<1> QED BY <1>1, <1>2, <1>3, <1>4, <1>5, <1>6, <1>7 DEF Next

---------------------------------------------------------------------------
(* Steps keep the frames and activations in order *)

\* Entering activations from the current frame.
LEMMA PushOK ==
    ASSUME TypeOK, FramesOK, Len(frames') \in Nat, Len(frames') >= Len(frames),
           NEW a \in Seq(ActivationType), stack' = stack \o a,
           \A i \in 1..Len(a) :
              /\ a[i].parent = Len(frames)
              /\ a[i].kind \in {"call", "upcall"} => a[i].cmd \in CmdIds
    PROVE  FramesOK'
<1> DEFINE n == Len(stack)
           g == Len(frames)
           g2 == Len(frames')
           s2 == stack'
<1>1. stack \in Seq(ActivationType) /\ g \in Nat /\ n \in Nat /\ Len(a) \in Nat
  BY DEF TypeOK, ActivationType, MaybeCmd
<1>2. Len(s2) = n + Len(a)
  BY <1>1, ConcatProperties
<1>3. \A i \in 1..Len(s2) : s2[i] = IF i <= n THEN stack[i] ELSE a[i - n]
  BY <1>1, ConcatProperties
<1>4. ASSUME NEW i \in 1..Len(s2), i > n
      PROVE  s2[i].parent = g /\ (s2[i].kind \in {"call", "upcall"} => s2[i].cmd \in CmdIds)
  <2>1. i - n \in 1..Len(a) /\ s2[i] = a[i - n]
    BY <1>1, <1>2, <1>3, <1>4
  <2>2. /\ a[i - n].parent = g
        /\ a[i - n].kind \in {"call", "upcall"} => a[i - n].cmd \in CmdIds
    BY <2>1
  <2> HIDE DEF n, g, s2
  <2> QED BY <2>1, <2>2
<1>5. ASSUME NEW i \in 1..Len(s2), i <= n
      PROVE  i \in 1..n /\ s2[i] = stack[i]
  BY <1>1, <1>2, <1>3, <1>5
<1>6. \A i \in 1..n : stack[i].parent \in 1..g
  BY DEF FramesOK
<1>7. g >= 1 /\ g2 \in Nat /\ g2 >= g
  BY DEF FramesOK
<1>8. \A i \in 1..Len(s2) : s2[i].parent \in 1..g
  BY <1>1, <1>4, <1>5, <1>6, <1>7
<1>9. \A i, j \in 1..Len(s2) : i <= j => s2[i].parent <= s2[j].parent
  <2> SUFFICES ASSUME NEW i \in 1..Len(s2), NEW j \in 1..Len(s2), i <= j
               PROVE  s2[i].parent <= s2[j].parent
    OBVIOUS
  <2>1. CASE j > n
    BY <1>4, <1>8, <2>1
  <2>2. CASE j <= n
    <3>1. i <= n
      BY <1>1, <1>2, <2>2
    <3> QED BY <1>5, <2>2, <3>1 DEF FramesOK
  <2> QED BY <1>1, <1>2, <2>1, <2>2
<1>10. \A i \in 1..Len(s2) : s2[i].kind \in {"call", "upcall"} => s2[i].cmd \in CmdIds
  <2> SUFFICES ASSUME NEW i \in 1..Len(s2)
               PROVE  s2[i].kind \in {"call", "upcall"} => s2[i].cmd \in CmdIds
    OBVIOUS
  <2>1. CASE i > n
    BY <1>4, <2>1
  <2>2. CASE i <= n
    BY <1>5, <2>2 DEF FramesOK
  <2> QED BY <1>1, <1>2, <2>1, <2>2
<1>11. \A i \in 1..Len(s2) : s2[i].parent \in 1..g2
  BY <1>1, <1>7, <1>8
<1>12. Len(frames') >= 1
  BY <1>1, <1>7
<1> QED BY <1>9, <1>10, <1>11, <1>12 DEF FramesOK

\* Leaving one for the frame it began in.
LEMMA PopOK ==
    ASSUME TypeOK, FramesOK, stack # <<>>, stack' = Pop(stack),
           Len(frames') \in Nat, Len(frames') >= Top.parent
    PROVE  FramesOK'
<1>1. /\ Len(stack) \in 1..Len(stack)
      /\ Len(stack') = Len(stack) - 1
      /\ \A i \in 1..Len(stack) - 1 : stack'[i] = stack[i]
  BY PopTypes
<1>2. Top = stack[Len(stack)]
  BY DEF Top
<1>3. Len(frames) \in Nat
  BY DEF TypeOK
<1>4. \A i \in 1..Len(stack) : stack[i].parent \in 1..Len(frames)
  BY DEF FramesOK
<1>5. ASSUME NEW i \in 1..Len(stack')
      PROVE  /\ i \in 1..Len(stack)
             /\ stack'[i] = stack[i]
             /\ stack[i].parent <= Top.parent
  <2>1. i \in 1..Len(stack) /\ i \in 1..Len(stack) - 1 /\ i <= Len(stack)
    BY <1>1
  <2>2. stack[i].parent <= Top.parent
    BY <1>1, <1>2, <2>1 DEF FramesOK
  <2> QED BY <1>1, <2>1, <2>2
<1>6. Top.parent \in 1..Len(frames)
  BY <1>1, <1>2, <1>4
<1>7. Len(frames') >= 1
  BY <1>3, <1>6
<1>8. \A i \in 1..Len(stack') : stack'[i].parent \in 1..Len(frames')
  BY <1>3, <1>4, <1>5, <1>6
<1>9. \A i, j \in 1..Len(stack') : i <= j => stack'[i].parent <= stack'[j].parent
  BY <1>5 DEF FramesOK
<1>10. \A i \in 1..Len(stack') : stack'[i].kind \in {"call", "upcall"} => stack'[i].cmd \in CmdIds
  BY <1>5 DEF FramesOK
<1> QED BY <1>7, <1>8, <1>9, <1>10 DEF FramesOK

\* Every step keeps the activations well nested in the frames.
LEMMA NextFrames == Inv /\ [Next]_vars => FramesOK'
<1> SUFFICES ASSUME TypeOK, FramesOK, [Next]_vars PROVE FramesOK'
  BY DEF Inv
<1>0. frames \in Seq(FrameType) /\ Len(frames) \in Nat /\ stack \in Seq(ActivationType)
  BY DEF TypeOK, FrameType, ActivationType, MaybeCmd
<1>1. ASSUME UNCHANGED <<frames, stack>> PROVE FramesOK'
  BY <1>1 DEF FramesOK
<1>2. CASE \E w \in Words : Proc(w) \/ Alias(w) \/ Delete(w)
  BY <1>1, <1>2 DEF Proc, Alias, Delete, Create, control
<1>3. CASE \E w, v \in Words : Rename(w, v)
  BY <1>1, <1>3 DEF Rename, control
<1>4. CASE DeleteLocal \/ EndReturn \/ UNCHANGED vars
  BY <1>1, <1>4 DEF DeleteLocal, EndReturn, vars
<1>5. ASSUME NEW w \in Words, Invoke(w) PROVE FramesOK'
  <2> DEFINE c == GetCommand(w)
             a == <<Activation("call", c)>>
  <2>1. c \in CmdIds
    BY <1>5, LookupType DEF Invoke, MaybeCmd
  <2>2. Activation("call", c) \in ActivationType
    BY <1>0, <2>1 DEF Activation, ActivationType, MaybeCmd
  <2>3. a \in Seq(ActivationType) /\ Len(a) = 1 /\ a[1] = Activation("call", c)
    BY <2>2
  <2>4. Enter(c, a)
    BY <1>5 DEF Invoke
  <2>5. Len(frames') \in Nat /\ Len(frames') >= Len(frames) /\ stack' = stack \o a
    BY <1>0, <2>4, AppendProperties DEF Enter
  <2>6. ASSUME NEW i \in 1..Len(a)
        PROVE  a[i].parent = Len(frames) /\ a[i].cmd \in CmdIds
    BY <2>1, <2>3 DEF Activation
  <2> HIDE DEF a
  <2> QED BY <2>3, <2>5, <2>6, PushOK
<1>6. ASSUME NEW w \in Words, Upcall(w) PROVE FramesOK'
  <2> DEFINE c == GetCommand(w)
             target == AfterRun(cmd[c].prev, InUpcall)
             a == <<Activation("upcall", c), Activation("call", target)>>
  <2>1. c \in CmdIds
    BY <1>6, LookupType DEF Upcall, MaybeCmd
  <2>2. cmd[c].prev \in CmdIds
    BY <1>6, <2>1 DEF Upcall, TypeOK, CmdType
  <2>3. target \in CmdIds
    BY <1>6, <2>2, AfterRunType DEF Upcall, MaybeCmd
  <2>4. /\ Activation("upcall", c) \in ActivationType
        /\ Activation("call", target) \in ActivationType
    BY <1>0, <2>1, <2>3 DEF Activation, ActivationType, MaybeCmd
  <2>5. /\ a \in Seq(ActivationType) /\ Len(a) = 2
        /\ a[1] = Activation("upcall", c) /\ a[2] = Activation("call", target)
    BY <2>4
  <2>6. Enter(target, a)
    BY <1>6 DEF Upcall
  <2>7. Len(frames') \in Nat /\ Len(frames') >= Len(frames) /\ stack' = stack \o a
    BY <1>0, <2>6, AppendProperties DEF Enter
  <2>8. ASSUME NEW i \in 1..Len(a)
        PROVE  a[i].parent = Len(frames) /\ a[i].cmd \in CmdIds
    BY <2>1, <2>3, <2>5 DEF Activation
  <2> HIDE DEF a
  <2> QED BY <2>5, <2>7, <2>8, PushOK
<1>7. CASE LocalBegin \/ \E n \in Namespaces : NamespaceEval(n)
  <2> DEFINE l == <<Activation("local", Nil)>>
             e == <<Activation("eval", Nil)>>
  <2>1. Activation("local", Nil) \in ActivationType /\ Activation("eval", Nil) \in ActivationType
    BY <1>0 DEF Activation, ActivationType, MaybeCmd
  <2>2. /\ l \in Seq(ActivationType) /\ Len(l) = 1 /\ l[1] = Activation("local", Nil)
        /\ e \in Seq(ActivationType) /\ Len(e) = 1 /\ e[1] = Activation("eval", Nil)
    BY <2>1
  <2>3. stack' = stack \o l \/ stack' = stack \o e
    BY <1>0, <1>7, <2>1, AppendIsConcat DEF LocalBegin, NamespaceEval
  <2>4. ASSUME NEW n \in Namespaces PROVE Frame(n) \in FrameType
    BY WordsAssumption, EmptySeq DEF Frame, FrameType
  <2>5. Len(frames') \in Nat /\ Len(frames') >= Len(frames)
    BY <1>0, <1>7, <2>4, AppendProperties DEF LocalBegin, NamespaceEval
  <2>6. ASSUME NEW i \in 1..1
        PROVE  /\ l[i].parent = Len(frames) /\ l[i].kind \notin {"call", "upcall"}
               /\ e[i].parent = Len(frames) /\ e[i].kind \notin {"call", "upcall"}
    BY <2>2 DEF Activation
  <2> HIDE DEF l, e
  <2>7. CASE stack' = stack \o l
    BY <2>2, <2>5, <2>6, <2>7, PushOK
  <2>8. CASE stack' = stack \o e
    BY <2>2, <2>5, <2>6, <2>8, PushOK
  <2> QED BY <2>3, <2>7, <2>8
<1>8. CASE LocalFail \/ UpcallEnd \/ \E w \in Words : LocalEnd(w)
  <2>1. stack # <<>> /\ stack' = Pop(stack)
    BY <1>8 DEF LocalFail, UpcallEnd, LocalEnd, Ending
  <2>2. Len(frames') = Len(frames)
    <3>1. CASE LocalFail \/ UpcallEnd
      BY <3>1 DEF LocalFail, UpcallEnd
    <3>2. ASSUME NEW w \in Words, LocalEnd(w) PROVE Len(frames') = Len(frames)
      <4>1. frames' \in Seq(FrameType)
        BY <3>2, LocalTypes DEF TypeOK, FrameType
      <4>2. DOMAIN frames' = DOMAIN frames
        BY <3>2 DEF LocalEnd
      <4> QED BY <1>0, <4>1, <4>2, LenProperties
    <3> QED BY <1>8, <3>1, <3>2
  <2>3. Top.parent <= Len(frames)
    <3>1. Len(stack) \in 1..Len(stack)
      BY <2>1, PopTypes
    <3> QED BY <1>0, <3>1 DEF FramesOK, Top
  <2> QED BY <1>0, <2>1, <2>2, <2>3, PopOK
<1>9. CASE Return
  <2>1. stack # <<>> /\ stack' = Pop(stack) /\ frames' = SubSeq(frames, 1, Top.parent)
    BY <1>9 DEF Return, Ending
  <2>2. Top.parent \in 1..Len(frames)
    <3>1. Len(stack) \in 1..Len(stack)
      BY <2>1, PopTypes
    <3> QED BY <3>1 DEF FramesOK, Top
  <2>3. Len(frames') = Top.parent
    BY <1>0, <2>1, <2>2, SubSeqProperties
  <2> QED BY <2>1, <2>2, <2>3, PopOK
<1> QED BY <1>2, <1>3, <1>4, <1>5, <1>6, <1>7, <1>8, <1>9 DEF Next

---------------------------------------------------------------------------
(* Steps keep the cache sound *)

\* An epoch that has moved makes every entry invalid.
LEMMA EpochMoved ==
    ASSUME TypeOK, CachePast, procEpoch' \in Nat, procEpoch' > procEpoch, UNCHANGED cache
    PROVE  CachePast' /\ CacheSound'
<1>1. ASSUME NEW w \in Words PROVE cache'[w].epoch \in Int /\ cache'[w].epoch < procEpoch'
  BY DEF TypeOK, CachePast
<1> QED BY <1>1 DEF CachePast, CacheSound

\* What a lookup leaves in a word is backed by the table.
LEMMA RememberedSound ==
    ASSUME Inv, NEW w \in Words, cache' = Remembered(w), UNCHANGED <<commands, procEpoch>>
    PROVE  CachePast' /\ CacheSound'
<1>1. ASSUME NEW v \in Words
      PROVE  \/ cache'[v] = cache[v]
             \/ v = w /\ cache'[v] = [cmd |-> Cached(w), ns |-> CurNs, epoch |-> procEpoch]
                /\ ~CacheValid(w) /\ Cached(w) # Nil
  BY DEF Remembered, Inv, TypeOK
<1>2. ASSUME ~CacheValid(w), Cached(w) # Nil
      PROVE  \E k \in {Qualify(CurNs, w), w.path} :
                k \in DOMAIN commands /\ commands[k] = Cached(w)
  BY <1>2 DEF Cached, Lookup
<1>3. ASSUME NEW v \in Words PROVE cache'[v].epoch <= procEpoch'
  <2>1. cache[v].epoch <= procEpoch /\ procEpoch \in Nat
    BY DEF Inv, CachePast, TypeOK
  <2> QED BY <1>1, <2>1
<1>4. ASSUME NEW v \in Words, cache'[v].epoch = procEpoch'
      PROVE  \E k \in {Qualify(cache'[v].ns, v), v.path} :
                k \in DOMAIN commands' /\ commands'[k] = cache'[v].cmd
  <2>1. CASE cache'[v] = cache[v]
    BY <1>4, <2>1 DEF Inv, CacheSound
  <2>2. CASE v = w /\ cache'[v] = [cmd |-> Cached(w), ns |-> CurNs, epoch |-> procEpoch]
             /\ ~CacheValid(w) /\ Cached(w) # Nil
    BY <1>2, <2>2
  <2> QED BY <1>1, <2>1, <2>2
<1> QED BY <1>3, <1>4 DEF CachePast, CacheSound, Qualify

\* A definition under a new name leaves the other names alone; under an old one
\* it moves the epoch.
LEMMA CreateSound ==
    ASSUME Inv, NEW k \in Seq(Parts), NEW c \in CmdIds, NEW proc \in BOOLEAN,
           Create(k, c, proc)
    PROVE  CachePast' /\ CacheSound'
<1>1. procEpoch \in Nat /\ procEpoch' \in Nat /\ UNCHANGED cache
  BY DEF Create, EpochAfterCreate, Inv, TypeOK
<1>2. CASE procEpoch' > procEpoch
  BY <1>1, <1>2, EpochMoved DEF Inv
<1>3. CASE ~(procEpoch' > procEpoch)
  <2>1. procEpoch' = procEpoch /\ k \notin DOMAIN commands
    BY <1>1, <1>3 DEF Create, EpochAfterCreate
  <2>2. \A j \in DOMAIN commands : j \in DOMAIN commands' /\ commands'[j] = commands[j]
    BY <2>1 DEF Create, With
  <2> QED BY <1>1, <2>1, <2>2 DEF Inv, CachePast, CacheSound, Qualify
<1> QED BY <1>2, <1>3

\* Every step keeps the cache sound: a step that changes what a key
\* stands for moves the epoch, and no word remembers the new one yet.
LEMMA NextSound == Inv /\ [Next]_vars => CachePast' /\ CacheSound'
<1> SUFFICES ASSUME Inv, [Next]_vars PROVE CachePast' /\ CacheSound'
  OBVIOUS
<1>0. TypeOK /\ FramesOK /\ CachePast /\ procEpoch \in Nat
  BY DEF Inv, TypeOK
<1>1. ASSUME UNCHANGED <<commands, procEpoch, cache>> PROVE CachePast' /\ CacheSound'
  BY <1>1 DEF Inv, CachePast, CacheSound, Qualify
<1>2. ASSUME NEW w \in Words, Proc(w) PROVE CachePast' /\ CacheSound'
  BY <1>0, <1>2, CurNsType, QualifyType, CreateSound DEF Proc
<1>3. ASSUME NEW w \in Words, Alias(w) PROVE CachePast' /\ CacheSound'
  BY <1>3, WordType, CreateSound DEF Alias
<1>4. ASSUME NEW w \in Words, Delete(w) PROVE CachePast' /\ CacheSound'
  BY <1>0, <1>4, EpochMoved DEF Delete
<1>5. ASSUME NEW w \in Words, NEW v \in Words, Rename(w, v) PROVE CachePast' /\ CacheSound'
  <2>1. procEpoch' \in Nat /\ procEpoch' > procEpoch /\ UNCHANGED cache
    BY <1>0, <1>5 DEF Rename
  <2> QED BY <1>0, <2>1, EpochMoved
<1>6. ASSUME NEW w \in Words, Invoke(w) \/ Upcall(w) \/ LocalEnd(w)
      PROVE  CachePast' /\ CacheSound'
  <2>1. cache' = Remembered(w) /\ UNCHANGED <<commands, procEpoch>>
    BY <1>6 DEF Invoke, Upcall, LocalEnd
  <2> QED BY <2>1, RememberedSound
<1>7. CASE \E n \in Namespaces : NamespaceEval(n)
  BY <1>1, <1>7 DEF NamespaceEval
<1>8. CASE LocalBegin \/ LocalFail \/ UpcallEnd \/ Return \/ EndReturn \/ UNCHANGED vars
  BY <1>1, <1>8 DEF LocalBegin, LocalFail, UpcallEnd, Return, EndReturn, vars
<1>9. CASE DeleteLocal
  <2>1. \/ UNCHANGED <<commands, procEpoch, cache>>
        \/ procEpoch' = procEpoch + 1 /\ UNCHANGED cache
    BY <1>9 DEF DeleteLocal
  <2>2. CASE procEpoch' = procEpoch + 1 /\ UNCHANGED cache
    BY <1>0, <2>2, EpochMoved
  <2> QED BY <1>1, <2>1, <2>2
<1> QED BY <1>2, <1>3, <1>4, <1>5, <1>6, <1>7, <1>8, <1>9 DEF Next

---------------------------------------------------------------------------
\* The invariant holds at start.
LEMMA InitInv == Init => Inv
<1> SUFFICES ASSUME Init PROVE Inv
  OBVIOUS
<1>1. NewCmd(FALSE, Nil, <<>>) \in CmdType /\ NoCmd \in CmdType
  BY EmptySeq DEF NewCmd, NoCmd, CmdType
<1>2. commands \in [DOMAIN commands -> CmdIds] /\ DOMAIN commands \subseteq Seq(Parts)
  BY PoolAssumption DEF Init
<1>3. cmd \in [CmdIds -> CmdType]
  BY <1>1 DEF Init
<1>4. Frame(<<>>) \in FrameType /\ NoCache \in CacheType /\ NotFreeing \in FreeingType
  BY EmptySeq DEF Frame, FrameType, NoCache, CacheType, NotFreeing, FreeingType, MaybeCmd
<1>5. frames \in Seq(FrameType) /\ Len(frames) = 1
  BY <1>4 DEF Init
<1>6. stack \in Seq(ActivationType) /\ Len(stack) = 0
  BY EmptySeq DEF Init
<1>7. cache \in [Words -> CacheType] /\ freeing \in FreeingType
  BY <1>4 DEF Init
<1>8. TypeOK
  <2>1. procEpoch \in Nat /\ local \in Int
    BY DEF Init
  <2> QED
    BY <1>2, <1>3, <1>5, <1>6, <1>7, <2>1
    DEF TypeOK, FrameType, ActivationType, CacheType, FreeingType, MaybeCmd
<1>9. FramesOK
  BY <1>5, <1>6 DEF FramesOK
<1>10. \A w \in Words : cache[w].epoch = -1 /\ procEpoch = 0
  BY DEF Init, NoCache
<1>11. CachePast /\ CacheSound
  BY <1>10 DEF CachePast, CacheSound
<1> QED BY <1>8, <1>9, <1>11 DEF Inv

\* The inductive invariant: types, the order of the frames, and a cache whose
\* entries are of past epochs or backed by the table.
THEOREM Invariant == Spec => []Inv
<1>1. Inv /\ [Next]_vars => Inv'
  BY NextTypes, NextFrames, NextSound DEF Inv
<1> QED BY InitInv, <1>1, PTL DEF Spec

\* The state is well typed in every execution.
THEOREM TypeCorrect == Spec => []TypeOK
<1>1. Inv => TypeOK
  BY DEF Inv
<1> QED BY Invariant, <1>1, PTL

\* The pointer a word caches is never used after the command left the table:
\* definition, redefinition, deletion, renaming and the end of local commands
\* all move the epoch when they take a definition away.
THEOREM CacheIsSound == Spec => []CacheSound
<1>1. Inv => CacheSound
  BY DEF Inv
<1> QED BY Invariant, <1>1, PTL

---------------------------------------------------------------------------
(* Freshness without namespaces *)

\* Programs that have only the global namespace and no name with a "::".
Flat == Namespaces = {<<>>} /\ \A w \in Words : Len(w.path) = 1

\* Then every frame, proc and cache entry is of the global namespace.
GlobalOnly ==
    /\ \A k \in DOMAIN commands : Len(k) = 1
    /\ \A c \in CmdIds : cmd[c].ns = <<>>
    /\ \A i \in 1..Len(frames) : frames[i].ns = <<>>
    /\ \A w \in Words : cache[w].ns = <<>>

\* In such a program every name qualifies to itself.
LEMMA FlatNames ==
    ASSUME Flat, TypeOK, FramesOK, GlobalOnly, NEW w \in Words
    PROVE  /\ CurNs = <<>>
           /\ Qualify(<<>>, w) = w.path
           /\ w.path \in Seq(Parts) /\ Len(w.path) = 1
<1>1. CurNs = <<>>
  BY CurNsType DEF GlobalOnly, CurNs
<1>2. <<>> \o w.path = w.path
  BY WordType, ConcatEmptySeq
<1> QED BY <1>1, <1>2, WordType DEF Flat, Qualify

\* Dropping a hold gives no structure a namespace.
LEMMA DecrGlobal ==
    ASSUME TypeOK, GlobalOnly, NEW c \in CmdIds, NEW x \in CmdIds
    PROVE  Decr(c)[x].ns = <<>>
<1>1. cmd[x] \in CmdType /\ cmd[x].ns = <<>>
  BY DEF TypeOK, GlobalOnly
<1>2. [cmd[x] EXCEPT !.inUse = @ - 1].ns = <<>>
  BY <1>1 DEF CmdType
<1>3. NoCmd.ns = <<>>
  BY DEF NoCmd
<1> QED BY <1>1, <1>2, <1>3 DEF Decr

\* Without namespaces, defining a command keeps every name global.
LEMMA CreateGlobal ==
    ASSUME Inv, GlobalOnly, NEW k \in Seq(Parts), Len(k) = 1, NEW c \in CmdIds,
           NEW proc \in BOOLEAN, Create(k, c, proc)
    PROVE  GlobalOnly'
<1>1. \A j \in DOMAIN commands' : Len(j) = 1
  BY DEF Create, With, GlobalOnly
<1>2. NamedNs(k, <<>>) = <<>>
  BY DEF NamedNs
<1> DEFINE base == IF k \in DOMAIN commands /\ ~Pushes(k) THEN Decr(commands[k]) ELSE cmd
           new == NewCmd(proc, IF Pushes(k) THEN commands[k] ELSE Nil,
                         IF proc THEN NamedNs(k, <<>>) ELSE <<>>)
<1>3. base \in [CmdIds -> CmdType] /\ \A x \in CmdIds : base[x].ns = <<>>
  BY DecrType, DecrGlobal DEF Inv, TypeOK, GlobalOnly
<1>4. new.ns = <<>>
  BY <1>2 DEF NewCmd
<1>5. cmd' = [base EXCEPT ![c] = new]
  BY DEF Create
<1>6. \A x \in CmdIds : cmd'[x].ns = <<>>
  <2> HIDE DEF base, new
  <2> QED BY <1>3, <1>4, <1>5
<1> QED BY <1>1, <1>6 DEF Create, control, GlobalOnly

\* The frames after entering a definition.
LEMMA EnterGlobal ==
    ASSUME TypeOK, GlobalOnly, NEW c \in CmdIds, NEW a, Enter(c, a)
    PROVE  \A i \in 1..Len(frames') : frames'[i].ns = <<>>
<1>1. frames \in Seq(FrameType)
  BY DEF TypeOK, FrameType
<1>2. Frame(cmd[c].ns) \in FrameType /\ Frame(cmd[c].ns).ns = <<>>
  BY EmptySeq DEF Frame, FrameType, GlobalOnly
<1> QED BY <1>1, <1>2, AppendProperties DEF Enter, GlobalOnly

\* Without namespaces, invoking a command keeps every name global.
LEMMA InvokeGlobal ==
    ASSUME Flat, Inv, GlobalOnly, NEW w \in Words, Invoke(w) \/ Upcall(w)
    PROVE  GlobalOnly'
<1>0. TypeOK /\ FramesOK /\ CurNs = <<>>
  BY FlatNames DEF Inv
<1>1. \A v \in Words : cache'[v].ns = <<>>
  <2>1. cache' = Remembered(w)
    BY DEF Invoke, Upcall
  <2> QED BY <1>0, <2>1 DEF Remembered, GlobalOnly, TypeOK
<1>2. \E c \in CmdIds : \E a : Enter(c, a)
  <2> DEFINE c == GetCommand(w)
  <2>1. c \in CmdIds
    BY <1>0, LookupType DEF Invoke, Upcall, MaybeCmd
  <2>2. CASE Invoke(w)
    BY <2>1, <2>2 DEF Invoke
  <2>3. CASE Upcall(w)
    <3>1. cmd[c].prev \in CmdIds
      BY <1>0, <2>1, <2>3 DEF Upcall, TypeOK, CmdType
    <3>2. AfterRun(cmd[c].prev, InUpcall) \in CmdIds
      BY <1>0, <2>3, <3>1, AfterRunType DEF Upcall, MaybeCmd
    <3> QED BY <2>3, <3>2 DEF Upcall
  <2> QED BY <2>2, <2>3
<1>3. \A i \in 1..Len(frames') : frames'[i].ns = <<>>
  BY <1>0, <1>2, EnterGlobal
<1>4. \A x \in CmdIds : cmd'[x].ns = cmd[x].ns
  <2> DEFINE c == GetCommand(w)
             target == AfterRun(cmd[c].prev, InUpcall)
             marked == [cmd EXCEPT ![c].upcall = @ + 1]
             held == [marked EXCEPT ![c].inUse = @ + 1]
  <2>1. c \in CmdIds /\ cmd \in [CmdIds -> CmdType]
    BY <1>0, LookupType DEF Invoke, Upcall, MaybeCmd, TypeOK
  <2>2. CASE Invoke(w)
    BY <2>1, <2>2, CountKeepsNs DEF Invoke
  <2>3. CASE Upcall(w)
    <3>1. cmd[c].prev \in CmdIds
      BY <2>1, <2>3 DEF Upcall, CmdType
    <3>2. target \in CmdIds
      BY <1>0, <2>3, <3>1, AfterRunType DEF Upcall, MaybeCmd
    <3>3. marked \in [CmdIds -> CmdType] /\ \A x \in CmdIds : marked[x].ns = cmd[x].ns
      BY <2>1, CountUp, CountKeepsNs
    <3>4. cmd' = [held EXCEPT ![target].inUse = @ + 1]
      BY <2>3 DEF Upcall
    <3> HIDE DEF marked, c, target
    <3>5. held \in [CmdIds -> CmdType] /\ \A x \in CmdIds : held[x].ns = marked[x].ns
      BY <2>1, <3>3, CountUp, CountKeepsNs
    <3> HIDE DEF held
    <3>6. \A x \in CmdIds : cmd'[x].ns = held[x].ns
      BY <3>2, <3>4, <3>5, CountKeepsNs
    <3> QED BY <3>3, <3>5, <3>6
  <2> QED BY <2>2, <2>3
<1>5. UNCHANGED commands
  BY DEF Invoke, Upcall
<1> QED BY <1>1, <1>3, <1>4, <1>5 DEF GlobalOnly

\* Without namespaces, every step keeps every name global.
LEMMA NextGlobal == Flat /\ Inv /\ GlobalOnly /\ [Next]_vars => GlobalOnly'
<1> SUFFICES ASSUME Flat, Inv, GlobalOnly, [Next]_vars PROVE GlobalOnly'
  OBVIOUS
<1>0. TypeOK /\ FramesOK
  BY DEF Inv
<1>a. frames \in Seq(FrameType) /\ Len(frames) \in 1..Len(frames)
  BY <1>0, CurNsType DEF TypeOK, FrameType
<1>1. ASSUME NEW w \in Words, Proc(w) \/ Alias(w) PROVE GlobalOnly'
  <2>1. Qualify(CurNs, w) = w.path /\ w.path \in Seq(Parts) /\ Len(w.path) = 1
    BY <1>0, FlatNames
  <2>2. PICK c \in CmdIds, proc \in BOOLEAN : Create(w.path, c, proc)
    BY <1>1, <2>1 DEF Proc, Alias
  <2> QED BY <2>1, <2>2, CreateGlobal
<1>2. ASSUME NEW w \in Words, Delete(w) PROVE GlobalOnly'
  <2>1. commands[Qualify(CurNs, w)] \in CmdIds
    BY <1>0, <1>2 DEF Delete, TypeOK
  <2>2. \A x \in CmdIds : cmd'[x].ns = <<>>
    BY <1>0, <1>2, <2>1, DecrGlobal DEF Delete
  <2>3. \A k \in DOMAIN commands' : k \in DOMAIN commands
    BY <1>2 DEF Delete, Without
  <2> QED BY <1>2, <2>2, <2>3 DEF Delete, control, GlobalOnly
<1>3. ASSUME NEW w \in Words, NEW v \in Words, Rename(w, v) PROVE GlobalOnly'
  <2> DEFINE new == Qualify(CurNs, v)
             c == commands[Qualify(CurNs, w)]
  <2>1. new \in Seq(Parts) /\ Len(new) = 1
    BY <1>0, FlatNames
  <2>2. c \in CmdIds
    BY <1>0, <1>3 DEF Rename, TypeOK
  <2>3. NamedNs(new, cmd[c].ns) = <<>>
    BY <2>1, <2>2 DEF NamedNs, GlobalOnly
  <2>4. cmd' = cmd \/ cmd' = [cmd EXCEPT ![c].ns = NamedNs(new, cmd[c].ns)]
    BY <1>3 DEF Rename, Renamed
  <2>5. \A x \in CmdIds : cmd'[x].ns = <<>>
    BY <1>0, <2>2, <2>3, <2>4 DEF GlobalOnly, TypeOK, CmdType
  <2>6. \A k \in DOMAIN commands' : k \in DOMAIN commands \/ k = new
    BY <1>3 DEF Rename
  <2> QED BY <1>3, <2>1, <2>5, <2>6 DEF Rename, control, GlobalOnly
<1>4. ASSUME NEW w \in Words, Invoke(w) \/ Upcall(w) PROVE GlobalOnly'
  BY <1>4, InvokeGlobal
<1>5. ASSUME NEW n \in Namespaces, NamespaceEval(n) PROVE GlobalOnly'
  <2>1. n = <<>> /\ Frame(n) \in FrameType
    BY EmptySeq DEF Flat, Frame, FrameType
  <2>2. \A i \in 1..Len(frames') : frames'[i].ns = <<>>
    BY <1>a, <1>5, <2>1, AppendProperties DEF NamespaceEval, GlobalOnly, Frame
  <2> QED BY <1>5, <2>2 DEF NamespaceEval, GlobalOnly
<1>6. ASSUME NEW w \in Words, LocalEnd(w) PROVE GlobalOnly'
  <2>1. \A v \in Words : cache'[v].ns = <<>>
    BY <1>0, <1>6, FlatNames DEF LocalEnd, Remembered, GlobalOnly, TypeOK
  <2>2. frames' \in Seq(FrameType) /\ DOMAIN frames' = DOMAIN frames
    BY <1>6, <1>0, LocalTypes DEF LocalEnd, TypeOK, FrameType
  <2>3. Len(frames') = Len(frames)
    BY <1>a, <2>2, LenProperties
  <2>4. \A i \in 1..Len(frames) : frames'[i].ns = frames[i].ns
    <3> SUFFICES ASSUME NEW i \in 1..Len(frames) PROVE frames'[i].ns = frames[i].ns
      OBVIOUS
    <3>1. frames[i] \in FrameType
      BY <1>a, ElementOfSeq
    <3> QED BY <1>6, <1>a, <3>1 DEF LocalEnd, FrameType
  <2> QED BY <1>6, <2>1, <2>3, <2>4 DEF LocalEnd, GlobalOnly
<1>7. CASE LocalBegin \/ LocalFail \/ UNCHANGED vars
  BY <1>7 DEF LocalBegin, LocalFail, vars, GlobalOnly
<1>8. CASE UpcallEnd
  <2>1. stack # <<>> /\ Top.kind = "upcall" /\ Len(stack) \in 1..Len(stack)
    BY <1>0, <1>8, PopTypes DEF UpcallEnd, Ending
  <2>2. Top.cmd \in CmdIds
    BY <1>0, <2>1 DEF FramesOK, Top
  <2>3. Decr(Top.cmd) \in [CmdIds -> CmdType]
    BY <1>0, <2>2, DecrType
  <2>4. \A x \in CmdIds : cmd'[x].ns = Decr(Top.cmd)[x].ns
    BY <1>8, <2>3 DEF UpcallEnd, CmdType
  <2> QED BY <1>0, <1>8, <2>2, <2>4, DecrGlobal DEF UpcallEnd, GlobalOnly
<1>9. CASE Return
  <2>1. stack # <<>> /\ Len(stack) \in 1..Len(stack)
    BY <1>0, <1>9, PopTypes DEF Return, Ending
  <2>2. Top.parent \in 1..Len(frames)
    BY <1>0, <2>1 DEF FramesOK, Top
  <2>3. /\ Len(frames') = Top.parent
        /\ \A i \in 1..Top.parent : frames'[i] = frames[i]
    BY <1>9, <1>a, <2>2, SubSeqProperties DEF Return
  <2> QED BY <1>9, <1>a, <2>2, <2>3 DEF Return, GlobalOnly
<1>10. CASE DeleteLocal
  <2> DEFINE w == Head(freeing.locals)
             k == Qualify(CurNs, w)
             c == commands[k]
             unlinked == [cmd EXCEPT ![c].prev = Nil]
             g == IF LastUse(c) THEN NoCmd ELSE [unlinked[c] EXCEPT !.inUse = @ - 1]
  <2>1. \A j \in DOMAIN commands' : j \in DOMAIN commands
    BY <1>10, SMTT(30) DEF DeleteLocal, Restored, With, Without
  <2>2. \A x \in CmdIds : cmd'[x].ns = <<>>
    <3>1. CASE cmd' = cmd
      BY <3>1 DEF GlobalOnly
    <3>2. CASE k \in DOMAIN commands
      <4>1. c \in CmdIds /\ cmd \in [CmdIds -> CmdType]
        BY <1>0, <3>2 DEF TypeOK
      <4>2. unlinked[c].ns = <<>> /\ unlinked[c] \in CmdType
        BY <4>1 DEF GlobalOnly, CmdType
      <4>3. g.ns = <<>>
        <5> HIDE DEF unlinked, c
        <5> QED BY <4>2 DEF NoCmd, CmdType
      <4>4. cmd' = [unlinked EXCEPT ![c] = g]
        BY <1>10, <3>2 DEF DeleteLocal
      <4>5. ASSUME NEW x \in CmdIds, x # c PROVE cmd'[x] = cmd[x]
        BY <4>1, <4>4, <4>5
      <4>6. cmd'[c] = g
        BY <4>1, <4>4
      <4> HIDE DEF g
      <4> QED BY <4>1, <4>3, <4>5, <4>6 DEF GlobalOnly
    <3> QED BY <1>10, <3>1, <3>2 DEF DeleteLocal
  <2> QED BY <1>10, <2>1, <2>2 DEF DeleteLocal, GlobalOnly
<1>11. CASE EndReturn
  <2>1. freeing.cmd \in MaybeCmd
    BY <1>0 DEF TypeOK, MaybeCmd
  <2>2. \A x \in CmdIds : cmd'[x].ns = <<>>
    BY <1>0, <1>11, <2>1, DecrGlobal DEF EndReturn, MaybeCmd, GlobalOnly
  <2> QED BY <1>11, <2>2 DEF EndReturn, GlobalOnly
<1> QED
  BY <1>1, <1>2, <1>3, <1>4, <1>5, <1>6, <1>7, <1>8, <1>9, <1>10, <1>11 DEF Next

\* Without namespaces the cache is transparent: a lookup that uses it finds
\* what one that does not would.
THEOREM CacheIsFresh ==
    ASSUME Flat, \A k \in DOMAIN InitTable : Len(k) = 1
    PROVE  Spec => []CacheFresh
<1>1. Init => GlobalOnly
  BY DEF Init, GlobalOnly, Frame, NoCache, NewCmd, NoCmd
<1>2. Inv /\ GlobalOnly /\ [Next]_vars => GlobalOnly'
  BY NextGlobal
<1>3. Inv /\ GlobalOnly => CacheFresh
  <2> SUFFICES ASSUME Inv, GlobalOnly, NEW w \in Words, cache[w].epoch = procEpoch
               PROVE  cache[w].cmd = Lookup(cache[w].ns, w)
    BY DEF CacheFresh
  <2>1. cache[w].ns = <<>> /\ Qualify(<<>>, w) = w.path
    BY FlatNames DEF Inv, GlobalOnly
  <2> QED BY <2>1 DEF Inv, CacheSound, Lookup
<1> QED BY Invariant, <1>1, <1>2, <1>3, PTL DEF Spec

---------------------------------------------------------------------------
(* Reference counts.  A definition is under a key of table t, or below one that    *)
(* was pushed over it in pool p, and activations of stack s hold it.               *)

TabledIn(t, x) == \E k \in DOMAIN t : t[k] = x
AboveIn(p, x) == \E d \in CmdIds : p[d].prev = x
Uses(s, x) == Cardinality({i \in 1..Len(s) : s[i].cmd = x})
One(b) == IF b THEN 1 ELSE 0

\* These links do not meet: each definition is under one key, or below one other.
Apart(t, p) ==
    /\ \A j, k \in DOMAIN t : t[j] = t[k] => j = k
    /\ \A d, e \in CmdIds : p[d].prev = p[e].prev /\ p[d].prev # Nil => d = e
    /\ \A k \in DOMAIN t : \A d \in CmdIds : t[k] # p[d].prev

\* The count of a definition, h being the one that is about to be released.
Exact(t, p, s, h) ==
    \A x \in CmdIds :
        p[x].inUse = One(TabledIn(t, x)) + One(AboveIn(p, x)) + Uses(s, x) + One(h = x)

\* A definition in an upcall that has lost the one below it is out of the table.
Marked(t, p) ==
    \A x \in CmdIds : p[x].upcall > 0 /\ p[x].prev = Nil => ~TabledIn(t, x) /\ ~AboveIn(p, x)

\* Who holds nothing.
Idle == /\ freeing.on \/ freeing = NotFreeing
        /\ \A i \in 1..Len(stack) : stack[i].kind = "local" => stack[i].cmd = Nil

Counted == /\ Apart(commands, cmd)
           /\ Exact(commands, cmd, stack, freeing.cmd)
           /\ Marked(commands, cmd)
           /\ Idle

\* A set that is a path from c along p has one end.
LEMMA OneEnd ==
    ASSUME NEW R, IsFiniteSet(R), NEW c \in R, NEW p,
           \A y, z \in R : p[y] = p[z] /\ p[y] \in R => y = z,
           \A x \in R : x # c => \E y \in R : p[y] = x,
           \A y \in R : p[y] # c
    PROVE  \E e \in R : p[e] \notin R /\ \A y \in R : y # e => p[y] \in R
<1> DEFINE M == {y \in R : p[y] \in R}
           T == R \ {c}
           f == [y \in M |-> p[y]]
<1>1. IsFiniteSet(M) /\ Cardinality(R) \in Nat /\ Cardinality(T) = Cardinality(R) - 1
  BY FS_Subset, FS_RemoveElement, FS_CardinalityType
<1>2. f \in Bijection(M, T)
  <2>1. f \in [M -> T]
    OBVIOUS
  <2>2. \A y, z \in M : f[y] = f[z] => y = z
    OBVIOUS
  <2>3. \A x \in T : \E y \in M : f[y] = x
    OBVIOUS
  <2> HIDE DEF f, M, T
  <2>4. f \in Injection(M, T)
    BY <2>1, <2>2 DEF Injection, IsInjective
  <2>5. f \in Surjection(M, T)
    BY <2>1, <2>3 DEF Surjection
  <2> QED BY <2>4, <2>5 DEF Bijection
<1>3. Cardinality(T) = Cardinality(M)
  <2> HIDE DEF f, M, T
  <2> QED BY <1>1, <1>2, FS_Bijection DEF ExistsBijection
<1>4. PICK e \in R : p[e] \notin R
  <2>1. M # R
    <3> HIDE DEF M, T, f
    <3> QED BY <1>1, <1>3
  <2> QED BY <2>1
<1>5. M = R \ {e}
  <2>1. IsFiniteSet(R \ {e}) /\ Cardinality(R \ {e}) = Cardinality(R) - 1
    BY FS_RemoveElement
  <2>2. M \in SUBSET (R \ {e})
    BY <1>4
  <2> QED BY <1>1, <1>3, <2>1, <2>2, FS_Subset
<1> QED BY <1>4, <1>5

\* What JimDecrCmdRefCount frees: c and, as long as their last use goes with the
\* one before, the definitions it was pushed over.
LEMMA FreedAre ==
    ASSUME TypeOK, NEW c \in CmdIds, LastUse(c), NEW R, R = Run(c, LastUse)
    PROVE  /\ R \subseteq CmdIds /\ c \in R /\ \A x \in R : LastUse(x)
           /\ \A y \in R : cmd[y].prev # Nil /\ LastUse(cmd[y].prev) => cmd[y].prev \in R
           /\ \A x \in R : x # c => \E y \in R : cmd[y].prev = x
<1> DEFINE Closed(S) == c \in S /\ \A y \in S :
               cmd[y].prev # Nil /\ LastUse(cmd[y].prev) => cmd[y].prev \in S
<1>1. R = {x \in CmdIds : \A S \in SUBSET CmdIds : Closed(S) => x \in S}
  BY DEF Run
<1>2. \A y \in CmdIds : cmd[y].prev # Nil => cmd[y].prev \in CmdIds
  BY DEF TypeOK, CmdType
<1> HIDE DEF Closed
<1>3. \A S \in SUBSET CmdIds : Closed(S) => R \subseteq S
  BY <1>1
<1>4. R \subseteq CmdIds
  BY <1>1
<1>5. c \in R
  BY <1>1 DEF Closed
<1>6. \A x \in R : LastUse(x)
  <2>1. {x \in CmdIds : LastUse(x)} \in SUBSET CmdIds /\ Closed({x \in CmdIds : LastUse(x)})
    BY <1>2 DEF Closed
  <2> QED BY <1>3, <2>1
<1>7. ASSUME NEW y \in R, cmd[y].prev # Nil, LastUse(cmd[y].prev) PROVE cmd[y].prev \in R
  <2>1. cmd[y].prev \in CmdIds
    BY <1>2, <1>4, <1>7
  <2>2. ASSUME NEW S \in SUBSET CmdIds, Closed(S) PROVE cmd[y].prev \in S
    <3>1. y \in S
      BY <1>3, <2>2
    <3> QED BY <1>7, <2>2, <3>1 DEF Closed
  <2> QED BY <1>1, <2>1, <2>2
<1>8. ASSUME NEW x \in R, x # c PROVE \E y \in R : cmd[y].prev = x
  <2>1. SUFFICES ASSUME ~\E y \in R : cmd[y].prev = x PROVE FALSE
    OBVIOUS
  <2>2. Closed(R \ {x})
    BY <1>5, <1>7, <1>8, <2>1 DEF Closed
  <2>3. R \ {x} \in SUBSET CmdIds
    BY <1>4
  <2> QED BY <1>3, <2>2, <2>3
<1> QED BY <1>4, <1>5, <1>6, <1>7, <1>8

\* The definitions below c, c included, are below another one but for c.
LEMMA BelowAre ==
    ASSUME TypeOK, NEW c \in CmdIds, NEW x \in Run(c, LAMBDA y : TRUE), x # c
    PROVE  AboveIn(cmd, x)
<1> DEFINE Closed(S) == c \in S /\ \A y \in S : cmd[y].prev # Nil => cmd[y].prev \in S
           R == {z \in CmdIds : \A S \in SUBSET CmdIds : Closed(S) => z \in S}
           T == {z \in CmdIds : z = c \/ AboveIn(cmd, z)}
<1>1. x \in R
  BY DEF Run
<1>2. Closed(T)
  BY DEF AboveIn, TypeOK, CmdType
<1>3. T \in SUBSET CmdIds
  OBVIOUS
<1> HIDE DEF Closed, T
<1>4. x \in T
  BY <1>1, <1>2, <1>3
<1> QED BY <1>4 DEF T

\* The activations that hold a definition.
LEMMA UsesIs ==
    ASSUME NEW s \in Seq(ActivationType), NEW x
    PROVE  /\ Uses(s, x) \in Nat
           /\ \A i \in 1..Len(s) : s[i].cmd = x => Uses(s, x) > 0
<1> DEFINE A == {i \in 1..Len(s) : s[i].cmd = x}
<1>1. Len(s) \in Nat /\ IsFiniteSet(1..Len(s))
  BY LenProperties, FS_Interval
<1>2. IsFiniteSet(A) /\ Cardinality(A) \in Nat /\ (Cardinality(A) = 0 <=> A = {})
  BY <1>1, FS_Subset, FS_CardinalityType, FS_EmptySet
<1>3. Uses(s, x) = Cardinality(A)
  BY DEF Uses
<1>4. \A i \in 1..Len(s) : s[i].cmd = x => A # {}
  OBVIOUS
<1> HIDE DEF A
<1>5. ASSUME NEW i \in 1..Len(s), s[i].cmd = x PROVE Uses(s, x) > 0
  <2>1. Cardinality(A) # 0
    BY <1>2, <1>4, <1>5
  <2> QED BY <1>2, <1>3, <2>1
<1> QED BY <1>2, <1>3, <1>5

\* One activation more.
LEMMA UsesAppend ==
    ASSUME NEW s \in Seq(ActivationType), NEW a \in ActivationType, NEW x
    PROVE  Uses(Append(s, a), x) = Uses(s, x) + One(a.cmd = x)
<1> DEFINE t == Append(s, a)
           n == Len(s)
           A == {i \in 1..n + 1 : t[i].cmd = x}
<1>1. n \in Nat /\ Len(t) = n + 1 /\ t[n + 1] = a /\ \A i \in 1..n : t[i] = s[i]
  BY AppendLast, AppendAt
<1>2. A \cap (1..n) = {i \in 1..n : s[i].cmd = x}
  BY <1>1
<1>3. Cardinality(A) = Cardinality(A \cap (1..n)) + IF n + 1 \in A THEN 1 ELSE 0
  BY <1>1, CountLast
<1>4. n + 1 \in A <=> a.cmd = x
  BY <1>1
<1>5. Uses(t, x) = Cardinality(A) /\ Uses(s, x) = Cardinality(A \cap (1..n))
  BY <1>1, <1>2 DEF Uses
<1> QED BY <1>3, <1>4, <1>5 DEF One

\* One activation less.
LEMMA UsesPop ==
    ASSUME TypeOK, stack # <<>>, NEW x
    PROVE  /\ Uses(stack, x) = Uses(Pop(stack), x) + One(Top.cmd = x)
           /\ Uses(Pop(stack), x) \in Nat /\ Top \in ActivationType
<1>1. stack \in Seq(ActivationType) /\ Len(stack) >= 1
  <2>1. stack \in Seq(ActivationType)
    BY DEF TypeOK, ActivationType, MaybeCmd
  <2> QED BY <2>1, PopTypes
<1>2. /\ Pop(stack) \in Seq(ActivationType) /\ Top \in ActivationType
      /\ stack = Append(Pop(stack), Top)
  BY <1>1, FrontProperties DEF Pop, Top
<1>3. Uses(Append(Pop(stack), Top), x) = Uses(Pop(stack), x) + One(Top.cmd = x)
  BY <1>2, UsesAppend
<1>4. Uses(Pop(stack), x) \in Nat
  BY <1>2, UsesIs
<1> QED BY <1>2, <1>3, <1>4
\* What JimDecrCmdRefCount(c) does: the definitions of R are freed, and the one that
\* comes after them, d, is released.
Released(c, q, R, d) ==
    /\ R \subseteq CmdIds /\ d \in MaybeCmd /\ d \notin R
    /\ \A x \in R : cmd[x].inUse = 1 /\ q[x] = NoCmd
    /\ \A x \in CmdIds \ R : x # d => q[x] = cmd[x]
    /\ d # Nil => q[d] = [cmd[d] EXCEPT !.inUse = @ - 1]
    /\ c \notin R => R = {} /\ d = c
    /\ \A x \in R : x # c => \E y \in R : cmd[y].prev = x
    /\ \A y \in R : cmd[y].prev \in R \cup {d, Nil}
    /\ c \in R /\ d # Nil => \E y \in R : cmd[y].prev = d

\* A release of c, which nothing else is pushed over if this is its last use.
LEMMA DecrIs ==
    ASSUME TypeOK, Apart(commands, cmd), NEW c \in CmdIds, LastUse(c) => ~AboveIn(cmd, c),
           NEW q, q = Decr(c)
    PROVE  \E R, d : Released(c, q, R, d)
<1>1. \A x \in CmdIds : cmd[x].prev \in MaybeCmd
  BY DEF TypeOK, CmdType, MaybeCmd
<1>2. Nil \notin CmdIds /\ IsFiniteSet(CmdIds)
  BY PoolAssumption
<1>3. CASE ~LastUse(c)
  <2>1. Run(c, LastUse) = {} /\ AfterRun(c, LastUse) = c
    BY <1>3 DEF Run, AfterRun
  <2>2. \A x \in CmdIds : q[x] = IF x = c THEN [cmd[x] EXCEPT !.inUse = @ - 1] ELSE cmd[x]
    BY <2>1 DEF Decr
  <2>3. Released(c, q, {}, c)
    BY <1>2, <2>2 DEF Released, MaybeCmd
  <2> QED BY <2>3
<1>4. CASE LastUse(c)
  <2>1. PICK R : R = Run(c, LastUse)
    OBVIOUS
  <2>2. /\ R \subseteq CmdIds /\ c \in R /\ \A x \in R : LastUse(x)
        /\ \A y \in R : cmd[y].prev # Nil /\ LastUse(cmd[y].prev) => cmd[y].prev \in R
        /\ \A x \in R : x # c => \E y \in R : cmd[y].prev = x
    BY <1>4, <2>1, FreedAre
  <2>3. PICK p : p = [y \in CmdIds |-> cmd[y].prev]
    OBVIOUS
  <2>4. \E e \in R : p[e] \notin R /\ \A y \in R : y # e => p[y] \in R
    <3>1. IsFiniteSet(R)
      BY <1>2, <2>2, FS_Subset
    <3>2. \A y, z \in R : p[y] = p[z] /\ p[y] \in R => y = z
      BY <1>2, <2>2, <2>3 DEF Apart
    <3>3. \A x \in R : x # c => \E y \in R : p[y] = x
      BY <2>2, <2>3
    <3>4. \A y \in R : p[y] # c
      BY <1>4, <2>2, <2>3 DEF AboveIn
    <3> QED BY <2>2, <3>1, <3>2, <3>3, <3>4, OneEnd
  <2>5. PICK e \in R : cmd[e].prev \notin R /\ \A y \in R : y # e => cmd[y].prev \in R
    BY <2>2, <2>3, <2>4
  <2>6. AfterRun(c, LastUse) = cmd[e].prev
    <3> DEFINE ends == {y \in R : cmd[y].prev \notin R}
    <3>1. ends = {e}
      BY <2>5
    <3>2. AfterRun(c, LastUse) = IF ends = {} THEN Nil ELSE cmd[CHOOSE y \in ends : TRUE].prev
      BY <1>4, <2>1 DEF AfterRun
    <3> HIDE DEF ends
    <3> QED BY <3>1, <3>2
  <2>7. PICK d : d = cmd[e].prev
    OBVIOUS
  <2>8. /\ \A x \in R : q[x] = NoCmd
        /\ \A x \in CmdIds \ R : q[x] = IF x = d THEN [cmd[x] EXCEPT !.inUse = @ - 1] ELSE cmd[x]
    BY <2>1, <2>2, <2>6, <2>7 DEF Decr
  <2>9. d \in MaybeCmd /\ d \notin R
    BY <1>1, <2>2, <2>5, <2>7
  <2>10. d # Nil => q[d] = [cmd[d] EXCEPT !.inUse = @ - 1]
    BY <2>8, <2>9 DEF MaybeCmd
  <2>11. \A y \in R : cmd[y].prev \in R \cup {d, Nil}
    BY <2>5, <2>7
  <2>12. \A x \in R : cmd[x].inUse = 1
    BY <2>2 DEF LastUse
  <2>13. d # Nil => \E y \in R : cmd[y].prev = d
    BY <2>7
  <2>14. \A x \in CmdIds \ R : x # d => q[x] = cmd[x]
    BY <2>8
  <2>15. Released(c, q, R, d)
    BY <2>2, <2>8, <2>9, <2>10, <2>11, <2>12, <2>13, <2>14 DEF Released
  <2> QED BY <2>15
<1> QED BY <1>3, <1>4

\* A released definition that has gone from below another one has lost one use for
\* that, and c one more; no mark is lost but with its definition.
LEMMA DecrCounts ==
    ASSUME TypeOK, Apart(commands, cmd), NEW c \in CmdIds, LastUse(c) => ~AboveIn(cmd, c),
           NEW q, q = Decr(c)
    PROVE  \A x \in CmdIds :
              /\ q[x].inUse = cmd[x].inUse - One(x = c) + One(AboveIn(q, x)) - One(AboveIn(cmd, x))
              /\ AboveIn(q, x) => AboveIn(cmd, x)
              /\ q[x].prev = cmd[x].prev \/ (q[x].prev = Nil /\ q[x].upcall = 0)
              /\ q[x].upcall = cmd[x].upcall \/ q[x].upcall = 0
<1>1. PICK R, d : Released(c, q, R, d)
  BY DecrIs
<1>2. /\ R \subseteq CmdIds /\ d \in MaybeCmd /\ d \notin R /\ Nil \notin CmdIds
      /\ \A x \in R : cmd[x].inUse = 1 /\ q[x] = NoCmd
      /\ \A x \in CmdIds \ R : x # d => q[x] = cmd[x]
      /\ d # Nil => q[d] = [cmd[d] EXCEPT !.inUse = @ - 1]
      /\ c \notin R => R = {} /\ d = c
      /\ \A x \in R : x # c => \E y \in R : cmd[y].prev = x
      /\ \A y \in R : cmd[y].prev \in R \cup {d, Nil}
      /\ c \in R /\ d # Nil => \E y \in R : cmd[y].prev = d
  BY <1>1, PoolAssumption DEF Released
<1>3. \A x \in CmdIds : cmd[x] \in CmdType
  BY DEF TypeOK
<1>4. d # Nil => /\ d \in CmdIds /\ q[d].inUse = cmd[d].inUse - 1
                 /\ q[d].prev = cmd[d].prev /\ q[d].upcall = cmd[d].upcall
  BY <1>2, <1>3 DEF MaybeCmd, CmdType
<1>5. NoCmd.inUse = 0 /\ NoCmd.prev = Nil /\ NoCmd.upcall = 0
  BY DEF NoCmd
<1>6. \A x \in CmdIds : /\ x \in R => q[x].prev = Nil /\ q[x].upcall = 0 /\ q[x].inUse = 0
                        /\ x \notin R => q[x].prev = cmd[x].prev /\ q[x].upcall = cmd[x].upcall
                        /\ x \notin R /\ x # d => q[x].inUse = cmd[x].inUse
  <2>1. \A x \in R : q[x].prev = Nil /\ q[x].upcall = 0 /\ q[x].inUse = 0
    BY <1>2, <1>5
  <2>2. ASSUME NEW x \in CmdIds \ R PROVE q[x].prev = cmd[x].prev /\ q[x].upcall = cmd[x].upcall
    <3>1. CASE x = d
      BY <1>2, <1>4, <2>2, <3>1
    <3>2. CASE x # d
      BY <1>2, <2>2, <3>2
    <3> QED BY <3>1, <3>2
  <2>3. \A x \in CmdIds \ R : x # d => q[x].inUse = cmd[x].inUse
    BY <1>2
  <2> QED BY <2>1, <2>2, <2>3
<1>7. ASSUME NEW x \in CmdIds
      PROVE  AboveIn(q, x) <=> AboveIn(cmd, x) /\ x \notin R /\ ~(c \in R /\ x = d)
  <2>1. ASSUME AboveIn(q, x) PROVE AboveIn(cmd, x) /\ x \notin R /\ ~(c \in R /\ x = d)
    <3>1. PICK y \in CmdIds : q[y].prev = x
      BY <2>1 DEF AboveIn
    <3>2. y \notin R /\ cmd[y].prev = x
      BY <1>2, <1>6, <3>1
    <3>3. ASSUME NEW z \in R PROVE cmd[z].prev # x
      BY <1>2, <3>2, <3>3 DEF Apart
    <3>4. x \in R => x = c
      BY <1>2, <3>3
    <3>5. x # c \/ c \notin R
      BY <1>2, <3>2, <1>3 DEF AboveIn, LastUse
    <3> QED BY <1>2, <3>2, <3>3, <3>4, <3>5 DEF AboveIn
  <2>2. ASSUME AboveIn(cmd, x), x \notin R, ~(c \in R /\ x = d) PROVE AboveIn(q, x)
    <3>1. PICK y \in CmdIds : cmd[y].prev = x
      BY <2>2 DEF AboveIn
    <3>2. y \notin R
      BY <1>2, <2>2, <3>1
    <3> QED BY <1>6, <3>1, <3>2 DEF AboveIn
  <2> QED BY <2>1, <2>2
<1>8. ASSUME NEW x \in CmdIds
      PROVE  q[x].inUse = cmd[x].inUse - One(x = c) + One(AboveIn(q, x)) - One(AboveIn(cmd, x))
  <2>0. cmd[x].inUse \in Int
    BY <1>3 DEF CmdType
  <2>1. CASE x \in R
    <3>1. q[x].inUse = 0 /\ cmd[x].inUse = 1 /\ ~AboveIn(q, x)
      BY <1>2, <1>6, <1>7, <2>1
    <3>2. CASE x = c
      <4>1. ~AboveIn(cmd, x)
        BY <3>1, <3>2 DEF LastUse
      <4> QED BY <3>1, <3>2, <4>1 DEF One
    <3>3. CASE x # c
      <4>1. AboveIn(cmd, x)
        BY <1>2, <2>1, <3>3 DEF AboveIn
      <4> QED BY <3>1, <3>3, <4>1 DEF One
    <3> QED BY <3>2, <3>3
  <2>2. CASE x \notin R /\ x = d
    <3>1. q[x].inUse = cmd[x].inUse - 1
      BY <1>2, <1>4, <2>2
    <3>2. CASE c \in R
      <4>1. AboveIn(cmd, x) /\ ~AboveIn(q, x) /\ x # c
        BY <1>2, <1>7, <2>2, <3>2 DEF AboveIn
      <4> QED BY <2>0, <3>1, <4>1 DEF One
    <3>3. CASE c \notin R
      <4>1. x = c /\ (AboveIn(q, x) <=> AboveIn(cmd, x))
        BY <1>2, <1>7, <2>2, <3>3
      <4> QED BY <2>0, <3>1, <4>1 DEF One
    <3> QED BY <3>2, <3>3
  <2>3. CASE x \notin R /\ x # d
    <3>1. q[x].inUse = cmd[x].inUse /\ x # c /\ (AboveIn(q, x) <=> AboveIn(cmd, x))
      BY <1>2, <1>6, <1>7, <2>3
    <3> QED BY <2>0, <3>1 DEF One
  <2> QED BY <2>1, <2>2, <2>3
<1> QED BY <1>6, <1>7, <1>8
\* A definition that something else than a link holds, or that is in the table, goes
\* with its last use without leaving a link to it.
LEMMA HeldIsLast ==
    ASSUME TypeOK, Counted, NEW c \in CmdIds, LastUse(c),
           TabledIn(commands, c) \/ (\E i \in 1..Len(stack) : stack[i].cmd = c) \/ freeing.cmd = c
    PROVE  ~AboveIn(cmd, c)
<1>1. Apart(commands, cmd) /\ Exact(commands, cmd, stack, freeing.cmd)
  BY DEF Counted
<1>2. stack \in Seq(ActivationType)
  BY DEF TypeOK, ActivationType, MaybeCmd
<1>3. Uses(stack, c) \in Nat /\ \A i \in 1..Len(stack) : stack[i].cmd = c => Uses(stack, c) > 0
  BY <1>2, UsesIs
<1>4. 1 = One(TabledIn(commands, c)) + One(AboveIn(cmd, c)) + Uses(stack, c) + One(freeing.cmd = c)
  BY <1>1 DEF Exact, LastUse
<1> QED BY <1>3, <1>4 DEF One

\* Fewer keys and fewer links still do not meet.
LEMMA ApartShrinks ==
    ASSUME NEW t, NEW p, Apart(t, p), \A k \in DOMAIN t : t[k] \in CmdIds,
           NEW u, \A k \in DOMAIN u : k \in DOMAIN t /\ u[k] = t[k],
           NEW q, \A d \in CmdIds : q[d].prev \in {p[d].prev, Nil}
    PROVE  Apart(u, q)
<1>1. \A j, k \in DOMAIN u : u[j] = u[k] => j = k
  BY DEF Apart
<1>2. \A d, e \in CmdIds : q[d].prev = q[e].prev /\ q[d].prev # Nil => d = e
  BY DEF Apart
<1>3. ASSUME NEW k \in DOMAIN u, NEW d \in CmdIds PROVE u[k] # q[d].prev
  <2>1. CASE q[d].prev = p[d].prev
    BY <2>1 DEF Apart
  <2>2. CASE q[d].prev = Nil
    BY <2>2, PoolAssumption
  <2> QED BY <2>1, <2>2
<1> QED BY <1>1, <1>2, <1>3 DEF Apart

\* A key taken out of the table.
LEMMA WithoutTabled ==
    ASSUME Apart(commands, cmd), NEW k
    PROVE  \A x : TabledIn(Without(k), x)
                  <=> TabledIn(commands, x) /\ ~(k \in DOMAIN commands /\ x = commands[k])
<1> SUFFICES ASSUME NEW x
             PROVE  TabledIn(Without(k), x)
                    <=> TabledIn(commands, x) /\ ~(k \in DOMAIN commands /\ x = commands[k])
  OBVIOUS
<1>1. /\ DOMAIN Without(k) = DOMAIN commands \ {k}
      /\ \A j \in DOMAIN commands \ {k} : Without(k)[j] = commands[j]
  BY DEF Without
<1>2. \A i, j \in DOMAIN commands : commands[i] = commands[j] => i = j
  BY DEF Apart
<1>3. TabledIn(Without(k), x) => TabledIn(commands, x)
  BY <1>1 DEF TabledIn
<1>4. TabledIn(Without(k), x) /\ k \in DOMAIN commands => x # commands[k]
  BY <1>1, <1>2 DEF TabledIn
<1>5. TabledIn(commands, x) /\ ~(k \in DOMAIN commands /\ x = commands[k])
         => TabledIn(Without(k), x)
  BY <1>1 DEF TabledIn
<1> QED BY <1>3, <1>4, <1>5

\* Counts before a new definition is linked to b: b has one that no link shows yet.
Room(t, p, s, h, b) ==
    /\ \A j \in DOMAIN t : t[j] \in CmdIds
    /\ Apart(t, p) /\ Marked(t, p)
    /\ \A x \in CmdIds :
          p[x].inUse = One(TabledIn(t, x)) + One(AboveIn(p, x)) + Uses(s, x)
                       + One(h = x) + One(b = x)
    /\ b # Nil => ~TabledIn(t, b) /\ ~AboveIn(p, b) /\ ~(p[b].upcall > 0 /\ p[b].prev = Nil)

\* The new definition c is put under k, above b.
Linked(t, p, k, c, b, u, q) ==
    /\ DOMAIN u = DOMAIN t \cup {k} /\ u[k] = c /\ \A j \in DOMAIN t : u[j] = t[j]
    /\ \A x \in CmdIds : x # c => q[x] = p[x]
    /\ q[c].inUse = 1 /\ q[c].prev = b /\ q[c].upcall = 0

\* A new definition c under k, above b if that is a definition.
LEMMA NewCounts ==
    ASSUME NEW t, NEW p, NEW s \in Seq(ActivationType), NEW h, NEW k, NEW c \in CmdIds,
           NEW b \in MaybeCmd, k \notin DOMAIN t, Room(t, p, s, h, b),
           p[c].inUse = 0, p[c].prev = Nil, NEW u, NEW q, Linked(t, p, k, c, b, u, q)
    PROVE  Apart(u, q) /\ Exact(u, q, s, h) /\ Marked(u, q)
<1> USE DEF Room, Linked
<1>0. Nil \notin CmdIds
  BY PoolAssumption
<1>1. Uses(s, c) \in Nat
  BY UsesIs
<1>2. 0 = One(TabledIn(t, c)) + One(AboveIn(p, c)) + Uses(s, c) + One(h = c) + One(b = c)
  OBVIOUS
<1>3. ~TabledIn(t, c) /\ ~AboveIn(p, c) /\ Uses(s, c) = 0 /\ h # c /\ b # c
  BY <1>1, <1>2 DEF One
<1>4. \A x \in CmdIds : TabledIn(u, x) <=> TabledIn(t, x) \/ x = c
  BY DEF TabledIn
<1>5. ASSUME NEW x \in CmdIds PROVE AboveIn(q, x) <=> AboveIn(p, x) \/ x = b
  <2>1. ASSUME AboveIn(q, x) PROVE AboveIn(p, x) \/ x = b
    <3>1. PICK d \in CmdIds : q[d].prev = x
      BY <2>1 DEF AboveIn
    <3>2. CASE d = c
      BY <3>1, <3>2
    <3>3. CASE d # c
      BY <3>1, <3>3 DEF AboveIn
    <3> QED BY <3>2, <3>3
  <2>2. ASSUME AboveIn(p, x) PROVE AboveIn(q, x)
    <3>1. PICK d \in CmdIds : p[d].prev = x
      BY <2>2 DEF AboveIn
    <3>2. d # c
      BY <1>0, <3>1
    <3> QED BY <3>1, <3>2 DEF AboveIn
  <2>3. ASSUME x = b PROVE AboveIn(q, x)
    BY <2>3 DEF AboveIn
  <2> QED BY <2>1, <2>2, <2>3
<1>6. Apart(u, q)
  <2>1. ASSUME NEW i \in DOMAIN u, NEW j \in DOMAIN u, u[i] = u[j] PROVE i = j
    <3>1. \A m \in DOMAIN t : t[m] # c
      BY <1>3 DEF TabledIn
    <3>2. \A m, n \in DOMAIN t : t[m] = t[n] => m = n
      BY DEF Apart
    <3> QED BY <2>1, <3>1, <3>2
  <2>2. ASSUME NEW d \in CmdIds, NEW e \in CmdIds, q[d].prev = q[e].prev, q[d].prev # Nil
        PROVE  d = e
    <3>1. \A m, n \in CmdIds : p[m].prev = p[n].prev /\ p[m].prev # Nil => m = n
      BY DEF Apart
    <3>2. b # Nil => \A m \in CmdIds : p[m].prev # b
      BY DEF AboveIn
    <3>3. CASE d = c \/ e = c
      BY <2>2, <3>2, <3>3
    <3>4. CASE d # c /\ e # c
      BY <2>2, <3>1, <3>4
    <3> QED BY <3>3, <3>4
  <2>3. ASSUME NEW j \in DOMAIN u, NEW d \in CmdIds PROVE u[j] # q[d].prev
    <3>1. CASE j = k /\ d = c
      BY <1>3, <3>1
    <3>2. CASE j = k /\ d # c
      BY <1>3, <3>2 DEF AboveIn
    <3>3. CASE j # k /\ d = c
      BY <1>0, <3>3 DEF TabledIn
    <3>4. CASE j # k /\ d # c
      BY <3>4 DEF Apart
    <3> QED BY <3>1, <3>2, <3>3, <3>4
  <2> QED BY <2>1, <2>2, <2>3 DEF Apart
<1>7. ASSUME NEW x \in CmdIds
      PROVE  q[x].inUse = One(TabledIn(u, x)) + One(AboveIn(q, x)) + Uses(s, x) + One(h = x)
  <2>1. CASE x = c
    BY <1>3, <1>4, <1>5, <2>1 DEF One
  <2>2. CASE x # c
    <3>1. Uses(s, x) \in Nat
      BY UsesIs
    <3>2. q[x].inUse = One(TabledIn(t, x)) + One(AboveIn(p, x)) + Uses(s, x)
                       + One(h = x) + One(b = x)
      BY <2>2
    <3>3. (TabledIn(u, x) <=> TabledIn(t, x)) /\ (AboveIn(q, x) <=> AboveIn(p, x) \/ x = b)
      BY <1>4, <1>5, <2>2
    <3>4. x = b => ~AboveIn(p, x)
      BY <1>0
    <3> QED BY <3>1, <3>2, <3>3, <3>4 DEF One
  <2> QED BY <2>1, <2>2
<1>8. ASSUME NEW x \in CmdIds, q[x].upcall > 0, q[x].prev = Nil
      PROVE  ~TabledIn(u, x) /\ ~AboveIn(q, x)
  <2>1. x # c
    BY <1>8
  <2>2. p[x].upcall > 0 /\ p[x].prev = Nil
    BY <1>8, <2>1
  <2>3. ~TabledIn(t, x) /\ ~AboveIn(p, x)
    BY <2>2 DEF Marked
  <2>4. x # b
    BY <1>0, <2>2
  <2> QED BY <1>4, <1>5, <2>1, <2>3, <2>4
<1> QED BY <1>6, <1>7, <1>8 DEF Exact, Marked
\* What a step that changes neither the activations nor what is about to be released
\* has to show.
LEMMA SameHolders ==
    ASSUME Counted, UNCHANGED <<stack, freeing>>,
           Apart(commands', cmd'), Exact(commands', cmd', stack, freeing.cmd),
           Marked(commands', cmd')
    PROVE  Counted'
BY DEF Counted, Idle, Exact, Uses

\* A definition that goes releases what it held.
LEMMA DeleteCounted ==
    ASSUME TypeOK, Counted, NEW k \in DOMAIN commands, NEW q, q = Decr(commands[k])
    PROVE  /\ Apart(Without(k), q) /\ Exact(Without(k), q, stack, freeing.cmd)
           /\ Marked(Without(k), q)
<1>1. PICK c \in CmdIds : c = commands[k]
  BY DEF TypeOK
<1>2. Apart(commands, cmd) /\ Exact(commands, cmd, stack, freeing.cmd) /\ Marked(commands, cmd)
  BY DEF Counted
<1>3. TabledIn(commands, c)
  BY <1>1 DEF TabledIn
<1>4. LastUse(c) => ~AboveIn(cmd, c)
  BY <1>3, HeldIsLast
<1>5. \A x \in CmdIds :
         /\ q[x].inUse = cmd[x].inUse - One(x = c) + One(AboveIn(q, x)) - One(AboveIn(cmd, x))
         /\ AboveIn(q, x) => AboveIn(cmd, x)
         /\ q[x].prev = cmd[x].prev \/ (q[x].prev = Nil /\ q[x].upcall = 0)
         /\ q[x].upcall = cmd[x].upcall \/ q[x].upcall = 0
  BY <1>1, <1>2, <1>4, DecrCounts
<1>6. \A x : TabledIn(Without(k), x) <=> TabledIn(commands, x) /\ x # c
  BY <1>1, <1>2, WithoutTabled
<1>7. Apart(Without(k), q)
  <2>1. \A j \in DOMAIN Without(k) : j \in DOMAIN commands /\ Without(k)[j] = commands[j]
    BY DEF Without
  <2>2. \A j \in DOMAIN commands : commands[j] \in CmdIds
    BY DEF TypeOK
  <2>3. \A x \in CmdIds : q[x].prev \in {cmd[x].prev, Nil}
    BY <1>5
  <2> QED BY <1>2, <2>1, <2>2, <2>3, ApartShrinks
<1>8. ASSUME NEW x \in CmdIds
      PROVE  q[x].inUse = One(TabledIn(Without(k), x)) + One(AboveIn(q, x)) + Uses(stack, x)
                          + One(freeing.cmd = x)
  <2>1. cmd[x].inUse = One(TabledIn(commands, x)) + One(AboveIn(cmd, x)) + Uses(stack, x)
                       + One(freeing.cmd = x)
    BY <1>2 DEF Exact
  <2>2. stack \in Seq(ActivationType)
    BY DEF TypeOK, ActivationType, MaybeCmd
  <2>3. Uses(stack, x) \in Nat
    BY <2>2, UsesIs
  <2>4. One(TabledIn(Without(k), x)) = One(TabledIn(commands, x)) - One(x = c)
    BY <1>3, <1>6 DEF One
  <2>5. q[x].inUse = cmd[x].inUse - One(x = c) + One(AboveIn(q, x)) - One(AboveIn(cmd, x))
    BY <1>5
  <2>6. /\ One(TabledIn(commands, x)) \in Nat /\ One(AboveIn(cmd, x)) \in Nat
        /\ One(AboveIn(q, x)) \in Nat /\ One(freeing.cmd = x) \in Nat /\ One(x = c) \in Nat
    BY DEF One
  <2> QED BY <2>1, <2>3, <2>4, <2>5, <2>6
<1>9. ASSUME NEW x \in CmdIds, q[x].upcall > 0, q[x].prev = Nil
      PROVE  ~TabledIn(Without(k), x) /\ ~AboveIn(q, x)
  <2>1. cmd[x].upcall > 0 /\ cmd[x].prev = Nil
    BY <1>5, <1>9
  <2> QED BY <1>2, <1>5, <1>6, <2>1 DEF Marked
<1> QED BY <1>7, <1>8, <1>9 DEF Exact, Marked

\* Defining a command keeps the counts, whether it replaces another or is pushed.
LEMMA CreateCounted ==
    ASSUME TypeOK, Counted, NEW k, NEW c \in CmdIds, NEW proc \in BOOLEAN, Create(k, c, proc)
    PROVE  Counted'
<1> DEFINE t == Without(k)
           s == stack
           h == freeing.cmd
<1>1. s \in Seq(ActivationType)
  BY DEF TypeOK, ActivationType, MaybeCmd
<1>2. Apart(commands, cmd) /\ Exact(commands, cmd, s, h) /\ Marked(commands, cmd)
  BY DEF Counted
<1>3. /\ k \notin DOMAIN t /\ DOMAIN commands' = DOMAIN t \cup {k} /\ commands'[k] = c
      /\ \A j \in DOMAIN t : t[j] \in CmdIds /\ j \in DOMAIN commands /\ t[j] = commands[j]
      /\ \A j \in DOMAIN t : commands'[j] = t[j]
  BY DEF Create, With, Without, TypeOK
<1>4. \A x : TabledIn(t, x) <=> TabledIn(commands, x) /\ ~(k \in DOMAIN commands /\ x = commands[k])
  BY <1>2, WithoutTabled
<1>5. cmd[c].inUse = 0 /\ cmd[c].prev = Nil
  BY DEF Create, NoCmd
<1>6. Uses(s, c) \in Nat
  BY <1>1, UsesIs
<1>7. ~TabledIn(commands, c) /\ ~AboveIn(cmd, c) /\ Uses(s, c) = 0 /\ h # c
  <2>1. 0 = One(TabledIn(commands, c)) + One(AboveIn(cmd, c)) + Uses(s, c) + One(h = c)
    BY <1>2, <1>5 DEF Exact
  <2> QED BY <1>6, <2>1 DEF One
<1>8. UNCHANGED <<stack, freeing>>
  BY DEF Create, control
<1>9. ASSUME NEW p, NEW b \in MaybeCmd, p \in [CmdIds -> CmdType], Room(t, p, s, h, b),
             p[c].inUse = 0, p[c].prev = Nil,
             cmd' = [p EXCEPT ![c] = NewCmd(proc, b, IF proc THEN NamedNs(k, <<>>) ELSE <<>>)]
      PROVE  Counted'
  <2>1. /\ \A x \in CmdIds : x # c => cmd'[x] = p[x]
        /\ cmd'[c] = NewCmd(proc, b, IF proc THEN NamedNs(k, <<>>) ELSE <<>>)
    BY <1>9
  <2>2. cmd'[c].inUse = 1 /\ cmd'[c].prev = b /\ cmd'[c].upcall = 0
    BY <2>1 DEF NewCmd
  <2>3. PICK u, q : u = commands' /\ q = cmd'
    OBVIOUS
  <2>4. Linked(t, p, k, c, b, u, q)
    BY <1>3, <2>1, <2>2, <2>3 DEF Linked
  <2> HIDE DEF t, s, h
  <2>5. Apart(u, q) /\ Exact(u, q, s, h) /\ Marked(u, q)
    BY <1>1, <1>3, <1>9, <2>4, NewCounts
  <2> QED BY <1>8, <2>3, <2>5, SameHolders DEF s, h
<1>10. CASE k \in DOMAIN commands /\ ~Pushes(k)
  <2>1. PICK o \in CmdIds : o = commands[k]
    BY <1>10 DEF TypeOK
  <2>2. PICK p : p = Decr(o)
    OBVIOUS
  <2>3. Apart(t, p) /\ Exact(t, p, s, h) /\ Marked(t, p)
    BY <1>10, <2>1, <2>2, DeleteCounted
  <2>4. p \in [CmdIds -> CmdType]
    BY <2>2, DecrType
  <2>5. LastUse(o) => ~AboveIn(cmd, o)
    BY <1>10, <2>1, HeldIsLast DEF TabledIn
  <2>6. o # c
    BY <1>7, <1>10, <2>1 DEF TabledIn
  <2>7. p[c].inUse = 0 /\ p[c].prev = Nil
    <3>1. /\ p[c].inUse = cmd[c].inUse - One(c = o) + One(AboveIn(p, c)) - One(AboveIn(cmd, c))
          /\ AboveIn(p, c) => AboveIn(cmd, c)
          /\ p[c].prev = cmd[c].prev \/ (p[c].prev = Nil /\ p[c].upcall = 0)
      BY <1>2, <2>2, <2>5, DecrCounts
    <3> QED BY <1>5, <1>7, <2>6, <3>1 DEF One
  <2>8. \A x \in CmdIds :
           p[x].inUse = One(TabledIn(t, x)) + One(AboveIn(p, x)) + Uses(s, x)
                        + One(h = x) + One(Nil = x)
    <3> SUFFICES ASSUME NEW x \in CmdIds
                 PROVE  p[x].inUse = One(TabledIn(t, x)) + One(AboveIn(p, x)) + Uses(s, x)
                                     + One(h = x) + One(Nil = x)
      OBVIOUS
    <3>1. p[x].inUse = One(TabledIn(t, x)) + One(AboveIn(p, x)) + Uses(s, x) + One(h = x)
      BY <2>3 DEF Exact
    <3>2. One(Nil = x) = 0 /\ p[x].inUse \in Int
      BY <2>4, PoolAssumption DEF One, CmdType
    <3> HIDE DEF t, s, h
    <3> QED BY <3>1, <3>2
  <2>9. cmd' = [p EXCEPT ![c] = NewCmd(proc, Nil, IF proc THEN NamedNs(k, <<>>) ELSE <<>>)]
    BY <1>10, <2>1, <2>2 DEF Create
  <2> HIDE DEF t, s, h
  <2>10. Room(t, p, s, h, Nil)
    BY <1>3, <2>3, <2>8 DEF Room
  <2> QED BY <1>9, <2>4, <2>7, <2>9, <2>10 DEF MaybeCmd
<1>11. CASE Pushes(k)
  <2>1. k \in DOMAIN commands
    BY <1>11 DEF Pushes
  <2>2. PICK o \in CmdIds : o = commands[k]
    BY <2>1 DEF TypeOK
  <2>3. ~AboveIn(cmd, o) /\ ~TabledIn(t, o) /\ ~(cmd[o].upcall > 0 /\ cmd[o].prev = Nil)
    BY <1>2, <1>4, <2>1, <2>2 DEF Apart, AboveIn, TabledIn, Marked
  <2>4. Apart(t, cmd) /\ Marked(t, cmd)
    <3>1. Apart(t, cmd)
      <4>1. \A j \in DOMAIN commands : commands[j] \in CmdIds
        BY DEF TypeOK
      <4> HIDE DEF t
      <4> QED BY <1>2, <1>3, <4>1, ApartShrinks
    <3> QED BY <1>2, <1>4, <3>1 DEF Marked
  <2>5. \A x \in CmdIds :
           cmd[x].inUse = One(TabledIn(t, x)) + One(AboveIn(cmd, x)) + Uses(s, x)
                          + One(h = x) + One(o = x)
    <3> SUFFICES ASSUME NEW x \in CmdIds
                 PROVE  cmd[x].inUse = One(TabledIn(t, x)) + One(AboveIn(cmd, x)) + Uses(s, x)
                                       + One(h = x) + One(o = x)
      OBVIOUS
    <3>1. cmd[x].inUse = One(TabledIn(commands, x)) + One(AboveIn(cmd, x)) + Uses(s, x) + One(h = x)
      BY <1>2 DEF Exact
    <3>2. Uses(s, x) \in Nat
      BY <1>1, UsesIs
    <3>3. TabledIn(commands, o)
      BY <2>1, <2>2 DEF TabledIn
    <3>4. TabledIn(t, x) <=> TabledIn(commands, x) /\ x # o
      BY <1>4, <2>1, <2>2
    <3> HIDE DEF t, s, h
    <3> QED BY <3>1, <3>2, <3>3, <3>4 DEF One
  <2>6. cmd' = [cmd EXCEPT ![c] = NewCmd(proc, o, IF proc THEN NamedNs(k, <<>>) ELSE <<>>)]
    BY <1>11, <2>2 DEF Create
  <2>7. cmd \in [CmdIds -> CmdType]
    BY DEF TypeOK
  <2> HIDE DEF t, s, h
  <2>8. Room(t, cmd, s, h, o)
    BY <1>3, <2>3, <2>4, <2>5 DEF Room
  <2> QED BY <1>5, <1>9, <2>6, <2>7, <2>8 DEF MaybeCmd
<1>12. CASE k \notin DOMAIN commands
  <2>1. Apart(t, cmd) /\ Marked(t, cmd)
    <3>1. Apart(t, cmd)
      <4>1. \A j \in DOMAIN commands : commands[j] \in CmdIds
        BY DEF TypeOK
      <4> HIDE DEF t
      <4> QED BY <1>2, <1>3, <4>1, ApartShrinks
    <3> QED BY <1>2, <1>4, <3>1 DEF Marked
  <2>2. \A x \in CmdIds :
           cmd[x].inUse = One(TabledIn(t, x)) + One(AboveIn(cmd, x)) + Uses(s, x)
                          + One(h = x) + One(Nil = x)
    <3> SUFFICES ASSUME NEW x \in CmdIds
                 PROVE  cmd[x].inUse = One(TabledIn(t, x)) + One(AboveIn(cmd, x)) + Uses(s, x)
                                       + One(h = x) + One(Nil = x)
      OBVIOUS
    <3>1. cmd[x].inUse = One(TabledIn(commands, x)) + One(AboveIn(cmd, x)) + Uses(s, x) + One(h = x)
      BY <1>2 DEF Exact
    <3>2. One(Nil = x) = 0 /\ cmd[x].inUse \in Int
      BY PoolAssumption DEF One, TypeOK, CmdType
    <3>3. TabledIn(t, x) <=> TabledIn(commands, x)
      BY <1>4, <1>12
    <3>4. One(TabledIn(t, x)) = One(TabledIn(commands, x))
      BY <3>3 DEF One
    <3> HIDE DEF t, s, h
    <3> QED BY <3>1, <3>2, <3>4
  <2>3. ~Pushes(k)
    BY <1>12 DEF Pushes
  <2>4. cmd' = [cmd EXCEPT ![c] = NewCmd(proc, Nil, IF proc THEN NamedNs(k, <<>>) ELSE <<>>)]
    BY <1>12, <2>3 DEF Create
  <2>5. cmd \in [CmdIds -> CmdType]
    BY DEF TypeOK
  <2> HIDE DEF t, s, h
  <2>6. Room(t, cmd, s, h, Nil)
    BY <1>3, <2>1, <2>2 DEF Room
  <2> QED BY <1>5, <1>9, <2>4, <2>5, <2>6 DEF MaybeCmd
<1> QED BY <1>10, <1>11, <1>12
\* The counts of a table, a pool, activations and what is about to be released.
Sound(t, p, s, h) == Apart(t, p) /\ Exact(t, p, s, h) /\ Marked(t, p)

\* Activations s that, with h, hold c once less; a pool q in which c is released.
Dropped(s, h, c) ==
    \A x \in CmdIds : /\ Uses(s, x) \in Nat
                      /\ Uses(s, x) + One(h = x) + One(x = c)
                         = Uses(stack, x) + One(freeing.cmd = x)
Lowered(q, c) ==
    \A x \in CmdIds : /\ q[x].inUse = Decr(c)[x].inUse /\ q[x].prev = Decr(c)[x].prev
                      /\ q[x].upcall > 0 => Decr(c)[x].upcall > 0

\* An activation that holds a definition is added, and counted.
LEMMA HoldCounts ==
    ASSUME NEW t, NEW p \in [CmdIds -> CmdType], NEW s \in Seq(ActivationType), NEW h,
           NEW a \in ActivationType, NEW c \in CmdIds, a.cmd = c, Sound(t, p, s, h),
           NEW q, q = [p EXCEPT ![c].inUse = @ + 1]
    PROVE  q \in [CmdIds -> CmdType] /\ Sound(t, q, Append(s, a), h)
<1> USE DEF Sound
<1>1. q \in [CmdIds -> CmdType]
  BY CountUp
<1>2. \A x \in CmdIds : /\ q[x].prev = p[x].prev /\ q[x].upcall = p[x].upcall
                        /\ q[x].inUse = p[x].inUse + One(x = c)
  <2>1. p[c] \in CmdType
    OBVIOUS
  <2>2. /\ [p[c] EXCEPT !.inUse = @ + 1].prev = p[c].prev
        /\ [p[c] EXCEPT !.inUse = @ + 1].upcall = p[c].upcall
        /\ [p[c] EXCEPT !.inUse = @ + 1].inUse = p[c].inUse + 1
    BY <2>1 DEF CmdType
  <2>3. q[c] = [p[c] EXCEPT !.inUse = @ + 1] /\ \A x \in CmdIds : x # c => q[x] = p[x]
    OBVIOUS
  <2>4. /\ q[c].prev = p[c].prev /\ q[c].upcall = p[c].upcall
        /\ q[c].inUse = p[c].inUse + 1
    BY <2>2, <2>3
  <2>5. \A x \in CmdIds : p[x].inUse \in Int
    BY DEF CmdType
  <2>6. ASSUME NEW x \in CmdIds
        PROVE  /\ q[x].prev = p[x].prev /\ q[x].upcall = p[x].upcall
               /\ q[x].inUse = p[x].inUse + One(x = c)
    <3>1. CASE x = c
      BY <2>4, <3>1 DEF One
    <3>2. CASE x # c
      <4>1. q[x] = p[x] /\ p[x].inUse \in Int
        BY <2>3, <2>5, <3>2
      <4> QED BY <3>2, <4>1 DEF One
    <3> QED BY <3>1, <3>2
  <2> QED BY <2>6
<1>3. Apart(t, q) /\ \A x \in CmdIds : AboveIn(q, x) <=> AboveIn(p, x)
  <2>1. \A x \in CmdIds : AboveIn(q, x) <=> AboveIn(p, x)
    BY <1>2 DEF AboveIn
  <2>2. Apart(t, q)
    BY <1>2 DEF Apart
  <2> QED BY <2>1, <2>2
<1>4. ASSUME NEW x \in CmdIds
      PROVE  q[x].inUse = One(TabledIn(t, x)) + One(AboveIn(q, x)) + Uses(Append(s, a), x) + One(h = x)
  <2>1. Uses(Append(s, a), x) = Uses(s, x) + One(c = x) /\ Uses(s, x) \in Nat
    BY UsesAppend, UsesIs
  <2>2. p[x].inUse = One(TabledIn(t, x)) + One(AboveIn(p, x)) + Uses(s, x) + One(h = x)
    BY DEF Exact
  <2>3. One(AboveIn(q, x)) = One(AboveIn(p, x))
    BY <1>3 DEF One
  <2>4. /\ One(TabledIn(t, x)) \in Nat /\ One(AboveIn(p, x)) \in Nat
        /\ One(h = x) \in Nat /\ One(c = x) \in Nat /\ One(x = c) = One(c = x)
    BY DEF One
  <2> QED BY <1>2, <2>1, <2>2, <2>3, <2>4
<1>5. Marked(t, q)
  BY <1>2, <1>3 DEF Marked
<1> QED BY <1>1, <1>2, <1>3, <1>4, <1>5 DEF Exact

\* A holder of a definition releases it; the marks of upcalls may go with that.
LEMMA ReleaseCounts ==
    ASSUME TypeOK, Counted, NEW c \in CmdIds,
           (\E i \in 1..Len(stack) : stack[i].cmd = c) \/ freeing.cmd = c,
           NEW q, Lowered(q, c), NEW s, NEW h, Dropped(s, h, c)
    PROVE  Sound(commands, q, s, h)
<1>1. PICK p : p = Decr(c)
  OBVIOUS
<1>2. Apart(commands, cmd) /\ Exact(commands, cmd, stack, freeing.cmd) /\ Marked(commands, cmd)
  BY DEF Counted
<1>3. LastUse(c) => ~AboveIn(cmd, c)
  BY HeldIsLast
<1>4. \A x \in CmdIds :
         /\ p[x].inUse = cmd[x].inUse - One(x = c) + One(AboveIn(p, x)) - One(AboveIn(cmd, x))
         /\ AboveIn(p, x) => AboveIn(cmd, x)
         /\ p[x].prev = cmd[x].prev \/ (p[x].prev = Nil /\ p[x].upcall = 0)
         /\ p[x].upcall = cmd[x].upcall \/ p[x].upcall = 0
  BY <1>1, <1>2, <1>3, DecrCounts
<1>5. \A x \in CmdIds : /\ q[x].inUse = p[x].inUse /\ q[x].prev = p[x].prev
                        /\ q[x].upcall > 0 => p[x].upcall > 0
  BY <1>1 DEF Lowered
<1>6. \A x \in CmdIds : AboveIn(q, x) <=> AboveIn(p, x)
  BY <1>5 DEF AboveIn
<1>7. Apart(commands, q)
  <2>1. \A j \in DOMAIN commands : commands[j] \in CmdIds
    BY DEF TypeOK
  <2>2. \A x \in CmdIds : q[x].prev \in {cmd[x].prev, Nil}
    BY <1>4, <1>5
  <2> QED BY <1>2, <2>1, <2>2, ApartShrinks
<1>8. ASSUME NEW x \in CmdIds
      PROVE  q[x].inUse = One(TabledIn(commands, x)) + One(AboveIn(q, x)) + Uses(s, x) + One(h = x)
  <2>1. cmd[x].inUse = One(TabledIn(commands, x)) + One(AboveIn(cmd, x)) + Uses(stack, x)
                       + One(freeing.cmd = x)
    BY <1>2 DEF Exact
  <2>2. Uses(stack, x) \in Nat
    <3>1. stack \in Seq(ActivationType)
      BY DEF TypeOK, ActivationType, MaybeCmd
    <3> QED BY <3>1, UsesIs
  <2>3. One(AboveIn(q, x)) = One(AboveIn(p, x))
    BY <1>6 DEF One
  <2>4. q[x].inUse = cmd[x].inUse - One(x = c) + One(AboveIn(p, x)) - One(AboveIn(cmd, x))
    BY <1>4, <1>5
  <2>5. /\ One(TabledIn(commands, x)) \in Nat /\ One(AboveIn(cmd, x)) \in Nat
        /\ One(AboveIn(p, x)) \in Nat /\ One(freeing.cmd = x) \in Nat /\ One(x = c) \in Nat
        /\ One(h = x) \in Nat
    BY DEF One
  <2>6. Uses(s, x) \in Nat /\ Uses(s, x) + One(h = x) + One(x = c)
                              = Uses(stack, x) + One(freeing.cmd = x)
    BY DEF Dropped
  <2> DEFINE n == cmd[x].inUse
             m == q[x].inUse
             a == One(AboveIn(cmd, x))
             b == One(AboveIn(p, x))
             l == One(TabledIn(commands, x))
             us == Uses(stack, x)
             vs == Uses(s, x)
             g == One(freeing.cmd = x)
             e == One(h = x)
             d == One(x = c)
  <2>7. n = l + a + us + g /\ m = n - d + b - a /\ vs + e + d = us + g
    BY <2>1, <2>4, <2>6
  <2>8. /\ l \in Nat /\ a \in Nat /\ b \in Nat /\ g \in Nat /\ d \in Nat /\ e \in Nat
        /\ us \in Nat /\ vs \in Nat
    BY <2>2, <2>5, <2>6
  <2> HIDE DEF n, m, a, b, l, us, vs, g, e, d
  <2>9. m = l + b + vs + e
    <3>1. us + g - d = vs + e
      BY <2>7, <2>8
    <3>2. m = l + b + (us + g - d)
      BY <2>7, <2>8
    <3> QED BY <2>8, <3>1, <3>2
  <2> QED BY <2>3, <2>9 DEF m, b, l, vs, e
<1>9. ASSUME NEW x \in CmdIds, q[x].upcall > 0, q[x].prev = Nil
      PROVE  ~TabledIn(commands, x) /\ ~AboveIn(q, x)
  <2>1. p[x].upcall > 0 /\ p[x].prev = Nil
    BY <1>5, <1>9
  <2>2. cmd[x].upcall > 0 /\ cmd[x].prev = Nil
    BY <1>4, <2>1
  <2> QED BY <1>2, <1>4, <1>6, <2>2 DEF Marked
<1> QED BY <1>7, <1>8, <1>9 DEF Exact, Marked, Sound

\* A renamed definition keeps its holders.
LEMMA RenameCounted ==
    ASSUME TypeOK, FramesOK, Counted, NEW w \in Words, NEW v \in Words, Rename(w, v)
    PROVE  Counted'
<1> DEFINE old == Qualify(CurNs, w)
           new == Qualify(CurNs, v)
           c == commands[old]
<1>1. old \in DOMAIN commands /\ new \notin DOMAIN commands /\ c \in CmdIds
  BY DEF Rename, TypeOK
<1>2. Apart(commands, cmd) /\ Exact(commands, cmd, stack, freeing.cmd) /\ Marked(commands, cmd)
  BY DEF Counted
<1>3. PICK u, q : u = commands' /\ q = cmd'
  OBVIOUS
<1>4. /\ DOMAIN u = (DOMAIN commands \ {old}) \cup {new} /\ u[new] = c
      /\ \A j \in DOMAIN commands \ {old} : u[j] = commands[j]
  BY <1>1, <1>3 DEF Rename
<1>5. \A x \in CmdIds : /\ q[x].prev = cmd[x].prev /\ q[x].upcall = cmd[x].upcall
                        /\ q[x].inUse = cmd[x].inUse
  <2>1. q = cmd \/ q = [cmd EXCEPT ![c].ns = NamedNs(new, cmd[c].ns)]
    BY <1>3 DEF Rename, Renamed
  <2>2. \A x \in CmdIds : cmd[x] \in CmdType
    BY DEF TypeOK
  <2>3. \A n : LET r == [cmd[c] EXCEPT !.ns = n]
               IN  r.prev = cmd[c].prev /\ r.upcall = cmd[c].upcall /\ r.inUse = cmd[c].inUse
    BY <1>1, <2>2 DEF CmdType
  <2>4. cmd \in [CmdIds -> CmdType]
    BY DEF TypeOK
  <2>5. (\A x \in CmdIds : x # c => q[x] = cmd[x])
        /\ (q[c] = cmd[c] \/ q[c] = [cmd[c] EXCEPT !.ns = NamedNs(new, cmd[c].ns)])
    <3> HIDE DEF c, new
    <3> QED BY <1>1, <2>1, <2>4
  <2>6. q[c].prev = cmd[c].prev /\ q[c].upcall = cmd[c].upcall /\ q[c].inUse = cmd[c].inUse
    <3> HIDE DEF c, new
    <3> QED BY <2>3, <2>5
  <2> HIDE DEF c, new
  <2> QED BY <2>5, <2>6
<1> HIDE DEF old, new, c
<1>6. \A x : TabledIn(u, x) <=> TabledIn(commands, x)
  <2> SUFFICES ASSUME NEW x PROVE TabledIn(u, x) <=> TabledIn(commands, x)
    OBVIOUS
  <2>1. TabledIn(u, x) => TabledIn(commands, x)
    BY <1>1, <1>4 DEF TabledIn, c
  <2>2. ASSUME NEW j \in DOMAIN commands, commands[j] = x PROVE TabledIn(u, x)
    <3>1. CASE j = old
      BY <1>4, <2>2, <3>1 DEF TabledIn, c
    <3>2. CASE j # old
      BY <1>4, <2>2, <3>2 DEF TabledIn
    <3> QED BY <3>1, <3>2
  <2> QED BY <2>1, <2>2 DEF TabledIn
<1>7. \A x \in CmdIds : AboveIn(q, x) <=> AboveIn(cmd, x)
  BY <1>5 DEF AboveIn
<1>8. Apart(u, q)
  <2>1. \A i, j \in DOMAIN u : u[i] = u[j] => i = j
    <3>1. \A i, j \in DOMAIN commands : commands[i] = commands[j] => i = j
      BY <1>2 DEF Apart
    <3> QED BY <1>1, <1>4, <3>1 DEF c
  <2>2. \A d, e \in CmdIds : q[d].prev = q[e].prev /\ q[d].prev # Nil => d = e
    BY <1>2, <1>5 DEF Apart
  <2>3. \A k \in DOMAIN u : \A d \in CmdIds : u[k] # q[d].prev
    <3>1. \A k \in DOMAIN u : TabledIn(commands, u[k])
      BY <1>6 DEF TabledIn
    <3> QED BY <1>2, <1>5, <3>1 DEF Apart, TabledIn
  <2> QED BY <2>1, <2>2, <2>3 DEF Apart
<1>9. Exact(u, q, stack, freeing.cmd)
  <2> SUFFICES ASSUME NEW x \in CmdIds
               PROVE  q[x].inUse = One(TabledIn(u, x)) + One(AboveIn(q, x)) + Uses(stack, x)
                                   + One(freeing.cmd = x)
    BY DEF Exact
  <2>1. One(TabledIn(u, x)) = One(TabledIn(commands, x)) /\ One(AboveIn(q, x)) = One(AboveIn(cmd, x))
    BY <1>6, <1>7 DEF One
  <2>2. cmd[x].inUse = One(TabledIn(commands, x)) + One(AboveIn(cmd, x)) + Uses(stack, x)
                       + One(freeing.cmd = x)
    BY <1>2 DEF Exact
  <2> QED BY <1>5, <2>1, <2>2
<1>10. Marked(u, q)
  BY <1>2, <1>5, <1>6, <1>7 DEF Marked
<1>11. UNCHANGED <<stack, freeing>>
  BY DEF Rename, control
<1> QED BY <1>3, <1>8, <1>9, <1>10, <1>11, SameHolders
\* A local command that gives way to the definition it was pushed over hands it its
\* place in the table.
LEMMA DeleteLocalCounted ==
    ASSUME TypeOK, Counted, DeleteLocal
    PROVE  Counted'
<1> DEFINE k == Qualify(CurNs, Head(freeing.locals))
           unlinked == [cmd EXCEPT ![commands[k]].prev = Nil]
<1>0. Apart(commands, cmd) /\ Exact(commands, cmd, stack, freeing.cmd) /\ Marked(commands, cmd)
  BY DEF Counted
<1>1. stack' = stack /\ freeing'.cmd = freeing.cmd /\ freeing'.on = freeing.on /\ freeing.on
  BY DEF DeleteLocal, TypeOK
<1>2. Idle'
  BY <1>1 DEF Counted, Idle
<1>3. CASE k \notin DOMAIN commands
  <2>1. commands' = commands /\ cmd' = cmd
    BY <1>3 DEF DeleteLocal
  <2> QED BY <1>0, <1>1, <1>2, <2>1 DEF Counted, Exact, Uses
<1>4. CASE k \in DOMAIN commands
  <2>1. PICK c \in CmdIds : c = commands[k]
    BY <1>4 DEF TypeOK
  <2>2. PICK b : b = cmd[c].prev
    OBVIOUS
  <2>3. PICK u, q : u = commands' /\ q = cmd'
    OBVIOUS
  <2>4. cmd \in [CmdIds -> CmdType] /\ cmd[c] \in CmdType /\ b \in MaybeCmd /\ Nil \notin CmdIds
    BY <2>2, PoolAssumption DEF TypeOK, CmdType, MaybeCmd
  <2>5. /\ q[c].prev = Nil /\ q[c].inUse = cmd[c].inUse - 1
        /\ q[c].upcall = cmd[c].upcall \/ q[c].upcall = 0
        /\ \A x \in CmdIds : x # c => q[x] = cmd[x]
    <3>1. unlinked[c] = [cmd[c] EXCEPT !.prev = Nil] /\ \A x \in CmdIds : x # c => unlinked[x] = cmd[x]
      BY <2>1, <2>4
    <3>2. q = [unlinked EXCEPT ![c] = IF LastUse(c) THEN NoCmd
                                     ELSE [unlinked[c] EXCEPT !.inUse = @ - 1]]
      BY <1>4, <2>1, <2>3 DEF DeleteLocal
    <3>3. DOMAIN unlinked = CmdIds
      BY <2>4
    <3>4. /\ unlinked[c].prev = Nil /\ unlinked[c].inUse = cmd[c].inUse
          /\ unlinked[c].upcall = cmd[c].upcall /\ unlinked[c] \in CmdType
      BY <2>4, <3>1 DEF CmdType
    <3> HIDE DEF unlinked
    <3>5. q[c] = IF LastUse(c) THEN NoCmd ELSE [unlinked[c] EXCEPT !.inUse = @ - 1]
      BY <3>2, <3>3
    <3>6. \A x \in CmdIds : x # c => q[x] = cmd[x]
      BY <3>1, <3>2, <3>3
    <3>7. CASE LastUse(c)
      BY <3>5, <3>6, <3>7 DEF LastUse, NoCmd
    <3>8. CASE ~LastUse(c)
      <4>1. q[c] = [unlinked[c] EXCEPT !.inUse = @ - 1]
        BY <3>5, <3>8
      <4>2. /\ q[c].prev = unlinked[c].prev /\ q[c].upcall = unlinked[c].upcall
            /\ q[c].inUse = unlinked[c].inUse - 1
        BY <3>4, <4>1 DEF CmdType
      <4> QED BY <3>4, <3>6, <4>2
    <3> QED BY <3>7, <3>8
  <2>6. /\ b # Nil => /\ DOMAIN u = DOMAIN commands /\ u[k] = b
                      /\ \A j \in DOMAIN commands : j # k => u[j] = commands[j]
        /\ b = Nil => /\ DOMAIN u = DOMAIN commands \ {k}
                      /\ \A j \in DOMAIN commands : j # k => u[j] = commands[j]
    BY <1>4, <2>1, <2>2, <2>3 DEF DeleteLocal, Restored, With, Without
  <2> HIDE DEF k, unlinked
  <2>7. \A j \in DOMAIN commands : commands[j] = c => j = k
    BY <1>0, <1>4, <2>1 DEF Apart
  <2>8. \A d \in CmdIds : cmd[d].prev # c
    BY <1>0, <1>4, <2>1 DEF Apart
  <2>9. b # Nil => /\ b \in CmdIds /\ b # c /\ ~TabledIn(commands, b) /\ AboveIn(cmd, b)
                   /\ \A d \in CmdIds : cmd[d].prev = b => d = c
    BY <1>0, <2>2, <2>4, <2>8 DEF Apart, TabledIn, AboveIn, MaybeCmd
  <2>10. ASSUME NEW x \in CmdIds
         PROVE  TabledIn(u, x) <=> (TabledIn(commands, x) /\ x # c) \/ x = b
    <3>1. ASSUME TabledIn(u, x) PROVE (TabledIn(commands, x) /\ x # c) \/ x = b
      BY <2>4, <2>6, <2>7, <3>1 DEF TabledIn
    <3>2. ASSUME TabledIn(commands, x), x # c PROVE TabledIn(u, x)
      BY <2>1, <2>6, <3>2 DEF TabledIn
    <3>3. ASSUME x = b PROVE TabledIn(u, x)
      BY <1>4, <2>4, <2>6, <3>3 DEF TabledIn
    <3> QED BY <3>1, <3>2, <3>3
  <2>11. ASSUME NEW x \in CmdIds
         PROVE  AboveIn(q, x) <=> AboveIn(cmd, x) /\ x # b
    <3>1. ASSUME AboveIn(q, x) PROVE AboveIn(cmd, x) /\ x # b
      <4>1. PICK d \in CmdIds : q[d].prev = x
        BY <3>1 DEF AboveIn
      <4>2. d # c /\ cmd[d].prev = x
        BY <2>4, <2>5, <4>1
      <4> QED BY <2>4, <2>9, <4>2 DEF AboveIn
    <3>2. ASSUME AboveIn(cmd, x), x # b PROVE AboveIn(q, x)
      BY <2>2, <2>5, <3>2 DEF AboveIn
    <3> QED BY <3>1, <3>2
  <2>12. TabledIn(commands, c)
    BY <1>4, <2>1 DEF TabledIn
  <2>13. Apart(u, q)
    <3>1. \A i, j \in DOMAIN u : u[i] = u[j] => i = j
      <4>1. \A i, j \in DOMAIN commands : commands[i] = commands[j] => i = j
        BY <1>0 DEF Apart
      <4>2. b # Nil => \A j \in DOMAIN commands : commands[j] # b
        BY <2>9 DEF TabledIn
      <4> QED BY <2>6, <4>1, <4>2
    <3>2. \A d, e \in CmdIds : q[d].prev = q[e].prev /\ q[d].prev # Nil => d = e
      BY <1>0, <2>5 DEF Apart
    <3>3. ASSUME NEW j \in DOMAIN u, NEW d \in CmdIds PROVE u[j] # q[d].prev
      <4>1. \A i \in DOMAIN commands : commands[i] \in CmdIds
        BY DEF TypeOK
      <4>2. u[j] \in CmdIds
        BY <2>4, <2>6, <2>9, <4>1
      <4>3. CASE d = c
        BY <2>4, <2>5, <4>2, <4>3
      <4>4. CASE d # c
        <5>1. q[d].prev = cmd[d].prev
          BY <2>5, <4>4
        <5>2. (u[j] = commands[j] /\ j \in DOMAIN commands) \/ (u[j] = b /\ b # Nil)
          BY <2>4, <2>6
        <5>3. CASE u[j] = commands[j] /\ j \in DOMAIN commands
          BY <1>0, <5>1, <5>3 DEF Apart
        <5>4. CASE u[j] = b /\ b # Nil
          BY <2>9, <4>4, <5>1, <5>4
        <5> QED BY <5>2, <5>3, <5>4
      <4> QED BY <4>3, <4>4
    <3> QED BY <3>1, <3>2, <3>3 DEF Apart
  <2>14. ASSUME NEW x \in CmdIds
         PROVE  q[x].inUse = One(TabledIn(u, x)) + One(AboveIn(q, x)) + Uses(stack, x)
                             + One(freeing.cmd = x)
    <3>1. cmd[x].inUse = One(TabledIn(commands, x)) + One(AboveIn(cmd, x)) + Uses(stack, x)
                         + One(freeing.cmd = x)
      BY <1>0 DEF Exact
    <3>2. Uses(stack, x) \in Nat
      <4>1. stack \in Seq(ActivationType)
        BY DEF TypeOK, ActivationType, MaybeCmd
      <4> QED BY <4>1, UsesIs
    <3>3. One(freeing.cmd = x) \in Nat
      BY DEF One
    <3>4. CASE x = c
      <4>1. q[x].inUse = cmd[x].inUse - 1
        BY <2>5, <3>4
      <4>2. /\ One(TabledIn(commands, x)) = 1 /\ One(TabledIn(u, x)) = 0
            /\ One(AboveIn(cmd, x)) = 0 /\ One(AboveIn(q, x)) = 0
        BY <2>4, <2>8, <2>9, <2>10, <2>11, <2>12, <3>4 DEF One, AboveIn
      <4> QED BY <3>1, <3>2, <3>3, <4>1, <4>2
    <3>5. CASE x # c
      <4>1. q[x].inUse = cmd[x].inUse
        BY <2>5, <3>5
      <4>2. CASE x = b
        <5>1. /\ One(TabledIn(commands, x)) = 0 /\ One(TabledIn(u, x)) = 1
              /\ One(AboveIn(cmd, x)) = 1 /\ One(AboveIn(q, x)) = 0
          BY <2>4, <2>9, <2>10, <2>11, <4>2 DEF One
        <5> QED BY <3>1, <3>2, <3>3, <4>1, <5>1
      <4>3. CASE x # b
        <5>1. /\ One(TabledIn(commands, x)) = One(TabledIn(u, x))
              /\ One(AboveIn(cmd, x)) = One(AboveIn(q, x))
          BY <2>10, <2>11, <3>5, <4>3 DEF One
        <5> QED BY <3>1, <4>1, <5>1
      <4> QED BY <4>2, <4>3
    <3> QED BY <3>4, <3>5
  <2>15. ASSUME NEW x \in CmdIds, q[x].upcall > 0, q[x].prev = Nil
         PROVE  ~TabledIn(u, x) /\ ~AboveIn(q, x)
    <3>1. CASE x = c
      BY <2>4, <2>8, <2>9, <2>10, <2>11, <3>1 DEF AboveIn
    <3>2. CASE x # c
      <4>1. cmd[x].upcall > 0 /\ cmd[x].prev = Nil
        BY <2>5, <2>15, <3>2
      <4>2. ~TabledIn(commands, x) /\ ~AboveIn(cmd, x)
        BY <1>0, <4>1 DEF Marked
      <4>3. x # b
        BY <2>9, <4>2, <2>4
      <4> QED BY <2>10, <2>11, <4>2, <4>3
    <3> QED BY <3>1, <3>2
  <2>16. Exact(u, q, stack, freeing.cmd)
    BY <2>14 DEF Exact
  <2>17. Marked(u, q)
    BY <2>15 DEF Marked
  <2>18. Exact(u, q, stack', freeing'.cmd)
    BY <1>1, <2>16
  <2> QED BY <1>2, <2>3, <2>13, <2>17, <2>18 DEF Counted
<1> QED BY <1>3, <1>4
\* A new activation that is not a [local] with a command, or one less, keeps the
\* activations in order.
LEMMA IdleKept ==
    ASSUME TypeOK, Idle, freeing' = freeing,
           \/ \E a \in ActivationType : /\ stack' = Append(stack, a)
                                        /\ a.kind = "local" => a.cmd = Nil
           \/ \E a, b \in ActivationType : /\ stack' = Append(Append(stack, a), b)
                                           /\ a.kind # "local" /\ b.kind # "local"
           \/ stack # <<>> /\ stack' = Pop(stack)
    PROVE  Idle'
<1>1. stack \in Seq(ActivationType)
  BY DEF TypeOK, ActivationType, MaybeCmd
<1>2. \A i \in 1..Len(stack) : stack[i].kind = "local" => stack[i].cmd = Nil
  BY DEF Idle
<1>3. CASE \E a \in ActivationType : /\ stack' = Append(stack, a)
                                     /\ a.kind = "local" => a.cmd = Nil
  <2>1. PICK a \in ActivationType : stack' = Append(stack, a) /\ (a.kind = "local" => a.cmd = Nil)
    BY <1>3
  <2>2. /\ Len(stack') = Len(stack) + 1 /\ Len(stack) \in Nat
        /\ \A i \in 1..Len(stack) + 1 : stack'[i] = IF i <= Len(stack) THEN stack[i] ELSE a
    BY <1>1, <2>1, AppendAt
  <2> QED BY <1>2, <2>1, <2>2 DEF Idle
<1>4. CASE \E a, b \in ActivationType : /\ stack' = Append(Append(stack, a), b)
                                        /\ a.kind # "local" /\ b.kind # "local"
  <2>1. PICK a \in ActivationType, b \in ActivationType :
            stack' = Append(Append(stack, a), b) /\ a.kind # "local" /\ b.kind # "local"
    BY <1>4
  <2>2. PICK s : s = Append(stack, a)
    OBVIOUS
  <2>3. /\ s \in Seq(ActivationType) /\ Len(s) = Len(stack) + 1 /\ Len(stack) \in Nat
        /\ \A i \in 1..Len(stack) + 1 : s[i] = IF i <= Len(stack) THEN stack[i] ELSE a
    BY <1>1, <2>2, AppendAt
  <2>4. /\ Len(stack') = Len(s) + 1
        /\ \A i \in 1..Len(s) + 1 : stack'[i] = IF i <= Len(s) THEN s[i] ELSE b
    BY <2>1, <2>2, <2>3, AppendAt
  <2>5. \A i \in 1..Len(s) : s[i].kind = "local" => s[i].cmd = Nil
    BY <1>2, <2>1, <2>3
  <2>6. \A i \in 1..Len(stack') : stack'[i].kind = "local" => stack'[i].cmd = Nil
    <3> SUFFICES ASSUME NEW i \in 1..Len(stack'), stack'[i].kind = "local"
                 PROVE  stack'[i].cmd = Nil
      OBVIOUS
    <3>1. CASE i <= Len(s)
      BY <2>3, <2>4, <2>5, <3>1
    <3>2. CASE ~(i <= Len(s))
      BY <2>1, <2>3, <2>4, <3>2
    <3> QED BY <3>1, <3>2
  <2> QED BY <2>6 DEF Idle
<1>5. CASE stack # <<>> /\ stack' = Pop(stack)
  <2>1. /\ Len(stack) \in 1..Len(stack) /\ Len(Pop(stack)) = Len(stack) - 1
        /\ \A i \in 1..Len(stack) - 1 : Pop(stack)[i] = stack[i]
    BY <1>5, PopTypes
  <2>2. Len(stack) \in Nat
    BY <1>1, LenProperties
  <2>3. \A i \in 1..Len(stack') : i \in 1..Len(stack) /\ stack'[i] = stack[i]
    BY <1>5, <2>1, <2>2
  <2> QED BY <1>2, <2>3 DEF Idle
<1> QED BY <1>3, <1>4, <1>5

\* Invoking a command, from [upcall] or not, counts the holds it takes.
LEMMA InvokeCounted ==
    ASSUME TypeOK, FramesOK, Counted, NEW w \in Words, Invoke(w) \/ Upcall(w)
    PROVE  Counted'
<1>1. stack \in Seq(ActivationType) /\ cmd \in [CmdIds -> CmdType] /\ Len(frames) \in Nat
  BY CurNsType DEF TypeOK, ActivationType, MaybeCmd
<1>2. Apart(commands, cmd) /\ Exact(commands, cmd, stack, freeing.cmd) /\ Marked(commands, cmd)
  BY DEF Counted
<1>3. commands' = commands /\ freeing' = freeing
  BY DEF Invoke, Upcall
<1>4. PICK c \in CmdIds : c = GetCommand(w)
  BY LookupType DEF Invoke, Upcall, MaybeCmd
<1>5. \A x \in CmdIds : /\ Activation("call", x) \in ActivationType
                        /\ Activation("call", x).cmd = x /\ Activation("call", x).kind = "call"
                        /\ Activation("upcall", x) \in ActivationType
                        /\ Activation("upcall", x).cmd = x /\ Activation("upcall", x).kind = "upcall"
  BY <1>1 DEF Activation, ActivationType, MaybeCmd
<1>6. PICK q : q = cmd'
  OBVIOUS
<1>7. CASE Invoke(w)
  <2>1. PICK a \in ActivationType : a = Activation("call", c)
    BY <1>5
  <2>2. stack' = Append(stack, a)
    BY <1>1, <1>4, <1>7, <2>1, AppendIsConcat DEF Invoke, Enter
  <2>3. a.cmd = c /\ a.kind = "call" /\ q = [cmd EXCEPT ![c].inUse = @ + 1]
    BY <1>4, <1>5, <1>6, <1>7, <2>1 DEF Invoke
  <2>4. Sound(commands, q, Append(stack, a), freeing.cmd)
    <3>1. Sound(commands, cmd, stack, freeing.cmd)
      BY <1>2 DEF Sound
    <3> QED BY <1>1, <2>3, <3>1, HoldCounts
  <2>5. Idle'
    BY <1>3, <2>2, <2>3, IdleKept DEF Counted
  <2> QED BY <1>3, <1>6, <2>2, <2>4, <2>5 DEF Counted, Sound
<1>8. CASE Upcall(w)
  <2>1. cmd[c].prev # Nil /\ cmd[c] \in CmdType
    BY <1>1, <1>4, <1>8 DEF Upcall
  <2>2. PICK target \in CmdIds : target = AfterRun(cmd[c].prev, InUpcall)
    <3>1. cmd[c].prev \in CmdIds
      BY <2>1 DEF CmdType
    <3>2. AfterRun(cmd[c].prev, InUpcall) \in MaybeCmd
      BY <3>1, AfterRunType
    <3> QED BY <1>4, <1>8, <3>2 DEF Upcall, MaybeCmd
  <2>3. PICK a \in ActivationType : a = Activation("upcall", c)
    BY <1>5
  <2>4. PICK b \in ActivationType : b = Activation("call", target)
    BY <1>5
  <2>5. a.cmd = c /\ a.kind = "upcall" /\ b.cmd = target /\ b.kind = "call"
    BY <1>5, <2>3, <2>4
  <2>6. PICK s : s = Append(stack, a)
    OBVIOUS
  <2>7. stack' = Append(s, b) /\ s \in Seq(ActivationType)
    <3>1. stack' = stack \o <<a, b>>
      BY <1>4, <1>8, <2>2, <2>3, <2>4 DEF Upcall, Enter
    <3>2. /\ s \in Seq(ActivationType) /\ Len(s) = Len(stack) + 1 /\ Len(stack) \in Nat
          /\ \A i \in 1..Len(stack) + 1 : s[i] = IF i <= Len(stack) THEN stack[i] ELSE a
      BY <1>1, <2>6, AppendAt
    <3>3. PICK u : u = Append(s, b)
      OBVIOUS
    <3>4. /\ u \in Seq(ActivationType) /\ Len(u) = Len(s) + 1
          /\ \A i \in 1..Len(s) + 1 : u[i] = IF i <= Len(s) THEN s[i] ELSE b
      BY <3>2, <3>3, AppendAt
    <3>5. PICK z : z = <<a, b>>
      OBVIOUS
    <3>6. z \in Seq(ActivationType) /\ Len(z) = 2 /\ z[1] = a /\ z[2] = b
      BY <3>5
    <3>7. PICK v : v = stack \o z
      OBVIOUS
    <3>8. /\ v \in Seq(ActivationType) /\ Len(v) = Len(stack) + 2
          /\ \A i \in 1..Len(stack) + 2 :
                v[i] = IF i <= Len(stack) THEN stack[i] ELSE z[i - Len(stack)]
      <4>1. /\ v \in Seq(ActivationType) /\ Len(v) = Len(stack) + Len(z)
            /\ \A i \in 1..Len(stack) + Len(z) :
                  v[i] = IF i <= Len(stack) THEN stack[i] ELSE z[i - Len(stack)]
        BY <1>1, <3>6, <3>7, ConcatProperties
      <4> QED BY <3>6, <4>1
    <3>9. ASSUME NEW i \in 1..Len(u) PROVE u[i] = v[i]
      <4>1. CASE i <= Len(stack)
        BY <3>2, <3>4, <3>8, <4>1
      <4>2. CASE i = Len(stack) + 1
        BY <3>2, <3>4, <3>6, <3>8, <4>2, SMTT(30)
      <4>3. CASE i = Len(stack) + 2
        BY <3>2, <3>4, <3>6, <3>8, <4>3, SMTT(30)
      <4> QED BY <3>2, <3>4, <4>1, <4>2, <4>3
    <3>10. Len(u) = Len(v)
      BY <3>2, <3>4, <3>8
    <3>11. u = v
      BY <3>4, <3>8, <3>9, <3>10, SeqEqual
    <3> QED BY <3>1, <3>2, <3>3, <3>5, <3>7, <3>11
  <2>8. PICK p : p = [cmd EXCEPT ![c].upcall = @ + 1]
    OBVIOUS
  <2>9. PICK r : r = [p EXCEPT ![c].inUse = @ + 1]
    OBVIOUS
  <2>10. q = [r EXCEPT ![target].inUse = @ + 1]
    BY <1>4, <1>6, <1>8, <2>2, <2>8, <2>9 DEF Upcall
  <2>11. /\ p \in [CmdIds -> CmdType]
         /\ \A x \in CmdIds : /\ p[x].prev = cmd[x].prev /\ p[x].inUse = cmd[x].inUse
                              /\ x # c => p[x].upcall = cmd[x].upcall
    <3>1. p \in [CmdIds -> CmdType]
      BY <1>1, <2>8, CountUp
    <3>2. LET n == [cmd[c] EXCEPT !.upcall = @ + 1]
          IN  n.prev = cmd[c].prev /\ n.inUse = cmd[c].inUse
      BY <2>1 DEF CmdType
    <3>3. p[c] = [cmd[c] EXCEPT !.upcall = @ + 1] /\ \A x \in CmdIds : x # c => p[x] = cmd[x]
      BY <1>1, <2>8
    <3> QED BY <3>1, <3>2, <3>3
  <2>12. Apart(commands, p) /\ Exact(commands, p, stack, freeing.cmd) /\ Marked(commands, p)
    <3>1. \A x \in CmdIds : AboveIn(p, x) <=> AboveIn(cmd, x)
      BY <2>11 DEF AboveIn
    <3>2. Apart(commands, p)
      BY <1>2, <2>11 DEF Apart
    <3>3. Exact(commands, p, stack, freeing.cmd)
      <4>1. \A x \in CmdIds : One(AboveIn(p, x)) = One(AboveIn(cmd, x))
        BY <3>1 DEF One
      <4> QED BY <1>2, <2>11, <4>1 DEF Exact
    <3>4. Marked(commands, p)
      BY <1>2, <2>1, <2>11, <3>1 DEF Marked
    <3> QED BY <3>2, <3>3, <3>4
  <2>13. r \in [CmdIds -> CmdType] /\ Sound(commands, r, s, freeing.cmd)
    <3>1. Sound(commands, p, stack, freeing.cmd)
      BY <2>12 DEF Sound
    <3>2. p \in [CmdIds -> CmdType] /\ stack \in Seq(ActivationType) /\ a.cmd = c
      BY <1>1, <2>5, <2>11
    <3>3. Sound(commands, r, Append(stack, a), freeing.cmd)
      BY <2>9, <3>1, <3>2, HoldCounts
    <3>4. r \in [CmdIds -> CmdType]
      BY <2>9, <3>2, CountUp
    <3> QED BY <2>6, <3>3, <3>4
  <2>14. Sound(commands, q, Append(s, b), freeing.cmd)
    BY <2>5, <2>7, <2>10, <2>13, HoldCounts
  <2>15. Idle'
    <3>1. stack' = Append(Append(stack, a), b) /\ a.kind # "local" /\ b.kind # "local"
      BY <2>5, <2>6, <2>7
    <3> QED BY <1>3, <3>1, IdleKept DEF Counted
  <2> QED BY <1>3, <1>6, <2>7, <2>14, <2>15 DEF Counted, Sound
<1> QED BY <1>7, <1>8

\* Every step keeps the counts.
LEMMA NextCounted == Inv /\ Counted /\ [Next]_vars => Counted'
<1> SUFFICES ASSUME Inv, Counted, [Next]_vars PROVE Counted'
  OBVIOUS
<1>0. TypeOK /\ FramesOK
  BY DEF Inv
<1>a. /\ Apart(commands, cmd) /\ Exact(commands, cmd, stack, freeing.cmd)
      /\ Marked(commands, cmd) /\ Idle
  BY DEF Counted
<1>b. stack \in Seq(ActivationType) /\ Nil \notin CmdIds /\ Len(frames) \in Nat
  BY <1>0, CurNsType, PoolAssumption DEF TypeOK, ActivationType, MaybeCmd
<1>1. ASSUME NEW w \in Words, Proc(w) \/ Alias(w) PROVE Counted'
  BY <1>0, <1>1, CreateCounted DEF Proc, Alias
<1>2. ASSUME NEW w \in Words, Delete(w) PROVE Counted'
  <2>1. PICK k \in DOMAIN commands : k = Qualify(CurNs, w)
    BY <1>2 DEF Delete
  <2>2. PICK q : q = cmd'
    OBVIOUS
  <2>3. q = Decr(commands[k]) /\ commands' = Without(k) /\ UNCHANGED <<stack, freeing>>
    BY <1>2, <2>1, <2>2 DEF Delete, control
  <2>4. /\ Apart(Without(k), q) /\ Exact(Without(k), q, stack, freeing.cmd)
        /\ Marked(Without(k), q)
    BY <1>0, <2>3, DeleteCounted
  <2> QED BY <2>2, <2>3, <2>4, SameHolders
<1>3. ASSUME NEW w \in Words, NEW v \in Words, Rename(w, v) PROVE Counted'
  BY <1>0, <1>3, RenameCounted
<1>4. ASSUME NEW w \in Words, Invoke(w) \/ Upcall(w) PROVE Counted'
  BY <1>0, <1>4, InvokeCounted
<1>5. ASSUME NEW kind \in {"eval", "local"}, stack' = Append(stack, Activation(kind, Nil)),
             UNCHANGED <<commands, cmd, freeing>>
      PROVE  Counted'
  <2>1. PICK a \in ActivationType : a = Activation(kind, Nil)
    BY <1>b DEF Activation, ActivationType, MaybeCmd
  <2>2. a.cmd = Nil /\ stack' = Append(stack, a)
    BY <1>5, <2>1 DEF Activation
  <2>3. \A x \in CmdIds : Uses(Append(stack, a), x) = Uses(stack, x)
    <3> SUFFICES ASSUME NEW x \in CmdIds PROVE Uses(Append(stack, a), x) = Uses(stack, x)
      OBVIOUS
    <3>1. Uses(Append(stack, a), x) = Uses(stack, x) + One(a.cmd = x) /\ Uses(stack, x) \in Nat
      BY <1>b, UsesAppend, UsesIs
    <3>2. One(a.cmd = x) = 0
      BY <1>b, <2>2 DEF One
    <3> QED BY <3>1, <3>2
  <2>4. Exact(commands, cmd, Append(stack, a), freeing.cmd)
    BY <1>a, <2>3 DEF Exact
  <2>5. Idle'
    BY <1>0, <1>5, <1>a, <2>2, IdleKept
  <2> QED BY <1>5, <1>a, <2>2, <2>4, <2>5 DEF Counted
<1>6. ASSUME NEW n \in Namespaces, NamespaceEval(n) PROVE Counted'
  BY <1>5, <1>6 DEF NamespaceEval
<1>7. CASE LocalBegin
  BY <1>5, <1>7 DEF LocalBegin
<1>8. ASSUME LocalFail \/ \E w \in Words : LocalEnd(w) PROVE Counted'
  <2>1. /\ stack # <<>> /\ Top.kind = "local" /\ stack' = Pop(stack)
        /\ UNCHANGED <<commands, cmd, freeing>>
    BY <1>8 DEF LocalFail, LocalEnd, Ending
  <2>2. Top.cmd = Nil
    BY <1>0, <1>a, <2>1, PopTypes DEF Idle, Top
  <2>3. \A x \in CmdIds : Uses(Pop(stack), x) = Uses(stack, x)
    <3> SUFFICES ASSUME NEW x \in CmdIds PROVE Uses(Pop(stack), x) = Uses(stack, x)
      OBVIOUS
    <3>1. Uses(stack, x) = Uses(Pop(stack), x) + One(Top.cmd = x) /\ Uses(Pop(stack), x) \in Nat
      BY <1>0, <2>1, UsesPop
    <3>2. One(Top.cmd = x) = 0
      BY <1>b, <2>2 DEF One
    <3> QED BY <3>1, <3>2
  <2>4. Exact(commands, cmd, Pop(stack), freeing.cmd)
    BY <1>a, <2>3 DEF Exact
  <2>5. Idle'
    BY <1>0, <1>a, <2>1, IdleKept
  <2> QED BY <1>a, <2>1, <2>4, <2>5 DEF Counted
<1>9. CASE UpcallEnd
  <2>1. /\ stack # <<>> /\ Top.kind = "upcall" /\ stack' = Pop(stack)
        /\ UNCHANGED <<commands, freeing>>
    BY <1>9 DEF UpcallEnd, Ending
  <2>2. Len(stack) \in 1..Len(stack)
    BY <1>0, <2>1, PopTypes
  <2>3. PICK c \in CmdIds : c = Top.cmd
    BY <1>0, <2>1, <2>2 DEF FramesOK, Top
  <2>4. PICK q : q = cmd'
    OBVIOUS
  <2>5. Lowered(q, c)
    <3> SUFFICES ASSUME NEW x \in CmdIds
                 PROVE  /\ q[x].inUse = Decr(c)[x].inUse /\ q[x].prev = Decr(c)[x].prev
                        /\ q[x].upcall > 0 => Decr(c)[x].upcall > 0
      BY DEF Lowered
    <3>1. Decr(c)[x] \in CmdType
      BY <1>0, DecrType
    <3>2. q[x] = Decr(c)[x] \/ q[x] = [Decr(c)[x] EXCEPT !.upcall = @ - 1]
      BY <1>9, <2>3, <2>4 DEF UpcallEnd
    <3>3. PICK n, r : n = [r EXCEPT !.upcall = @ - 1] /\ r = Decr(c)[x]
      OBVIOUS
    <3>4. /\ n.inUse = r.inUse /\ n.prev = r.prev
          /\ n.upcall = r.upcall - 1 /\ r.upcall \in Int
      BY <3>1, <3>3 DEF CmdType
    <3>5. q[x] = r \/ q[x] = n
      BY <3>2, <3>3
    <3>6. q[x].inUse = r.inUse /\ q[x].prev = r.prev /\ (q[x].upcall > 0 => r.upcall > 0)
      BY <3>4, <3>5
    <3> QED BY <3>3, <3>6
  <2>6. Dropped(Pop(stack), freeing.cmd, c)
    <3> SUFFICES ASSUME NEW x \in CmdIds
                 PROVE  /\ Uses(Pop(stack), x) \in Nat
                        /\ Uses(Pop(stack), x) + One(freeing.cmd = x) + One(x = c)
                           = Uses(stack, x) + One(freeing.cmd = x)
      BY DEF Dropped
    <3>1. Uses(stack, x) = Uses(Pop(stack), x) + One(Top.cmd = x) /\ Uses(Pop(stack), x) \in Nat
      BY <1>0, <2>1, UsesPop
    <3> QED BY <2>3, <3>1 DEF One
  <2>7. \E i \in 1..Len(stack) : stack[i].cmd = c
    BY <2>2, <2>3 DEF Top
  <2>8. Sound(commands, q, Pop(stack), freeing.cmd)
    BY <1>0, <2>5, <2>6, <2>7, ReleaseCounts
  <2>9. Idle'
    BY <1>0, <1>a, <2>1, IdleKept
  <2> QED BY <2>1, <2>4, <2>8, <2>9 DEF Counted, Sound
<1>10. CASE Return
  <2>1. /\ stack # <<>> /\ stack' = Pop(stack) /\ UNCHANGED <<commands, cmd>>
        /\ ~freeing.on /\ freeing'.on /\ freeing'.cmd = Top.cmd
    BY <1>10 DEF Return, Ending, Running
  <2>2. freeing.cmd = Nil
    BY <1>a, <2>1 DEF Idle, NotFreeing
  <2>3. \A x \in CmdIds : Uses(stack, x) + One(freeing.cmd = x)
                          = Uses(Pop(stack), x) + One(Top.cmd = x)
    <3> SUFFICES ASSUME NEW x \in CmdIds
                 PROVE  Uses(stack, x) + One(freeing.cmd = x)
                        = Uses(Pop(stack), x) + One(Top.cmd = x)
      OBVIOUS
    <3>1. Uses(stack, x) = Uses(Pop(stack), x) + One(Top.cmd = x) /\ Uses(Pop(stack), x) \in Nat
      BY <1>0, <2>1, UsesPop
    <3>2. One(freeing.cmd = x) = 0 /\ One(Top.cmd = x) \in Nat
      BY <1>b, <2>2 DEF One
    <3> QED BY <3>1, <3>2
  <2>4. Exact(commands, cmd, Pop(stack), Top.cmd)
    <3> SUFFICES ASSUME NEW x \in CmdIds
                 PROVE  cmd[x].inUse = One(TabledIn(commands, x)) + One(AboveIn(cmd, x))
                                       + Uses(Pop(stack), x) + One(Top.cmd = x)
      BY DEF Exact
    <3>1. cmd[x].inUse = One(TabledIn(commands, x)) + One(AboveIn(cmd, x)) + Uses(stack, x)
                         + One(freeing.cmd = x)
      BY <1>a DEF Exact
    <3>2. Uses(stack, x) + One(freeing.cmd = x) = Uses(Pop(stack), x) + One(Top.cmd = x)
      BY <2>3
    <3>3. /\ Uses(stack, x) \in Nat /\ Uses(Pop(stack), x) \in Nat
          /\ One(freeing.cmd = x) \in Nat /\ One(Top.cmd = x) \in Nat
          /\ One(TabledIn(commands, x)) \in Nat /\ One(AboveIn(cmd, x)) \in Nat
      BY <1>0, <1>b, <2>1, UsesPop, UsesIs DEF One
    <3> QED BY <3>1, <3>2, <3>3
  <2>5. Idle'
    <3>1. /\ Len(stack) \in 1..Len(stack) /\ Len(Pop(stack)) = Len(stack) - 1
          /\ \A i \in 1..Len(stack) - 1 : Pop(stack)[i] = stack[i]
      BY <1>0, <2>1, PopTypes
    <3>2. \A i \in 1..Len(stack') : i \in 1..Len(stack) /\ stack'[i] = stack[i]
      BY <1>b, <2>1, <3>1
    <3> QED BY <1>a, <2>1, <3>2 DEF Idle
  <2> QED BY <1>a, <2>1, <2>4, <2>5 DEF Counted
<1>11. CASE DeleteLocal
  BY <1>0, <1>11, DeleteLocalCounted
<1>12. CASE EndReturn
  <2>1. /\ stack' = stack /\ commands' = commands /\ freeing' = NotFreeing
        /\ cmd' = IF freeing.cmd = Nil THEN cmd ELSE Decr(freeing.cmd)
    BY <1>12 DEF EndReturn
  <2>2. Idle'
    BY <1>a, <2>1 DEF Idle
  <2>3. NotFreeing.cmd = Nil
    BY DEF NotFreeing
  <2>4. CASE freeing.cmd = Nil
    BY <1>a, <2>1, <2>2, <2>3, <2>4 DEF Counted
  <2>5. CASE freeing.cmd # Nil
    <3>1. PICK c \in CmdIds : c = freeing.cmd
      BY <1>0, <2>5 DEF TypeOK
    <3>2. PICK q : q = cmd'
      OBVIOUS
    <3>3. q = Decr(c)
      BY <2>1, <2>5, <3>1, <3>2
    <3>4. Dropped(stack, Nil, c)
      <4> SUFFICES ASSUME NEW x \in CmdIds
                   PROVE  /\ Uses(stack, x) \in Nat
                          /\ Uses(stack, x) + One(Nil = x) + One(x = c)
                             = Uses(stack, x) + One(freeing.cmd = x)
        BY DEF Dropped
      <4>1. Uses(stack, x) \in Nat
        BY <1>b, UsesIs
      <4> QED BY <1>b, <3>1, <4>1 DEF One
    <3>5. Lowered(q, c)
      BY <3>3 DEF Lowered
    <3>6. Sound(commands, q, stack, Nil)
      BY <1>0, <3>1, <3>4, <3>5, ReleaseCounts
    <3> QED BY <2>1, <2>2, <2>3, <3>2, <3>6 DEF Counted, Sound
  <2> QED BY <2>4, <2>5
<1>13. CASE UNCHANGED vars
  BY <1>a, <1>13 DEF vars, Counted, Idle, Exact, Uses
<1> QED
  BY <1>1, <1>2, <1>3, <1>4, <1>6, <1>7, <1>8, <1>9, <1>10, <1>11, <1>12, <1>13 DEF Next
\* The native commands are counted once each.
LEMMA InitCounted == Init => Counted
<1> SUFFICES ASSUME Init PROVE Counted
  OBVIOUS
<1>1. /\ commands = InitTable /\ stack = <<>> /\ freeing = NotFreeing
      /\ \A x \in CmdIds : cmd[x] = IF TabledIn(commands, x) THEN NewCmd(FALSE, Nil, <<>>) ELSE NoCmd
  BY DEF Init, TabledIn
<1>2. \A x \in CmdIds : /\ cmd[x].inUse = One(TabledIn(commands, x)) /\ cmd[x].prev = Nil
                        /\ cmd[x].upcall = 0
  BY <1>1 DEF NewCmd, NoCmd, One
<1>3. \A k \in DOMAIN commands : commands[k] \in CmdIds
  BY <1>1, PoolAssumption
<1>4. Nil \notin CmdIds /\ \A j, k \in DOMAIN commands : commands[j] = commands[k] => j = k
  BY <1>1, PoolAssumption
<1>5. Apart(commands, cmd) /\ Marked(commands, cmd)
  BY <1>2, <1>3, <1>4 DEF Apart, Marked
<1>6. \A x \in CmdIds : ~AboveIn(cmd, x)
  BY <1>2, <1>4 DEF AboveIn
<1>7. Len(stack) = 0 /\ \A x : Uses(stack, x) = 0
  <2>1. Len(stack) = 0
    BY <1>1
  <2>2. \A x : {i \in 1..Len(stack) : stack[i].cmd = x} = {}
    BY <2>1
  <2> QED BY <2>1, <2>2, FS_EmptySet DEF Uses
<1>8. Exact(commands, cmd, stack, freeing.cmd)
  <2>1. \A x \in CmdIds : One(freeing.cmd = x) = 0 /\ One(AboveIn(cmd, x)) = 0
    BY <1>1, <1>4, <1>6 DEF One, NotFreeing
  <2> QED BY <1>2, <1>7, <2>1 DEF Exact, One
<1>9. Idle
  BY <1>1, <1>7 DEF Idle
<1> QED BY <1>5, <1>8, <1>9 DEF Counted

\* Every state of a run is counted.
LEMMA AlwaysCounted == Spec => []Counted
BY Invariant, InitCounted, NextCounted, PTL DEF Spec

\* A Jim_Cmd is freed exactly when nothing refers to it.
THEOREM RefCountsAreExact == Spec => []RefCountExact
<1>1. Inv /\ Counted => RefCountExact
  <2> SUFFICES ASSUME Inv, Counted, NEW c \in CmdIds PROVE cmd[c].inUse = Holds(c)
    BY DEF RefCountExact
  <2> DEFINE K == {k \in DOMAIN commands : commands[k] = c}
             D == {d \in CmdIds : cmd[d].prev = c}
  <2>1. Cardinality(K) = One(TabledIn(commands, c))
    <3>1. CASE TabledIn(commands, c)
      <4>1. PICK k \in DOMAIN commands : commands[k] = c
        BY <3>1 DEF TabledIn
      <4>2. K = {k}
        BY <4>1 DEF Counted, Apart
      <4> QED BY <3>1, <4>2, FS_Singleton DEF One
    <3>2. CASE ~TabledIn(commands, c)
      <4>1. K = {}
        BY <3>2 DEF TabledIn
      <4> QED BY <3>2, <4>1, FS_EmptySet DEF One
    <3> QED BY <3>1, <3>2
  <2>2. Cardinality(D) = One(AboveIn(cmd, c))
    <3>1. CASE AboveIn(cmd, c)
      <4>1. PICK d \in CmdIds : cmd[d].prev = c
        BY <3>1 DEF AboveIn
      <4>2. D = {d}
        BY <4>1, PoolAssumption DEF Counted, Apart
      <4> QED BY <3>1, <4>2, FS_Singleton DEF One
    <3>2. CASE ~AboveIn(cmd, c)
      <4>1. D = {}
        BY <3>2 DEF AboveIn
      <4> QED BY <3>2, <4>1, FS_EmptySet DEF One
    <3> QED BY <3>1, <3>2
  <2>3. Cardinality({i \in DOMAIN stack : stack[i].cmd = c}) = Uses(stack, c)
    <3>1. DOMAIN stack = 1..Len(stack)
      BY DEF Inv, TypeOK
    <3> QED BY <3>1 DEF Uses
  <2>4. Holds(c) = Cardinality(K) + Cardinality(D) + Uses(stack, c) + One(freeing.cmd = c)
    BY <2>3 DEF Holds, One
  <2>5. cmd[c].inUse = One(TabledIn(commands, c)) + One(AboveIn(cmd, c)) + Uses(stack, c)
                       + One(freeing.cmd = c)
    BY DEF Counted, Exact
  <2> HIDE DEF K, D
  <2> QED BY <2>1, <2>2, <2>4, <2>5
<1> QED BY <1>1, Invariant, AlwaysCounted, PTL

\* [upcall] always has a definition to go on with, below those it has marked.
THEOREM UpcallsHavePrevious == Spec => []UpcallHasPrevious
<1>1. Inv /\ Counted => UpcallHasPrevious
  <2> SUFFICES ASSUME Inv, Counted, NEW k \in DOMAIN commands,
                      NEW c \in Run(commands[k], LAMBDA x : TRUE), cmd[c].upcall > 0
               PROVE  cmd[c].prev # Nil
    BY DEF UpcallHasPrevious
  <2>1. c \in CmdIds
    BY DEF Run
  <2>2. TabledIn(commands, c) \/ AboveIn(cmd, c)
    <3>1. commands[k] \in CmdIds /\ TypeOK
      BY DEF Inv, TypeOK
    <3>2. c # commands[k] => AboveIn(cmd, c)
      BY <3>1, BelowAre
    <3> QED BY <3>2 DEF TabledIn
  <2> QED BY <2>1, <2>2 DEF Counted, Marked
<1> QED BY <1>1, Invariant, AlwaysCounted, PTL

\* Without namespaces, the frame that goes away is global too.
LEMMA FreeingGlobal ==
    ASSUME Flat, \A k \in DOMAIN InitTable : Len(k) = 1
    PROVE  Spec => [](GlobalOnly /\ freeing.ns = <<>>)
<1>1. Init => GlobalOnly /\ freeing.ns = <<>>
  BY DEF Init, GlobalOnly, Frame, NoCache, NewCmd, NoCmd, NotFreeing
<1>2. Inv /\ GlobalOnly /\ freeing.ns = <<>> /\ [Next]_vars
         => (GlobalOnly /\ freeing.ns = <<>>)'
  <2> SUFFICES ASSUME Inv, GlobalOnly, freeing.ns = <<>>, [Next]_vars
               PROVE  GlobalOnly' /\ freeing'.ns = <<>>
    OBVIOUS
  <2>1. SUFFICES freeing'.ns = <<>>
    BY NextGlobal
  <2>2. CASE freeing' = freeing
    BY <2>2
  <2>3. CASE DeleteLocal
    BY <2>3 DEF DeleteLocal, Inv, TypeOK
  <2>4. CASE EndReturn
    BY <2>4 DEF EndReturn, NotFreeing
  <2>5. CASE Return
    <3>1. frames[Len(frames)].ns = <<>>
      <4>1. Len(frames) \in 1..Len(frames)
        BY CurNsType DEF Inv
      <4> QED BY <4>1 DEF GlobalOnly
    <3> QED BY <2>5, <3>1 DEF Return, Frame
  <2>6. freeing' = freeing \/ DeleteLocal \/ EndReturn \/ Return
    BY DEF Next, vars, control, Proc, Alias, Create, Delete, Invoke, Upcall, LocalEnd, Rename,
           NamespaceEval, LocalBegin, LocalFail, UpcallEnd
  <2> QED BY <2>2, <2>3, <2>4, <2>5, <2>6
<1> QED BY Invariant, <1>1, <1>2, PTL DEF Spec

\* Without namespaces a frame takes its local commands with it.
THEOREM LocalsAreRemoved ==
    ASSUME Flat, \A k \in DOMAIN InitTable : Len(k) = 1
    PROVE  Spec => LocalsRemoved
<1> DEFINE A == freeing.on /\ freeing.locals # <<>> /\ freeing'.locals # freeing.locals =>
                LET k == Qualify(freeing.ns, Head(freeing.locals))
                IN  k \in DOMAIN commands =>
                        k \notin DOMAIN commands' \/ commands'[k] # commands[k]
<1>1. Inv /\ Counted /\ GlobalOnly /\ freeing.ns = <<>> /\ [Next]_vars => A
  <2> SUFFICES ASSUME Inv, Counted, GlobalOnly, freeing.ns = <<>>, [Next]_vars,
                      freeing.on, freeing.locals # <<>>, freeing'.locals # freeing.locals
               PROVE  A
    OBVIOUS
  <2>1. DeleteLocal
    <3>1. freeing' # freeing
      OBVIOUS
    <3>2. ~EndReturn
      BY DEF EndReturn
    <3>3. ~Return
      BY DEF Return, Ending, Running
    <3> QED
      BY <3>1, <3>2, <3>3
      DEF Next, vars, control, Proc, Alias, Create, Delete, Invoke, Upcall, LocalEnd, Rename,
          NamespaceEval, LocalBegin, LocalFail, UpcallEnd
  <2>2. PICK w \in Words : w = Head(freeing.locals)
    <3>1. freeing.locals \in Seq(Words)
      BY DEF Inv, TypeOK
    <3> QED BY <3>1, HeadTailProperties
  <2>3. Qualify(CurNs, w) = w.path /\ Qualify(freeing.ns, w) = w.path
    BY FlatNames DEF Inv
  <2>4. SUFFICES ASSUME w.path \in DOMAIN commands
                 PROVE  w.path \notin DOMAIN commands' \/ commands'[w.path] # commands[w.path]
    BY <2>2, <2>3
  <2>5. PICK k : k = w.path
    OBVIOUS
  <2>6. commands[k] \in CmdIds /\ k \in DOMAIN commands
    BY <2>4, <2>5 DEF Inv, TypeOK
  <2>7. commands' = Restored(k)
    BY <2>1, <2>2, <2>3, <2>4, <2>5 DEF DeleteLocal
  <2>8. cmd[commands[k]].prev # commands[k]
    BY <2>6 DEF Counted, Apart
  <2> QED BY <2>5, <2>6, <2>7, <2>8 DEF Restored, With, Without
<1>2. Spec => [][A]_vars
  BY <1>1, Invariant, AlwaysCounted, FreeingGlobal, PTL DEF Spec
<1> QED BY <1>2 DEF LocalsRemoved


---------------------------------------------------------------------------
(* Commands created by [local] leave no trace. The invariant says of each name how
   many definitions are stacked under it: the native one, and one for each time the
   name waits in the list of local commands of some frame. *)

\* The local commands that wait to be deleted: those of each frame and, above the
\* last one, those of the frame that is going away.
Waiting(fr, fe) ==
    [f \in Nat |-> IF f \in 1..Len(fr) THEN fr[f].locals
                   ELSE IF f = Len(fr) + 1 THEN fe.locals ELSE <<>>]

\* Where k waits: the frame, and the position counted from the oldest.
Places(L, k) ==
    {p \in Nat \X Nat : /\ p[2] \in 1..Len(L[p[1]])
                        /\ L[p[1]][Len(L[p[1]]) + 1 - p[2]].path = k}

\* The lists when w is put before the other names of f.
Queued(L, f, w) == [L EXCEPT ![f] = <<w>> \o @]

\* The frames when w becomes a local command of the last one.
Registered(fr, w) == [fr EXCEPT ![Len(fr)].locals = <<w>> \o @]

\* Under each key h has the definitions, the oldest first, that table t and the
\* links of pool p stack there, and no definition is linked elsewhere.
Chained(t, p, h) ==
    /\ h \in [Seq(Parts) -> Seq(CmdIds)] /\ DOMAIN t \subseteq Seq(Parts)
    /\ \A k \in Seq(Parts) : k \in DOMAIN t <=> Len(h[k]) >= 1
    /\ \A k \in DOMAIN t : t[k] = h[k][Len(h[k])]
    /\ \A k \in Seq(Parts) : \A i \in 1..Len(h[k]) :
          p[h[k][i]].prev = IF i = 1 THEN Nil ELSE h[k][i - 1]
    /\ \A d \in CmdIds : p[d].prev # Nil =>
          \E k \in Seq(Parts) : \E i \in 1..Len(h[k]) : h[k][i] = d
    /\ \A k \in DOMAIN InitTable : Len(h[k]) >= 1 /\ h[k][1] = InitTable[k]

\* There are as many as the native one, the waiting ones and the one that an open
\* [local] has defined.
Sized(h, L, ws) ==
    \A k \in Seq(Parts) :
        /\ IsFiniteSet(Places(L, k))
        /\ Len(h[k]) = One(k \in DOMAIN InitTable) + Cardinality(Places(L, k))
                       + One(\E w \in ws : w.path = k)

Stacked == \E h : /\ Chained(commands, cmd, h)
                  /\ Sized(h, Waiting(frames, freeing), defining.words)

\* The frame that is current when activation i begins, and the last one at the end.
Reached(i) == IF i <= Len(stack) THEN stack[i].parent ELSE Len(frames)

\* An activation has one frame at most.
Nested ==
    /\ Reached(1) = 1
    /\ \A i \in 1..Len(stack) :
          \/ Reached(i + 1) = Reached(i)
          \/ Reached(i + 1) = Reached(i) + 1 /\ stack[i].kind \in {"call", "eval"}

\* How [local] is used.
Disciplined ==
    /\ defining \in [open : BOOLEAN, words : SUBSET Words] /\ local = One(defining.open)
    /\ defining.words = {} \/ \E w \in Words : defining.words = {w}
    /\ ~defining.open => defining = NotDefining
    /\ defining.open => stack # <<>> /\ Len(frames) > 1 /\ ~freeing.on
    /\ frames[1].locals = <<>>

\* What JimCommands' own proofs give for programs without namespaces.
Plain == Inv /\ Counted /\ GlobalOnly /\ freeing.ns = <<>>

ScopeInv == Plain /\ Nested /\ Disciplined /\ Stacked

---------------------------------------------------------------------------
(* Waiting names *)

\* The lists of waiting names are sequences of words.
LEMMA WaitingType ==
    ASSUME NEW fr \in Seq(FrameType), NEW fe \in FreeingType
    PROVE  Waiting(fr, fe) \in [Nat -> Seq(Words)]
<1>1. ASSUME NEW f \in 1..Len(fr) PROVE fr[f].locals \in Seq(Words)
  <2>1. fr[f] \in FrameType
    BY ElementOfSeq
  <2> QED BY <2>1 DEF FrameType
<1>2. fe.locals \in Seq(Words) /\ <<>> \in Seq(Words)
  BY EmptySeq DEF FreeingType
<1> QED BY <1>1, <1>2 DEF Waiting

\* B has one element that A has not, if b holds, and is A otherwise; and for finite
\* sets, the number of their elements.
Gained(A, B, b) == \E new : new \notin A /\ B = A \cup (IF b THEN {new} ELSE {})
Counts(A, B, b) ==
    /\ IsFiniteSet(A) /\ IsFiniteSet(B) /\ Cardinality(A) \in Nat
    /\ Cardinality(B) = Cardinality(A) + One(b)

\* Putting a name before the others of a frame adds one place.
LEMMA PlaceGained ==
    ASSUME NEW L \in [Nat -> Seq(Words)], NEW f \in Nat, NEW w \in Words,
           NEW k, NEW M, M = Queued(L, f, w)
    PROVE  Gained(Places(L, k), Places(M, k), w.path = k)
<1> DEFINE s == L[f]
           p == <<w>> \o s
<1>1. s \in Seq(Words)
  OBVIOUS
<1>2. PICK n \in Nat : n = Len(s)
  BY <1>1, LenProperties
<1>3. p \in Seq(Words) /\ Len(p) = n + 1 /\ p[1] = w /\ \A i \in 1..n : p[i + 1] = s[i]
  BY <1>1, <1>2, PushedElement
<1>4. M[f] = p /\ \A g \in Nat : g # f => M[g] = L[g]
  BY DEF Queued
<1> HIDE DEF p, s
<1>5. ASSUME NEW g \in Nat, NEW j \in Nat, g # f
      PROVE  <<g, j>> \in Places(M, k) <=> <<g, j>> \in Places(L, k)
  BY <1>4, <1>5 DEF Places
<1>6. ASSUME NEW j \in Nat
      PROVE  <<f, j>> \in Places(M, k) <=> <<f, j>> \in Places(L, k) \/ (j = n + 1 /\ w.path = k)
  <2>1. <<f, j>> \in Places(M, k) <=> j \in 1..n + 1 /\ p[n + 1 + 1 - j].path = k
    BY <1>3, <1>4 DEF Places
  <2>2. <<f, j>> \in Places(L, k) <=> j \in 1..n /\ s[n + 1 - j].path = k
    BY <1>2 DEF Places, s
  <2>3. CASE j = n + 1
    <3>1. n + 1 + 1 - j = 1 /\ j \in 1..n + 1 /\ j \notin 1..n
      BY <2>3
    <3> QED BY <1>3, <2>1, <2>2, <2>3, <3>1
  <2>4. CASE j \in 1..n
    <3>1. n + 1 + 1 - j = (n + 1 - j) + 1 /\ n + 1 - j \in 1..n /\ j \in 1..n + 1 /\ j # n + 1
      BY <2>4
    <3>2. p[(n + 1 - j) + 1] = s[n + 1 - j]
      BY <1>3, <3>1
    <3> QED BY <2>1, <2>2, <2>4, <3>1, <3>2
  <2>5. CASE j # n + 1 /\ j \notin 1..n
    <3>1. j \notin 1..n + 1
      BY <2>5
    <3> QED BY <2>1, <2>2, <2>5, <3>1
  <2> QED BY <2>3, <2>4, <2>5
<1>7. <<f, n + 1>> \notin Places(L, k)
  BY <1>2 DEF Places, s
<1>8. Places(M, k) \subseteq Nat \X Nat /\ Places(L, k) \subseteq Nat \X Nat
  BY DEF Places
<1>9. PICK new \in Nat \X Nat : new = <<f, n + 1>>
  <2>1. PICK m \in Nat : m = n + 1
    OBVIOUS
  <2>2. <<f, m>> \in Nat \X Nat
    BY Zenon
  <2> QED BY <2>1, <2>2, Zenon
<1>10. ASSUME NEW x \in Nat \X Nat
       PROVE  x \in Places(M, k) <=> x \in Places(L, k) \cup (IF w.path = k THEN {new} ELSE {})
  <2>1. PICK g \in Nat, j \in Nat : x = <<g, j>>
    OBVIOUS
  <2>2. x = new <=> g = f /\ j = n + 1
    BY <1>9, <2>1
  <2>3. CASE g = f
    BY <1>6, <2>1, <2>2, <2>3
  <2>4. CASE g # f
    BY <1>5, <2>1, <2>2, <2>4
  <2> QED BY <2>3, <2>4
<1>11. Places(M, k) = Places(L, k) \cup (IF w.path = k THEN {new} ELSE {})
  BY <1>8, <1>10
<1> QED BY <1>7, <1>9, <1>11 DEF Gained

\* The number of places of k, then.
LEMMA PlaceCounted ==
    ASSUME NEW L \in [Nat -> Seq(Words)], NEW f \in Nat, NEW w \in Words,
           NEW k, NEW M, M = Queued(L, f, w),
           IsFiniteSet(Places(L, k)) \/ IsFiniteSet(Places(M, k))
    PROVE  Counts(Places(L, k), Places(M, k), w.path = k)
<1>1. PICK A, B : A = Places(L, k) /\ B = Places(M, k)
  OBVIOUS
<1>2. Gained(A, B, w.path = k)
  BY <1>1, PlaceGained
<1>3. PICK new : new \notin A /\ B = A \cup (IF w.path = k THEN {new} ELSE {})
  BY <1>2 DEF Gained
<1>4. IsFiniteSet(A)
  <2>1. A \subseteq B
    BY <1>3
  <2> QED BY <1>1, <2>1, FS_Subset
<1>5. IsFiniteSet(A \cup {new}) /\ Cardinality(A \cup {new}) = Cardinality(A) + 1
  BY <1>3, <1>4, FS_AddElement
<1>6. Cardinality(A) \in Nat
  BY <1>4, FS_CardinalityType
<1>7. CASE w.path = k
  <2>1. B = A \cup {new} /\ One(w.path = k) = 1
    BY <1>3, <1>7 DEF One
  <2> QED BY <1>1, <1>4, <1>5, <1>6, <2>1 DEF Counts
<1>8. CASE w.path # k
  <2>1. B = A /\ One(w.path = k) = 0
    BY <1>3, <1>8 DEF One
  <2> QED BY <1>1, <1>4, <1>6, <2>1 DEF Counts
<1> QED BY <1>7, <1>8

\* Nothing waits where every list is empty.
LEMMA NoPlace ==
    ASSUME NEW L, \A f \in Nat : L[f] = <<>>, NEW k
    PROVE  IsFiniteSet(Places(L, k)) /\ Cardinality(Places(L, k)) = 0
<1>1. Places(L, k) = {}
  BY DEF Places
<1> QED BY <1>1, FS_EmptySet

---------------------------------------------------------------------------
(* Stacked definitions *)

\* The definitions that are stacked are under a key or below another definition.
LEMMA InChain ==
    ASSUME NEW t, NEW p, NEW h, Chained(t, p, h), NEW k \in Seq(Parts), NEW i \in 1..Len(h[k])
    PROVE  /\ h[k] \in Seq(CmdIds) /\ Len(h[k]) \in Nat /\ h[k][i] \in CmdIds
           /\ i = Len(h[k]) => k \in DOMAIN t /\ t[k] = h[k][i]
           /\ i # Len(h[k]) => i + 1 \in 1..Len(h[k]) /\ h[k][i + 1] \in CmdIds
                               /\ p[h[k][i + 1]].prev = h[k][i]
<1>1. h[k] \in Seq(CmdIds) /\ Len(h[k]) \in Nat /\ h[k][i] \in CmdIds
  BY LenProperties, ElementOfSeq DEF Chained
<1>2. i = Len(h[k]) => k \in DOMAIN t /\ t[k] = h[k][i]
  BY <1>1 DEF Chained
<1>3. CASE i # Len(h[k])
  <2>1. i + 1 \in 1..Len(h[k]) /\ i + 1 # 1 /\ i + 1 - 1 = i
    BY <1>1, <1>3
  <2>2. h[k][i + 1] \in CmdIds
    BY <1>1, <2>1, ElementOfSeq
  <2>3. p[h[k][i + 1]].prev = h[k][i]
    BY <2>1 DEF Chained
  <2> QED BY <1>1, <1>2, <1>3, <2>1, <2>2, <2>3
<1> QED BY <1>1, <1>2, <1>3

\* Two places of the stacks hold different definitions.
LEMMA ChainsApart ==
    ASSUME NEW t, NEW p, NEW h, Chained(t, p, h), Apart(t, p),
           NEW k \in DOMAIN t, k \in Seq(Parts),
           NEW j \in Seq(Parts), NEW i \in 1..Len(h[j]), h[j][i] = t[k]
    PROVE  j = k /\ i = Len(h[j])
<1>1. CASE i = Len(h[j])
  BY <1>1, InChain DEF Apart
<1>2. CASE i # Len(h[j])
  <2>1. h[j][i + 1] \in CmdIds /\ p[h[j][i + 1]].prev = h[j][i]
    BY <1>2, InChain
  <2> QED BY <2>1 DEF Apart
<1> QED BY <1>1, <1>2

\* The stacks stay as long as the table and the links do.
LEMMA ChainsKept ==
    ASSUME NEW t, NEW p, NEW q, NEW h, Chained(t, p, h), \A x \in CmdIds : q[x].prev = p[x].prev
    PROVE  Chained(t, q, h)
<1>1. \A k \in Seq(Parts) : \A i \in 1..Len(h[k]) : h[k][i] \in CmdIds
  BY InChain
<1> QED BY <1>1 DEF Chained

\* The table u and the pool q when c, which nothing refers to, is put over the
\* definitions of k.
Pushed(t, p, k, c, u, q) ==
    /\ ~TabledIn(t, c) /\ ~AboveIn(p, c)
    /\ DOMAIN u = DOMAIN t \cup {k} /\ u[k] = c
    /\ \A j \in DOMAIN t : j # k => u[j] = t[j]
    /\ q[c].prev = IF k \in DOMAIN t THEN t[k] ELSE Nil
    /\ \A x \in CmdIds : x # c => q[x].prev = p[x].prev

\* The stack of k with one definition more.
LEMMA ChainPushed ==
    ASSUME NEW t, NEW p, NEW h, Chained(t, p, h), NEW k \in Seq(Parts), NEW c \in CmdIds,
           NEW u, NEW q, Pushed(t, p, k, c, u, q),
           NEW g, g = [h EXCEPT ![k] = Append(@, c)]
    PROVE  Chained(u, q, g)
<1>0. /\ ~TabledIn(t, c) /\ ~AboveIn(p, c)
      /\ DOMAIN u = DOMAIN t \cup {k} /\ u[k] = c
      /\ \A j \in DOMAIN t : j # k => u[j] = t[j]
      /\ q[c].prev = IF k \in DOMAIN t THEN t[k] ELSE Nil
      /\ \A x \in CmdIds : x # c => q[x].prev = p[x].prev
  BY DEF Pushed
<1>1. h \in [Seq(Parts) -> Seq(CmdIds)]
  BY <1>0 DEF Chained
<1>2. PICK s \in Seq(CmdIds) : s = h[k]
  BY <1>1
<1>3. PICK n \in Nat : n = Len(s)
  BY <1>2, LenProperties
<1>4. PICK z : z = Append(s, c)
  OBVIOUS
<1>5. /\ z \in Seq(CmdIds) /\ Len(z) = n + 1 /\ z[n + 1] = c
      /\ \A i \in 1..n : z[i] = s[i]
  BY <1>3, <1>4, AppendAt, AppendLast
<1>6. /\ g \in [Seq(Parts) -> Seq(CmdIds)] /\ g[k] = z
      /\ \A j \in Seq(Parts) : j # k => g[j] = h[j]
  BY <1>1, <1>2, <1>4, <1>5
<1>7. DOMAIN u \subseteq Seq(Parts) /\ \A j \in Seq(Parts) : j \in DOMAIN u <=> Len(g[j]) >= 1
  BY <1>0, <1>5, <1>6 DEF Chained
<1>8. \A j \in DOMAIN u : u[j] = g[j][Len(g[j])]
  <2> SUFFICES ASSUME NEW j \in DOMAIN u PROVE u[j] = g[j][Len(g[j])]
    OBVIOUS
  <2>1. CASE j = k
    BY <1>0, <1>5, <1>6, <2>1
  <2>2. CASE j # k
    <3>1. j \in DOMAIN t /\ j \in Seq(Parts)
      BY <1>0, <1>7, <2>2
    <3>2. t[j] = h[j][Len(h[j])] /\ u[j] = t[j] /\ g[j] = h[j]
      BY <1>0, <1>6, <2>2, <3>1 DEF Chained
    <3> QED BY <1>0, <3>2
  <2> QED BY <1>0, <2>1, <2>2
<1>9. ASSUME NEW j \in Seq(Parts), NEW i \in 1..Len(h[j])
      PROVE  h[j][i] # c /\ h[j][i] \in CmdIds
  <2>1. CASE i = Len(h[j])
    BY <1>0, <2>1, InChain DEF TabledIn
  <2>2. CASE i # Len(h[j])
    <3>1. h[j][i + 1] \in CmdIds /\ p[h[j][i + 1]].prev = h[j][i] /\ h[j][i] \in CmdIds
      BY <1>0, <2>2, InChain
    <3> QED BY <1>0, <3>1 DEF AboveIn
  <2> QED BY <1>0, <2>1, <2>2
<1>10. \A j \in Seq(Parts) : \A i \in 1..Len(g[j]) :
          q[g[j][i]].prev = IF i = 1 THEN Nil ELSE g[j][i - 1]
  <2> SUFFICES ASSUME NEW j \in Seq(Parts), NEW i \in 1..Len(g[j])
               PROVE  q[g[j][i]].prev = IF i = 1 THEN Nil ELSE g[j][i - 1]
    OBVIOUS
  <2>1. CASE j # k
    <3>1. g[j] = h[j]
      BY <1>0, <1>6, <2>1
    <3>2. h[j][i] # c /\ h[j][i] \in CmdIds
      BY <1>0, <1>9, <3>1
    <3>3. p[h[j][i]].prev = IF i = 1 THEN Nil ELSE h[j][i - 1]
      BY <1>0, <3>1 DEF Chained
    <3> QED BY <1>0, <3>1, <3>2, <3>3
  <2>2. CASE j = k /\ i \in 1..n
    <3>1. h[k][i] # c /\ h[k][i] \in CmdIds
      BY <1>0, <1>2, <1>3, <1>9, <2>2
    <3>2. p[h[k][i]].prev = IF i = 1 THEN Nil ELSE h[k][i - 1]
      BY <1>0, <1>2, <1>3, <2>2 DEF Chained
    <3>3. i # 1 => i - 1 \in 1..n
      BY <1>0, <2>2
    <3> QED BY <1>0, <1>2, <1>5, <1>6, <2>2, <3>1, <3>2, <3>3
  <2>3. CASE j = k /\ i = n + 1
    <3>1. k \in DOMAIN t <=> n >= 1
      BY <1>0, <1>2, <1>3 DEF Chained
    <3>2. k \in DOMAIN t => t[k] = s[n]
      BY <1>0, <1>2, <1>3 DEF Chained
    <3>3. n >= 1 => n \in 1..n
      OBVIOUS
    <3>4. g[j][i] = c /\ i - 1 = n
      BY <1>0, <1>5, <1>6, <2>3
    <3>5. CASE n >= 1
      <4>1. g[j][i - 1] = s[n] /\ i # 1
        BY <1>0, <1>5, <1>6, <2>3, <3>3, <3>4, <3>5
      <4> QED BY <1>0, <3>1, <3>2, <3>4, <3>5, <4>1
    <3>6. CASE n = 0
      <4>1. i = 1 /\ k \notin DOMAIN t
        BY <1>0, <2>3, <3>1, <3>6
      <4> QED BY <1>0, <3>4, <4>1
    <3> QED BY <1>0, <3>5, <3>6
  <2>4. j = k => i \in 1..n \/ i = n + 1
    BY <1>0, <1>5, <1>6
  <2> QED BY <1>0, <2>1, <2>2, <2>3, <2>4
<1>11. \A d \in CmdIds : q[d].prev # Nil =>
          \E j \in Seq(Parts) : \E i \in 1..Len(g[j]) : g[j][i] = d
  <2> SUFFICES ASSUME NEW d \in CmdIds, q[d].prev # Nil
               PROVE  \E j \in Seq(Parts) : \E i \in 1..Len(g[j]) : g[j][i] = d
    OBVIOUS
  <2>1. CASE d = c
    <3>1. n + 1 \in 1..Len(g[k]) /\ g[k][n + 1] = d
      BY <1>0, <1>5, <1>6, <2>1
    <3> QED BY <1>0, <3>1
  <2>2. CASE d # c
    <3>1. PICK j \in Seq(Parts) : \E i \in 1..Len(h[j]) : h[j][i] = d
      BY <1>0, <2>2 DEF Chained
    <3>2. PICK i \in 1..Len(h[j]) : h[j][i] = d
      BY <1>0, <3>1
    <3>3. i \in 1..Len(g[j]) /\ g[j][i] = h[j][i]
      <4>1. CASE j = k
        BY <1>0, <1>2, <1>3, <1>5, <1>6, <4>1
      <4>2. CASE j # k
        BY <1>0, <1>6, <4>2
      <4> QED BY <1>0, <4>1, <4>2
    <3> QED BY <1>0, <3>2, <3>3
  <2> QED BY <1>0, <2>1, <2>2
<1>12. \A j \in DOMAIN InitTable : Len(g[j]) >= 1 /\ g[j][1] = InitTable[j]
  <2> SUFFICES ASSUME NEW j \in DOMAIN InitTable
               PROVE  Len(g[j]) >= 1 /\ g[j][1] = InitTable[j]
    OBVIOUS
  <2>1. j \in Seq(Parts) /\ Len(h[j]) >= 1 /\ h[j][1] = InitTable[j]
    BY PoolAssumption DEF Chained
  <2>2. CASE j = k
    <3>1. n >= 1 /\ 1 \in 1..n
      BY <1>2, <1>3, <2>1, <2>2
    <3> QED BY <1>2, <1>5, <1>6, <2>1, <2>2, <3>1
  <2>3. CASE j # k
    BY <1>6, <2>1, <2>3
  <2> QED BY <2>2, <2>3
<1> QED BY <1>6, <1>7, <1>8, <1>10, <1>11, <1>12 DEF Chained

\* The table u and the pool q when the last definition of k is taken away.
Popped(t, p, k, u, q) ==
    /\ k \in DOMAIN t /\ q[t[k]].prev = Nil
    /\ \A x \in CmdIds : x # t[k] => q[x].prev = p[x].prev
    /\ p[t[k]].prev # Nil => DOMAIN u = DOMAIN t /\ u[k] = p[t[k]].prev
    /\ p[t[k]].prev = Nil => DOMAIN u = DOMAIN t \ {k}
    /\ \A j \in DOMAIN t : j # k => u[j] = t[j]

\* The stack of k without its last definition, which is not the native one.
LEMMA ChainPopped ==
    ASSUME NEW t, NEW p, NEW h, Chained(t, p, h), Apart(t, p), NEW k \in Seq(Parts),
           NEW u, NEW q, Popped(t, p, k, u, q), k \in DOMAIN InitTable => Len(h[k]) >= 2,
           NEW g, g = [h EXCEPT ![k] = SubSeq(@, 1, Len(@) - 1)]
    PROVE  Chained(u, q, g)
<1>1. h \in [Seq(Parts) -> Seq(CmdIds)]
  BY DEF Chained
<1>2. PICK s \in Seq(CmdIds) : s = h[k]
  BY <1>1
<1>3. PICK n \in Nat : n = Len(s)
  BY <1>2, LenProperties
<1>4. n >= 1 /\ k \in DOMAIN t /\ t[k] = s[n]
  BY <1>2, <1>3 DEF Chained, Popped
<1>5. PICK z : z = SubSeq(s, 1, n - 1)
  OBVIOUS
<1>6. z \in Seq(CmdIds) /\ Len(z) = n - 1 /\ \A i \in 1..n - 1 : z[i] = s[i]
  BY <1>3, <1>4, <1>5, FrontProperties
<1>7. PICK c \in CmdIds : c = t[k]
  BY <1>3, <1>4, ElementOfSeq
<1>8. p[c].prev = IF n = 1 THEN Nil ELSE s[n - 1]
  <2>1. n \in 1..Len(h[k])
    BY <1>2, <1>3, <1>4
  <2> QED BY <1>2, <1>4, <1>7, <2>1 DEF Chained
<1>9. n # 1 => n - 1 \in 1..n - 1 /\ n - 1 \in 1..n /\ s[n - 1] \in CmdIds /\ s[n - 1] # Nil
  <2>1. n # 1 => n - 1 \in 1..n - 1 /\ n - 1 \in 1..n
    BY <1>4
  <2>2. n # 1 => s[n - 1] \in CmdIds
    BY <1>3, <2>1, ElementOfSeq
  <2> QED BY <2>1, <2>2, PoolAssumption
<1>10. /\ g \in [Seq(Parts) -> Seq(CmdIds)] /\ g[k] = z
       /\ \A j \in Seq(Parts) : j # k => g[j] = h[j]
  BY <1>1, <1>2, <1>3, <1>5, <1>6
<1>11. /\ n # 1 => DOMAIN u = DOMAIN t /\ u[k] = s[n - 1]
       /\ n = 1 => DOMAIN u = DOMAIN t \ {k}
       /\ \A j \in DOMAIN t : j # k => u[j] = t[j]
       /\ q[c].prev = Nil /\ \A x \in CmdIds : x # c => q[x].prev = p[x].prev
       /\ DOMAIN u \subseteq Seq(Parts)
  BY <1>7, <1>8, <1>9 DEF Popped, Chained
<1>12. \A j \in Seq(Parts) : j \in DOMAIN u <=> Len(g[j]) >= 1
  <2> SUFFICES ASSUME NEW j \in Seq(Parts) PROVE j \in DOMAIN u <=> Len(g[j]) >= 1
    OBVIOUS
  <2>1. CASE j = k
    <3>1. Len(g[j]) >= 1 <=> n # 1
      BY <1>4, <1>6, <1>10, <2>1
    <3> QED BY <1>4, <1>11, <2>1, <3>1
  <2>2. CASE j # k
    <3>1. j \in DOMAIN u <=> j \in DOMAIN t
      BY <1>11, <2>2
    <3> QED BY <1>10, <2>2, <3>1 DEF Chained
  <2> QED BY <2>1, <2>2
<1>13. \A j \in DOMAIN u : u[j] = g[j][Len(g[j])]
  <2> SUFFICES ASSUME NEW j \in DOMAIN u PROVE u[j] = g[j][Len(g[j])]
    OBVIOUS
  <2>1. CASE j = k
    <3>1. n # 1
      BY <1>11, <2>1
    <3> QED BY <1>6, <1>9, <1>10, <1>11, <2>1, <3>1
  <2>2. CASE j # k
    <3>1. j \in DOMAIN t
      BY <1>11, <2>2
    <3>2. t[j] = h[j][Len(h[j])] /\ u[j] = t[j]
      BY <1>11, <2>2, <3>1 DEF Chained
    <3>3. g[j] = h[j]
      <4>1. j \in Seq(Parts)
        BY <3>1 DEF Chained
      <4> QED BY <1>10, <2>2, <4>1
    <3> QED BY <3>2, <3>3
  <2> QED BY <2>1, <2>2
<1>14. ASSUME NEW j \in Seq(Parts), NEW i \in 1..Len(h[j]), h[j][i] = c
       PROVE  j = k /\ i = n
  BY <1>2, <1>3, <1>4, <1>7, <1>14, ChainsApart
<1>15. \A j \in Seq(Parts) : \A i \in 1..Len(g[j]) :
          q[g[j][i]].prev = IF i = 1 THEN Nil ELSE g[j][i - 1]
  <2> SUFFICES ASSUME NEW j \in Seq(Parts), NEW i \in 1..Len(g[j])
               PROVE  q[g[j][i]].prev = IF i = 1 THEN Nil ELSE g[j][i - 1]
    OBVIOUS
  <2>1. /\ i \in 1..Len(h[j]) /\ g[j][i] = h[j][i] /\ (j = k => i # n)
        /\ i # 1 => g[j][i - 1] = h[j][i - 1]
    <3>1. CASE j = k
      <4>1. i \in 1..n - 1 /\ i \in 1..n /\ (i # 1 => i - 1 \in 1..n - 1)
        BY <1>6, <1>10, <3>1
      <4> QED BY <1>2, <1>3, <1>6, <1>10, <3>1, <4>1
    <3>2. CASE j # k
      BY <1>10, <3>2
    <3> QED BY <3>1, <3>2
  <2>2. h[j][i] \in CmdIds /\ h[j][i] # c
    BY <1>14, <2>1, InChain
  <2>3. p[h[j][i]].prev = IF i = 1 THEN Nil ELSE h[j][i - 1]
    BY <2>1 DEF Chained
  <2>4. q[h[j][i]].prev = p[h[j][i]].prev
    BY <1>11, <2>2
  <2> QED BY <2>1, <2>3, <2>4
<1>16. \A d \in CmdIds : q[d].prev # Nil =>
          \E j \in Seq(Parts) : \E i \in 1..Len(g[j]) : g[j][i] = d
  <2> SUFFICES ASSUME NEW d \in CmdIds, q[d].prev # Nil
               PROVE  \E j \in Seq(Parts) : \E i \in 1..Len(g[j]) : g[j][i] = d
    OBVIOUS
  <2>1. d # c /\ p[d].prev # Nil
    BY <1>11
  <2>2. PICK j \in Seq(Parts) : \E i \in 1..Len(h[j]) : h[j][i] = d
    BY <2>1 DEF Chained
  <2>3. PICK i \in 1..Len(h[j]) : h[j][i] = d
    BY <2>2
  <2>4. i \in 1..Len(g[j]) /\ g[j][i] = h[j][i]
    <3>1. CASE j = k
      <4>1. i # n
        BY <1>2, <1>4, <1>7, <2>1, <2>3, <3>1
      <4>2. i \in 1..n - 1
        BY <1>2, <1>3, <3>1, <4>1
      <4> QED BY <1>2, <1>6, <1>10, <3>1, <4>2
    <3>2. CASE j # k
      BY <1>10, <3>2
    <3> QED BY <3>1, <3>2
  <2> QED BY <2>3, <2>4
<1>17. \A j \in DOMAIN InitTable : Len(g[j]) >= 1 /\ g[j][1] = InitTable[j]
  <2> SUFFICES ASSUME NEW j \in DOMAIN InitTable
               PROVE  Len(g[j]) >= 1 /\ g[j][1] = InitTable[j]
    OBVIOUS
  <2>1. j \in Seq(Parts) /\ Len(h[j]) >= 1 /\ h[j][1] = InitTable[j]
    BY PoolAssumption DEF Chained
  <2>2. CASE j = k
    <3>1. n >= 2 /\ 1 \in 1..n - 1
      BY <1>2, <1>3, <2>2
    <3> QED BY <1>2, <1>6, <1>10, <2>1, <2>2, <3>1
  <2>3. CASE j # k
    BY <1>10, <2>1, <2>3
  <2> QED BY <2>2, <2>3
<1> QED BY <1>10, <1>11, <1>12, <1>13, <1>15, <1>16, <1>17 DEF Chained

---------------------------------------------------------------------------
(* Frames and activations *)

\* An activation, or two for an upcall, begins: at most the last one has a frame.
LEMMA NestedPush ==
    ASSUME TypeOK, FramesOK, Nested, NEW a \in Seq(ActivationType), stack' = stack \o a,
           Len(a) \in {1, 2}, \A i \in 1..Len(a) : a[i].parent = Len(frames),
           \/ Len(frames') = Len(frames)
           \/ Len(frames') = Len(frames) + 1 /\ a[Len(a)].kind \in {"call", "eval"}
    PROVE  Nested'
<1>1. stack \in Seq(ActivationType)
  BY DEF TypeOK, ActivationType, MaybeCmd
<1>2. PICK n \in Nat, m \in Nat, g \in Nat : n = Len(stack) /\ m = Len(a) /\ g = Len(frames)
  BY <1>1, LenProperties DEF TypeOK
<1>3. /\ Len(stack') = n + m
      /\ \A i \in 1..n + m : stack'[i] = IF i <= n THEN stack[i] ELSE a[i - n]
  BY <1>1, <1>2, ConcatProperties
<1>4. PICK r : r = [i \in Nat |-> IF i <= n THEN stack[i].parent ELSE g]
  OBVIOUS
<1>5. PICK r2 : r2 = [i \in Nat |-> IF i <= n + m THEN stack'[i].parent ELSE Len(frames')]
  OBVIOUS
<1>6. /\ r[1] = 1
      /\ \A i \in 1..n :
            \/ r[i + 1] = r[i]
            \/ r[i + 1] = r[i] + 1 /\ stack[i].kind \in {"call", "eval"}
  <2>1. r[1] = 1
    BY <1>2, <1>4 DEF Nested, Reached
  <2>2. ASSUME NEW i \in 1..n
        PROVE  \/ r[i + 1] = r[i]
               \/ r[i + 1] = r[i] + 1 /\ stack[i].kind \in {"call", "eval"}
    <3>1. i \in Nat /\ i + 1 \in Nat
      OBVIOUS
    <3>2. r[i] = Reached(i) /\ r[i + 1] = Reached(i + 1)
      BY <1>2, <1>4, <3>1 DEF Reached
    <3>3. \/ Reached(i + 1) = Reached(i)
          \/ Reached(i + 1) = Reached(i) + 1 /\ stack[i].kind \in {"call", "eval"}
      BY <1>2 DEF Nested
    <3>4. CASE Reached(i + 1) = Reached(i)
      BY <3>2, <3>4
    <3>5. CASE Reached(i + 1) = Reached(i) + 1 /\ stack[i].kind \in {"call", "eval"}
      BY <3>2, <3>5
    <3> QED BY <3>3, <3>4, <3>5
  <2> QED BY <2>1, <2>2
<1>7. \A i \in 1..n : r2[i] = r[i] /\ stack'[i] = stack[i]
  BY <1>3, <1>4, <1>5
<1>8. \A i \in n + 1..n + m : r2[i] = g /\ stack'[i] = a[i - n]
  <2> SUFFICES ASSUME NEW i \in n + 1..n + m PROVE r2[i] = g /\ stack'[i] = a[i - n]
    OBVIOUS
  <2>1. i \in Nat /\ i \in 1..n + m /\ ~(i <= n) /\ i <= n + m /\ i - n \in 1..m
    OBVIOUS
  <2>2. stack'[i] = a[i - n] /\ a[i - n].parent = g
    BY <1>2, <1>3, <2>1
  <2> QED BY <1>5, <2>1, <2>2
<1>9. r[n + 1] = g
  BY <1>4
<1>10. r2[n + m + 1] = Len(frames')
  BY <1>5
<1>11. m \in {1, 2}
  BY <1>2
<1>12. r2[1] = 1
  <2>1. CASE n = 0
    <3>1. 1 \in n + 1..n + m
      BY <1>11, <2>1
    <3> QED BY <1>6, <1>8, <1>9, <2>1, <3>1
  <2>2. CASE n # 0
    BY <1>6, <1>7, <2>2
  <2> QED BY <2>1, <2>2
<1>13. ASSUME NEW i \in 1..n + m
       PROVE  \/ r2[i + 1] = r2[i]
              \/ r2[i + 1] = r2[i] + 1 /\ stack'[i].kind \in {"call", "eval"}
  <2>1. CASE i < n
    <3>1. i \in 1..n /\ i + 1 \in 1..n
      BY <2>1
    <3> QED BY <1>6, <1>7, <3>1
  <2>2. CASE i = n
    <3>1. i \in 1..n /\ n + 1 \in n + 1..n + m
      BY <1>11, <2>2
    <3> QED BY <1>6, <1>7, <1>8, <1>9, <2>2, <3>1
  <2>3. CASE i > n /\ i < n + m
    <3>1. i \in n + 1..n + m /\ i + 1 \in n + 1..n + m
      BY <2>3
    <3> QED BY <1>8, <3>1
  <2>4. CASE i = n + m
    <3>1. i \in n + 1..n + m /\ i - n = m
      BY <1>11, <2>4
    <3>2. r2[i] = g /\ stack'[i] = a[m]
      BY <1>8, <3>1
    <3>3. Len(frames') = g \/ (Len(frames') = g + 1 /\ a[m].kind \in {"call", "eval"})
      BY <1>2
    <3>4. r2[i + 1] = Len(frames')
      BY <1>10, <2>4
    <3>5. CASE Len(frames') = g
      BY <3>2, <3>4, <3>5
    <3>6. CASE Len(frames') = g + 1 /\ a[m].kind \in {"call", "eval"}
      BY <3>2, <3>4, <3>6
    <3> QED BY <3>3, <3>5, <3>6
  <2>5. i < n \/ i = n \/ (i > n /\ i < n + m) \/ i = n + m
    OBVIOUS
  <2> QED BY <2>1, <2>2, <2>3, <2>4, <2>5
<1>14. \A i \in Nat : r2[i] = Reached(i)'
  BY <1>3, <1>5 DEF Reached
<1>15. \A i \in 1..n + m : i \in Nat /\ i + 1 \in Nat
  OBVIOUS
<1>16. Reached(1)' = 1
  BY <1>12, <1>14
<1>17. ASSUME NEW i \in 1..n + m
       PROVE  \/ Reached(i + 1)' = Reached(i)'
              \/ Reached(i + 1)' = Reached(i)' + 1 /\ stack'[i].kind \in {"call", "eval"}
  <2>1. r2[i] = Reached(i)' /\ r2[i + 1] = Reached(i + 1)'
    BY <1>14, <1>15
  <2>2. CASE r2[i + 1] = r2[i]
    BY <2>1, <2>2
  <2>3. CASE r2[i + 1] = r2[i] + 1 /\ stack'[i].kind \in {"call", "eval"}
    BY <2>1, <2>3
  <2> QED BY <1>13, <2>2, <2>3
<1> QED BY <1>3, <1>16, <1>17 DEF Nested

\* The innermost activation ends and its own frame, if it has one, is unlinked.
LEMMA NestedPop ==
    ASSUME TypeOK, FramesOK, Nested, stack # <<>>, stack' = Pop(stack),
           Len(frames') = Top.parent
    PROVE  Nested'
<1>1. /\ Len(stack) \in 1..Len(stack) /\ Len(stack') = Len(stack) - 1
      /\ \A i \in 1..Len(stack) - 1 : stack'[i] = stack[i]
  BY PopTypes
<1>2. PICK n \in Nat : n = Len(stack) /\ n >= 1
  BY <1>1
<1>3. Len(stack') = n - 1 /\ Top = stack[n]
  BY <1>1, <1>2 DEF Top
<1>4. ASSUME NEW i \in 1..n PROVE Reached(i)' = Reached(i)
  <2>1. CASE i = n
    BY <1>2, <1>3, <2>1 DEF Reached
  <2>2. CASE i # n
    <3>1. i \in 1..n - 1 /\ i <= n - 1 /\ i <= n
      BY <2>2
    <3> QED BY <1>1, <1>2, <1>3, <3>1 DEF Reached
  <2> QED BY <2>1, <2>2
<1>5. ASSUME NEW i \in 1..n - 1 PROVE i \in 1..n /\ i + 1 \in 1..n
  OBVIOUS
<1>6. 1 \in 1..n
  BY <1>2
<1>7. ASSUME NEW i \in 1..n - 1
      PROVE  \/ Reached(i + 1)' = Reached(i)'
             \/ Reached(i + 1)' = Reached(i)' + 1 /\ stack'[i].kind \in {"call", "eval"}
  <2>1. Reached(i)' = Reached(i) /\ Reached(i + 1)' = Reached(i + 1) /\ stack'[i] = stack[i]
    BY <1>1, <1>2, <1>4, <1>5
  <2> QED BY <1>2, <1>5, <2>1 DEF Nested
<1>8. Reached(1)' = 1
  BY <1>4, <1>6 DEF Nested
<1> QED BY <1>3, <1>7, <1>8 DEF Nested

\* What the innermost activation leaves behind.
LEMMA NestedTop ==
    ASSUME TypeOK, FramesOK, Nested, stack # <<>>
    PROVE  /\ Top.parent \in 1..Len(frames)
           /\ \/ Len(frames) = Top.parent
              \/ Len(frames) = Top.parent + 1 /\ Top.kind \in {"call", "eval"}
<1>1. Len(stack) \in 1..Len(stack)
  BY PopTypes
<1>2. PICK n \in Nat : n = Len(stack) /\ n >= 1
  BY <1>1
<1>3. Top = stack[n] /\ n \in 1..n /\ ~(n + 1 <= n)
  BY <1>2 DEF Top
<1>4. Reached(n) = Top.parent /\ Reached(n + 1) = Len(frames)
  BY <1>2, <1>3 DEF Reached
<1>5. Top.parent \in 1..Len(frames)
  BY <1>2, <1>3 DEF FramesOK
<1> QED BY <1>2, <1>3, <1>4, <1>5 DEF Nested

---------------------------------------------------------------------------
(* Waiting names, when the frames change *)

\* A new frame has none.
LEMMA WaitingPushed ==
    ASSUME NEW fr \in Seq(FrameType), NEW F \in FrameType, F.locals = <<>>,
           NEW fe, fe.locals = <<>>
    PROVE  Waiting(Append(fr, F), fe) = Waiting(fr, fe)
<1>1. PICK n \in Nat : n = Len(fr)
  BY LenProperties
<1>2. PICK g : g = Append(fr, F)
  OBVIOUS
<1>3. Len(g) = n + 1 /\ g[n + 1] = F /\ \A i \in 1..n : g[i] = fr[i]
  BY <1>1, <1>2, AppendAt, AppendLast
<1>4. ASSUME NEW f \in Nat PROVE Waiting(g, fe)[f] = Waiting(fr, fe)[f]
  <2>1. CASE f \in 1..n
    <3>1. f \in 1..n + 1
      BY <2>1
    <3> QED BY <1>1, <1>3, <2>1, <3>1 DEF Waiting
  <2>2. CASE f = n + 1
    <3>1. f \in 1..n + 1 /\ f \notin 1..n
      BY <2>2
    <3> QED BY <1>1, <1>3, <2>2, <3>1 DEF Waiting
  <2>3. CASE f \notin 1..n /\ f # n + 1
    <3>1. f \notin 1..n + 1
      BY <2>3
    <3> QED BY <1>1, <1>3, <2>3, <3>1 DEF Waiting
  <2> QED BY <2>1, <2>2, <2>3
<1>5. Waiting(g, fe) = Waiting(fr, fe)
  BY <1>4 DEF Waiting
<1> QED BY <1>2, <1>5

\* A frame that goes away keeps its names until they are deleted.
LEMMA WaitingReturned ==
    ASSUME NEW fr \in Seq(FrameType), NEW p \in 1..Len(fr), Len(fr) = p \/ Len(fr) = p + 1,
           NEW fe, fe.locals = <<>>,
           NEW ge, ge.locals = IF p < Len(fr) THEN fr[Len(fr)].locals ELSE <<>>
    PROVE  Waiting(SubSeq(fr, 1, p), ge) = Waiting(fr, fe)
<1>1. PICK n \in Nat : n = Len(fr)
  BY LenProperties
<1>2. PICK g : g = SubSeq(fr, 1, p)
  OBVIOUS
<1>3. p \in Nat /\ p \in 0..n /\ (n = p \/ n = p + 1)
  BY <1>1
<1>4. Len(g) = p /\ \A i \in 1..p : g[i] = fr[i]
  BY <1>1, <1>2, <1>3, PrefixProperties
<1>5. ASSUME NEW f \in Nat PROVE Waiting(g, ge)[f] = Waiting(fr, fe)[f]
  <2>1. CASE f \in 1..p
    <3>1. f \in 1..n
      BY <1>3, <2>1
    <3> QED BY <1>1, <1>4, <2>1, <3>1 DEF Waiting
  <2>2. CASE f = p + 1
    <3>1. f \notin 1..p
      BY <1>3, <2>2
    <3>2. Waiting(g, ge)[f] = ge.locals
      BY <1>4, <2>2, <3>1 DEF Waiting
    <3>3. CASE n = p
      BY <1>1, <2>2, <3>1, <3>2, <3>3 DEF Waiting
    <3>4. CASE n = p + 1
      <4>1. f \in 1..n /\ p < n /\ f = n
        BY <1>3, <2>2, <3>4
      <4> QED BY <1>1, <3>2, <4>1 DEF Waiting
    <3> QED BY <1>3, <3>3, <3>4
  <2>3. CASE f \notin 1..p /\ f # p + 1
    <3>1. f \notin 1..n
      BY <1>3, <2>3
    <3>2. Waiting(g, ge)[f] = <<>>
      BY <1>4, <2>3 DEF Waiting
    <3> QED BY <1>1, <3>1, <3>2 DEF Waiting
  <2> QED BY <2>1, <2>2, <2>3
<1>6. Waiting(g, ge) = Waiting(fr, fe)
  BY <1>5 DEF Waiting
<1> QED BY <1>2, <1>6

\* A name that becomes local waits in the current frame.
LEMMA WaitingLocal ==
    ASSUME NEW fr \in Seq(FrameType), Len(fr) \in 1..Len(fr), NEW w \in Words,
           NEW fe, NEW g, g = Registered(fr, w)
    PROVE  Waiting(g, fe) = Queued(Waiting(fr, fe), Len(fr), w)
<1>1. PICK n \in Nat : n = Len(fr) /\ n \in 1..n
  BY LenProperties
<1>2. DOMAIN fr = 1..n /\ fr[n] \in FrameType
  BY <1>1, LenProperties, ElementOfSeq
<1>3. Len(g) = n
  BY <1>1, <1>2 DEF Registered
<1>4. g[n].locals = <<w>> \o fr[n].locals
  BY <1>1, <1>2 DEF FrameType, Registered
<1>5. \A i \in 1..n : i # n => g[i] = fr[i]
  BY <1>1, <1>2 DEF Registered
<1>6. PICK L : L = Waiting(fr, fe)
  OBVIOUS
<1>7. PICK v : v = <<w>> \o fr[n].locals
  OBVIOUS
<1>8. L[n] = fr[n].locals /\ DOMAIN L = Nat
  BY <1>1, <1>6 DEF Waiting
<1>9. ASSUME NEW f \in Nat PROVE Waiting(g, fe)[f] = IF f = n THEN v ELSE L[f]
  <2>1. CASE f = n
    BY <1>1, <1>3, <1>4, <1>7, <2>1 DEF Waiting
  <2>2. CASE f # n /\ f \in 1..n
    BY <1>1, <1>3, <1>5, <1>6, <2>2 DEF Waiting
  <2>3. CASE f \notin 1..n
    BY <1>1, <1>3, <1>6, <2>3 DEF Waiting
  <2> QED BY <1>1, <2>1, <2>2, <2>3
<1>10. Waiting(g, fe) = [f \in Nat |-> IF f = n THEN v ELSE L[f]]
  BY <1>9 DEF Waiting
<1>11. [f \in Nat |-> IF f = n THEN v ELSE L[f]] = [L EXCEPT ![n] = v]
  BY <1>6 DEF Waiting
<1> QED BY <1>1, <1>6, <1>7, <1>8, <1>10, <1>11 DEF Queued

\* The name that is deleted next waits above the frames.
LEMMA WaitingDeleted ==
    ASSUME NEW fr \in Seq(FrameType), NEW fe, NEW ge, fe.locals \in Seq(Words),
           fe.locals # <<>>, ge.locals = Tail(fe.locals)
    PROVE  Waiting(fr, fe) = Queued(Waiting(fr, ge), Len(fr) + 1, Head(fe.locals))
<1>1. PICK n \in Nat : n = Len(fr)
  BY LenProperties
<1>2. PICK v : v = <<Head(fe.locals)>> \o Tail(fe.locals)
  OBVIOUS
<1>3. fe.locals = v
  <2>1. PICK s \in Seq(Words) : s = fe.locals /\ s # <<>>
    OBVIOUS
  <2>2. s = <<Head(s)>> \o Tail(s)
    BY <2>1
  <2> QED BY <1>2, <2>1, <2>2
<1>4. PICK L : L = Waiting(fr, ge)
  OBVIOUS
<1>5. L[n + 1] = Tail(fe.locals) /\ n + 1 \in Nat
  <2>1. n + 1 \notin 1..n
    OBVIOUS
  <2> QED BY <1>1, <1>4, <2>1 DEF Waiting
<1>6. ASSUME NEW f \in Nat PROVE Waiting(fr, fe)[f] = IF f = n + 1 THEN v ELSE L[f]
  <2>1. n + 1 \notin 1..n
    OBVIOUS
  <2> QED BY <1>1, <1>3, <1>4, <2>1 DEF Waiting
<1>7. Waiting(fr, fe) = [f \in Nat |-> IF f = n + 1 THEN v ELSE L[f]]
  BY <1>6 DEF Waiting
<1>8. [f \in Nat |-> IF f = n + 1 THEN v ELSE L[f]] = [L EXCEPT ![n + 1] = v]
  BY <1>4 DEF Waiting
<1> QED BY <1>1, <1>2, <1>4, <1>5, <1>7, <1>8 DEF Queued

---------------------------------------------------------------------------
(* Links of pushed definitions *)

\* Changing a count leaves every link alone.
LEMMA CountKeepsLinks ==
    ASSUME NEW p \in [CmdIds -> CmdType], NEW c \in CmdIds, NEW x \in CmdIds
    PROVE  /\ [p EXCEPT ![c].inUse = @ + 1][x].prev = p[x].prev
           /\ [p EXCEPT ![c].upcall = @ + 1][x].prev = p[x].prev
<1>1. p[c] \in CmdType /\ p[x] \in CmdType
  OBVIOUS
<1>2. ASSUME NEW r \in CmdType
      PROVE  [r EXCEPT !.inUse = @ + 1].prev = r.prev /\ [r EXCEPT !.upcall = @ + 1].prev = r.prev
  BY DEF CmdType
<1> QED BY <1>1, <1>2

\* A definition that is released after a call is freed only if it is in no stack.
LEMMA ReleaseKeepsLinks ==
    ASSUME TypeOK, Counted, Stacked, NEW c \in CmdIds,
           (\E i \in 1..Len(stack) : stack[i].cmd = c) \/ freeing.cmd = c,
           NEW x \in CmdIds
    PROVE  Decr(c)[x].prev = cmd[x].prev
<1>1. cmd[x] \in CmdType
  BY DEF TypeOK
<1>2. CASE ~LastUse(c)
  <2>1. Run(c, LastUse) = {} /\ AfterRun(c, LastUse) = c
    BY <1>2 DEF Run, AfterRun
  <2>2. Decr(c)[x] = IF x = c THEN [cmd[x] EXCEPT !.inUse = @ - 1] ELSE cmd[x]
    BY <2>1 DEF Decr
  <2>3. [cmd[x] EXCEPT !.inUse = @ - 1].prev = cmd[x].prev
    BY <1>1 DEF CmdType
  <2> QED BY <2>2, <2>3
<1>3. CASE LastUse(c)
  <2>1. ~TabledIn(commands, c) /\ ~AboveIn(cmd, c)
    <3>1. stack \in Seq(ActivationType)
      BY DEF TypeOK, ActivationType, MaybeCmd
    <3>2. Uses(stack, c) \in Nat /\ \A i \in 1..Len(stack) : stack[i].cmd = c => Uses(stack, c) > 0
      BY <3>1, UsesIs
    <3>3. 1 = One(TabledIn(commands, c)) + One(AboveIn(cmd, c)) + Uses(stack, c) + One(freeing.cmd = c)
      BY <1>3 DEF Counted, Exact, LastUse
    <3> QED BY <3>2, <3>3 DEF One
  <2>2. cmd[c].prev = Nil
    <3>1. PICK h : Chained(commands, cmd, h)
      BY DEF Stacked
    <3> SUFFICES ASSUME cmd[c].prev # Nil PROVE FALSE
      OBVIOUS
    <3>2. PICK k \in Seq(Parts) : \E i \in 1..Len(h[k]) : h[k][i] = c
      BY <3>1 DEF Chained
    <3>3. PICK i \in 1..Len(h[k]) : h[k][i] = c
      BY <3>2
    <3>4. CASE i = Len(h[k])
      BY <2>1, <3>1, <3>3, <3>4, InChain DEF TabledIn
    <3>5. CASE i # Len(h[k])
      <4>1. h[k][i + 1] \in CmdIds /\ cmd[h[k][i + 1]].prev = c
        BY <3>1, <3>3, <3>5, InChain
      <4> QED BY <2>1, <4>1 DEF AboveIn
    <3> QED BY <3>4, <3>5
  <2>3. Run(c, LastUse) = {c}
    <3>1. c \in Run(c, LastUse)
      BY <1>3 DEF Run
    <3>2. ASSUME NEW y \in Run(c, LastUse) PROVE y = c
      <4>1. \A S \in SUBSET CmdIds :
               (c \in S /\ \A z \in S : cmd[z].prev # Nil /\ LastUse(cmd[z].prev) => cmd[z].prev \in S)
                   => y \in S
        BY <1>3 DEF Run
      <4>2. {c} \in SUBSET CmdIds /\ c \in {c} /\ \A z \in {c} : cmd[z].prev = Nil
        BY <2>2
      <4>3. y \in {c}
        BY <4>1, <4>2
      <4> QED BY <4>3
    <3> QED BY <3>1, <3>2
  <2>4. AfterRun(c, LastUse) = Nil
    <3> DEFINE ends == {y \in Run(c, LastUse) : cmd[y].prev \notin Run(c, LastUse)}
    <3>1. ends = {c}
      BY <2>2, <2>3, PoolAssumption
    <3>2. AfterRun(c, LastUse) = IF ends = {} THEN Nil ELSE cmd[CHOOSE y \in ends : TRUE].prev
      BY <1>3 DEF AfterRun
    <3> HIDE DEF ends
    <3> QED BY <2>2, <3>1, <3>2
  <2>5. Decr(c)[x] = IF x = c THEN NoCmd ELSE cmd[x]
    BY <2>3, <2>4, PoolAssumption DEF Decr
  <2> QED BY <2>2, <2>5 DEF NoCmd
<1> QED BY <1>2, <1>3

\* The stacks are those there were when no definition and no local name changes.
LEMMA StackedKept ==
    ASSUME Stacked, commands' = commands, \A x \in CmdIds : cmd'[x].prev = cmd[x].prev,
           Waiting(frames, freeing)' = Waiting(frames, freeing),
           defining'.words = defining.words
    PROVE  Stacked'
<1>1. PICK h : Chained(commands, cmd, h) /\ Sized(h, Waiting(frames, freeing), defining.words)
  BY DEF Stacked
<1>2. Chained(commands, cmd', h)
  BY <1>1, ChainsKept
<1>3. Chained(commands', cmd', h)
  BY <1>2
<1>4. Sized(h, Waiting(frames, freeing)', defining'.words)
  BY <1>1
<1> QED BY <1>3, <1>4 DEF Stacked

---------------------------------------------------------------------------
(* The steps *)

\* [local] opens.
LEMMA OpenKeeps ==
    ASSUME ScopeInv, OpenLocal
    PROVE  Nested' /\ Disciplined' /\ Stacked'
<1> USE DEF ScopeInv, Plain, Inv
<1>1. stack \in Seq(ActivationType) /\ Len(frames) \in Nat
  BY DEF TypeOK, ActivationType, MaybeCmd
<1>2. PICK e \in ActivationType : e = Activation("local", Nil)
  BY <1>1 DEF Activation, ActivationType, MaybeCmd
<1>3. stack' = Append(stack, e) /\ UNCHANGED <<commands, cmd, frames, freeing>>
  BY <1>2 DEF OpenLocal, LocalBegin
<1>4. /\ <<e>> \in Seq(ActivationType) /\ Len(<<e>>) = 1 /\ <<e>>[1] = e
      /\ stack' = stack \o <<e>>
  BY <1>1, <1>3, AppendIsConcat
<1>5. e.parent = Len(frames)
  BY <1>2 DEF Activation
<1>6. Nested'
  <2>1. \A i \in 1..Len(<<e>>) : <<e>>[i].parent = Len(frames)
    BY <1>4, <1>5
  <2> QED BY <1>3, <1>4, <2>1, NestedPush
<1>7. Disciplined'
  <2>1. stack' # <<>>
    BY <1>1, <1>3, AppendProperties
  <2>2. defining' = [open |-> TRUE, words |-> {}] /\ local' = local + 1 /\ ~defining.open
    BY DEF OpenLocal, LocalBegin
  <2>3. /\ local' = One(defining'.open) /\ defining'.words = {}
        /\ defining' \in [open : BOOLEAN, words : SUBSET Words]
    BY <2>2 DEF Disciplined, One
  <2>4. Len(frames) > 1 /\ ~freeing.on /\ frames[1].locals = <<>>
    BY DEF OpenLocal, LocalBegin, Running, Disciplined
  <2> QED BY <1>3, <2>1, <2>2, <2>3, <2>4 DEF Disciplined
<1>8. Stacked'
  <2>1. defining.words = {} /\ defining'.words = {}
    BY DEF OpenLocal, Disciplined, NotDefining
  <2> QED BY <1>3, <2>1, StackedKept
<1> QED BY <1>6, <1>7, <1>8

\* The command that [local] evaluates defines w.
LEMMA DefineKeeps ==
    ASSUME Flat, ScopeInv, NEW w \in Words, DefineLocal(w)
    PROVE  Nested' /\ Disciplined' /\ Stacked'
<1> USE DEF ScopeInv, Plain, Inv
<1>1. Qualify(CurNs, w) = w.path /\ w.path \in Seq(Parts)
  BY FlatNames
<1>2. PICK k \in Seq(Parts) : k = w.path
  BY <1>1
<1>3. PICK c \in CmdIds, proc \in BOOLEAN : Create(k, c, proc)
  BY <1>1, <1>2 DEF DefineLocal, Proc, Alias
<1>4. UNCHANGED <<local, frames, stack, freeing>>
  BY <1>3 DEF Create, control
<1>5. defining.open /\ defining.words = {} /\ defining' = [defining EXCEPT !.words = {w}]
  BY DEF DefineLocal
<1>6. defining'.words = {w} /\ defining'.open = defining.open
  <2>1. defining \in [open : BOOLEAN, words : SUBSET Words]
    BY DEF Disciplined
  <2> QED BY <1>5, <2>1
<1>7. Nested' /\ Disciplined'
  <2>1. Nested'
    BY <1>4 DEF Nested, Reached
  <2>2. defining' \in [open : BOOLEAN, words : SUBSET Words]
    BY <1>5 DEF Disciplined
  <2> QED BY <1>4, <1>5, <1>6, <2>1, <2>2 DEF Disciplined
<1>8. ~TabledIn(commands, c) /\ ~AboveIn(cmd, c)
  <2>1. Uses(stack, c) \in Nat
    BY UsesIs DEF TypeOK, ActivationType, MaybeCmd
  <2>2. cmd[c].inUse = 0
    BY <1>3 DEF Create, NoCmd
  <2>3. 0 = One(TabledIn(commands, c)) + One(AboveIn(cmd, c)) + Uses(stack, c) + One(freeing.cmd = c)
    BY <2>2 DEF Counted, Exact
  <2> QED BY <2>1, <2>3 DEF One
<1>9. /\ DOMAIN commands' = DOMAIN commands \cup {k} /\ commands'[k] = c
      /\ \A j \in DOMAIN commands : j # k => commands'[j] = commands[j]
  BY <1>3 DEF Create, With
<1>10. /\ cmd'[c].prev = IF k \in DOMAIN commands THEN commands[k] ELSE Nil
       /\ \A x \in CmdIds : x # c => cmd'[x].prev = cmd[x].prev
  <2>1. local = 1
    BY <1>5 DEF Disciplined, One
  <2>2. Pushes(k) <=> k \in DOMAIN commands
    BY <2>1 DEF Pushes
  <2> DEFINE new == NewCmd(proc, IF Pushes(k) THEN commands[k] ELSE Nil,
                           IF proc THEN NamedNs(k, <<>>) ELSE <<>>)
  <2>3. cmd' = [cmd EXCEPT ![c] = new]
    BY <1>3, <2>2 DEF Create
  <2>4. new.prev = IF k \in DOMAIN commands THEN commands[k] ELSE Nil
    BY <2>2 DEF NewCmd
  <2> HIDE DEF new
  <2> QED BY <2>3, <2>4 DEF TypeOK
<1>11. PICK h : Chained(commands, cmd, h) /\ Sized(h, Waiting(frames, freeing), defining.words)
  BY DEF Stacked
<1>12. PICK g : g = [h EXCEPT ![k] = Append(@, c)]
  OBVIOUS
<1>13. PICK u, q : u = commands' /\ q = cmd'
  OBVIOUS
<1>14. Chained(u, q, g)
  <2>1. Pushed(commands, cmd, k, c, u, q)
    BY <1>8, <1>9, <1>10, <1>13 DEF Pushed
  <2> QED BY <1>11, <1>12, <2>1, ChainPushed
<1>15. PICK L : L = Waiting(frames, freeing)
  OBVIOUS
<1>16. Sized(g, L, {w})
  <2> SUFFICES ASSUME NEW j \in Seq(Parts)
               PROVE  /\ IsFiniteSet(Places(L, j))
                      /\ Len(g[j]) = One(j \in DOMAIN InitTable) + Cardinality(Places(L, j))
                                     + One(\E v \in {w} : v.path = j)
    BY DEF Sized
  <2>1. PICK m \in Nat : m = Cardinality(Places(L, j)) /\ IsFiniteSet(Places(L, j))
    BY <1>11, <1>15, FS_CardinalityType DEF Sized
  <2>2. Len(h[j]) = One(j \in DOMAIN InitTable) + m
    BY <1>5, <1>11, <1>15, <2>1 DEF Sized, One
  <2>3. h \in [Seq(Parts) -> Seq(CmdIds)]
    BY <1>11 DEF Chained
  <2>4. CASE j = k
    <3>1. g[j] = Append(h[j], c)
      BY <1>12, <2>3, <2>4
    <3>2. Len(g[j]) = Len(h[j]) + 1
      BY <2>3, <3>1, AppendAt
    <3>3. One(\E v \in {w} : v.path = j) = 1
      BY <1>2, <2>4 DEF One
    <3> QED BY <2>1, <2>2, <3>2, <3>3 DEF One
  <2>5. CASE j # k
    <3>1. g[j] = h[j]
      BY <1>12, <2>3, <2>5
    <3>2. One(\E v \in {w} : v.path = j) = 0
      BY <1>2, <2>5 DEF One
    <3> QED BY <2>1, <2>2, <3>1, <3>2 DEF One
  <2> QED BY <2>4, <2>5
<1>17. Stacked'
  <2>1. Waiting(frames, freeing)' = L
    BY <1>4, <1>15
  <2>2. Chained(commands', cmd', g) /\ Sized(g, Waiting(frames, freeing)', defining'.words)
    BY <1>6, <1>13, <1>14, <1>16, <2>1
  <2> QED BY <2>2 DEF Stacked
<1> QED BY <1>7, <1>17

\* [local] ends, and the command it has defined waits in the current frame.
LEMMA RegisterKeeps ==
    ASSUME ScopeInv, RegisterLocal
    PROVE  Nested' /\ Disciplined' /\ Stacked'
<1> USE DEF ScopeInv, Plain, Inv
<1>1. PICK w \in defining.words : LocalEnd(w)
  BY DEF RegisterLocal
<1>2. w \in Words /\ defining.words = {w} /\ defining.open /\ defining' = NotDefining
  BY DEF RegisterLocal, Disciplined, NotDefining
<1>3. /\ stack # <<>> /\ Top.kind = "local" /\ ~freeing.on /\ local' = local - 1
      /\ stack' = Pop(stack) /\ UNCHANGED <<commands, cmd, freeing>>
      /\ frames' = [frames EXCEPT ![Len(frames)].locals = <<w>> \o @]
  BY <1>1 DEF LocalEnd, Ending, Running
<1>4. frames \in Seq(FrameType) /\ Len(frames) \in 1..Len(frames)
  BY CurNsType DEF TypeOK, FrameType
<1>5. PICK n \in Nat : n = Len(frames)
  BY <1>4
<1>6. DOMAIN frames = 1..n /\ DOMAIN frames' = 1..n
  BY <1>3, <1>4, <1>5, LenProperties
<1>7. Len(frames') = n
  <2>1. frames' \in Seq(FrameType)
    BY <1>1, <1>2, LocalTypes DEF TypeOK, FrameType
  <2> QED BY <1>6, <2>1, LenProperties
<1>8. Nested'
  <2>1. Len(frames) = Top.parent
    BY <1>3, NestedTop
  <2> QED BY <1>3, <1>5, <1>7, <2>1, NestedPop
<1>9. Disciplined'
  <2>1. n > 1 /\ local' = 0
    BY <1>2, <1>3, <1>5 DEF Disciplined, One
  <2>2. frames'[1] = frames[1]
    <3>1. 1 \in 1..n /\ 1 # n
      BY <2>1
    <3> QED BY <1>3, <1>5, <1>6, <3>1
  <2> QED BY <1>2, <2>1, <2>2 DEF Disciplined, NotDefining, One
<1>10. PICK h : Chained(commands, cmd, h) /\ Sized(h, Waiting(frames, freeing), defining.words)
  BY DEF Stacked
<1>11. PICK L \in [Nat -> Seq(Words)] : L = Waiting(frames, freeing)
  BY <1>4, WaitingType DEF TypeOK, FreeingType, MaybeCmd
<1>12. PICK M : M = Queued(L, n, w)
  OBVIOUS
<1>13. Waiting(frames, freeing)' = M
  <2>1. PICK g : g = frames'
    OBVIOUS
  <2>2. g = Registered(frames, w)
    BY <1>3, <2>1 DEF Registered
  <2>3. Waiting(g, freeing) = Queued(Waiting(frames, freeing), Len(frames), w)
    BY <1>2, <1>4, <2>2, WaitingLocal
  <2> QED BY <1>3, <1>5, <1>11, <1>12, <2>1, <2>3
<1>14. Sized(h, M, {})
  <2> SUFFICES ASSUME NEW j \in Seq(Parts)
               PROVE  /\ IsFiniteSet(Places(M, j))
                      /\ Len(h[j]) = One(j \in DOMAIN InitTable) + Cardinality(Places(M, j))
                                     + One(\E v \in {} : v.path = j)
    BY DEF Sized
  <2>1. PICK m \in Nat : m = Cardinality(Places(L, j)) /\ IsFiniteSet(Places(L, j))
    BY <1>10, <1>11, FS_CardinalityType DEF Sized
  <2>2. Len(h[j]) = One(j \in DOMAIN InitTable) + m + One(w.path = j)
    BY <1>2, <1>10, <1>11, <2>1 DEF Sized
  <2>3. One(\E v \in {} : v.path = j) = 0
    BY DEF One
  <2>4. Counts(Places(L, j), Places(M, j), w.path = j)
    BY <1>2, <1>12, <2>1, PlaceCounted
  <2>5. IsFiniteSet(Places(M, j)) /\ Cardinality(Places(M, j)) = m + One(w.path = j)
    BY <2>1, <2>4 DEF Counts
  <2>6. PICK a \in Nat : a = One(j \in DOMAIN InitTable)
    BY DEF One
  <2>7. PICK b \in Nat : b = One(w.path = j)
    BY DEF One
  <2>8. a + m + b = a + (m + b) + 0
    OBVIOUS
  <2> QED BY <2>2, <2>3, <2>5, <2>6, <2>7, <2>8
<1>15. Stacked'
  <2>1. Chained(commands', cmd', h) /\ Sized(h, Waiting(frames, freeing)', defining'.words)
    BY <1>2, <1>3, <1>10, <1>13, <1>14 DEF NotDefining
  <2> QED BY <2>1 DEF Stacked
<1> QED BY <1>8, <1>9, <1>15

\* Activations begin, the last of them in a frame of its own perhaps.
LEMMA BeginKeeps ==
    ASSUME ScopeInv, Running, ~defining.open,
           NEW a \in Seq(ActivationType), stack' = stack \o a, Len(a) \in {1, 2},
           \A i \in 1..Len(a) : a[i].parent = Len(frames),
           NEW F \in FrameType, F.locals = <<>>,
           frames' = frames \/ frames' = Append(frames, F),
           a[Len(a)].kind \in {"call", "eval"},
           UNCHANGED <<commands, local, freeing, defining>>,
           \A x \in CmdIds : cmd'[x].prev = cmd[x].prev
    PROVE  Nested' /\ Disciplined' /\ Stacked'
<1> USE DEF ScopeInv, Plain, Inv
<1>1. frames \in Seq(FrameType) /\ Len(frames) \in 1..Len(frames) /\ Len(frames) \in Nat
  BY CurNsType DEF TypeOK, FrameType
<1>2. freeing.locals = <<>>
  BY DEF Running, Counted, Idle, NotFreeing
<1>3. Len(frames') = Len(frames) \/ Len(frames') = Len(frames) + 1
  BY <1>1, AppendAt
<1>4. Nested'
  BY <1>3, NestedPush
<1>5. frames'[1] = frames[1]
  <2>1. 1 \in 1..Len(frames)
    BY <1>1
  <2>2. Append(frames, F)[1] = frames[1]
    BY <1>1, <2>1, AppendLast
  <2> QED BY <2>2
<1>6. Disciplined'
  BY <1>5 DEF Disciplined
<1>7. Waiting(frames, freeing)' = Waiting(frames, freeing)
  <2>1. Waiting(Append(frames, F), freeing) = Waiting(frames, freeing)
    BY <1>1, <1>2, WaitingPushed
  <2> QED BY <2>1
<1>8. Stacked'
  BY <1>7, StackedKept
<1> QED BY <1>4, <1>6, <1>8

\* A command is invoked.
LEMMA InvokeKeeps ==
    ASSUME ScopeInv, ~defining.open, UNCHANGED defining, NEW w \in Words, Invoke(w)
    PROVE  Nested' /\ Disciplined' /\ Stacked'
<1> USE DEF ScopeInv, Plain, Inv
<1> DEFINE c == GetCommand(w)
<1>1. c \in CmdIds
  BY LookupType DEF Invoke, MaybeCmd
<1>2. PICK e \in ActivationType : e = Activation("call", c)
  <2>1. Len(frames) \in Nat
    BY DEF TypeOK
  <2> QED BY <1>1, <2>1 DEF Activation, ActivationType, MaybeCmd
<1>3. PICK a \in Seq(ActivationType) : a = <<e>> /\ Len(a) = 1 /\ a[1] = e
  <2>1. <<e>> \in Seq(ActivationType) /\ Len(<<e>>) = 1 /\ <<e>>[1] = e
    OBVIOUS
  <2> QED BY <2>1
<1>4. e.parent = Len(frames) /\ e.kind = "call"
  BY <1>2 DEF Activation
<1>5. PICK F \in FrameType : F = Frame(cmd[c].ns) /\ F.locals = <<>>
  <2>1. Frame(cmd[c].ns) \in FrameType /\ Frame(cmd[c].ns).locals = <<>>
    BY <1>1, EmptySeq DEF Frame, FrameType, TypeOK, CmdType
  <2> QED BY <2>1
<1>6. Enter(c, a)
  BY <1>2, <1>3 DEF Invoke
<1>7. stack' = stack \o a /\ (frames' = frames \/ frames' = Append(frames, F))
  BY <1>5, <1>6 DEF Enter
<1>8. \A x \in CmdIds : cmd'[x].prev = cmd[x].prev
  BY <1>1, CountKeepsLinks DEF Invoke, TypeOK
<1>9. Running /\ UNCHANGED <<commands, local, freeing>>
  BY DEF Invoke
<1>10. \A i \in 1..Len(a) : a[i].parent = Len(frames)
  BY <1>3, <1>4
<1>11. a[Len(a)].kind \in {"call", "eval"} /\ Len(a) \in {1, 2}
  BY <1>3, <1>4
<1> HIDE DEF ScopeInv
<1> QED BY <1>5, <1>7, <1>8, <1>9, <1>10, <1>11, BeginKeeps

\* [upcall] invokes the definition below.
LEMMA UpcallKeeps ==
    ASSUME ScopeInv, ~defining.open, UNCHANGED defining, NEW w \in Words, Upcall(w)
    PROVE  Nested' /\ Disciplined' /\ Stacked'
<1> USE DEF ScopeInv, Plain, Inv
<1> DEFINE c == GetCommand(w)
           target == AfterRun(cmd[c].prev, InUpcall)
<1>1. c \in CmdIds
  BY LookupType DEF Upcall, MaybeCmd
<1>2. target \in CmdIds
  <2>1. cmd[c].prev \in CmdIds
    BY <1>1 DEF Upcall, TypeOK, CmdType
  <2> QED BY <2>1, AfterRunType DEF Upcall, MaybeCmd
<1>3. PICK d \in ActivationType, e \in ActivationType :
         d = Activation("upcall", c) /\ e = Activation("call", target)
  <2>1. Len(frames) \in Nat
    BY DEF TypeOK
  <2>2. Activation("upcall", c) \in ActivationType /\ Activation("call", target) \in ActivationType
    BY <1>1, <1>2, <2>1 DEF Activation, ActivationType, MaybeCmd
  <2> QED BY <2>2
<1>4. PICK a \in Seq(ActivationType) : a = <<d, e>> /\ Len(a) = 2 /\ a[1] = d /\ a[2] = e
  <2>1. /\ <<d, e>> \in Seq(ActivationType) /\ Len(<<d, e>>) = 2
        /\ <<d, e>>[1] = d /\ <<d, e>>[2] = e
    OBVIOUS
  <2> QED BY <2>1
<1>5. d.parent = Len(frames) /\ e.parent = Len(frames) /\ e.kind = "call"
  BY <1>3 DEF Activation
<1>6. PICK F \in FrameType : F = Frame(cmd[target].ns) /\ F.locals = <<>>
  <2>1. Frame(cmd[target].ns) \in FrameType /\ Frame(cmd[target].ns).locals = <<>>
    BY <1>2, EmptySeq DEF Frame, FrameType, TypeOK, CmdType
  <2> QED BY <2>1
<1>7. Enter(target, a)
  BY <1>3, <1>4 DEF Upcall
<1>8. stack' = stack \o a /\ (frames' = frames \/ frames' = Append(frames, F))
  BY <1>6, <1>7 DEF Enter
<1>9. \A x \in CmdIds : cmd'[x].prev = cmd[x].prev
  <2> DEFINE marked == [cmd EXCEPT ![c].upcall = @ + 1]
             held == [marked EXCEPT ![c].inUse = @ + 1]
  <2>1. marked \in [CmdIds -> CmdType] /\ \A x \in CmdIds : marked[x].prev = cmd[x].prev
    <3>1. cmd \in [CmdIds -> CmdType]
      BY DEF TypeOK
    <3> HIDE DEF c, target
    <3>2. marked \in [CmdIds -> CmdType]
      BY <1>1, <3>1, CountUp
    <3>3. \A x \in CmdIds : marked[x].prev = cmd[x].prev
      BY <1>1, <3>1, CountKeepsLinks
    <3> QED BY <3>2, <3>3
  <2>2. cmd' = [held EXCEPT ![target].inUse = @ + 1]
    BY DEF Upcall
  <2> HIDE DEF marked, c, target
  <2>3. held \in [CmdIds -> CmdType] /\ \A x \in CmdIds : held[x].prev = marked[x].prev
    BY <1>1, <2>1, CountUp, CountKeepsLinks
  <2> HIDE DEF held
  <2>4. \A x \in CmdIds : cmd'[x].prev = held[x].prev
    BY <1>2, <2>2, <2>3, CountKeepsLinks
  <2> QED BY <2>1, <2>3, <2>4
<1>10. Running /\ UNCHANGED <<commands, local, freeing>>
  BY DEF Upcall
<1>11. \A i \in 1..Len(a) : a[i].parent = Len(frames)
  <2> SUFFICES ASSUME NEW i \in 1..Len(a) PROVE a[i].parent = Len(frames)
    OBVIOUS
  <2>1. i = 1 \/ i = 2
    BY <1>4
  <2> QED BY <1>4, <1>5, <2>1
<1>12. a[Len(a)].kind \in {"call", "eval"} /\ Len(a) \in {1, 2}
  BY <1>4, <1>5
<1> HIDE DEF ScopeInv, c, target
<1> QED BY <1>6, <1>8, <1>9, <1>10, <1>11, <1>12, BeginKeeps

\* [namespace eval] begins.
LEMMA EvalKeeps ==
    ASSUME ScopeInv, ~defining.open, UNCHANGED defining, NEW n \in Namespaces, NamespaceEval(n)
    PROVE  Nested' /\ Disciplined' /\ Stacked'
<1> USE DEF ScopeInv, Plain, Inv
<1>1. stack \in Seq(ActivationType) /\ Len(frames) \in Nat
  BY DEF TypeOK, ActivationType, MaybeCmd
<1>2. PICK e \in ActivationType : e = Activation("eval", Nil)
  BY <1>1 DEF Activation, ActivationType, MaybeCmd
<1>3. PICK a \in Seq(ActivationType) : a = <<e>> /\ Len(a) = 1 /\ a[1] = e
  <2>1. <<e>> \in Seq(ActivationType) /\ Len(<<e>>) = 1 /\ <<e>>[1] = e
    OBVIOUS
  <2> QED BY <2>1
<1>4. e.parent = Len(frames) /\ e.kind = "eval"
  BY <1>2 DEF Activation
<1>5. PICK F \in FrameType : F = Frame(n) /\ F.locals = <<>>
  <2>1. Frame(n) \in FrameType /\ Frame(n).locals = <<>>
    BY WordsAssumption, EmptySeq DEF Frame, FrameType
  <2> QED BY <2>1
<1>6. stack' = stack \o a /\ frames' = Append(frames, F)
  BY <1>1, <1>2, <1>3, <1>5, AppendIsConcat DEF NamespaceEval
<1>7. Running /\ UNCHANGED <<commands, cmd, local, freeing>>
  BY DEF NamespaceEval
<1>8. \A i \in 1..Len(a) : a[i].parent = Len(frames)
  BY <1>3, <1>4
<1>9. a[Len(a)].kind \in {"call", "eval"} /\ Len(a) \in {1, 2}
  BY <1>3, <1>4
<1> HIDE DEF ScopeInv
<1> QED BY <1>5, <1>6, <1>7, <1>8, <1>9, BeginKeeps

\* [upcall] ends.
LEMMA UpcallEndKeeps ==
    ASSUME ScopeInv, ~defining.open, UNCHANGED defining, UpcallEnd
    PROVE  Nested' /\ Disciplined' /\ Stacked'
<1> USE DEF ScopeInv, Plain, Inv
<1>1. /\ stack # <<>> /\ Top.kind = "upcall" /\ stack' = Pop(stack)
      /\ UNCHANGED <<commands, local, frames, freeing>>
  BY DEF UpcallEnd, Ending
<1>2. PICK n \in 1..Len(stack) : n = Len(stack) /\ Top = stack[n]
  BY <1>1, PopTypes DEF Top
<1>3. PICK c \in CmdIds : c = Top.cmd
  BY <1>1, <1>2 DEF FramesOK
<1>4. Nested'
  <2>1. Len(frames) = Top.parent
    BY <1>1, NestedTop
  <2> QED BY <1>1, <2>1, NestedPop
<1>5. Disciplined'
  BY <1>1 DEF Disciplined
<1>6. ASSUME NEW x \in CmdIds PROVE cmd'[x].prev = cmd[x].prev
  <2>1. Decr(c)[x] \in CmdType /\ Decr(c)[x].prev = cmd[x].prev
    BY <1>2, <1>3, DecrType, ReleaseKeepsLinks
  <2>2. [Decr(c)[x] EXCEPT !.upcall = @ - 1].prev = Decr(c)[x].prev
    BY <2>1 DEF CmdType
  <2>3. cmd'[x] = Decr(c)[x] \/ cmd'[x] = [Decr(c)[x] EXCEPT !.upcall = @ - 1]
    BY <1>3 DEF UpcallEnd
  <2> QED BY <2>1, <2>2, <2>3
<1>7. Stacked'
  BY <1>1, <1>6, StackedKept
<1> QED BY <1>4, <1>5, <1>7

\* A command returns.
LEMMA ReturnKeeps ==
    ASSUME ScopeInv, ~defining.open, UNCHANGED defining, Return
    PROVE  Nested' /\ Disciplined' /\ Stacked'
<1> USE DEF ScopeInv, Plain, Inv
<1>1. /\ stack # <<>> /\ stack' = Pop(stack) /\ ~freeing.on
      /\ UNCHANGED <<commands, cmd, local>>
      /\ frames' = SubSeq(frames, 1, Top.parent)
      /\ freeing'.locals = (IF Top.parent < Len(frames) THEN frames[Len(frames)]
                            ELSE Frame(<<>>)).locals
  BY DEF Return, Ending, Running
<1>2. frames \in Seq(FrameType) /\ Len(frames) \in Nat
  BY DEF TypeOK, FrameType
<1>3. PICK p \in 1..Len(frames) : p = Top.parent /\ (Len(frames) = p \/ Len(frames) = p + 1)
  BY <1>1, NestedTop
<1>4. /\ p \in 0..Len(frames) /\ 1 \in 1..p
  BY <1>2, <1>3
<1>5. Len(frames') = p /\ frames'[1] = frames[1]
  BY <1>1, <1>2, <1>3, <1>4, PrefixProperties
<1>6. Nested'
  BY <1>1, <1>3, <1>5, NestedPop
<1>7. Disciplined'
  BY <1>1, <1>5 DEF Disciplined
<1>8. freeing.locals = <<>>
  BY <1>1 DEF Counted, Idle, NotFreeing
<1>9. freeing'.locals = IF p < Len(frames) THEN frames[Len(frames)].locals ELSE <<>>
  BY <1>1, <1>3 DEF Frame
<1>10. Waiting(frames, freeing)' = Waiting(frames, freeing)
  <2>1. PICK fe : fe = freeing'
    OBVIOUS
  <2>2. Waiting(SubSeq(frames, 1, p), fe) = Waiting(frames, freeing)
    BY <1>2, <1>3, <1>8, <1>9, <2>1, WaitingReturned
  <2> QED BY <1>1, <1>3, <2>1, <2>2
<1>11. Stacked'
  BY <1>1, <1>10, StackedKept
<1> QED BY <1>6, <1>7, <1>11

\* The hold on a command that returned is dropped.
LEMMA EndReturnKeeps ==
    ASSUME ScopeInv, ~defining.open, UNCHANGED defining, EndReturn
    PROVE  Nested' /\ Disciplined' /\ Stacked'
<1> USE DEF ScopeInv, Plain, Inv
<1>1. /\ UNCHANGED <<commands, local, frames, stack>> /\ freeing' = NotFreeing
      /\ freeing.locals = <<>>
      /\ cmd' = IF freeing.cmd = Nil THEN cmd ELSE Decr(freeing.cmd)
  BY DEF EndReturn
<1>2. Nested' /\ Disciplined'
  BY <1>1 DEF Nested, Reached, Disciplined, NotFreeing
<1>3. ASSUME NEW x \in CmdIds PROVE cmd'[x].prev = cmd[x].prev
  <2>1. CASE freeing.cmd = Nil
    BY <1>1, <2>1
  <2>2. CASE freeing.cmd # Nil
    <3>1. PICK c \in CmdIds : c = freeing.cmd
      BY <2>2 DEF TypeOK, MaybeCmd
    <3>2. Decr(c)[x].prev = cmd[x].prev
      BY <3>1, ReleaseKeepsLinks
    <3> QED BY <1>1, <2>2, <3>1, <3>2
  <2> QED BY <2>1, <2>2
<1>4. Waiting(frames, freeing)' = Waiting(frames, freeing)
  <2>1. freeing'.locals = freeing.locals
    BY <1>1 DEF NotFreeing
  <2> QED BY <1>1, <2>1 DEF Waiting
<1>5. Stacked'
  BY <1>1, <1>3, <1>4, StackedKept
<1> QED BY <1>2, <1>5

\* A waiting name is deleted: the last definition of its stack goes.
LEMMA DeleteKeeps ==
    ASSUME Flat, ScopeInv, ~defining.open, UNCHANGED defining, DeleteLocal
    PROVE  Nested' /\ Disciplined' /\ Stacked'
<1> USE DEF ScopeInv, Plain, Inv
<1>1. /\ freeing.on /\ freeing.locals # <<>> /\ freeing.locals \in Seq(Words)
      /\ UNCHANGED <<local, frames, stack>>
      /\ freeing'.on = freeing.on /\ freeing'.locals = Tail(freeing.locals)
  BY DEF DeleteLocal, TypeOK
<1>2. Nested' /\ Disciplined'
  BY <1>1 DEF Nested, Reached, Disciplined
<1>3. PICK w \in Words : w = Head(freeing.locals)
  BY <1>1, HeadTailProperties
<1>4. PICK k \in Seq(Parts) : k = w.path /\ k = Qualify(CurNs, w)
  BY FlatNames
<1>5. PICK h : Chained(commands, cmd, h) /\ Sized(h, Waiting(frames, freeing), defining.words)
  BY DEF Stacked
<1>6. defining.words = {}
  BY DEF Disciplined, NotDefining
<1>7. frames \in Seq(FrameType) /\ freeing \in FreeingType /\ freeing' \in FreeingType
  <2>1. TypeOK'
    BY DeleteLocalTypes
  <2> QED BY <2>1 DEF TypeOK, FrameType, FreeingType, MaybeCmd
<1>8. PICK n \in Nat : n = Len(frames) + 1
  BY <1>7, LenProperties
<1>9. PICK L, M : L = Waiting(frames, freeing) /\ M = Waiting(frames, freeing')
  OBVIOUS
<1>10. L \in [Nat -> Seq(Words)] /\ M \in [Nat -> Seq(Words)] /\ L = Queued(M, n, w)
  <2>1. PICK fe \in FreeingType : fe = freeing'
    BY <1>7
  <2>2. Waiting(frames, freeing) = Queued(Waiting(frames, fe), Len(frames) + 1, Head(freeing.locals))
    BY <1>1, <1>7, <2>1, WaitingDeleted
  <2>3. Waiting(frames, freeing) \in [Nat -> Seq(Words)] /\ Waiting(frames, fe) \in [Nat -> Seq(Words)]
    BY <1>7, <2>1, WaitingType
  <2> QED BY <1>3, <1>8, <1>9, <2>1, <2>2, <2>3
<1>11. ASSUME NEW j \in Seq(Parts)
       PROVE  /\ IsFiniteSet(Places(M, j)) /\ Cardinality(Places(M, j)) \in Nat
              /\ Len(h[j]) = One(j \in DOMAIN InitTable) + Cardinality(Places(M, j)) + One(j = k)
  <2>1. /\ IsFiniteSet(Places(L, j))
        /\ Len(h[j]) = One(j \in DOMAIN InitTable) + Cardinality(Places(L, j))
                       + One(\E v \in {} : v.path = j)
    BY <1>5, <1>6, <1>9 DEF Sized
  <2>2. Counts(Places(M, j), Places(L, j), w.path = j)
    BY <1>10, <2>1, PlaceCounted
  <2>3. One(\E v \in {} : v.path = j) = 0 /\ One(w.path = j) = One(j = k)
    BY <1>4 DEF One
  <2> QED BY <2>1, <2>2, <2>3 DEF Counts, One
<1>12. h \in [Seq(Parts) -> Seq(CmdIds)]
  BY <1>5 DEF Chained
<1>13. Len(h[k]) >= 1 /\ (k \in DOMAIN InitTable => Len(h[k]) >= 2) /\ k \in DOMAIN commands
  <2>1. Len(h[k]) >= 1 /\ (k \in DOMAIN InitTable => Len(h[k]) >= 2)
    BY <1>11 DEF One
  <2> QED BY <1>5, <2>1 DEF Chained
<1>14. PICK c \in CmdIds : c = commands[k]
  BY <1>13 DEF TypeOK
<1>15. PICK u, q : u = commands' /\ q = cmd'
  OBVIOUS
<1>16. Popped(commands, cmd, k, u, q)
  <2> DEFINE unlinked == [cmd EXCEPT ![c].prev = Nil]
  <2>1. cmd \in [CmdIds -> CmdType] /\ cmd[c] \in CmdType
    BY DEF TypeOK
  <2>2. q = [unlinked EXCEPT ![c] = IF LastUse(c) THEN NoCmd
                                    ELSE [unlinked[c] EXCEPT !.inUse = @ - 1]]
    BY <1>3, <1>4, <1>13, <1>14, <1>15 DEF DeleteLocal
  <2>3. /\ unlinked[c] = [cmd[c] EXCEPT !.prev = Nil] /\ DOMAIN unlinked = CmdIds
        /\ \A x \in CmdIds : x # c => unlinked[x] = cmd[x]
    BY <2>1
  <2>4. unlinked[c].prev = Nil /\ unlinked[c] \in CmdType
    BY <2>1, <2>3 DEF CmdType
  <2> HIDE DEF unlinked
  <2>5. q[c] = IF LastUse(c) THEN NoCmd ELSE [unlinked[c] EXCEPT !.inUse = @ - 1]
    BY <2>2, <2>3
  <2>6. q[c].prev = Nil
    <3>1. [unlinked[c] EXCEPT !.inUse = @ - 1].prev = unlinked[c].prev
      BY <2>4 DEF CmdType
    <3> QED BY <2>4, <2>5, <3>1 DEF NoCmd
  <2>7. \A x \in CmdIds : x # c => q[x].prev = cmd[x].prev
    BY <2>2, <2>3
  <2>8. u = Restored(k)
    BY <1>3, <1>4, <1>13, <1>15 DEF DeleteLocal
  <2>9. /\ cmd[c].prev # Nil => DOMAIN u = DOMAIN commands /\ u[k] = cmd[c].prev
        /\ cmd[c].prev = Nil => DOMAIN u = DOMAIN commands \ {k}
        /\ \A j \in DOMAIN commands : j # k => u[j] = commands[j]
    BY <1>13, <1>14, <2>8 DEF Restored, With, Without
  <2> QED BY <1>13, <1>14, <2>6, <2>7, <2>9 DEF Popped
<1>17. PICK g : g = [h EXCEPT ![k] = SubSeq(@, 1, Len(@) - 1)]
  OBVIOUS
<1>18. Chained(u, q, g)
  <2>1. Apart(commands, cmd)
    BY DEF Counted
  <2> QED BY <1>5, <1>13, <1>16, <1>17, <2>1, ChainPopped
<1>19. Sized(g, M, {})
  <2> SUFFICES ASSUME NEW j \in Seq(Parts)
               PROVE  /\ IsFiniteSet(Places(M, j))
                      /\ Len(g[j]) = One(j \in DOMAIN InitTable) + Cardinality(Places(M, j))
                                     + One(\E v \in {} : v.path = j)
    BY DEF Sized
  <2>1. One(\E v \in {} : v.path = j) = 0
    BY DEF One
  <2>2. CASE j = k
    <3>1. PICK s \in Seq(CmdIds) : s = h[k] /\ Len(s) >= 1 /\ g[j] = SubSeq(s, 1, Len(s) - 1)
      BY <1>12, <1>13, <1>17, <2>2
    <3>2. Len(g[j]) = Len(s) - 1 /\ Len(s) \in Nat
      BY <3>1, FrontProperties
    <3> QED BY <1>11, <2>1, <2>2, <3>1, <3>2 DEF One
  <2>3. CASE j # k
    <3>1. g[j] = h[j]
      BY <1>12, <1>17, <2>3
    <3> QED BY <1>11, <2>1, <2>3, <3>1 DEF One
  <2> QED BY <2>2, <2>3
<1>20. Stacked'
  <2>1. Waiting(frames, freeing)' = M
    BY <1>1, <1>9
  <2>2. Chained(commands', cmd', g) /\ Sized(g, Waiting(frames, freeing)', defining'.words)
    BY <1>6, <1>15, <1>18, <1>19, <2>1
  <2> QED BY <2>2 DEF Stacked
<1> QED BY <1>2, <1>20

---------------------------------------------------------------------------
(* The theorems *)

\* Every step of the discipline is a step of the commands, so that all that is
\* proved of those holds here too.
THEOREM ImplementsCommands == ScopeSpec => Spec
<1> DEFINE K == defining.words \subseteq Words
<1>1. ScopeInit => K /\ Init
  BY DEF ScopeInit, NotDefining
<1>2. K /\ [ScopeNext]_scopeVars => K' /\ [Next]_vars
  <2> SUFFICES ASSUME K, [ScopeNext]_scopeVars PROVE K' /\ [Next]_vars
    OBVIOUS
  <2>1. CASE OpenLocal
    BY <2>1 DEF OpenLocal, Next
  <2>2. CASE RegisterLocal
    BY <2>2 DEF RegisterLocal, NotDefining, Next
  <2>3. ASSUME NEW w \in Words, DefineLocal(w) PROVE K' /\ [Next]_vars
    <3>1. Next
      BY <2>3 DEF DefineLocal, Next
    <3>2. defining' = [defining EXCEPT !.words = {w}]
      BY <2>3 DEF DefineLocal
    <3>3. K'
      BY <3>2
    <3> QED BY <3>1, <3>3
  <2>4. ASSUME NEW w \in Words, Invoke(w) \/ Upcall(w), UNCHANGED defining PROVE K' /\ [Next]_vars
    BY <2>4 DEF Next
  <2>5. ASSUME NEW n \in Namespaces, NamespaceEval(n), UNCHANGED defining PROVE K' /\ [Next]_vars
    BY <2>5 DEF Next
  <2>6. CASE (UpcallEnd \/ Return \/ DeleteLocal \/ EndReturn) /\ UNCHANGED defining
    BY <2>6 DEF Next
  <2>7. CASE UNCHANGED scopeVars
    BY <2>7 DEF scopeVars, vars
  <2> QED BY <2>1, <2>2, <2>3, <2>4, <2>5, <2>6, <2>7 DEF ScopeNext
<1> QED BY <1>1, <1>2, PTL DEF ScopeSpec, Spec

\* In a program without namespaces the stacks have as many definitions as names
\* wait, in every state.
LEMMA AlwaysStacked ==
    ASSUME Flat, \A k \in DOMAIN InitTable : Len(k) = 1
    PROVE  ScopeSpec => []ScopeInv
<1>1. ScopeInit => Nested /\ Disciplined /\ Stacked
  <2> SUFFICES ASSUME ScopeInit PROVE Nested /\ Disciplined /\ Stacked
    OBVIOUS
  <2>1. /\ commands = InitTable /\ local = 0 /\ stack = <<>> /\ Len(frames) = 1
        /\ frames[1].locals = <<>> /\ freeing = NotFreeing /\ defining = NotDefining
    BY DEF ScopeInit, Init, Frame
  <2>2. Nested /\ Disciplined
    BY <2>1 DEF Nested, Reached, Disciplined, NotDefining, One
  <2>3. \A x \in CmdIds : cmd[x].prev = Nil
    BY DEF ScopeInit, Init, NewCmd, NoCmd
  <2>4. PICK h : h = [k \in Seq(Parts) |-> IF k \in DOMAIN InitTable THEN <<InitTable[k]>> ELSE <<>>]
    OBVIOUS
  <2>5. ASSUME NEW k \in Seq(Parts)
        PROVE  /\ h[k] \in Seq(CmdIds)
               /\ k \in DOMAIN InitTable => Len(h[k]) = 1 /\ h[k][1] = InitTable[k]
               /\ k \notin DOMAIN InitTable => Len(h[k]) = 0
    <3>1. CASE k \in DOMAIN InitTable
      <4>1. InitTable[k] \in CmdIds /\ h[k] = <<InitTable[k]>>
        BY <2>4, <3>1, PoolAssumption
      <4> QED BY <3>1, <4>1
    <3>2. CASE k \notin DOMAIN InitTable
      <4>1. h[k] = <<>>
        BY <2>4, <3>2
      <4> QED BY <3>2, <4>1, EmptySeq
    <3> QED BY <3>1, <3>2
  <2>6. Chained(commands, cmd, h)
    <3>1. h \in [Seq(Parts) -> Seq(CmdIds)] /\ DOMAIN commands \subseteq Seq(Parts)
      <4>1. \A k \in Seq(Parts) : h[k] \in Seq(CmdIds)
        BY <2>5
      <4>2. h = [k \in Seq(Parts) |-> h[k]]
        BY <2>4
      <4> QED BY <2>1, <4>1, <4>2, PoolAssumption
    <3>2. \A k \in Seq(Parts) : k \in DOMAIN commands <=> Len(h[k]) >= 1
      BY <2>1, <2>5
    <3>3. \A k \in DOMAIN commands : commands[k] = h[k][Len(h[k])]
      BY <2>1, <2>5, PoolAssumption
    <3>4. \A k \in Seq(Parts) : \A i \in 1..Len(h[k]) :
             cmd[h[k][i]].prev = IF i = 1 THEN Nil ELSE h[k][i - 1]
      <4> SUFFICES ASSUME NEW k \in Seq(Parts), NEW i \in 1..Len(h[k])
                   PROVE  i = 1 /\ cmd[h[k][i]].prev = Nil
        OBVIOUS
      <4>1. k \in DOMAIN InitTable
        BY <2>5
      <4>2. i = 1
        <5>1. Len(h[k]) = 1
          BY <2>5, <4>1
        <5> QED BY <5>1
      <4>3. h[k][i] \in CmdIds
        BY <2>5, <4>1, <4>2, PoolAssumption
      <4> QED BY <2>3, <4>2, <4>3
    <3>5. \A k \in DOMAIN InitTable : Len(h[k]) >= 1 /\ h[k][1] = InitTable[k]
      BY <2>5, PoolAssumption
    <3> QED BY <2>3, <3>1, <3>2, <3>3, <3>4, <3>5 DEF Chained
  <2>7. Sized(h, Waiting(frames, freeing), {})
    <3>1. PICK L : L = Waiting(frames, freeing)
      OBVIOUS
    <3>2. \A f \in Nat : L[f] = <<>>
      BY <2>1, <3>1 DEF Waiting, NotFreeing
    <3> SUFFICES ASSUME NEW k \in Seq(Parts)
                 PROVE  /\ IsFiniteSet(Places(L, k))
                        /\ Len(h[k]) = One(k \in DOMAIN InitTable) + Cardinality(Places(L, k))
                                       + One(\E w \in {} : w.path = k)
      BY <3>1 DEF Sized
    <3>3. IsFiniteSet(Places(L, k)) /\ Cardinality(Places(L, k)) = 0
      BY <3>2, NoPlace
    <3>4. One(\E w \in {} : w.path = k) = 0
      BY DEF One
    <3>5. Len(h[k]) = One(k \in DOMAIN InitTable)
      BY <2>5 DEF One
    <3> QED BY <3>3, <3>4, <3>5 DEF One
  <2>8. Stacked
    BY <2>1, <2>6, <2>7 DEF Stacked, NotDefining
  <2> QED BY <2>2, <2>8
<1>2. ScopeInv /\ [ScopeNext]_scopeVars => (Nested /\ Disciplined /\ Stacked)'
  <2> SUFFICES ASSUME ScopeInv, [ScopeNext]_scopeVars PROVE Nested' /\ Disciplined' /\ Stacked'
    OBVIOUS
  <2>1. CASE OpenLocal
    BY <2>1, OpenKeeps
  <2>2. CASE RegisterLocal
    BY <2>2, RegisterKeeps
  <2>3. ASSUME NEW w \in Words, DefineLocal(w) PROVE Nested' /\ Disciplined' /\ Stacked'
    BY <2>3, DefineKeeps
  <2>4. ASSUME ~defining.open, UNCHANGED defining, NEW w \in Words, Invoke(w) \/ Upcall(w)
        PROVE  Nested' /\ Disciplined' /\ Stacked'
    BY <2>4, InvokeKeeps, UpcallKeeps
  <2>5. ASSUME ~defining.open, UNCHANGED defining, NEW n \in Namespaces, NamespaceEval(n)
        PROVE  Nested' /\ Disciplined' /\ Stacked'
    BY <2>5, EvalKeeps
  <2>6. ASSUME ~defining.open, UNCHANGED defining, UpcallEnd \/ Return \/ DeleteLocal \/ EndReturn
        PROVE  Nested' /\ Disciplined' /\ Stacked'
    BY <2>6, UpcallEndKeeps, ReturnKeeps, DeleteKeeps, EndReturnKeeps
  <2>7. CASE UNCHANGED scopeVars
    <3>1. UNCHANGED <<commands, cmd, local, frames, stack, freeing, defining>>
      BY <2>7 DEF scopeVars
    <3>2. Nested' /\ Disciplined'
      BY <3>1 DEF ScopeInv, Nested, Reached, Disciplined
    <3> QED BY <3>1, <3>2, StackedKept DEF ScopeInv
  <2> QED BY <2>1, <2>2, <2>3, <2>4, <2>5, <2>6, <2>7 DEF ScopeNext
<1>3. ScopeSpec => [](Inv /\ Counted /\ GlobalOnly /\ freeing.ns = <<>>)
  BY ImplementsCommands, Invariant, AlwaysCounted, FreeingGlobal, PTL
<1>4. ScopeSpec => []Plain
  BY <1>3 DEF Plain
<1>5. Plain /\ Nested /\ Disciplined /\ Stacked => ScopeInv
  BY DEF ScopeInv
<1> QED BY <1>1, <1>2, <1>4, <1>5, PTL DEF ScopeSpec

\* Local commands leave no trace: whenever no script is running, each name has the
\* native definition it began with, or none, and all the others have been freed.
THEOREM LocalsVanish ==
    ASSUME Flat, \A k \in DOMAIN InitTable : Len(k) = 1
    PROVE  ScopeSpec => []LocalsLeaveNoTrace
<1>1. ScopeInv => LocalsLeaveNoTrace
  <2> SUFFICES ASSUME ScopeInv, stack = <<>>, ~freeing.on
               PROVE  /\ commands = InitTable
                      /\ \A c \in CmdIds :
                            cmd[c].inUse = IF \E k \in DOMAIN InitTable : InitTable[k] = c
                                           THEN 1 ELSE 0
    BY DEF LocalsLeaveNoTrace
  <2> USE DEF ScopeInv, Plain, Inv
  <2>1. freeing = NotFreeing /\ defining.words = {}
    BY DEF Counted, Idle, Disciplined, NotDefining
  <2>2. Len(frames) = 1 /\ frames[1].locals = <<>>
    BY DEF Nested, Reached, Disciplined
  <2>3. PICK h : Chained(commands, cmd, h) /\ Sized(h, Waiting(frames, freeing), {})
    BY <2>1 DEF Stacked
  <2>4. ASSUME NEW k \in Seq(Parts) PROVE Len(h[k]) = One(k \in DOMAIN InitTable)
    <3>1. PICK L : L = Waiting(frames, freeing)
      OBVIOUS
    <3>2. \A f \in Nat : L[f] = <<>>
      BY <2>1, <2>2, <3>1 DEF Waiting, NotFreeing
    <3>3. Cardinality(Places(L, k)) = 0
      BY <3>2, NoPlace
    <3>4. Len(h[k]) = One(k \in DOMAIN InitTable) + Cardinality(Places(L, k))
                      + One(\E w \in {} : w.path = k)
      BY <2>3, <3>1 DEF Sized
    <3>5. One(\E w \in {} : w.path = k) = 0
      BY DEF One
    <3> QED BY <3>3, <3>4, <3>5 DEF One
  <2>5. DOMAIN commands = DOMAIN InitTable
    <3>1. DOMAIN commands \subseteq Seq(Parts) /\ DOMAIN InitTable \subseteq Seq(Parts)
      BY <2>3, PoolAssumption DEF Chained
    <3>2. ASSUME NEW k \in Seq(Parts) PROVE k \in DOMAIN commands <=> k \in DOMAIN InitTable
      <4>1. k \in DOMAIN commands <=> Len(h[k]) >= 1
        BY <2>3 DEF Chained
      <4> QED BY <2>4, <4>1 DEF One
    <3> QED BY <3>1, <3>2
  <2>6. \A k \in DOMAIN InitTable : commands[k] = InitTable[k]
    <3> SUFFICES ASSUME NEW k \in DOMAIN InitTable PROVE commands[k] = InitTable[k]
      OBVIOUS
    <3>1. Len(h[k]) = 1
      BY <2>4, PoolAssumption DEF One
    <3> QED BY <2>3, <2>5, <3>1 DEF Chained
  <2>7. commands = InitTable
    <3>1. commands \in [DOMAIN commands -> CmdIds] /\ InitTable \in [DOMAIN InitTable -> CmdIds]
      BY PoolAssumption DEF TypeOK
    <3> QED BY <2>5, <2>6, <3>1
  <2>8. \A c \in CmdIds : ~AboveIn(cmd, c)
    <3> SUFFICES ASSUME NEW c \in CmdIds, NEW d \in CmdIds, cmd[d].prev = c PROVE FALSE
      BY DEF AboveIn
    <3>1. cmd[d].prev # Nil
      BY PoolAssumption
    <3>2. PICK k \in Seq(Parts) : \E i \in 1..Len(h[k]) : h[k][i] = d
      BY <2>3, <3>1 DEF Chained
    <3>3. PICK i \in 1..Len(h[k]) : h[k][i] = d
      BY <3>2
    <3>4. i = 1
      BY <2>4, <3>3 DEF One
    <3>5. cmd[h[k][i]].prev = Nil
      BY <2>3, <3>3, <3>4 DEF Chained
    <3> QED BY <3>1, <3>3, <3>5
  <2>9. ASSUME NEW c \in CmdIds
        PROVE  cmd[c].inUse = IF \E k \in DOMAIN InitTable : InitTable[k] = c THEN 1 ELSE 0
    <3>1. Uses(stack, c) = 0
      <4>1. {i \in 1..Len(stack) : stack[i].cmd = c} = {}
        OBVIOUS
      <4> QED BY <4>1, FS_EmptySet DEF Uses
    <3>2. freeing.cmd # c
      BY <2>1, PoolAssumption DEF NotFreeing
    <3>3. cmd[c].inUse = One(TabledIn(commands, c)) + One(AboveIn(cmd, c)) + Uses(stack, c)
                         + One(freeing.cmd = c)
      BY DEF Counted, Exact
    <3>4. One(AboveIn(cmd, c)) = 0 /\ One(freeing.cmd = c) = 0
      BY <2>8, <3>2 DEF One
    <3>5. One(TabledIn(commands, c)) = IF \E k \in DOMAIN InitTable : InitTable[k] = c THEN 1 ELSE 0
      BY <2>7 DEF One, TabledIn
    <3> QED BY <3>1, <3>3, <3>4, <3>5
  <2> QED BY <2>7, <2>9
<1> QED BY <1>1, AlwaysStacked, PTL
=============================================================================
