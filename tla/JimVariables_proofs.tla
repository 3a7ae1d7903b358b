------------------------ MODULE JimVariables_proofs ------------------------
(***************************************************************************)
(* Proofs about JimVariables: its types, the caches of the name objects,   *)
(* and the links, for any words, structures, frames and calls.             *)
(*                                                                         *)
(* The parts of the invariant are operators of the frames fr, the          *)
(* structures va, the caches ca and the epoch e, so that a fact about the  *)
(* next state is the same fact about other arguments.                      *)
(***************************************************************************)
EXTENDS JimVariables, JimLemmas

Tables == UNION {[D -> VarIds] : D \in SUBSET Bases}
Var == [used : BOOLEAN, obj : Contents \cup {Nil}, link : Nat]
CacheType == [id : Int, var : MaybeVar]
Entry == [kind : {"call", "uplevel"}, saved : Nat]

\* Callers and Lookup, for other frames than the current ones.
CallersIn(fr, f) ==
    {g \in DOMAIN fr : \A S \in SUBSET DOMAIN fr :
        f \in S /\ (\A x \in S : fr[x].parent # 0 => fr[x].parent \in S) => g \in S}
LookupIn(fr, w, f) ==
    IF NameOf[w] \in DOMAIN fr[FrameOf(w, f)].vars
    THEN fr[FrameOf(w, f)].vars[NameOf[w]]
    ELSE IF ~IsGlobal[w] /\ fr[f].hasStatics /\ NameOf[w] \in DOMAIN Statics
    THEN Statics[NameOf[w]]
    ELSE Nil

\* Only the first frame has no caller, and a caller is older.
Parents(fr) ==
    /\ Len(fr) >= 1
    /\ \A f \in 1 .. Len(fr) :
          IF f = 1 THEN fr[f].parent = 0 /\ fr[f].level = 0 /\ ~fr[f].hasStatics
          ELSE fr[f].parent \in 1 .. f - 1 /\ fr[f].level >= 1

\* The ids of the frames are distinct and older than the next one.
Identified(fr, e) ==
    \A f \in 1 .. Len(fr) :
        /\ fr[f].id < e
        /\ \A g \in 1 .. Len(fr) : fr[f].id = fr[g].id => f = g

\* Every frame but the first one belongs to a call, and [uplevel] comes back to a
\* frame of the calls before it.
CallsIn(s, n) == Cardinality({i \in 1 .. n : s[i].kind = "call"})
Stacked(fr, s) ==
    /\ Len(fr) = 1 + CallsIn(s, Len(s))
    /\ \A i \in 1 .. Len(s) : s[i].kind = "uplevel" => s[i].saved \in 1 .. 1 + CallsIn(s, i)

\* A name object remembers a variable if it remembers an id, and no id of the
\* future.
Ranged(ca, e) ==
    \A w \in Words : ca[w].id < e /\ (ca[w].var = Nil => ca[w].id = -1)

\* The property CacheFresh.
Fresh(fr, ca) ==
    \A w \in Words, f \in DOMAIN fr : ca[w].id = fr[FrameOf(w, f)].id => ca[w].var = LookupIn(fr, w, f)

\* Every structure in a table or static is in use there and nowhere else; the
\* static ones are not links, and a link holds a name.
InTable(fr, va) ==
    \A f \in 1 .. Len(fr) : \A b \in DOMAIN fr[f].vars :
        /\ va[fr[f].vars[b]].used
        /\ \A a \in DOMAIN Statics : Statics[a] # fr[f].vars[b]
Apart(fr) ==
    \A f, g \in 1 .. Len(fr) : \A b \in DOMAIN fr[f].vars : \A c \in DOMAIN fr[g].vars :
        fr[f].vars[b] = fr[g].vars[c] => f = g /\ b = c
StaticsKept(va) == \A a \in DOMAIN Statics : va[Statics[a]].used /\ va[Statics[a]].link = 0
Holding(va) ==
    \A x \in VarIds :
        /\ va[x].used => va[x].obj \in Contents
        /\ va[x].link # 0 => va[x].obj \in Words /\ ~IsGlobal[va[x].obj]
Owned(fr, va) == InTable(fr, va) /\ Apart(fr) /\ StaticsKept(va) /\ Holding(va)

\* A link leads to a frame the frame of the link was called from, or to its own.
Upward(fr, va) ==
    \A f \in 1 .. Len(fr) : \A b \in DOMAIN fr[f].vars :
        va[fr[f].vars[b]].link # 0 => va[fr[f].vars[b]].link \in CallersIn(fr, f)

\* The name w stands for no static variable in frame f.
NotStatic(fr, w, f) ==
    \/ LookupIn(fr, w, f) = Nil
    \/ NameOf[w] \in DOMAIN fr[FrameOf(w, f)].vars

\* What an operation o in progress in frame c can rely on.
LinkKinds == {"byname", "upvar", "argument", "probe", "bind"}
WordKinds == {"get", "set", "unset", "byname", "probe"}
Ends(s, kind) == s # <<>> /\ s[Len(s)].kind = kind
Busy(fr, s, c, o) ==
    /\ o.kind # "idle" => o.origin \in 1 .. Len(fr)
    /\ o.kind \in WordKinds => o.word \in Words
    /\ o.kind = "set" => o.val \in Vals
    /\ o.kind \in LinkKinds => o.name \in Words /\ o.target \in Words /\ o.tframe \in 1 .. Len(fr)
    /\ o.kind = "byname" =>
          /\ o.origin = Len(fr) /\ o.tframe = fr[Len(fr)].parent
          /\ Len(fr) > 1 /\ Ends(s, "call")
    /\ o.kind \in {"upvar", "argument"} => c = o.origin /\ o.tframe \in CallersIn(fr, c)
    /\ o.kind \in {"probe", "bind"} =>
          /\ c = o.origin /\ o.tframe \in CallersIn(fr, FrameOf(o.name, c))
          /\ ~IsGlobal[o.target] /\ NotStatic(fr, o.name, c)

\* The frames and the calls; the structures and the caches.
Calls(fr, s, e) == Parents(fr) /\ Identified(fr, e) /\ Stacked(fr, s)
Caches(fr, ca, e) == Ranged(ca, e) /\ Fresh(fr, ca)
Heap(fr, va) == Owned(fr, va) /\ Upward(fr, va)

Inv ==
    /\ TypeOK
    /\ Calls(frames, stack, callFrameEpoch)
    /\ Caches(frames, cache, callFrameEpoch)
    /\ Heap(frames, var)
    /\ Busy(frames, stack, cur, op)

---------------------------------------------------------------------------
(* Tables and frames *)

\* A table is a function from spelt names to structures.
LEMMA TableIs ==
    /\ \A t \in Tables : DOMAIN t \in SUBSET Bases /\ t \in [DOMAIN t -> VarIds]
    /\ \A D \in SUBSET Bases : \A t \in [D -> VarIds] : t \in Tables
BY DEF Tables

\* Fields of the frames of a sequence of frames.
LEMMA FramesAre ==
    ASSUME NEW fr \in Seq(FrameType)
    PROVE  /\ Len(fr) \in Nat /\ DOMAIN fr = 1 .. Len(fr)
           /\ \A f \in 1 .. Len(fr) :
                /\ fr[f] \in FrameType
                /\ fr[f].id \in Nat /\ fr[f].parent \in Nat /\ fr[f].level \in Nat
                /\ fr[f].hasStatics \in BOOLEAN /\ fr[f].vars \in Tables
                /\ DOMAIN fr[f].vars \in SUBSET Bases
                /\ fr[f].vars \in [DOMAIN fr[f].vars -> VarIds]
                /\ \A b \in DOMAIN fr[f].vars : fr[f].vars[b] \in VarIds
<1>1. Len(fr) \in Nat /\ DOMAIN fr = 1 .. Len(fr)
  BY LenProperties
<1>2. ASSUME NEW f \in 1 .. Len(fr)
      PROVE  /\ fr[f] \in FrameType
             /\ fr[f].id \in Nat /\ fr[f].parent \in Nat /\ fr[f].level \in Nat
             /\ fr[f].hasStatics \in BOOLEAN /\ fr[f].vars \in Tables
  <2>1. fr[f] \in FrameType
    BY <1>2, ElementOfSeq
  <2> QED
    BY <2>1 DEF FrameType, Tables
<1>3. ASSUME NEW f \in 1 .. Len(fr)
      PROVE  /\ DOMAIN fr[f].vars \in SUBSET Bases
             /\ fr[f].vars \in [DOMAIN fr[f].vars -> VarIds]
             /\ \A b \in DOMAIN fr[f].vars : fr[f].vars[b] \in VarIds
  BY <1>2, <1>3, TableIs
<1> QED
  BY <1>1, <1>2, <1>3

\* The frame a name is looked up in.
LEMMA FrameOfIs ==
    ASSUME NEW n \in Nat, n >= 1, NEW w \in Words, NEW f \in 1 .. n
    PROVE  FrameOf(w, f) \in 1 .. n /\ FrameOf(w, f) \in 1 .. f
BY DEF FrameOf

---------------------------------------------------------------------------
(* Callers *)

\* The callers of a frame are older; it is one itself, its parent is one, and so
\* are their callers.
LEMMA CallersAre ==
    ASSUME NEW fr \in Seq(FrameType), Parents(fr), NEW f \in 1 .. Len(fr)
    PROVE  /\ CallersIn(fr, f) \in SUBSET (1 .. f)
           /\ CallersIn(fr, f) \in SUBSET (1 .. Len(fr))
           /\ f \in CallersIn(fr, f)
           /\ f # 1 => fr[f].parent \in CallersIn(fr, f)
           /\ \A g \in CallersIn(fr, f) : CallersIn(fr, g) \subseteq CallersIn(fr, f)
<1>1. /\ Len(fr) \in Nat /\ DOMAIN fr = 1 .. Len(fr)
      /\ \A x \in 1 .. Len(fr) : fr[x].parent \in Nat /\ (fr[x].parent # 0 => fr[x].parent \in 1 .. x - 1)
      /\ f # 1 => fr[f].parent # 0 /\ fr[f].parent \in 1 .. Len(fr)
  <2>1. /\ Len(fr) \in Nat /\ DOMAIN fr = 1 .. Len(fr)
        /\ \A x \in 1 .. Len(fr) : fr[x].parent \in Nat
    BY FramesAre
  <2> QED
    BY <2>1 DEF Parents
<1>2. CallersIn(fr, f) \in SUBSET (1 .. f)
  <2>1. /\ 1 .. f \in SUBSET DOMAIN fr /\ f \in 1 .. f
        /\ \A x \in 1 .. f : fr[x].parent # 0 => fr[x].parent \in 1 .. f
    BY <1>1
  <2> QED
    BY <2>1 DEF CallersIn
<1>3. f \in CallersIn(fr, f)
  BY <1>1 DEF CallersIn
<1>4. f # 1 => fr[f].parent \in CallersIn(fr, f)
  BY <1>1 DEF CallersIn
<1>5. \A g \in CallersIn(fr, f) : CallersIn(fr, g) \subseteq CallersIn(fr, f)
  BY DEF CallersIn
<1>6. CallersIn(fr, f) \in SUBSET (1 .. Len(fr))
  BY <1>1 DEF CallersIn
<1> QED
  BY <1>2, <1>3, <1>4, <1>5, <1>6

\* The first frame is a caller of every frame.
LEMMA TopIsCaller ==
    ASSUME NEW fr \in Seq(FrameType), Parents(fr), NEW f \in 1 .. Len(fr)
    PROVE  1 \in CallersIn(fr, f)
<1>1. /\ Len(fr) \in Nat /\ DOMAIN fr = 1 .. Len(fr)
      /\ \A x \in 1 .. Len(fr) : x # 1 => fr[x].parent # 0 /\ fr[x].parent \in 1 .. x - 1
  <2>1. /\ Len(fr) \in Nat /\ DOMAIN fr = 1 .. Len(fr)
        /\ \A x \in 1 .. Len(fr) : fr[x].parent \in Nat
    BY FramesAre
  <2> QED
    BY <2>1 DEF Parents
<1>2. SUFFICES ASSUME NEW S \in SUBSET DOMAIN fr, f \in S,
                      \A x \in S : fr[x].parent # 0 => fr[x].parent \in S
               PROVE  1 \in S
  BY <1>1 DEF CallersIn
<1>3. S \in SUBSET Nat /\ S # {}
  BY <1>1, <1>2
<1>4. PICK m \in S : \A k \in S : m <= k
  BY <1>3, LeastElement
<1>5. m \in 1 .. Len(fr)
  BY <1>1, <1>4
<1>6. CASE m # 1
  <2>1. fr[m].parent \in 1 .. m - 1 /\ fr[m].parent \in S
    BY <1>1, <1>2, <1>4, <1>5, <1>6
  <2> QED
    BY <2>1, <1>4, <1>5
<1> QED
  BY <1>4, <1>6

\* Callers depend on the parents of a frame and of the frames before it only.
LEMMA CallersSame ==
    ASSUME NEW fr \in Seq(FrameType), NEW gr \in Seq(FrameType), Parents(fr),
           NEW m \in Nat, m <= Len(fr), m <= Len(gr),
           \A f \in 1 .. m : gr[f].parent = fr[f].parent,
           NEW f \in 1 .. m
    PROVE  CallersIn(fr, f) \subseteq CallersIn(gr, f)
<1>1. /\ Len(fr) \in Nat /\ DOMAIN fr = 1 .. Len(fr)
      /\ Len(gr) \in Nat /\ DOMAIN gr = 1 .. Len(gr)
      /\ \A x \in 1 .. Len(fr) : fr[x].parent \in Nat
  BY FramesAre
<1>2. \A x \in 1 .. f : fr[x].parent # 0 => fr[x].parent \in 1 .. f
  BY <1>1 DEF Parents
<1>3. SUFFICES ASSUME NEW g \in CallersIn(fr, f), NEW S \in SUBSET DOMAIN gr, f \in S,
                      \A x \in S : gr[x].parent # 0 => gr[x].parent \in S
               PROVE  g \in S
  <2>1. f \in 1 .. Len(fr)
    BY <1>1
  <2>2. CallersIn(fr, f) \in SUBSET (1 .. f)
    BY <2>1, CallersAre
  <2>3. CallersIn(fr, f) \in SUBSET DOMAIN gr
    BY <1>1, <2>2
  <2> QED
    BY <2>3 DEF CallersIn
<1> DEFINE T == S \cap (1 .. f)
<1>4. T \in SUBSET DOMAIN fr /\ f \in T
  BY <1>1, <1>3
<1>5. \A x \in T : fr[x].parent # 0 => fr[x].parent \in T
  <2>1. SUFFICES ASSUME NEW x \in T, fr[x].parent # 0
                 PROVE  fr[x].parent \in T
    OBVIOUS
  <2>2. x \in 1 .. m /\ x \in S /\ x \in 1 .. f
    BY <1>1
  <2>3. gr[x].parent = fr[x].parent
    BY <2>2
  <2>4. fr[x].parent \in S
    BY <2>1, <2>2, <2>3, <1>3
  <2> QED
    BY <2>1, <2>2, <2>4, <1>2
<1>6. g \in T
  BY <1>4, <1>5 DEF CallersIn
<1> QED
  BY <1>6
---------------------------------------------------------------------------
(* Lookups and caches *)

\* What a lookup finds: a variable of the table, a static one, or nothing.
LEMMA LookupIs ==
    ASSUME NEW fr \in Seq(FrameType), Parents(fr), NEW w \in Words, NEW f \in 1 .. Len(fr)
    PROVE  /\ FrameOf(w, f) \in 1 .. Len(fr)
           /\ LookupIn(fr, w, f) \in MaybeVar
           /\ NameOf[w] \in Bases
<1>1. Len(fr) \in Nat /\ Len(fr) >= 1
  BY FramesAre DEF Parents
<1>2. FrameOf(w, f) \in 1 .. Len(fr)
  BY <1>1, FrameOfIs
<1>3. \A b \in DOMAIN fr[FrameOf(w, f)].vars : fr[FrameOf(w, f)].vars[b] \in VarIds
  BY <1>2, FramesAre
<1>4. \A a \in DOMAIN Statics : Statics[a] \in VarIds
  BY StaticsAssumption
<1>5. LookupIn(fr, w, f) \in MaybeVar
  BY <1>3, <1>4 DEF LookupIn, MaybeVar
<1>6. NameOf[w] \in Bases
  BY NameAssumption
<1> QED
  BY <1>2, <1>5, <1>6

\* A name written with "::" stands for the same variable in every frame.
LEMMA GlobalLookup ==
    ASSUME NEW fr, NEW gr, NEW w, NEW f, NEW g, IsGlobal[w], fr[1] = gr[1]
    PROVE  LookupIn(fr, w, f) = LookupIn(gr, w, g)
BY DEF LookupIn, FrameOf

\* One name object may forget, or remember what a lookup finds.
LEMMA CacheUpdate ==
    ASSUME NEW fr, NEW e \in Nat, NEW ca \in [Words -> CacheType], Caches(fr, ca, e),
           NEW w \in Words, NEW en \in CacheType,
           en.id < e, en.var = Nil => en.id = -1,
           \A f \in DOMAIN fr : en.id = fr[FrameOf(w, f)].id => en.var = LookupIn(fr, w, f)
    PROVE  LET cb == [ca EXCEPT ![w] = en]
           IN  cb \in [Words -> CacheType] /\ Caches(fr, cb, e)
<1> DEFINE cb == [ca EXCEPT ![w] = en]
<1>1. cb \in [Words -> CacheType]
  OBVIOUS
<1>2. \A v \in Words : cb[v] = IF v = w THEN en ELSE ca[v]
  OBVIOUS
<1> HIDE DEF cb
<1>3. Ranged(cb, e)
  BY <1>2 DEF Ranged, Caches
<1>4. Fresh(fr, cb)
  BY <1>2 DEF Fresh, Caches
<1> QED
  BY <1>1, <1>3, <1>4 DEF Caches, cb

\* A name object that remembers nothing.
LEMMA CacheForget ==
    ASSUME NEW fr \in Seq(FrameType), Parents(fr), NEW e \in Nat,
           NEW ca \in [Words -> CacheType], Caches(fr, ca, e), NEW w \in Words
    PROVE  /\ [ca EXCEPT ![w] = NoCache] \in [Words -> CacheType]
           /\ Caches(fr, [ca EXCEPT ![w] = NoCache], e)
<1>1. NoCache \in CacheType /\ NoCache.id = -1 /\ NoCache.id < e
  BY DEF NoCache, CacheType, MaybeVar
<1>2. \A f \in DOMAIN fr : fr[FrameOf(w, f)].id \in Nat
  BY FramesAre, FrameOfIs DEF Parents
<1>3. \A f \in DOMAIN fr : NoCache.id # fr[FrameOf(w, f)].id
  BY <1>1, <1>2
<1> HIDE DEF NoCache
<1> QED
  BY <1>1, <1>3, CacheUpdate

\* The parts of TypeOK and the properties the invariant is about.
LEMMA Bridges ==
    /\ \A f : Callers(f) = CallersIn(frames, f)
    /\ \A w, f : Lookup(w, f) = LookupIn(frames, w, f)
    /\ CacheFresh <=> Fresh(frames, cache)
    /\ \A k : Ending(k) <=> Ends(stack, k)
<1>1. \A f : Callers(f) = CallersIn(frames, f)
  BY DEF Callers, CallersIn
<1>2. \A w, f : Lookup(w, f) = LookupIn(frames, w, f)
  BY DEF Lookup, LookupIn
<1>3. CacheFresh <=> Fresh(frames, cache)
  BY <1>2 DEF CacheFresh, Fresh
<1> QED
  BY <1>1, <1>2, <1>3 DEF Ending, Ends

\* What is found with the cache is what a lookup finds, and what is left in the
\* name object is fresh.
LEMMA Resolves ==
    ASSUME Inv, NEW w \in Words
    PROVE  /\ Found(w) = LookupIn(frames, w, cur)
           /\ Found(w) \in MaybeVar
           /\ Remembered(w) \in [Words -> CacheType]
           /\ Caches(frames, Remembered(w), callFrameEpoch)
<1> DEFINE g == FrameOf(w, cur)
<1>1. /\ frames \in Seq(FrameType) /\ cur \in 1 .. Len(frames) /\ callFrameEpoch \in Nat
      /\ cache \in [Words -> CacheType]
      /\ Parents(frames) /\ Identified(frames, callFrameEpoch)
      /\ Caches(frames, cache, callFrameEpoch)
  <2>1. frames \in Seq(FrameType) /\ cur \in DOMAIN frames /\ callFrameEpoch \in Nat
    BY DEF Inv, TypeOK
  <2>2. cache \in [Words -> CacheType]
    BY DEF Inv, TypeOK, CacheType
  <2>3. cur \in 1 .. Len(frames)
    BY <2>1, FramesAre
  <2> QED
    BY <2>1, <2>2, <2>3 DEF Inv, Calls
<1>2. g \in 1 .. Len(frames) /\ LookupIn(frames, w, cur) \in MaybeVar
  BY <1>1, LookupIs
<1>3. frames[g].id \in Nat /\ frames[g].id < callFrameEpoch /\ DOMAIN frames = 1 .. Len(frames)
  BY <1>1, <1>2, FramesAre DEF Identified
<1>4. Found(w) = LookupIn(frames, w, cur)
  <2>1. CASE CacheValid(w)
    BY <2>1, <1>1, <1>3 DEF Found, CacheValid, Caches, Fresh
  <2>2. CASE ~CacheValid(w)
    BY <2>2, Bridges DEF Found
  <2> QED
    BY <2>1, <2>2
<1>5. CASE CacheValid(w) \/ Found(w) = Nil
  BY <1>1, <1>2, <1>4, <1>5 DEF Remembered
<1>6. CASE ~(CacheValid(w) \/ Found(w) = Nil)
  <2> DEFINE en == [id |-> frames[g].id, var |-> Found(w)]
  <2>1. Remembered(w) = [cache EXCEPT ![w] = en]
    BY <1>6 DEF Remembered
  <2>2. en \in CacheType /\ en.id = frames[g].id /\ en.var = Found(w)
    BY <1>2, <1>3, <1>4 DEF CacheType
  <2> HIDE DEF en
  <2>3. ASSUME NEW f \in DOMAIN frames, en.id = frames[FrameOf(w, f)].id
        PROVE  en.var = LookupIn(frames, w, f)
    <3>1. FrameOf(w, f) \in 1 .. Len(frames)
      BY <1>1, <1>3, LookupIs
    <3>2. FrameOf(w, f) = g
      BY <3>1, <2>2, <2>3, <1>1, <1>2 DEF Identified
    <3>3. CASE IsGlobal[w]
      BY <3>3, <2>2, <1>4, GlobalLookup
    <3>4. CASE ~IsGlobal[w]
      BY <3>4, <3>2, <2>2, <1>4 DEF FrameOf
    <3> QED
      BY <3>3, <3>4
  <2>4. [cache EXCEPT ![w] = en] \in [Words -> CacheType] /\ Caches(frames, [cache EXCEPT ![w] = en], callFrameEpoch)
    BY <2>2, <2>3, <1>1, <1>3, <1>6, CacheUpdate
  <2> QED
    BY <2>1, <2>4, <1>2, <1>4
<1> QED
  BY <1>5, <1>6
---------------------------------------------------------------------------
(* A new frame *)

\* The calls that are running, when one more thing begins to run.
LEMMA CallsInAppend ==
    ASSUME NEW s \in Seq(Entry), NEW en \in Entry, NEW n \in 0 .. Len(s)
    PROVE  /\ CallsIn(s, n) \in Nat
           /\ CallsIn(Append(s, en), n) = CallsIn(s, n)
           /\ CallsIn(Append(s, en), Len(s) + 1) =
                 CallsIn(s, Len(s)) + IF en.kind = "call" THEN 1 ELSE 0
<1> DEFINE t == Append(s, en)
           A == {i \in 1 .. Len(s) + 1 : t[i].kind = "call"}
           B == {i \in 1 .. Len(s) : s[i].kind = "call"}
<1>1. /\ Len(s) \in Nat
      /\ \A i \in 1 .. Len(s) : t[i] = s[i]
      /\ t[Len(s) + 1] = en
  BY AppendLast, LenProperties
<1> HIDE DEF t
<1>2. {i \in 1 .. n : t[i].kind = "call"} = {i \in 1 .. n : s[i].kind = "call"}
  <2>1. \A i \in 1 .. n : i \in 1 .. Len(s)
    BY <1>1
  <2> QED
    BY <2>1, <1>1
<1>3. CallsIn(t, n) = CallsIn(s, n)
  BY <1>2 DEF CallsIn
<1>4. CallsIn(s, n) \in Nat
  <2>1. {i \in 1 .. n : s[i].kind = "call"} \in SUBSET (1 .. n) /\ n \in Nat
    BY <1>1
  <2> QED
    BY <2>1, CountPositions DEF CallsIn
<1>5. CallsIn(t, Len(s) + 1) = CallsIn(s, Len(s)) + IF en.kind = "call" THEN 1 ELSE 0
  <2>1. A \in SUBSET (1 .. Len(s) + 1)
    OBVIOUS
  <2>2. A \cap (1 .. Len(s)) = B
    <3>1. \A i \in 1 .. Len(s) : i \in 1 .. Len(s) + 1
      BY <1>1
    <3> QED
      BY <3>1, <1>1
  <2>3. Len(s) + 1 \in A <=> en.kind = "call"
    BY <1>1
  <2> HIDE DEF A, B
  <2>4. Cardinality(A) = Cardinality(B) + IF Len(s) + 1 \in A THEN 1 ELSE 0
    BY <2>1, <2>2, <1>1, CountLast
  <2>5. Cardinality(A) = Cardinality(B) + IF en.kind = "call" THEN 1 ELSE 0
    BY <2>3, <2>4
  <2>6. CallsIn(t, Len(s) + 1) = Cardinality(A) /\ CallsIn(s, Len(s)) = Cardinality(B)
    BY Zenon DEF CallsIn, A, B
  <2> QED
    BY <2>5, <2>6
<1> QED
  BY <1>3, <1>4, <1>5 DEF t

\* One more call, with its frame, or one more [uplevel] keeps the calls.
LEMMA StackedAppend ==
    ASSUME NEW fr, NEW gr, NEW s \in Seq(Entry), NEW en \in Entry, Len(fr) \in Nat,
           Stacked(fr, s),
           Len(gr) = Len(fr) + IF en.kind = "call" THEN 1 ELSE 0,
           en.kind = "uplevel" => en.saved \in 1 .. Len(fr)
    PROVE  Append(s, en) \in Seq(Entry) /\ Stacked(gr, Append(s, en))
<1> DEFINE t == Append(s, en)
<1>1. /\ t \in Seq(Entry) /\ Len(t) = Len(s) + 1 /\ Len(s) \in Nat
      /\ \A i \in 1 .. Len(s) : t[i] = s[i]
      /\ t[Len(s) + 1] = en
  BY AppendLast, AppendAt
<1>2. /\ \A n \in 0 .. Len(s) : CallsIn(s, n) \in Nat /\ CallsIn(t, n) = CallsIn(s, n)
      /\ CallsIn(t, Len(s) + 1) = CallsIn(s, Len(s)) + IF en.kind = "call" THEN 1 ELSE 0
  <2>1. Len(s) \in 0 .. Len(s)
    BY <1>1
  <2> QED
    BY <2>1, CallsInAppend
<1> HIDE DEF t
<1>3. CallsIn(s, Len(s)) \in Nat /\ Len(fr) = 1 + CallsIn(s, Len(s))
  <2>1. Len(s) \in 0 .. Len(s)
    BY <1>1
  <2> QED
    BY <2>1, <1>2 DEF Stacked
<1>4. Len(gr) = 1 + CallsIn(t, Len(t))
  BY <1>1, <1>2, <1>3
<1>5. ASSUME NEW i \in 1 .. Len(t), t[i].kind = "uplevel"
      PROVE  t[i].saved \in 1 .. 1 + CallsIn(t, i)
  <2>1. CASE i \in 1 .. Len(s)
    <3>1. i \in 0 .. Len(s) /\ s[i].kind = "uplevel" /\ t[i].saved = s[i].saved
      BY <2>1, <1>1, <1>5
    <3> QED
      BY <3>1, <2>1, <1>2 DEF Stacked
  <2>2. CASE i = Len(s) + 1
    BY <2>2, <1>1, <1>2, <1>3, <1>5
  <2> QED
    BY <2>1, <2>2, <1>1
<1> QED
  BY <1>1, <1>4, <1>5 DEF Stacked, t

\* The frame a call makes.
LEMMA FrameIs ==
    ASSUME NEW e \in Nat, NEW c \in Nat, NEW l \in Nat, l >= 1, NEW statics \in BOOLEAN
    PROVE  LET nf == Frame(e, c, l, statics)
           IN  /\ nf \in FrameType /\ nf.id = e /\ nf.parent = c /\ nf.level >= 1
               /\ DOMAIN nf.vars = {}
<1>1. NoVars \in Tables /\ DOMAIN NoVars = {}
  <2>1. {} \in SUBSET Bases /\ NoVars \in [{} -> VarIds]
    BY DEF NoVars
  <2> QED
    BY <2>1, TableIs DEF NoVars
<1> QED
  BY <1>1 DEF Frame, FrameType, Tables

\* The frames with the one a call makes.
LEMMA NewFrame ==
    ASSUME NEW fr \in Seq(FrameType), Parents(fr), NEW e \in Nat, Identified(fr, e), NEW n \in Nat, n = e + 1,
           NEW c \in 1 .. Len(fr), NEW nf \in FrameType,
           nf.id = e, nf.parent = c, nf.level >= 1,
           NEW gr \in Seq(FrameType), Len(gr) = Len(fr) + 1,
           \A f \in 1 .. Len(fr) : gr[f] = fr[f], gr[Len(fr) + 1] = nf
    PROVE  Parents(gr) /\ Identified(gr, n)
<1>1. Len(fr) \in Nat /\ Len(fr) >= 1
  BY FramesAre DEF Parents
<1>2. /\ gr \in Seq(FrameType) /\ Len(gr) = Len(fr) + 1
      /\ \A f \in 1 .. Len(fr) : gr[f] = fr[f]
      /\ gr[Len(fr) + 1] = nf
  OBVIOUS
<1>3. Parents(gr)
  <2>1. Len(gr) >= 1
    BY <1>1, <1>2
  <2>2. ASSUME NEW f \in 1 .. Len(gr)
        PROVE  IF f = 1 THEN gr[f].parent = 0 /\ gr[f].level = 0 /\ ~gr[f].hasStatics
               ELSE gr[f].parent \in 1 .. f - 1 /\ gr[f].level >= 1
    <3>1. CASE f \in 1 .. Len(fr)
      BY <3>1, <1>2 DEF Parents
    <3>2. CASE f = Len(fr) + 1
      <4>1. gr[f] = nf /\ f # 1 /\ c \in 1 .. f - 1
        BY <3>2, <1>1, <1>2
      <4> QED
        BY <4>1
    <3> QED
      BY <3>1, <3>2, <1>1, <1>2
  <2> QED
    BY <2>1, <2>2 DEF Parents
<1>4. Identified(gr, n)
  <2>1. \A f \in 1 .. Len(fr) : fr[f].id \in Nat /\ fr[f].id < e
    BY FramesAre DEF Identified
  <2>2. SUFFICES ASSUME NEW f \in 1 .. Len(gr)
                 PROVE  gr[f].id < n /\ \A g \in 1 .. Len(gr) : gr[f].id = gr[g].id => f = g
    BY DEF Identified
  <2>3. \A g \in 1 .. Len(gr) : g \in 1 .. Len(fr) \/ g = Len(fr) + 1
    BY <1>1, <1>2
  <2>4. gr[f].id < n
    BY <2>1, <2>3, <1>2
  <2>5. ASSUME NEW g \in 1 .. Len(gr), gr[f].id = gr[g].id
        PROVE  f = g
    <3>1. CASE f \in 1 .. Len(fr) /\ g \in 1 .. Len(fr)
      BY <3>1, <2>5, <1>2 DEF Identified
    <3>2. CASE f = Len(fr) + 1 /\ g \in 1 .. Len(fr)
      BY <3>2, <2>1, <2>5, <1>2
    <3>3. CASE f \in 1 .. Len(fr) /\ g = Len(fr) + 1
      BY <3>3, <2>1, <2>5, <1>2
    <3> QED
      BY <3>1, <3>2, <3>3, <2>3
  <2> QED
    BY <2>4, <2>5
<1> QED
  BY <1>3, <1>4

\* Frames that differ from others in the last ones only: each lookup in them is
\* one that was there.
LEMMA LookupSame ==
    ASSUME NEW fr \in Seq(FrameType), NEW gr \in Seq(FrameType), Parents(fr), Parents(gr),
           NEW m \in Nat, m <= Len(fr), m <= Len(gr), \A f \in 1 .. m : gr[f] = fr[f],
           NEW w \in Words, NEW f \in 1 .. m
    PROVE  /\ FrameOf(w, f) \in 1 .. m
           /\ gr[FrameOf(w, f)] = fr[FrameOf(w, f)]
           /\ LookupIn(gr, w, f) = LookupIn(fr, w, f)
<1>1. m >= 1
  OBVIOUS
<1>2. FrameOf(w, f) \in 1 .. m
  BY <1>1, FrameOfIs
<1>3. gr[FrameOf(w, f)] = fr[FrameOf(w, f)] /\ gr[f] = fr[f]
  BY <1>2
<1> QED
  BY <1>2, <1>3 DEF LookupIn

\* A new frame has no variable that a name object could remember.
LEMMA CachesNewFrame ==
    ASSUME NEW fr \in Seq(FrameType), Parents(fr), NEW e \in Nat, Identified(fr, e), NEW n \in Nat, n = e + 1,
           NEW gr \in Seq(FrameType), Parents(gr), Len(gr) = Len(fr) + 1,
           \A f \in 1 .. Len(fr) : gr[f] = fr[f], gr[Len(fr) + 1].id = e,
           NEW ca \in [Words -> CacheType], Caches(fr, ca, e)
    PROVE  Caches(gr, ca, n)
<1>1. /\ Len(fr) \in Nat /\ Len(fr) >= 1 /\ DOMAIN gr = 1 .. Len(gr) /\ DOMAIN fr = 1 .. Len(fr)
  BY FramesAre DEF Parents
<1>2. \A w \in Words : ca[w].id \in Int /\ ca[w].id < e
  BY DEF Caches, Ranged, CacheType
<1>3. Ranged(ca, n)
  BY <1>2 DEF Caches, Ranged
<1>4. ASSUME NEW w \in Words, NEW f \in DOMAIN gr, ca[w].id = gr[FrameOf(w, f)].id
      PROVE  ca[w].var = LookupIn(gr, w, f)
  <2>1. CASE f \in 1 .. Len(fr)
    <3>1. Len(fr) <= Len(fr) /\ Len(fr) <= Len(gr)
      BY <1>1
    <3>2. gr[FrameOf(w, f)] = fr[FrameOf(w, f)] /\ LookupIn(gr, w, f) = LookupIn(fr, w, f)
      BY <2>1, <3>1, <1>1, LookupSame
    <3> QED
      BY <3>2, <2>1, <1>1, <1>4 DEF Caches, Fresh
  <2>2. CASE f = Len(fr) + 1 /\ IsGlobal[w]
    <3>1. 1 \in 1 .. Len(fr) /\ fr[1] = gr[1] /\ FrameOf(w, f) = 1 /\ FrameOf(w, 1) = 1
      BY <2>2, <1>1 DEF FrameOf
    <3>2. LookupIn(gr, w, f) = LookupIn(fr, w, 1)
      BY <3>1, <2>2, GlobalLookup
    <3> QED
      BY <3>1, <3>2, <1>1, <1>4 DEF Caches, Fresh
  <2>3. CASE f = Len(fr) + 1 /\ ~IsGlobal[w]
    <3>1. FrameOf(w, f) = Len(fr) + 1
      BY <2>3 DEF FrameOf
    <3> QED
      BY <3>1, <1>2, <1>4
  <2> QED
    BY <2>1, <2>2, <2>3, <1>1
<1> QED
  BY <1>3, <1>4 DEF Caches, Fresh

\* A new frame has no variable at all, and leaves the callers of others alone.
LEMMA HeapNewFrame ==
    ASSUME NEW fr \in Seq(FrameType), Parents(fr),
           NEW gr \in Seq(FrameType), Parents(gr), Len(gr) = Len(fr) + 1,
           \A f \in 1 .. Len(fr) : gr[f] = fr[f], DOMAIN gr[Len(fr) + 1].vars = {},
           NEW va, Heap(fr, va)
    PROVE  Heap(gr, va)
<1>1. Len(fr) \in Nat /\ \A f \in 1 .. Len(gr) : f \in 1 .. Len(fr) \/ f = Len(fr) + 1
  BY FramesAre
<1>2. \A f \in 1 .. Len(gr) : \A b \in DOMAIN gr[f].vars :
         f \in 1 .. Len(fr) /\ b \in DOMAIN fr[f].vars /\ gr[f].vars[b] = fr[f].vars[b]
  BY <1>1
<1>3. InTable(gr, va)
  BY <1>2 DEF Heap, Owned, InTable
<1>4. Apart(gr)
  BY <1>2 DEF Heap, Owned, Apart
<1>5. ASSUME NEW f \in 1 .. Len(fr)
      PROVE  CallersIn(fr, f) \subseteq CallersIn(gr, f)
  <2>1. Len(fr) <= Len(gr) /\ Len(fr) <= Len(fr)
    BY <1>1
  <2> QED
    BY <2>1, <1>1, CallersSame
<1>6. Upward(gr, va)
  BY <1>2, <1>5 DEF Heap, Upward
<1> QED
  BY <1>3, <1>4, <1>6 DEF Heap, Owned
---------------------------------------------------------------------------
(* The last frame goes away *)

\* The calls that are running, when the last thing ends: the frame of a call goes
\* with it, and an [uplevel] comes back to a frame that is still there.
LEMMA StackedPop ==
    ASSUME NEW fr, NEW gr, NEW s \in Seq(Entry), s # <<>>, Len(fr) \in Nat, Stacked(fr, s),
           Len(gr) = Len(fr) - IF s[Len(s)].kind = "call" THEN 1 ELSE 0
    PROVE  /\ Pop(s) \in Seq(Entry) /\ Stacked(gr, Pop(s))
           /\ s[Len(s)].kind = "call" => Len(fr) >= 2
           /\ s[Len(s)].kind = "uplevel" => s[Len(s)].saved \in 1 .. Len(fr)
<1> DEFINE t == Pop(s)
           en == s[Len(s)]
<1>1. Len(s) \in Nat /\ Len(s) >= 1
  BY LenProperties, EmptySeq
<1>2. /\ t \in Seq(Entry) /\ Len(t) = Len(s) - 1
      /\ \A i \in 1 .. Len(t) : t[i] = s[i]
      /\ en \in Entry /\ s = Append(t, en)
  BY <1>1, FrontProperties DEF Pop
<1> HIDE DEF t, en
<1>3. /\ \A n \in 0 .. Len(t) : CallsIn(t, n) \in Nat /\ CallsIn(s, n) = CallsIn(t, n)
      /\ CallsIn(s, Len(s)) = CallsIn(t, Len(t)) + IF en.kind = "call" THEN 1 ELSE 0
  <2>1. Len(t) \in 0 .. Len(t) /\ Len(t) + 1 = Len(s)
    BY <1>1, <1>2
  <2>2. \A n \in 0 .. Len(t) : CallsIn(t, n) \in Nat /\ CallsIn(Append(t, en), n) = CallsIn(t, n)
    BY <1>2, CallsInAppend
  <2>3. CallsIn(Append(t, en), Len(t) + 1) = CallsIn(t, Len(t)) + IF en.kind = "call" THEN 1 ELSE 0
    BY <1>2, <2>1, CallsInAppend
  <2> QED
    BY <2>1, <2>2, <2>3, <1>2
<1>4. CallsIn(t, Len(t)) \in Nat /\ Len(fr) = 1 + CallsIn(s, Len(s)) /\ Len(t) \in Nat
  <2>1. Len(t) \in 0 .. Len(t)
    BY <1>1, <1>2
  <2> QED
    BY <2>1, <1>1, <1>2, <1>3 DEF Stacked
<1>5. Len(gr) = 1 + CallsIn(t, Len(t))
  BY <1>3, <1>4 DEF en
<1>6. ASSUME NEW i \in 1 .. Len(t), t[i].kind = "uplevel"
      PROVE  t[i].saved \in 1 .. 1 + CallsIn(t, i)
  <2>1. i \in 1 .. Len(s) /\ i \in 0 .. Len(t) /\ s[i] = t[i]
    BY <1>1, <1>2
  <2> QED
    BY <2>1, <1>3, <1>6 DEF Stacked
<1>7. en.kind = "uplevel" => en.saved \in 1 .. Len(fr)
  <2>1. Len(s) \in 1 .. Len(s)
    BY <1>1
  <2> QED
    BY <2>1, <1>4 DEF Stacked, en
<1>8. en.kind = "call" => Len(fr) >= 2
  BY <1>3, <1>4
<1> QED
  BY <1>2, <1>5, <1>6, <1>7, <1>8 DEF Stacked, t, en

\* Frames without the last one.
LEMMA FramesPop ==
    ASSUME NEW fr \in Seq(FrameType), Parents(fr), Len(fr) >= 2,
           NEW e \in Nat, Identified(fr, e)
    PROVE  /\ Pop(fr) \in Seq(FrameType) /\ Len(Pop(fr)) = Len(fr) - 1
           /\ \A f \in 1 .. Len(Pop(fr)) : Pop(fr)[f] = fr[f]
           /\ Parents(Pop(fr)) /\ Identified(Pop(fr), e)
           /\ fr[Len(fr)].parent \in 1 .. Len(Pop(fr))
<1> DEFINE gr == Pop(fr)
<1>1. Len(fr) \in Nat /\ Len(fr) >= 1
  BY LenProperties
<1>2. gr \in Seq(FrameType) /\ Len(gr) = Len(fr) - 1 /\ \A f \in 1 .. Len(gr) : gr[f] = fr[f]
  BY <1>1, FrontProperties DEF Pop
<1> HIDE DEF gr
<1>3. Len(gr) >= 1 /\ \A f \in 1 .. Len(gr) : f \in 1 .. Len(fr)
  BY <1>1, <1>2
<1>4. Parents(gr)
  BY <1>2, <1>3 DEF Parents
<1>5. Identified(gr, e)
  BY <1>2, <1>3 DEF Identified
<1>6. fr[Len(fr)].parent \in 1 .. Len(gr)
  <2>1. Len(fr) \in 1 .. Len(fr) /\ Len(fr) # 1
    BY <1>1
  <2> QED
    BY <2>1, <1>2 DEF Parents
<1> QED
  BY <1>2, <1>4, <1>5, <1>6 DEF gr

\* What a name object remembers for the other frames stays right.
LEMMA CachesPop ==
    ASSUME NEW fr \in Seq(FrameType), Parents(fr), NEW e,
           NEW gr \in Seq(FrameType), Parents(gr), Len(gr) = Len(fr) - 1,
           \A f \in 1 .. Len(gr) : gr[f] = fr[f],
           NEW ca, Caches(fr, ca, e)
    PROVE  Caches(gr, ca, e)
<1>1. /\ Len(fr) \in Nat /\ Len(gr) \in Nat /\ DOMAIN gr = 1 .. Len(gr) /\ DOMAIN fr = 1 .. Len(fr)
      /\ Len(gr) <= Len(fr) /\ Len(gr) <= Len(gr)
  BY FramesAre
<1>2. ASSUME NEW w \in Words, NEW f \in DOMAIN gr, ca[w].id = gr[FrameOf(w, f)].id
      PROVE  ca[w].var = LookupIn(gr, w, f)
  <2> DEFINE m == Len(gr)
  <2>3. m \in Nat /\ m <= Len(fr) /\ m <= Len(gr) /\ f \in 1 .. m /\ \A h \in 1 .. m : gr[h] = fr[h]
    BY <1>1
  <2> HIDE DEF m
  <2>1. gr[FrameOf(w, f)] = fr[FrameOf(w, f)] /\ LookupIn(gr, w, f) = LookupIn(fr, w, f)
    BY <2>3, LookupSame
  <2>2. f \in DOMAIN fr
    BY <1>1
  <2> QED
    BY <2>1, <2>2, <1>2 DEF Caches, Fresh
<1> QED
  BY <1>2 DEF Caches, Fresh

\* The structures of the last frame are freed.
Freed(fr, va) ==
    [x \in VarIds |-> IF \E b \in DOMAIN fr[Len(fr)].vars : fr[Len(fr)].vars[b] = x THEN NoVar ELSE va[x]]

\* The heap stays well formed when the last frame goes: nothing refers to what it
\* frees, which is in no other table, and no frame before it was called from it.
LEMMA HeapPop ==
    ASSUME NEW fr \in Seq(FrameType), Parents(fr),
           NEW gr \in Seq(FrameType), Parents(gr), Len(gr) = Len(fr) - 1,
           \A f \in 1 .. Len(gr) : gr[f] = fr[f],
           NEW va \in [VarIds -> Var], Heap(fr, va)
    PROVE  Freed(fr, va) \in [VarIds -> Var] /\ Heap(gr, Freed(fr, va))
<1> DEFINE vb == Freed(fr, va)
<1>1. /\ Len(fr) \in Nat /\ Len(gr) \in Nat /\ Len(fr) >= 1
      /\ Len(gr) <= Len(fr) /\ Len(gr) <= Len(gr) /\ Len(fr) \in 1 .. Len(fr)
      /\ \A f \in 1 .. Len(gr) : f \in 1 .. Len(fr) /\ f # Len(fr)
  BY FramesAre DEF Parents
<1>2. NoVar \in Var /\ NoVar.used = FALSE /\ NoVar.link = 0
  BY DEF NoVar, Var
<1>3. vb \in [VarIds -> Var]
  BY <1>2 DEF Freed
<1>4. \A x \in VarIds : vb[x] = NoVar \/ vb[x] = va[x]
  BY DEF Freed
<1>5. ASSUME NEW f \in 1 .. Len(gr), NEW b \in DOMAIN gr[f].vars
      PROVE  /\ f \in 1 .. Len(fr) /\ b \in DOMAIN fr[f].vars
             /\ gr[f].vars[b] = fr[f].vars[b] /\ fr[f].vars[b] \in VarIds
             /\ vb[gr[f].vars[b]] = va[fr[f].vars[b]]
  <2>1. f \in 1 .. Len(fr) /\ b \in DOMAIN fr[f].vars /\ gr[f].vars[b] = fr[f].vars[b]
    BY <1>1
  <2>2. fr[f].vars[b] \in VarIds
    BY <2>1, FramesAre
  <2>3. ~ \E c \in DOMAIN fr[Len(fr)].vars : fr[Len(fr)].vars[c] = fr[f].vars[b]
    BY <2>1, <1>1 DEF Heap, Owned, Apart
  <2> QED
    BY <2>1, <2>2, <2>3 DEF Freed
<1>6. ASSUME NEW a \in DOMAIN Statics
      PROVE  vb[Statics[a]] = va[Statics[a]]
  <2>1. Statics[a] \in VarIds
    BY StaticsAssumption
  <2>2. ~ \E c \in DOMAIN fr[Len(fr)].vars : fr[Len(fr)].vars[c] = Statics[a]
    BY <1>1 DEF Heap, Owned, InTable
  <2> QED
    BY <2>1, <2>2 DEF Freed
<1> HIDE DEF vb
<1>7. InTable(gr, vb)
  BY <1>5 DEF InTable, Heap, Owned
<1>8. Apart(gr)
  BY <1>5 DEF Apart, Heap, Owned
<1>9. StaticsKept(vb)
  BY <1>6 DEF StaticsKept, Heap, Owned
<1>10. Holding(vb)
  BY <1>2, <1>4 DEF Holding, Heap, Owned
<1>11. ASSUME NEW f \in 1 .. Len(gr)
       PROVE  CallersIn(fr, f) \subseteq CallersIn(gr, f)
  BY <1>1, CallersSame
<1>12. Upward(gr, vb)
  BY <1>5, <1>11 DEF Upward, Heap
<1> QED
  BY <1>3, <1>7, <1>8, <1>9, <1>10, <1>12 DEF Heap, Owned, vb
---------------------------------------------------------------------------
(* A table changes *)

\* A frame changes its table, and with it its id or not: the callers are as before.
Changed(fr, gr, g, t, i) ==
    /\ gr \in Seq(FrameType) /\ Len(gr) = Len(fr)
    /\ \A f \in 1 .. Len(fr) : f # g => gr[f] = fr[f]
    /\ gr[g].vars = t /\ gr[g].id = i
    /\ \A f \in 1 .. Len(fr) :
          gr[f].parent = fr[f].parent /\ gr[f].level = fr[f].level /\ gr[f].hasStatics = fr[f].hasStatics

\* Writing a table, or a table and an id, is such a change.
LEMMA FrameChange ==
    ASSUME NEW fr \in Seq(FrameType), NEW g \in 1 .. Len(fr), NEW t \in Tables, NEW i \in Nat
    PROVE  /\ Changed(fr, [fr EXCEPT ![g] = [[fr[g] EXCEPT !.vars = t] EXCEPT !.id = i]], g, t, i)
           /\ Changed(fr, [fr EXCEPT ![g].vars = t], g, t, fr[g].id)
<1>1. fr[g] \in FrameType /\ fr[g].id \in Nat /\ Len(fr) \in Nat
  BY FramesAre
<1> DEFINE nf == [fr[g] EXCEPT !.vars = t]
<1>2. nf \in FrameType /\ nf.vars = t /\ nf.id = fr[g].id
      /\ nf.parent = fr[g].parent /\ nf.level = fr[g].level /\ nf.hasStatics = fr[g].hasStatics
  BY <1>1 DEF FrameType, Tables
<1>3. [fr EXCEPT ![g].vars = t] = [fr EXCEPT ![g] = nf]
  OBVIOUS
<1> HIDE DEF nf
<1> DEFINE mf == [nf EXCEPT !.id = i]
<1>4. mf \in FrameType /\ mf.vars = t /\ mf.id = i
      /\ mf.parent = fr[g].parent /\ mf.level = fr[g].level /\ mf.hasStatics = fr[g].hasStatics
  BY <1>2 DEF FrameType
<1> HIDE DEF mf
<1>5. ASSUME NEW h \in FrameType, h.vars = t,
             h.parent = fr[g].parent, h.level = fr[g].level, h.hasStatics = fr[g].hasStatics
      PROVE  Changed(fr, [fr EXCEPT ![g] = h], g, t, h.id)
  <2> DEFINE gr == [fr EXCEPT ![g] = h]
  <2>1. gr \in Seq(FrameType) /\ Len(gr) = Len(fr)
        /\ \A f \in 1 .. Len(fr) : gr[f] = IF f = g THEN h ELSE fr[f]
    BY ExceptSeq
  <2> HIDE DEF gr
  <2> QED
    BY <2>1, <1>5 DEF Changed, gr
<1>6. Changed(fr, [fr EXCEPT ![g] = nf], g, t, fr[g].id)
  BY <1>2, <1>5
<1>7. Changed(fr, [fr EXCEPT ![g] = mf], g, t, i)
  BY <1>4, <1>5
<1> QED
  BY <1>3, <1>6, <1>7 DEF nf, mf

\* What does not depend on the tables.
LEMMA ChangedKeeps ==
    ASSUME NEW fr \in Seq(FrameType), Parents(fr),
           NEW g \in 1 .. Len(fr), NEW t, NEW i, NEW gr, Changed(fr, gr, g, t, i)
    PROVE  Parents(gr) /\ \A f \in 1 .. Len(fr) : CallersIn(gr, f) = CallersIn(fr, f)
<1>1. /\ gr \in Seq(FrameType) /\ Len(gr) = Len(fr) /\ Len(fr) \in Nat
      /\ \A f \in 1 .. Len(fr) :
           gr[f].parent = fr[f].parent /\ gr[f].level = fr[f].level /\ gr[f].hasStatics = fr[f].hasStatics
  BY FramesAre DEF Changed
<1>2. Parents(gr)
  BY <1>1 DEF Parents
<1>3. Len(fr) <= Len(fr) /\ Len(fr) <= Len(gr) /\ Len(gr) <= Len(fr)
  BY <1>1
<1>4. ASSUME NEW f \in 1 .. Len(fr)
      PROVE  CallersIn(gr, f) = CallersIn(fr, f)
  <2>1. CallersIn(fr, f) \subseteq CallersIn(gr, f)
    BY <1>1, <1>3, CallersSame
  <2>2. CallersIn(gr, f) \subseteq CallersIn(fr, f)
    BY <1>1, <1>2, <1>3, CallersSame
  <2> QED
    BY <2>1, <2>2
<1> QED
  BY <1>2, <1>4

\* The ids stay distinct when a frame keeps its id, or gets the next one.
LEMMA ChangedIds ==
    ASSUME NEW fr \in Seq(FrameType), NEW e \in Nat, Identified(fr, e),
           NEW g \in 1 .. Len(fr), NEW t, NEW i, NEW gr, Changed(fr, gr, g, t, i)
    PROVE  /\ i = fr[g].id => Identified(gr, e)
           /\ \A n \in Nat : i = e /\ n = e + 1 => Identified(gr, n)
<1>1. /\ Len(gr) = Len(fr)
      /\ \A f \in 1 .. Len(fr) : fr[f].id \in Nat /\ fr[f].id < e
      /\ \A f \in 1 .. Len(fr) : gr[f].id = IF f = g THEN i ELSE fr[f].id
  BY FramesAre DEF Changed, Identified
<1> QED
  BY <1>1 DEF Identified

\* Looked up elsewhere or under another name, a word stands for what it stood for.
LEMMA LookupElsewhere ==
    ASSUME NEW fr \in Seq(FrameType), Parents(fr), NEW g \in 1 .. Len(fr),
           NEW t, NEW i, NEW gr, Changed(fr, gr, g, t, i), NEW w \in Words, NEW f \in 1 .. Len(fr)
    PROVE  /\ FrameOf(w, f) # g => LookupIn(gr, w, f) = LookupIn(fr, w, f)
           /\ /\ NameOf[w] \in DOMAIN t <=> NameOf[w] \in DOMAIN fr[g].vars
              /\ NameOf[w] \in DOMAIN t => t[NameOf[w]] = fr[g].vars[NameOf[w]]
              => LookupIn(gr, w, f) = LookupIn(fr, w, f)
<1>1. /\ FrameOf(w, f) \in 1 .. Len(fr)
      /\ FrameOf(w, f) # g => gr[FrameOf(w, f)] = fr[FrameOf(w, f)]
      /\ gr[g].vars = t
      /\ gr[f].hasStatics = fr[f].hasStatics
  BY LookupIs DEF Changed
<1>2. ASSUME FrameOf(w, f) # g PROVE LookupIn(gr, w, f) = LookupIn(fr, w, f)
  BY <1>1, <1>2 DEF LookupIn
<1>3. ASSUME NameOf[w] \in DOMAIN t <=> NameOf[w] \in DOMAIN fr[g].vars,
             NameOf[w] \in DOMAIN t => t[NameOf[w]] = fr[g].vars[NameOf[w]]
      PROVE  LookupIn(gr, w, f) = LookupIn(fr, w, f)
  <2>1. CASE FrameOf(w, f) # g
    BY <2>1, <1>2
  <2>2. CASE FrameOf(w, f) = g
    BY <2>2, <1>1, <1>3 DEF LookupIn
  <2> QED
    BY <2>1, <2>2
<1> QED
  BY <1>2, <1>3

\* A new variable: the frame keeps its id, as no name object remembers that the
\* frame has none of the name.
LEMMA CachesAdd ==
    ASSUME NEW fr \in Seq(FrameType), Parents(fr), NEW e \in Nat, Identified(fr, e),
           NEW c \in 1 .. Len(fr), NEW w \in Words, LookupIn(fr, w, c) = Nil,
           NEW x \in VarIds, NEW gr, NEW t,
           t = [b \in DOMAIN fr[FrameOf(w, c)].vars \cup {NameOf[w]} |->
                   IF b = NameOf[w] THEN x ELSE fr[FrameOf(w, c)].vars[b]],
           Changed(fr, gr, FrameOf(w, c), t, fr[FrameOf(w, c)].id),
           NEW ca \in [Words -> CacheType], Caches(fr, ca, e)
    PROVE  LET cb == [ca EXCEPT ![w] = [id |-> fr[FrameOf(w, c)].id, var |-> x]]
           IN  cb \in [Words -> CacheType] /\ Caches(gr, cb, e)
<1> DEFINE g == FrameOf(w, c)
           en == [id |-> fr[g].id, var |-> x]
           cb == [ca EXCEPT ![w] = en]
<1>1. /\ Len(fr) \in Nat /\ Len(fr) >= 1 /\ DOMAIN fr = 1 .. Len(fr) /\ g \in 1 .. Len(fr)
      /\ fr[g].id \in Nat /\ fr[g].id < e
      /\ Len(gr) = Len(fr) /\ DOMAIN gr = 1 .. Len(fr)
      /\ \A f \in 1 .. Len(fr) : fr[f].id \in Nat /\ gr[f].id = fr[f].id
  <2>1. Len(fr) \in Nat /\ Len(fr) >= 1 /\ DOMAIN fr = 1 .. Len(fr) /\ g \in 1 .. Len(fr)
    BY FramesAre, LookupIs DEF Parents
  <2>2. \A f \in 1 .. Len(fr) : fr[f].id \in Nat
    BY FramesAre
  <2>3. Len(gr) = Len(fr) /\ gr \in Seq(FrameType) /\ gr[g].id = fr[g].id
        /\ \A f \in 1 .. Len(fr) : f # g => gr[f] = fr[f]
    BY DEF Changed
  <2>4. DOMAIN gr = 1 .. Len(fr)
    BY <2>3, FramesAre
  <2>5. \A f \in 1 .. Len(fr) : gr[f].id = fr[f].id
    BY <2>3
  <2> QED
    BY <2>1, <2>2, <2>3, <2>4, <2>5 DEF Identified
<1>2. en \in CacheType /\ en.id = fr[g].id /\ en.var = x /\ x # Nil
  BY <1>1, SortAssumption DEF CacheType, MaybeVar
<1>3. /\ DOMAIN t = DOMAIN fr[g].vars \cup {NameOf[w]}
      /\ t[NameOf[w]] = x
      /\ \A b \in DOMAIN fr[g].vars : b # NameOf[w] => t[b] = fr[g].vars[b]
  OBVIOUS
<1>4. NameOf[w] \notin DOMAIN fr[g].vars
  <2>1. NameOf[w] \in DOMAIN fr[g].vars => fr[g].vars[NameOf[w]] \in VarIds
    BY <1>1, FramesAre
  <2> QED
    BY <2>1, SortAssumption DEF LookupIn
<1> HIDE DEF en
<1>5. cb \in [Words -> CacheType] /\ \A v \in Words : cb[v] = IF v = w THEN en ELSE ca[v]
  BY <1>2
<1> HIDE DEF cb
<1>6. Ranged(cb, e)
  BY <1>1, <1>2, <1>5 DEF Ranged, Caches
<1>7. ASSUME NEW v \in Words, NEW f \in DOMAIN gr, cb[v].id = gr[FrameOf(v, f)].id
      PROVE  cb[v].var = LookupIn(gr, v, f)
  <2>1. f \in 1 .. Len(fr) /\ FrameOf(v, f) \in 1 .. Len(fr)
    <3>1. f \in 1 .. Len(fr)
      BY <1>1
    <3> QED
      BY <3>1, LookupIs
  <2>2. CASE v = w
    <3>1. fr[FrameOf(w, f)].id = fr[g].id
      BY <2>1, <2>2, <1>1, <1>2, <1>5, <1>7
    <3>2. FrameOf(w, f) = g
      BY <3>1, <2>1, <2>2, <1>1 DEF Identified
    <3>3. gr[g].vars = t
      BY DEF Changed
    <3> QED
      BY <3>2, <3>3, <2>2, <1>2, <1>3, <1>5 DEF LookupIn
  <2>3. CASE v # w
    <3>1. cb[v] = ca[v] /\ ca[v].id = fr[FrameOf(v, f)].id
      BY <2>1, <2>3, <1>1, <1>5, <1>7
    <3>2. ca[v].var = LookupIn(fr, v, f)
      BY <3>1, <2>1, <1>1 DEF Caches, Fresh
    <3>3. ca[v].var # Nil
      BY <3>1, <2>1, <1>1 DEF Caches, Ranged
    <3>4. CASE FrameOf(v, f) # g
      BY <3>1, <3>2, <3>4, <2>1, <1>1, LookupElsewhere
    <3>5. CASE FrameOf(v, f) = g /\ NameOf[v] # NameOf[w]
      <4>1. /\ NameOf[v] \in DOMAIN t <=> NameOf[v] \in DOMAIN fr[g].vars
            /\ NameOf[v] \in DOMAIN t => t[NameOf[v]] = fr[g].vars[NameOf[v]]
        BY <3>5, <1>3
      <4> QED
        BY <4>1, <3>1, <3>2, <2>1, <1>1, LookupElsewhere
    <3>6. CASE FrameOf(v, f) = g /\ NameOf[v] = NameOf[w]
      <4>1. LookupIn(fr, v, f) = Nil
        <5>1. NameOf[v] \notin DOMAIN fr[FrameOf(v, f)].vars
          BY <3>6, <1>4
        <5>2. CASE IsGlobal[v]
          BY <5>1, <5>2 DEF LookupIn
        <5>3. CASE ~IsGlobal[v] /\ ~IsGlobal[w]
          BY <5>1, <5>3, <3>6, <1>4 DEF LookupIn, FrameOf
        <5>4. CASE ~IsGlobal[v] /\ IsGlobal[w]
          <6>1. f = 1 /\ ~fr[1].hasStatics
            BY <5>4, <3>6, <1>1 DEF FrameOf, Parents
          <6> QED
            BY <6>1, <5>1 DEF LookupIn
        <5> QED
          BY <5>2, <5>3, <5>4
      <4> QED
        BY <4>1, <3>2, <3>3
    <3> QED
      BY <3>4, <3>5, <3>6
  <2> QED
    BY <2>2, <2>3
<1> QED
  BY <1>5, <1>6, <1>7 DEF Caches, Fresh, cb, en

\* A variable less: the frame has an id that no name object remembers.
LEMMA CachesUnset ==
    ASSUME NEW fr \in Seq(FrameType), Parents(fr), NEW e \in Nat, Identified(fr, e), NEW n \in Nat, n = e + 1,
           NEW g \in 1 .. Len(fr), NEW t, NEW gr, Changed(fr, gr, g, t, e),
           NEW ca \in [Words -> CacheType], Caches(fr, ca, e)
    PROVE  Caches(gr, ca, n)
<1>1. /\ Len(gr) = Len(fr) /\ gr \in Seq(FrameType) /\ gr[g].id = e
      /\ \A f \in 1 .. Len(fr) : f # g => gr[f] = fr[f]
  BY DEF Changed
<1>2. DOMAIN gr = 1 .. Len(fr) /\ DOMAIN fr = 1 .. Len(fr)
  BY <1>1, FramesAre
<1>3. \A w \in Words : ca[w].id \in Int /\ ca[w].id < e
  BY DEF Caches, Ranged, CacheType
<1>4. Ranged(ca, n)
  BY <1>3 DEF Caches, Ranged
<1>5. ASSUME NEW w \in Words, NEW f \in DOMAIN gr, ca[w].id = gr[FrameOf(w, f)].id
      PROVE  ca[w].var = LookupIn(gr, w, f)
  <2>1. f \in 1 .. Len(fr) /\ FrameOf(w, f) \in 1 .. Len(fr)
    BY <1>2, LookupIs
  <2>2. FrameOf(w, f) # g
    BY <1>1, <1>3, <1>5
  <2>3. LookupIn(gr, w, f) = LookupIn(fr, w, f)
    BY <2>1, <2>2, LookupElsewhere
  <2> QED
    BY <2>1, <2>2, <2>3, <1>1, <1>2, <1>5 DEF Caches, Fresh
<1> QED
  BY <1>4, <1>5 DEF Caches, Fresh

\* A structure in use gets other contents; a static one does not become a link.
Storing(fr, va, x, v, vb) ==
    /\ fr \in Seq(FrameType) /\ va \in [VarIds -> Var] /\ Heap(fr, va)
    /\ x \in VarIds /\ v \in Var /\ v.used /\ v.obj \in Contents
    /\ v.link # 0 => v.obj \in Words /\ ~IsGlobal[v.obj] /\ \A a \in DOMAIN Statics : Statics[a] # x
    /\ \A f \in 1 .. Len(fr) : \A b \in DOMAIN fr[f].vars :
          fr[f].vars[b] = x /\ v.link # 0 => v.link \in CallersIn(fr, f)
    /\ vb \in [VarIds -> Var] /\ \A y \in VarIds : vb[y] = IF y = x THEN v ELSE va[y]

\* The heap stays well formed when a structure gets other contents.
LEMMA HeapStore ==
    ASSUME NEW fr, NEW va, NEW x, NEW v, NEW vb, Storing(fr, va, x, v, vb)
    PROVE  Heap(fr, vb)
<1>1. /\ fr \in Seq(FrameType) /\ va \in [VarIds -> Var] /\ Heap(fr, va)
      /\ x \in VarIds /\ v \in Var /\ v.used /\ v.obj \in Contents
      /\ v.link # 0 => v.obj \in Words /\ ~IsGlobal[v.obj] /\ \A a \in DOMAIN Statics : Statics[a] # x
      /\ \A f \in 1 .. Len(fr) : \A b \in DOMAIN fr[f].vars :
            fr[f].vars[b] = x /\ v.link # 0 => v.link \in CallersIn(fr, f)
      /\ vb \in [VarIds -> Var] /\ \A y \in VarIds : vb[y] = IF y = x THEN v ELSE va[y]
  BY DEF Storing
<1>2. \A f \in 1 .. Len(fr) : \A b \in DOMAIN fr[f].vars : fr[f].vars[b] \in VarIds
  BY <1>1, FramesAre
<1>3. InTable(fr, vb)
  BY <1>1, <1>2 DEF InTable, Heap, Owned
<1>4. StaticsKept(vb)
  <2>1. \A a \in DOMAIN Statics : Statics[a] \in VarIds
    BY <1>1, StaticsAssumption
  <2> QED
    BY <1>1, <2>1, <1>1 DEF StaticsKept, Heap, Owned
<1>5. Holding(vb)
  BY <1>1 DEF Holding, Heap, Owned
<1>6. Upward(fr, vb)
  <2>1. SUFFICES ASSUME NEW f \in 1 .. Len(fr), NEW b \in DOMAIN fr[f].vars, vb[fr[f].vars[b]].link # 0
                 PROVE  vb[fr[f].vars[b]].link \in CallersIn(fr, f)
    BY <1>1 DEF Upward
  <2>2. CASE fr[f].vars[b] = x
    BY <1>1, <2>1, <2>2, <1>1, <1>2
  <2>3. CASE fr[f].vars[b] # x
    BY <1>1, <2>1, <2>3, <1>1, <1>2 DEF Heap, Upward
  <2> QED
    BY <1>1, <2>2, <2>3
<1> QED
  BY <1>1, <1>3, <1>4, <1>5, <1>6 DEF Heap, Owned

\* A free structure is taken for a new variable of the name nm in frame g.
Unused(fr, x) ==
    /\ \A f \in 1 .. Len(fr) : \A b \in DOMAIN fr[f].vars : fr[f].vars[b] # x
    /\ \A a \in DOMAIN Statics : Statics[a] # x

Adding(fr, va, g, nm, x, v, t, gr, i, vb) ==
    /\ fr \in Seq(FrameType) /\ Parents(fr) /\ va \in [VarIds -> Var] /\ Heap(fr, va)
    /\ g \in 1 .. Len(fr) /\ nm \in Bases /\ nm \notin DOMAIN fr[g].vars
    /\ x \in VarIds /\ Unused(fr, x)
    /\ v \in Var /\ v.used /\ v.obj \in Contents
    /\ v.link # 0 => v.obj \in Words /\ ~IsGlobal[v.obj] /\ v.link \in CallersIn(fr, g)
    /\ DOMAIN t = DOMAIN fr[g].vars \cup {nm} /\ t[nm] = x
    /\ \A b \in DOMAIN fr[g].vars : b # nm => t[b] = fr[g].vars[b]
    /\ Changed(fr, gr, g, t, i)
    /\ \A f \in 1 .. Len(fr) : CallersIn(gr, f) = CallersIn(fr, f)
    /\ vb \in [VarIds -> Var] /\ \A y \in VarIds : vb[y] = IF y = x THEN v ELSE va[y]

\* The heap stays well formed when a variable is created.
LEMMA HeapAdd ==
    ASSUME NEW fr, NEW va, NEW g, NEW nm, NEW x, NEW v, NEW t, NEW gr, NEW i, NEW vb,
           Adding(fr, va, g, nm, x, v, t, gr, i, vb)
    PROVE  Heap(gr, vb)
<1>0. /\ fr \in Seq(FrameType) /\ Parents(fr) /\ va \in [VarIds -> Var] /\ Heap(fr, va)
      /\ g \in 1 .. Len(fr) /\ nm \in Bases /\ nm \notin DOMAIN fr[g].vars
      /\ x \in VarIds /\ Unused(fr, x)
      /\ v \in Var /\ v.used /\ v.obj \in Contents
      /\ v.link # 0 => v.obj \in Words /\ ~IsGlobal[v.obj] /\ v.link \in CallersIn(fr, g)
      /\ DOMAIN t = DOMAIN fr[g].vars \cup {nm} /\ t[nm] = x
      /\ \A b \in DOMAIN fr[g].vars : b # nm => t[b] = fr[g].vars[b]
      /\ Changed(fr, gr, g, t, i)
      /\ \A f \in 1 .. Len(fr) : CallersIn(gr, f) = CallersIn(fr, f)
      /\ vb \in [VarIds -> Var] /\ \A y \in VarIds : vb[y] = IF y = x THEN v ELSE va[y]
  BY DEF Adding
<1>1. vb \in [VarIds -> Var] /\ \A y \in VarIds : vb[y] = IF y = x THEN v ELSE va[y]
  BY <1>0
<1>2. /\ Len(gr) = Len(fr)
      /\ \A f \in 1 .. Len(fr) : \A b \in DOMAIN fr[f].vars :
            fr[f].vars[b] \in VarIds /\ fr[f].vars[b] # x
  <2>1. \A f \in 1 .. Len(fr) : \A b \in DOMAIN fr[f].vars : fr[f].vars[b] \in VarIds
    BY <1>0, FramesAre
  <2> QED
    BY <1>0, <2>1 DEF Unused, Changed
<1>3. ASSUME NEW f \in 1 .. Len(gr), NEW b \in DOMAIN gr[f].vars
      PROVE  /\ f \in 1 .. Len(fr)
             /\ \/ f = g /\ b = nm /\ gr[f].vars[b] = x
                \/ /\ b \in DOMAIN fr[f].vars /\ gr[f].vars[b] = fr[f].vars[b] /\ gr[f].vars[b] # x
                   /\ gr[f].vars[b] \in VarIds /\ vb[gr[f].vars[b]] = va[fr[f].vars[b]]
  <2>1. f \in 1 .. Len(fr) /\ (f # g => gr[f] = fr[f]) /\ gr[g].vars = t
    BY <1>0, <1>2 DEF Changed
  <2>2. CASE f = g /\ b = nm
    BY <1>0, <2>1, <2>2
  <2>3. CASE ~(f = g /\ b = nm)
    <3>1. b \in DOMAIN fr[f].vars /\ gr[f].vars[b] = fr[f].vars[b]
      BY <1>0, <2>1, <2>3
    <3> QED
      BY <1>0, <3>1, <2>1, <1>1, <1>2
  <2> QED
    BY <1>0, <2>2, <2>3
<1>4. \A a \in DOMAIN Statics : Statics[a] \in VarIds /\ Statics[a] # x
  BY <1>0, StaticsAssumption DEF Unused
<1>5. InTable(gr, vb)
  BY <1>0, <1>1, <1>3, <1>4 DEF InTable, Heap, Owned
<1>6. Apart(gr)
  <2>1. SUFFICES ASSUME NEW f \in 1 .. Len(gr), NEW h \in 1 .. Len(gr),
                        NEW b \in DOMAIN gr[f].vars, NEW c \in DOMAIN gr[h].vars,
                        gr[f].vars[b] = gr[h].vars[c]
                 PROVE  f = h /\ b = c
    BY <1>0 DEF Apart
  <2>4. \A k \in 1 .. Len(gr) : \A d \in DOMAIN gr[k].vars :
           gr[k].vars[d] = x => k = g /\ d = nm
    BY <1>0, <1>3
  <2>5. \A k \in 1 .. Len(gr) : \A d \in DOMAIN gr[k].vars : gr[k].vars[d] # x =>
           k \in 1 .. Len(fr) /\ d \in DOMAIN fr[k].vars /\ gr[k].vars[d] = fr[k].vars[d]
    BY <1>0, <1>3
  <2>2. CASE gr[f].vars[b] = x
    <3>1. f = g /\ b = nm
      BY <1>0, <2>2, <2>4
    <3>2. h = g /\ c = nm
      BY <1>0, <2>1, <2>2, <2>4
    <3> QED
      BY <1>0, <3>1, <3>2
  <2>3. CASE gr[f].vars[b] # x
    <3>1. f \in 1 .. Len(fr) /\ b \in DOMAIN fr[f].vars /\ gr[f].vars[b] = fr[f].vars[b]
      BY <1>0, <2>3, <2>5
    <3>2. h \in 1 .. Len(fr) /\ c \in DOMAIN fr[h].vars /\ gr[h].vars[c] = fr[h].vars[c]
      BY <1>0, <2>1, <2>3, <2>5
    <3>3. fr[f].vars[b] = fr[h].vars[c]
      BY <1>0, <2>1, <3>1, <3>2
    <3>4. \A k, l \in 1 .. Len(fr) : \A d \in DOMAIN fr[k].vars : \A e \in DOMAIN fr[l].vars :
             fr[k].vars[d] = fr[l].vars[e] => k = l /\ d = e
      BY <1>0 DEF Apart, Heap, Owned
    <3>5. f = h /\ b = c
      BY <1>0, <3>1, <3>2, <3>3, <3>4
    <3> QED
      BY <1>0, <3>5
  <2> QED
    BY <1>0, <2>2, <2>3
<1>7. StaticsKept(vb)
  BY <1>0, <1>1, <1>4 DEF StaticsKept, Heap, Owned
<1>8. Holding(vb)
  BY <1>0, <1>1 DEF Holding, Heap, Owned
<1>9. Upward(gr, vb)
  BY <1>0, <1>1, <1>3 DEF Upward, Heap
<1> QED
  BY <1>0, <1>1, <1>5, <1>6, <1>7, <1>8, <1>9 DEF Heap, Owned

\* The structure of a variable that goes away is in no other table.
Removing(fr, va, g, nm, t, gr, i, vb) ==
    /\ fr \in Seq(FrameType) /\ Parents(fr) /\ va \in [VarIds -> Var] /\ Heap(fr, va)
    /\ g \in 1 .. Len(fr) /\ nm \in DOMAIN fr[g].vars
    /\ DOMAIN t = DOMAIN fr[g].vars \ {nm} /\ \A b \in DOMAIN t : t[b] = fr[g].vars[b]
    /\ Changed(fr, gr, g, t, i)
    /\ \A f \in 1 .. Len(fr) : CallersIn(gr, f) = CallersIn(fr, f)
    /\ vb \in [VarIds -> Var]
    /\ \A y \in VarIds : vb[y] = IF y = fr[g].vars[nm] THEN NoVar ELSE va[y]

\* The heap stays well formed when a variable is removed.
LEMMA HeapUnset ==
    ASSUME NEW fr, NEW va, NEW g, NEW nm, NEW t, NEW gr, NEW i, NEW vb,
           Removing(fr, va, g, nm, t, gr, i, vb)
    PROVE  Heap(gr, vb)
<1>0. /\ fr \in Seq(FrameType) /\ Parents(fr) /\ va \in [VarIds -> Var] /\ Heap(fr, va)
      /\ g \in 1 .. Len(fr) /\ nm \in DOMAIN fr[g].vars
      /\ DOMAIN t = DOMAIN fr[g].vars \ {nm} /\ \A b \in DOMAIN t : t[b] = fr[g].vars[b]
      /\ Changed(fr, gr, g, t, i)
      /\ \A f \in 1 .. Len(fr) : CallersIn(gr, f) = CallersIn(fr, f)
      /\ vb \in [VarIds -> Var]
      /\ \A y \in VarIds : vb[y] = IF y = fr[g].vars[nm] THEN NoVar ELSE va[y]
  BY DEF Removing
<1> DEFINE x == fr[g].vars[nm]
<1>1. x \in VarIds /\ Len(gr) = Len(fr)
      /\ \A f \in 1 .. Len(fr) : \A b \in DOMAIN fr[f].vars : fr[f].vars[b] \in VarIds
  BY <1>0, FramesAre DEF Changed
<1>2. NoVar \in Var /\ NoVar.used = FALSE /\ NoVar.link = 0
  BY <1>0 DEF NoVar, Var
<1>3. vb \in [VarIds -> Var] /\ \A y \in VarIds : vb[y] = IF y = x THEN NoVar ELSE va[y]
  BY <1>0, <1>1, <1>2
<1> HIDE DEF x
<1>4. ASSUME NEW f \in 1 .. Len(gr), NEW b \in DOMAIN gr[f].vars
      PROVE  /\ f \in 1 .. Len(fr) /\ b \in DOMAIN fr[f].vars /\ gr[f].vars[b] = fr[f].vars[b]
             /\ gr[f].vars[b] # x /\ vb[gr[f].vars[b]] = va[fr[f].vars[b]]
  <2>1. f \in 1 .. Len(fr) /\ (f # g => gr[f] = fr[f]) /\ gr[g].vars = t
    BY <1>0, <1>1 DEF Changed
  <2>2. b \in DOMAIN fr[f].vars /\ gr[f].vars[b] = fr[f].vars[b] /\ ~(f = g /\ b = nm)
    BY <1>0, <2>1
  <2>3. fr[f].vars[b] # x
    BY <1>0, <2>1, <2>2 DEF Heap, Owned, Apart, x
  <2> QED
    BY <1>0, <2>1, <2>2, <2>3, <1>1, <1>3
<1>5. \A a \in DOMAIN Statics : Statics[a] \in VarIds /\ Statics[a] # x
  BY <1>0, StaticsAssumption DEF Heap, Owned, InTable, x
<1>6. InTable(gr, vb)
  BY <1>0, <1>4 DEF InTable, Heap, Owned
<1>7. Apart(gr)
  BY <1>0, <1>4 DEF Apart, Heap, Owned
<1>8. StaticsKept(vb)
  BY <1>0, <1>3, <1>5 DEF StaticsKept, Heap, Owned
<1>9. Holding(vb)
  BY <1>0, <1>2, <1>3 DEF Holding, Heap, Owned
<1>10. Upward(gr, vb)
  BY <1>0, <1>4 DEF Upward, Heap
<1> QED
  BY <1>0, <1>3, <1>6, <1>7, <1>8, <1>9, <1>10 DEF Heap, Owned

---------------------------------------------------------------------------
(* The invariant, in parts *)

\* The types, one by one.
LEMMA TypesAre ==
    TypeOK <=>
      /\ frames \in Seq(FrameType) /\ cur \in DOMAIN frames /\ stack \in Seq(Entry)
      /\ var \in [VarIds -> Var] /\ callFrameEpoch \in Nat
      /\ cache \in [Words -> CacheType] /\ op \in OpType
      /\ result \in Contents \cup {Done, Fail}
BY DEF TypeOK, Entry, Var, CacheType

\* What the invariant says, for the proofs of the actions.
LEMMA InvGives ==
    ASSUME Inv
    PROVE  /\ frames \in Seq(FrameType) /\ Len(frames) \in Nat /\ Len(frames) >= 1
           /\ DOMAIN frames = 1 .. Len(frames) /\ cur \in 1 .. Len(frames)
           /\ stack \in Seq(Entry) /\ var \in [VarIds -> Var] /\ callFrameEpoch \in Nat
           /\ cache \in [Words -> CacheType] /\ op \in OpType
           /\ result \in Contents \cup {Done, Fail}
           /\ Parents(frames) /\ Identified(frames, callFrameEpoch) /\ Stacked(frames, stack)
           /\ Caches(frames, cache, callFrameEpoch) /\ Heap(frames, var)
           /\ Busy(frames, stack, cur, op)
<1>1. /\ frames \in Seq(FrameType) /\ cur \in DOMAIN frames
      /\ stack \in Seq(Entry) /\ var \in [VarIds -> Var] /\ callFrameEpoch \in Nat
      /\ cache \in [Words -> CacheType] /\ op \in OpType
      /\ result \in Contents \cup {Done, Fail}
  BY TypesAre DEF Inv
<1>2. /\ Parents(frames) /\ Identified(frames, callFrameEpoch) /\ Stacked(frames, stack)
      /\ Caches(frames, cache, callFrameEpoch) /\ Heap(frames, var)
      /\ Busy(frames, stack, cur, op)
  BY DEF Inv, Calls
<1>3. Len(frames) \in Nat /\ DOMAIN frames = 1 .. Len(frames) /\ Len(frames) >= 1
  BY <1>1, <1>2, FramesAre DEF Parents
<1> QED
  BY <1>1, <1>2, <1>3

\* What has to be shown of the next state.
LEMMA InvNext ==
    ASSUME frames' \in Seq(FrameType), cur' \in 1 .. Len(frames'), stack' \in Seq(Entry),
           var' \in [VarIds -> Var], callFrameEpoch' \in Nat,
           cache' \in [Words -> CacheType], op' \in OpType,
           result' \in Contents \cup {Done, Fail},
           Parents(frames'), Identified(frames', callFrameEpoch'), Stacked(frames', stack'),
           Caches(frames', cache', callFrameEpoch'), Heap(frames', var'),
           Busy(frames', stack', cur', op')
    PROVE  Inv'
<1>1. DOMAIN frames' = 1 .. Len(frames')
  BY LenProperties
<1>2. TypeOK'
  BY <1>1 DEF TypeOK, Entry, Var, CacheType
<1> QED
  BY <1>2 DEF Inv, Calls

\* Most steps change neither the frames, nor the calls, nor the structures.
LEMMA InvSame ==
    ASSUME Inv, UNCHANGED <<frames, stack, var, callFrameEpoch>>,
           cur' \in 1 .. Len(frames),
           cache' \in [Words -> CacheType], Caches(frames, cache', callFrameEpoch),
           op' \in OpType, result' \in Contents \cup {Done, Fail},
           Busy(frames, stack, cur', op')
    PROVE  Inv'
BY InvGives, InvNext

\* No operation is in progress.
LEMMA IdleIs ==
    /\ Idle \in OpType /\ Idle.kind = "idle"
    /\ \A fr, s, c : Busy(fr, s, c, Idle)
<1>1. Idle \in OpType /\ Idle.kind = "idle"
  BY DEF Idle, OpType, Kinds, MaybeWord
<1> QED
  BY <1>1 DEF Busy, LinkKinds, WordKinds
---------------------------------------------------------------------------
(* The steps *)

\* At the start there is the first frame, with no variable.
LEMMA InitInv == Init => Inv
<1> SUFFICES ASSUME Init PROVE Inv
  OBVIOUS
<1> DEFINE nf == Frame(0, 0, 0, FALSE)
<1>1. NoVars \in Tables /\ DOMAIN NoVars = {}
  <2>1. {} \in SUBSET Bases /\ NoVars \in [{} -> VarIds]
    BY DEF NoVars
  <2> QED
    BY <2>1, TableIs DEF NoVars
<1>2. /\ nf \in FrameType /\ nf.id = 0 /\ nf.parent = 0 /\ nf.level = 0
      /\ ~nf.hasStatics /\ DOMAIN nf.vars = {}
  BY <1>1 DEF Frame, FrameType, Tables
<1>3. frames = <<nf>>
  BY DEF Init
<1> HIDE DEF nf
<1>4. frames \in Seq(FrameType) /\ Len(frames) = 1 /\ frames[1] = nf
  BY <1>2, <1>3
<1>5. \A f \in 1 .. Len(frames) : f = 1
  BY <1>4
<1>6. DOMAIN frames = 1 .. 1 /\ cur \in DOMAIN frames /\ stack = <<>> /\ stack \in Seq(Entry)
      /\ callFrameEpoch = 1
  BY <1>4, LenProperties, EmptySeq DEF Init
<1>7. PICK v \in Vals : var = [x \in VarIds |-> IF \E b \in DOMAIN Statics : Statics[b] = x
                                              THEN NewVar(v, 0) ELSE NoVar]
  BY DEF Init
<1>8. /\ NewVar(v, 0) \in Var /\ NewVar(v, 0).used /\ NewVar(v, 0).link = 0
      /\ NewVar(v, 0).obj \in Contents
      /\ NoVar \in Var /\ ~NoVar.used /\ NoVar.link = 0
  BY DEF NewVar, NoVar, Var, Contents
<1>9. var \in [VarIds -> Var]
  BY <1>7, <1>8
<1>10. NoCache \in CacheType /\ NoCache.id = -1
  BY DEF NoCache, CacheType, MaybeVar
<1>11. cache \in [Words -> CacheType] /\ \A w \in Words : cache[w].id = -1
  BY <1>10 DEF Init
<1>12. op = Idle /\ result \in Contents \cup {Done, Fail}
  BY DEF Init
<1>13. TypeOK
  BY <1>4, <1>6, <1>9, <1>11, <1>12, IdleIs, TypesAre
<1>14. Parents(frames) /\ Identified(frames, callFrameEpoch)
  BY <1>2, <1>4, <1>5, <1>6 DEF Parents, Identified
<1>15. Stacked(frames, stack)
  <2>1. Len(stack) = 0
    BY <1>6
  <2>2. {i \in 1 .. 0 : stack[i].kind = "call"} = {}
    OBVIOUS
  <2>3. CallsIn(stack, 0) = 0
    BY <2>2, FS_EmptySet DEF CallsIn
  <2> QED
    BY <2>1, <2>3, <1>4 DEF Stacked
<1>16. Caches(frames, cache, callFrameEpoch)
  <2>1. Ranged(cache, callFrameEpoch)
    BY <1>6, <1>11 DEF Ranged
  <2>2. \A w \in Words : FrameOf(w, 1) = 1
    BY DEF FrameOf
  <2>3. \A w \in Words, f \in DOMAIN frames : cache[w].id # frames[FrameOf(w, f)].id
    BY <2>2, <1>2, <1>4, <1>6, <1>11
  <2> QED
    BY <2>1, <2>3 DEF Caches, Fresh
<1>17. Heap(frames, var)
  <2>1. \A f \in 1 .. Len(frames) : DOMAIN frames[f].vars = {}
    BY <1>2, <1>4, <1>5
  <2>2. InTable(frames, var) /\ Apart(frames) /\ Upward(frames, var)
    BY <2>1 DEF InTable, Apart, Upward
  <2>3. StaticsKept(var)
    BY <1>7, <1>8, StaticsAssumption DEF StaticsKept
  <2>4. Holding(var)
    BY <1>7, <1>8 DEF Holding
  <2> QED
    BY <2>2, <2>3, <2>4 DEF Heap, Owned
<1>18. Busy(frames, stack, cur, op)
  BY <1>12, IdleIs
<1> QED
  BY <1>13, <1>14, <1>15, <1>16, <1>17, <1>18 DEF Inv, Calls

\* What a call does to frames, stack and epoch.
LEMMA EnterStep ==
    ASSUME Inv, NEW statics \in BOOLEAN, Enter(statics),
           NEW ca \in [Words -> CacheType], Caches(frames, ca, callFrameEpoch)
    PROVE  /\ frames' \in Seq(FrameType) /\ Len(frames') = Len(frames) + 1
           /\ stack' \in Seq(Entry) /\ callFrameEpoch' \in Nat
           /\ Parents(frames') /\ Identified(frames', callFrameEpoch') /\ Stacked(frames', stack')
           /\ Caches(frames', ca, callFrameEpoch') /\ Heap(frames', var)
           /\ frames'[Len(frames')].parent = cur /\ Ends(stack', "call")
<1> DEFINE l == frames[cur].level + 1
           nf == Frame(callFrameEpoch, cur, l, statics)
           gr == Append(frames, nf)
           en == [kind |-> "call", saved |-> 0]
<1>1. frames' = gr /\ callFrameEpoch' = callFrameEpoch + 1 /\ stack' = Append(stack, en)
  BY DEF Enter
<1>2. /\ frames \in Seq(FrameType) /\ Parents(frames) /\ callFrameEpoch \in Nat
      /\ Identified(frames, callFrameEpoch) /\ cur \in 1 .. Len(frames) /\ Len(frames) \in Nat
      /\ Stacked(frames, stack) /\ stack \in Seq(Entry) /\ Heap(frames, var)
      /\ callFrameEpoch' \in Nat /\ callFrameEpoch' = callFrameEpoch + 1
  BY <1>1, InvGives
<1>3. /\ gr \in Seq(FrameType) /\ Len(gr) = Len(frames) + 1
      /\ \A f \in 1 .. Len(frames) : gr[f] = frames[f]
      /\ gr[Len(frames) + 1].id = callFrameEpoch /\ gr[Len(frames) + 1].parent = cur
      /\ DOMAIN gr[Len(frames) + 1].vars = {}
      /\ Parents(gr) /\ Identified(gr, callFrameEpoch')
  <2>2. cur \in Nat /\ l \in Nat /\ l >= 1
    BY <1>2, FramesAre
  <2> HIDE DEF l
  <2>3. /\ nf \in FrameType /\ nf.id = callFrameEpoch /\ nf.parent = cur /\ nf.level >= 1
        /\ DOMAIN nf.vars = {}
    BY <1>2, <2>2, FrameIs
  <2>4. gr = Append(frames, nf)
    OBVIOUS
  <2> HIDE DEF nf, gr
  <2>5. frames \in Seq(FrameType) /\ Parents(frames) /\ callFrameEpoch \in Nat
        /\ Identified(frames, callFrameEpoch) /\ callFrameEpoch' \in Nat
        /\ callFrameEpoch' = callFrameEpoch + 1 /\ cur \in 1 .. Len(frames)
    BY <1>2
  <2>6. /\ gr \in Seq(FrameType) /\ Len(gr) = Len(frames) + 1
        /\ \A f \in 1 .. Len(frames) : gr[f] = frames[f]
        /\ gr[Len(frames) + 1] = nf
    BY <2>3, <2>4, <2>5, AppendAt, AppendLast
  <2>7. Parents(gr) /\ Identified(gr, callFrameEpoch')
    BY <2>3, <2>5, <2>6, NewFrame
  <2> QED
    BY <2>3, <2>6, <2>7
<1> HIDE DEF gr
<1>4. en \in Entry /\ en.kind = "call"
  BY DEF Entry
<1> HIDE DEF en
<1>5. Append(stack, en) \in Seq(Entry) /\ Stacked(gr, Append(stack, en))
  BY <1>2, <1>3, <1>4, StackedAppend
<1>6. Caches(gr, ca, callFrameEpoch')
  BY <1>2, <1>3, CachesNewFrame, SMTT(30)
<1>7. Heap(gr, var)
  BY <1>2, <1>3, HeapNewFrame
<1>8. Ends(Append(stack, en), "call")
  <2>1. /\ Len(Append(stack, en)) = Len(stack) + 1 /\ Len(stack) \in Nat
        /\ Append(stack, en)[Len(stack) + 1] = en
    BY <1>2, <1>4, AppendAt, AppendLast
  <2>2. Append(stack, en) # <<>>
    BY <2>1, EmptySeq, <1>5
  <2> QED
    BY <2>1, <2>2, <1>4 DEF Ends
<1> QED
  BY <1>1, <1>2, <1>3, <1>5, <1>6, <1>7, <1>8

\* A call.
LEMMA CallStep ==
    ASSUME Inv, NEW statics \in BOOLEAN, Call(statics)
    PROVE  Inv'
<1>1. /\ cache \in [Words -> CacheType] /\ Caches(frames, cache, callFrameEpoch)
      /\ Len(frames) \in Nat /\ var \in [VarIds -> Var]
      /\ result \in Contents \cup {Done, Fail}
  BY InvGives
<1>2. /\ Enter(statics) /\ cur' = Len(frames) + 1
      /\ op' = Idle /\ UNCHANGED <<var, cache, result>>
  BY DEF Call, Running
<1>3. /\ frames' \in Seq(FrameType) /\ Len(frames') = Len(frames) + 1
      /\ stack' \in Seq(Entry) /\ callFrameEpoch' \in Nat
      /\ Parents(frames') /\ Identified(frames', callFrameEpoch') /\ Stacked(frames', stack')
      /\ Caches(frames', cache, callFrameEpoch') /\ Heap(frames', var)
  BY <1>1, <1>2, EnterStep
<1>4. cur' \in 1 .. Len(frames')
  BY <1>1, <1>2, <1>3
<1>5. op' \in OpType /\ Busy(frames', stack', cur', op')
  BY <1>2, IdleIs
<1> QED
  BY <1>1, <1>2, <1>3, <1>4, <1>5, InvNext

\* A call with an argument passed by name.
LEMMA CallByNameStep ==
    ASSUME Inv, NEW n \in Words, NEW t \in Words, CallByName(n, t)
    PROVE  Inv'
<1> DEFINE ca == [cache EXCEPT ![n] = NoCache]
<1>1. /\ cache \in [Words -> CacheType] /\ Caches(frames, cache, callFrameEpoch)
      /\ frames \in Seq(FrameType) /\ Parents(frames) /\ callFrameEpoch \in Nat
      /\ Len(frames) \in Nat /\ Len(frames) >= 1 /\ var \in [VarIds -> Var] /\ cur \in 1 .. Len(frames)
      /\ result \in Contents \cup {Done, Fail}
  BY InvGives
<1>2. /\ Enter(FALSE) /\ cache' = ca /\ UNCHANGED <<cur, var, result>>
      /\ op' = [Idle EXCEPT !.kind = "byname", !.asked = n, !.word = t, !.name = n,
                            !.origin = Len(frames) + 1, !.target = t, !.tframe = cur]
  BY DEF CallByName
<1>3. ca \in [Words -> CacheType] /\ Caches(frames, ca, callFrameEpoch)
  BY <1>1, CacheForget
<1> HIDE DEF ca
<1>4. /\ frames' \in Seq(FrameType) /\ Len(frames') = Len(frames) + 1
      /\ stack' \in Seq(Entry) /\ callFrameEpoch' \in Nat
      /\ Parents(frames') /\ Identified(frames', callFrameEpoch') /\ Stacked(frames', stack')
      /\ Caches(frames', ca, callFrameEpoch') /\ Heap(frames', var)
      /\ frames'[Len(frames')].parent = cur /\ Ends(stack', "call")
  BY <1>2, <1>3, EnterStep
<1>5. cur' \in 1 .. Len(frames')
  BY <1>1, <1>2, <1>4
<1>6. /\ op' \in OpType /\ op'.kind = "byname" /\ op'.word = t /\ op'.name = n
      /\ op'.origin = Len(frames) + 1 /\ op'.target = t /\ op'.tframe = cur
  <2>1. Len(frames) + 1 \in Nat /\ cur \in Nat
    BY <1>1
  <2> QED
    BY <1>2, <2>1 DEF Idle, OpType, Kinds, MaybeWord
<1>7. Busy(frames', stack', cur', op')
  BY <1>1, <1>4, <1>5, <1>6, <1>2 DEF Busy, LinkKinds, WordKinds
<1> QED
  BY <1>1, <1>2, <1>3, <1>4, <1>5, <1>6, <1>7, InvNext

\* What the end of a call does to frames, stack and structures.
LEMMA LeaveStep ==
    ASSUME Inv, Ends(stack, "call"), Leave, callFrameEpoch' = callFrameEpoch, cache' = cache,
           op' = Idle, result' \in Contents \cup {Done, Fail}
    PROVE  Inv'
<1>1. /\ frames \in Seq(FrameType) /\ Parents(frames) /\ callFrameEpoch \in Nat
      /\ Identified(frames, callFrameEpoch) /\ Len(frames) \in Nat /\ Len(frames) >= 1
      /\ Stacked(frames, stack) /\ stack \in Seq(Entry) /\ Heap(frames, var)
      /\ cache \in [Words -> CacheType] /\ Caches(frames, cache, callFrameEpoch)
      /\ var \in [VarIds -> Var]
  BY InvGives
<1>2. /\ cur' = frames[Len(frames)].parent /\ frames' = Pop(frames) /\ stack' = Pop(stack)
      /\ var' = Freed(frames, var)
  BY DEF Leave, LastFrame, Freed
<1>3. stack # <<>> /\ stack[Len(stack)].kind = "call"
  BY DEF Ends
<1>4. Len(frames) >= 2
  <2> DEFINE gr == [i \in 1 .. Len(frames) - 1 |-> frames[i]]
  <2>1. Len(gr) = Len(frames) - 1
    BY <1>1
  <2> HIDE DEF gr
  <2> QED
    BY <1>1, <1>3, <2>1, StackedPop
<1>5. /\ Pop(frames) \in Seq(FrameType) /\ Len(Pop(frames)) = Len(frames) - 1
      /\ \A f \in 1 .. Len(Pop(frames)) : Pop(frames)[f] = frames[f]
      /\ Parents(Pop(frames)) /\ Identified(Pop(frames), callFrameEpoch)
      /\ frames[Len(frames)].parent \in 1 .. Len(Pop(frames))
  BY <1>1, <1>4, FramesPop
<1>6. Pop(stack) \in Seq(Entry) /\ Stacked(Pop(frames), Pop(stack))
  BY <1>1, <1>3, <1>5, StackedPop
<1>7. Caches(Pop(frames), cache, callFrameEpoch)
  BY <1>1, <1>5, CachesPop
<1>8. Freed(frames, var) \in [VarIds -> Var] /\ Heap(Pop(frames), Freed(frames, var))
  BY <1>1, <1>5, HeapPop
<1>9. op' \in OpType /\ Busy(frames', stack', cur', op')
  BY IdleIs
<1> QED
  BY <1>1, <1>2, <1>5, <1>6, <1>7, <1>8, <1>9, InvNext

\* The end of a call.
LEMMA EndCallStep ==
    ASSUME Inv, EndCall
    PROVE  Inv'
<1>1. result \in Contents \cup {Done, Fail}
  BY InvGives
<1>2. Ends(stack, "call")
  BY Bridges DEF EndCall
<1> QED
  BY <1>1, <1>2, LeaveStep DEF EndCall, Running

\* The target of a by-name argument does not exist.
LEMMA ByNameMissingStep ==
    ASSUME Inv, ByNameMissing
    PROVE  Inv'
<1>1. Busy(frames, stack, cur, op)
  BY InvGives
<1>2. op.kind = "byname"
  BY DEF ByNameMissing, Accessing
<1>3. Ends(stack, "call")
  BY <1>1, <1>2 DEF Busy
<1> QED
  BY <1>3, LeaveStep DEF ByNameMissing

\* [uplevel].
LEMMA UplevelStep ==
    ASSUME Inv, NEW g, Uplevel(g)
    PROVE  Inv'
<1> DEFINE en == [kind |-> "uplevel", saved |-> cur]
<1>1. /\ frames \in Seq(FrameType) /\ Parents(frames) /\ Len(frames) \in Nat
      /\ cur \in 1 .. Len(frames) /\ stack \in Seq(Entry) /\ Stacked(frames, stack)
      /\ callFrameEpoch \in Nat /\ Identified(frames, callFrameEpoch)
      /\ cache \in [Words -> CacheType] /\ Caches(frames, cache, callFrameEpoch)
      /\ var \in [VarIds -> Var] /\ Heap(frames, var)
      /\ result \in Contents \cup {Done, Fail}
  BY InvGives
<1>2. /\ g \in CallersIn(frames, cur) /\ cur' = g /\ stack' = Append(stack, en)
      /\ op' = Idle /\ UNCHANGED <<frames, var, callFrameEpoch, cache, result>>
  BY Bridges DEF Uplevel, Running
<1>3. en \in Entry /\ en.kind = "uplevel" /\ en.saved = cur
  BY <1>1 DEF Entry
<1> HIDE DEF en
<1>4. Append(stack, en) \in Seq(Entry) /\ Stacked(frames, Append(stack, en))
  BY <1>1, <1>3, StackedAppend, SMTT(30)
<1>5. cur' \in 1 .. Len(frames)
  BY <1>1, <1>2, CallersAre
<1>6. op' \in OpType /\ Busy(frames', stack', cur', op')
  BY <1>2, IdleIs
<1> QED
  BY <1>1, <1>2, <1>4, <1>5, <1>6, InvNext

\* The end of an [uplevel].
LEMMA EndUplevelStep ==
    ASSUME Inv, EndUplevel
    PROVE  Inv'
<1>1. /\ frames \in Seq(FrameType) /\ Parents(frames) /\ Len(frames) \in Nat
      /\ stack \in Seq(Entry) /\ Stacked(frames, stack)
      /\ callFrameEpoch \in Nat /\ Identified(frames, callFrameEpoch)
      /\ cache \in [Words -> CacheType] /\ Caches(frames, cache, callFrameEpoch)
      /\ var \in [VarIds -> Var] /\ Heap(frames, var)
      /\ result \in Contents \cup {Done, Fail}
  BY InvGives
<1>2. /\ stack # <<>> /\ stack[Len(stack)].kind = "uplevel"
      /\ cur' = stack[Len(stack)].saved /\ stack' = Pop(stack)
      /\ op' = Idle /\ UNCHANGED <<frames, var, callFrameEpoch, cache, result>>
  BY DEF EndUplevel, Running, Ending
<1>3. Pop(stack) \in Seq(Entry) /\ Stacked(frames, Pop(stack)) /\ cur' \in 1 .. Len(frames)
  <2>1. Len(frames) = Len(frames) - IF stack[Len(stack)].kind = "call" THEN 1 ELSE 0
    BY <1>1, <1>2
  <2> QED
    BY <1>1, <1>2, <2>1, StackedPop
<1>4. op' \in OpType /\ Busy(frames', stack', cur', op')
  BY <1>2, IdleIs
<1> QED
  BY <1>1, <1>2, <1>3, <1>4, InvNext
\* An operation begins.
LEMMA BeginStep ==
    ASSUME Inv, NEW kind \in {"get", "set", "unset"}, NEW w \in Words, NEW v \in Vals \cup {Nil},
           kind = "set" => v \in Vals, Begin(kind, w, v)
    PROVE  Inv'
<1>1. /\ cur \in 1 .. Len(frames) /\ cache \in [Words -> CacheType] /\ cur \in Nat
      /\ Caches(frames, cache, callFrameEpoch) /\ result \in Contents \cup {Done, Fail}
  BY InvGives
<1>2. /\ UNCHANGED <<frames, stack, var, callFrameEpoch, cur, cache, result>>
      /\ op' = [Idle EXCEPT !.kind = kind, !.asked = w, !.word = w, !.origin = cur, !.val = v]
  BY DEF Begin, Running, scripts
<1>3. op' \in OpType /\ op'.kind = kind /\ op'.word = w /\ op'.origin = cur /\ op'.val = v
  BY <1>1, <1>2 DEF Idle, OpType, Kinds, MaybeWord
<1>4. Busy(frames, stack, cur', op')
  BY <1>1, <1>2, <1>3 DEF Busy, LinkKinds, WordKinds
<1> QED
  BY <1>1, <1>2, <1>3, <1>4, InvSame

\* [upvar] begins.
LEMMA UpvarStep ==
    ASSUME Inv, NEW n \in Words, NEW t \in Words, NEW tf, Upvar(n, t, tf)
    PROVE  Inv'
<1>1. /\ frames \in Seq(FrameType) /\ Parents(frames)
      /\ cur \in 1 .. Len(frames) /\ cache \in [Words -> CacheType] /\ cur \in Nat
      /\ Caches(frames, cache, callFrameEpoch) /\ result \in Contents \cup {Done, Fail}
  BY InvGives
<1>2. /\ UNCHANGED <<frames, stack, var, callFrameEpoch, cur, cache, result>>
      /\ tf \in CallersIn(frames, cur)
      /\ op' = [Idle EXCEPT !.kind = "upvar", !.asked = n, !.name = n, !.origin = cur,
                            !.target = t, !.tframe = tf]
  BY Bridges DEF Upvar, Running, scripts
<1>3. tf \in 1 .. Len(frames) /\ tf \in Nat
  BY <1>1, <1>2, CallersAre
<1>4. /\ op' \in OpType /\ op'.kind = "upvar" /\ op'.name = n /\ op'.origin = cur
      /\ op'.target = t /\ op'.tframe = tf
  BY <1>1, <1>2, <1>3 DEF Idle, OpType, Kinds, MaybeWord
<1>5. Busy(frames, stack, cur', op')
  BY <1>1, <1>2, <1>3, <1>4 DEF Busy, LinkKinds, WordKinds
<1> QED
  BY <1>1, <1>2, <1>4, <1>5, InvSame

\* What is found: a structure in use, and a link is in the table of the frame.
LEMMA FoundIs ==
    ASSUME Inv, NEW w \in Words, Found(w) # Nil
    PROVE  LET g == FrameOf(w, cur)
               x == Found(w)
           IN  /\ x \in VarIds /\ var[x] \in Var /\ var[x].used /\ var[x].obj \in Contents
               /\ g \in 1 .. Len(frames) /\ NameOf[w] \in Bases
               /\ NameOf[w] \in DOMAIN frames[g].vars => x = frames[g].vars[NameOf[w]]
               /\ NameOf[w] \notin DOMAIN frames[g].vars =>
                     \E a \in DOMAIN Statics : x = Statics[a]
               /\ IsLink(x) =>
                     /\ NameOf[w] \in DOMAIN frames[g].vars
                     /\ var[x].obj \in Words /\ ~IsGlobal[var[x].obj]
                     /\ var[x].link \in CallersIn(frames, g)
                     /\ var[x].link \in 1 .. Len(frames)
<1> DEFINE g == FrameOf(w, cur)
           x == Found(w)
<1>1. /\ frames \in Seq(FrameType) /\ Parents(frames) /\ cur \in 1 .. Len(frames)
      /\ var \in [VarIds -> Var] /\ Heap(frames, var)
  BY InvGives
<1>2. x = LookupIn(frames, w, cur) /\ x \in VarIds
  <2>1. Found(w) \in VarIds \cup {Nil}
    BY Resolves DEF MaybeVar
  <2> QED
    BY <2>1, Resolves
<1>3. g \in 1 .. Len(frames) /\ NameOf[w] \in Bases
  BY <1>1, LookupIs
<1> HIDE DEF x
<1>4. NameOf[w] \in DOMAIN frames[g].vars => x = frames[g].vars[NameOf[w]]
  BY <1>2 DEF LookupIn
<1>5. x # Nil
  BY <1>2, SortAssumption
<1>6. ASSUME NameOf[w] \notin DOMAIN frames[g].vars
      PROVE  \E a \in DOMAIN Statics : x = Statics[a]
  BY <1>2, <1>5, <1>6 DEF LookupIn
<1>7. var[x].used
  BY <1>3, <1>4, <1>6, <1>1 DEF Heap, Owned, InTable, StaticsKept
<1>8. var[x] \in Var /\ var[x].obj \in Contents
  BY <1>1, <1>2, <1>7 DEF Heap, Owned, Holding
<1>9. ASSUME IsLink(x)
      PROVE  /\ NameOf[w] \in DOMAIN frames[g].vars
             /\ var[x].obj \in Words /\ ~IsGlobal[var[x].obj]
             /\ var[x].link \in CallersIn(frames, g)
             /\ var[x].link \in 1 .. Len(frames)
  <2>1. var[x].link # 0
    BY <1>9 DEF IsLink
  <2>2. NameOf[w] \in DOMAIN frames[g].vars
    BY <2>1, <1>6, <1>1 DEF Heap, Owned, StaticsKept
  <2>3. var[x].link \in CallersIn(frames, g)
    BY <2>1, <2>2, <1>3, <1>4, <1>1 DEF Heap, Upward
  <2>4. var[x].link \in 1 .. Len(frames)
    BY <2>3, <1>1, <1>3, CallersAre
  <2>5. var[x].obj \in Words /\ ~IsGlobal[var[x].obj]
    BY <2>1, <1>1, <1>2 DEF Heap, Owned, Holding
  <2> QED
    BY <2>2, <2>3, <2>4, <2>5
<1> QED
  BY <1>2, <1>3, <1>4, <1>6, <1>7, <1>8, <1>9 DEF x

\* An operation is over.
LEMMA Finishes ==
    ASSUME Inv, op.kind # "idle", NEW r \in Contents \cup {Done, Fail}, Finish(r)
    PROVE  /\ op' \in OpType /\ cur' \in 1 .. Len(frames) /\ result' \in Contents \cup {Done, Fail}
           /\ \A fr, s, c : Busy(fr, s, c, op')
<1>1. Busy(frames, stack, cur, op)
  BY InvGives
<1>2. op.origin \in 1 .. Len(frames)
  BY <1>1 DEF Busy
<1>3. op' = Idle /\ cur' = op.origin /\ result' = r
  BY DEF Finish
<1> QED
  BY <1>2, <1>3, IdleIs

\* Steps that finish an operation, and change nothing but caches.
LEMMA FinishingStep ==
    ASSUME Inv, op.kind # "idle", NEW r \in Contents \cup {Done, Fail}, Finish(r),
           UNCHANGED <<frames, stack, var, callFrameEpoch>>,
           cache' \in [Words -> CacheType], Caches(frames, cache', callFrameEpoch)
    PROVE  Inv'
BY Finishes, InvSame

\* The word of an operation that resolves one.
LEMMA WordOf ==
    ASSUME Inv, op.kind \in WordKinds
    PROVE  /\ op.word \in Words /\ op.kind # "idle"
           /\ Found(op.word) \in MaybeVar
           /\ Remembered(op.word) \in [Words -> CacheType]
           /\ Caches(frames, Remembered(op.word), callFrameEpoch)
<1>1. op.word \in Words /\ op.kind # "idle"
  BY InvGives DEF Busy, WordKinds
<1> QED
  BY <1>1, Resolves

\* A link is followed.
LEMMA FollowStep ==
    ASSUME Inv, Follow
    PROVE  Inv'
<1> DEFINE x == Found(op.word)
<1>1. op.kind \in {"get", "set", "unset", "byname"}
  BY DEF Follow, Accessing
<1>2. /\ op.word \in Words /\ Remembered(op.word) \in [Words -> CacheType]
      /\ Caches(frames, Remembered(op.word), callFrameEpoch)
  BY <1>1, WordOf DEF WordKinds
<1>3. x # Nil /\ IsLink(x)
  BY DEF Follow
<1>4. var[x].obj \in Words /\ var[x].link \in 1 .. Len(frames)
  BY <1>2, <1>3, FoundIs
<1>5. /\ cur' = var[x].link /\ op' = [op EXCEPT !.word = var[x].obj]
      /\ cache' = Remembered(op.word)
      /\ UNCHANGED <<frames, stack, var, callFrameEpoch, result>>
  BY DEF Follow
<1> HIDE DEF x
<1>6. op \in OpType /\ Busy(frames, stack, cur, op) /\ result \in Contents \cup {Done, Fail}
  BY InvGives
<1>7. /\ op' \in OpType /\ op'.kind = op.kind /\ op'.word \in Words /\ op'.val = op.val
      /\ op'.origin = op.origin
      /\ op'.name = op.name /\ op'.target = op.target /\ op'.tframe = op.tframe
  BY <1>4, <1>5, <1>6 DEF OpType, MaybeWord
<1>8. Busy(frames, stack, cur', op')
  BY <1>1, <1>6, <1>7 DEF Busy, LinkKinds, WordKinds
<1> QED
  BY <1>2, <1>4, <1>5, <1>6, <1>7, <1>8, InvSame

\* A read ends.
LEMMA GetFoundStep ==
    ASSUME Inv, GetFound
    PROVE  Inv'
<1>1. op.kind = "get" /\ Found(op.word) # Nil
  BY DEF GetFound, Reached, Accessing
<1>2. op.kind \in WordKinds
  BY <1>1 DEF WordKinds
<1>3. var[Found(op.word)].obj \in Contents
  BY <1>1, <1>2, WordOf, FoundIs
<1>4. /\ Finish(var[Found(op.word)].obj) /\ cache' = Remembered(op.word)
      /\ UNCHANGED <<frames, stack, var, callFrameEpoch>>
  BY DEF GetFound
<1> QED
  BY <1>2, <1>3, <1>4, WordOf, FinishingStep

\* [unset] of a static variable fails.
LEMMA UnsetStaticStep ==
    ASSUME Inv, UnsetStatic
    PROVE  Inv'
<1>1. op.kind = "unset"
  BY DEF UnsetStatic, Reached, Accessing
<1>2. op.kind \in WordKinds
  BY <1>1 DEF WordKinds
<1> QED
  BY <1>2, WordOf, FinishingStep DEF UnsetStatic

\* There is nothing to read or to unset.
LEMMA MissingStep ==
    ASSUME Inv, Missing
    PROVE  Inv'
<1>1. op.kind # "idle"
  BY DEF Missing, Accessing
<1>2. cache \in [Words -> CacheType] /\ Caches(frames, cache, callFrameEpoch)
  BY InvGives
<1> QED
  BY <1>1, <1>2, FinishingStep DEF Missing

\* A cycle is found.
LEMMA ProbeCycleStep ==
    ASSUME Inv, ProbeCycle
    PROVE  Inv'
<1>1. op.kind # "idle"
  BY DEF ProbeCycle, Accessing
<1>2. cache \in [Words -> CacheType] /\ Caches(frames, cache, callFrameEpoch)
  BY InvGives
<1> QED
  BY <1>1, <1>2, FinishingStep DEF ProbeCycle
\* A write ends: the variable gets the value, and is no link.
LEMMA SetFoundStep ==
    ASSUME Inv, SetFound
    PROVE  Inv'
<1> DEFINE x == Found(op.word)
           v == [var[x] EXCEPT !.obj = op.val]
<1>1. op.kind = "set" /\ x # Nil /\ ~IsLink(x)
  BY DEF SetFound, Reached, Accessing
<1>2. op.kind \in WordKinds
  BY <1>1 DEF WordKinds
<1>3. /\ op.word \in Words /\ op.kind # "idle"
      /\ Remembered(op.word) \in [Words -> CacheType]
      /\ Caches(frames, Remembered(op.word), callFrameEpoch)
  BY <1>2, WordOf
<1>4. x \in VarIds /\ var[x] \in Var /\ var[x].used
  BY <1>1, <1>3, FoundIs
<1>5. /\ frames \in Seq(FrameType) /\ stack \in Seq(Entry) /\ var \in [VarIds -> Var]
      /\ callFrameEpoch \in Nat /\ Parents(frames) /\ Identified(frames, callFrameEpoch)
      /\ Stacked(frames, stack) /\ Heap(frames, var) /\ op.val \in Vals
  BY <1>1, InvGives DEF Busy
<1>6. /\ Finish(Done) /\ var' = [var EXCEPT ![x].obj = op.val]
      /\ cache' = Remembered(op.word) /\ UNCHANGED <<frames, stack, callFrameEpoch>>
  BY DEF SetFound
<1>7. var[x].link = 0
  BY <1>1 DEF IsLink
<1> HIDE DEF x
<1>8. v \in Var /\ v.used /\ v.obj \in Contents /\ v.link = 0
  BY <1>4, <1>5, <1>7 DEF Var, Contents
<1>9. var' \in [VarIds -> Var] /\ \A y \in VarIds : var'[y] = IF y = x THEN v ELSE var[y]
  BY <1>4, <1>5, <1>6, <1>8
<1> HIDE DEF v
<1>10. Heap(frames, var')
  <2>1. Storing(frames, var, x, v, var')
    BY <1>4, <1>5, <1>8, <1>9 DEF Storing
  <2> QED
    BY <2>1, HeapStore
<1>11. Done \in Contents \cup {Done, Fail}
  OBVIOUS
<1>12. /\ op' \in OpType /\ cur' \in 1 .. Len(frames) /\ result' \in Contents \cup {Done, Fail}
       /\ Busy(frames', stack', cur', op')
  BY <1>3, <1>6, <1>11, Finishes
<1> QED
  BY <1>3, <1>5, <1>6, <1>9, <1>10, <1>12, InvNext

\* The target of a by-name argument exists.
LEMMA ByNameFoundStep ==
    ASSUME Inv, ByNameFound
    PROVE  Inv'
<1>1. op.kind = "byname"
  BY DEF ByNameFound, Reached, Accessing
<1>2. /\ Remembered(op.word) \in [Words -> CacheType]
      /\ Caches(frames, Remembered(op.word), callFrameEpoch)
  BY <1>1, WordOf DEF WordKinds
<1>3. /\ frames \in Seq(FrameType) /\ Parents(frames) /\ Len(frames) \in Nat
      /\ op \in OpType /\ Busy(frames, stack, cur, op) /\ result \in Contents \cup {Done, Fail}
  BY InvGives
<1>4. /\ op.origin = Len(frames) /\ op.tframe = frames[Len(frames)].parent /\ Len(frames) > 1
      /\ op.name \in Words /\ op.target \in Words /\ op.tframe \in 1 .. Len(frames)
  BY <1>1, <1>3 DEF Busy, LinkKinds
<1>5. Len(frames) \in 1 .. Len(frames) /\ Len(frames) # 1
  BY <1>3, <1>4
<1>6. op.tframe \in CallersIn(frames, op.origin)
  BY <1>3, <1>4, <1>5, CallersAre
<1>7. /\ cur' = op.origin /\ op' = [op EXCEPT !.kind = "argument"]
      /\ cache' = Remembered(op.word)
      /\ UNCHANGED <<frames, stack, var, callFrameEpoch, result>>
  BY DEF ByNameFound
<1>8. /\ op' \in OpType /\ op'.kind = "argument" /\ op'.origin = op.origin
      /\ op'.name = op.name /\ op'.target = op.target /\ op'.tframe = op.tframe
  BY <1>3, <1>7 DEF OpType, Kinds
<1>9. Busy(frames, stack, cur', op')
  BY <1>4, <1>5, <1>6, <1>7, <1>8 DEF Busy, LinkKinds, WordKinds
<1> QED
  BY <1>2, <1>3, <1>4, <1>5, <1>7, <1>8, <1>9, InvSame

\* The search for a cycle goes on, or is over.
LEMMA ProbeStep ==
    ASSUME Inv, Probe
    PROVE  Inv'
<1> DEFINE x == Found(op.word)
<1>1. op.kind = "probe"
  BY DEF Probe, Accessing
<1>2. /\ op.word \in Words /\ Remembered(op.word) \in [Words -> CacheType]
      /\ Caches(frames, Remembered(op.word), callFrameEpoch)
  BY <1>1, WordOf DEF WordKinds
<1>3. /\ cur \in 1 .. Len(frames) /\ op \in OpType
      /\ Busy(frames, stack, cur, op) /\ result \in Contents \cup {Done, Fail}
  BY InvGives
<1>4. /\ op.origin \in 1 .. Len(frames) /\ op.name \in Words /\ op.target \in Words
      /\ op.tframe \in 1 .. Len(frames) /\ cur = op.origin
      /\ op.tframe \in CallersIn(frames, FrameOf(op.name, cur))
      /\ ~IsGlobal[op.target] /\ NotStatic(frames, op.name, cur)
  BY <1>1, <1>3 DEF Busy, LinkKinds
<1>5. /\ op' = IF LeadsOn(op.word) THEN [op EXCEPT !.word = var[x].obj]
               ELSE [op EXCEPT !.kind = "bind"]
      /\ cache' = Remembered(op.word)
      /\ UNCHANGED <<frames, stack, var, callFrameEpoch, cur, result>>
  BY DEF Probe, scripts
<1>6. CASE LeadsOn(op.word)
  <2>1. x # Nil /\ var[x].link # 0
    BY <1>4, <1>6 DEF LeadsOn
  <2>2. var[x].obj \in Words
    BY <2>1, <1>2, FoundIs DEF IsLink
  <2>3. op' = [op EXCEPT !.word = var[x].obj]
    BY <1>5, <1>6
  <2> HIDE DEF x
  <2>4. /\ op' \in OpType /\ op'.kind = "probe" /\ op'.origin = op.origin /\ op'.word \in Words
        /\ op'.name = op.name /\ op'.target = op.target /\ op'.tframe = op.tframe
    BY <1>1, <1>3, <2>2, <2>3 DEF OpType, MaybeWord
  <2>5. Busy(frames, stack, cur', op')
    BY <1>4, <1>5, <2>4 DEF Busy, LinkKinds, WordKinds
  <2> QED
    BY <1>2, <1>3, <1>5, <2>4, <2>5, InvSame
<1>7. CASE ~LeadsOn(op.word)
  <2>1. op' = [op EXCEPT !.kind = "bind"]
    BY <1>5, <1>7
  <2>4. /\ op' \in OpType /\ op'.kind = "bind" /\ op'.origin = op.origin
        /\ op'.name = op.name /\ op'.target = op.target /\ op'.tframe = op.tframe
    BY <1>3, <2>1 DEF OpType, Kinds
  <2>5. Busy(frames, stack, cur', op')
    BY <1>4, <1>5, <2>4 DEF Busy, LinkKinds, WordKinds
  <2> QED
    BY <1>2, <1>3, <1>5, <2>4, <2>5, InvSame
<1> QED
  BY <1>6, <1>7

\* A variable is created: what AddVar does.
LEMMA AddVarStep ==
    ASSUME Inv, op.kind # "idle", NEW w \in Words, Found(w) = Nil, NEW x \in VarIds,
           NEW obj \in Contents, NEW link \in Nat,
           link # 0 => obj \in Words /\ ~IsGlobal[obj] /\ link \in CallersIn(frames, FrameOf(w, cur)),
           AddVar(w, x, obj, link), Finish(Done), UNCHANGED <<stack, callFrameEpoch>>
    PROVE  Inv'
<1> DEFINE g == FrameOf(w, cur)
           t == [b \in DOMAIN frames[g].vars \cup {NameOf[w]} |->
                    IF b = NameOf[w] THEN x ELSE frames[g].vars[b]]
           v == NewVar(obj, link)
<1>1. /\ frames \in Seq(FrameType) /\ stack \in Seq(Entry) /\ var \in [VarIds -> Var]
      /\ callFrameEpoch \in Nat /\ cur \in 1 .. Len(frames) /\ cache \in [Words -> CacheType]
      /\ Parents(frames) /\ Identified(frames, callFrameEpoch) /\ Stacked(frames, stack)
      /\ Caches(frames, cache, callFrameEpoch) /\ Heap(frames, var)
  BY InvGives
<1>2. g \in 1 .. Len(frames) /\ NameOf[w] \in Bases /\ LookupIn(frames, w, cur) = Nil
  <2>1. Found(w) = LookupIn(frames, w, cur)
    BY Resolves
  <2> QED
    BY <2>1, <1>1, LookupIs
<1>3. /\ ~var[x].used
      /\ var' = [var EXCEPT ![x] = v]
      /\ frames' = [frames EXCEPT ![g].vars = t]
      /\ cache' = [cache EXCEPT ![w] = [id |-> frames[g].id, var |-> x]]
  BY DEF AddVar
<1>4. v \in Var /\ v.used /\ v.obj = obj /\ v.link = link
  BY DEF NewVar, Var
<1> HIDE DEF v
<1>5. NameOf[w] \notin DOMAIN frames[g].vars /\ t \in Tables
  <2>1. /\ DOMAIN frames[g].vars \in SUBSET Bases
        /\ \A b \in DOMAIN frames[g].vars : frames[g].vars[b] \in VarIds
    BY <1>1, <1>2, FramesAre
  <2>2. NameOf[w] \notin DOMAIN frames[g].vars
    BY <2>1, <1>2, SortAssumption DEF LookupIn
  <2> DEFINE D == DOMAIN frames[g].vars \cup {NameOf[w]}
  <2>3. D \in SUBSET Bases /\ t \in [D -> VarIds]
    BY <2>1, <1>2
  <2> QED
    BY <2>2, <2>3, TableIs
<1>6. frames[g].id \in Nat
  BY <1>1, <1>2, FramesAre
<1>7. /\ t = [b \in DOMAIN frames[g].vars \cup {NameOf[w]} |->
                    IF b = NameOf[w] THEN x ELSE frames[g].vars[b]]
      /\ DOMAIN t = DOMAIN frames[g].vars \cup {NameOf[w]} /\ t[NameOf[w]] = x
      /\ \A b \in DOMAIN frames[g].vars : b # NameOf[w] => t[b] = frames[g].vars[b]
  OBVIOUS
<1> HIDE DEF t
<1>8. Changed(frames, frames', g, t, frames[g].id)
  BY <1>1, <1>2, <1>3, <1>5, <1>6, FrameChange
<1>9. frames' \in Seq(FrameType) /\ Len(frames') = Len(frames)
  BY <1>8 DEF Changed
<1>10. /\ Parents(frames') /\ Identified(frames', callFrameEpoch)
       /\ \A f \in 1 .. Len(frames) : CallersIn(frames', f) = CallersIn(frames, f)
  BY <1>1, <1>2, <1>8, ChangedKeeps, ChangedIds
<1>11. cache' \in [Words -> CacheType] /\ Caches(frames', cache', callFrameEpoch)
  BY <1>1, <1>2, <1>3, <1>7, <1>8, CachesAdd
<1>12. var' \in [VarIds -> Var] /\ \A y \in VarIds : var'[y] = IF y = x THEN v ELSE var[y]
  BY <1>1, <1>3, <1>4
<1>13. Heap(frames', var')
  <2>1. v \in Var /\ v.used /\ v.obj \in Contents
    BY <1>4
  <2>2. v.link # 0 => v.obj \in Words /\ ~IsGlobal[v.obj] /\ v.link \in CallersIn(frames, g)
    BY <1>4
  <2>3. /\ g \in 1 .. Len(frames) /\ NameOf[w] \in Bases /\ NameOf[w] \notin DOMAIN frames[g].vars
        /\ Unused(frames, x)
    BY <1>1, <1>2, <1>3, <1>5 DEF Unused, Heap, Owned, InTable, StaticsKept
  <2>4. /\ DOMAIN t = DOMAIN frames[g].vars \cup {NameOf[w]} /\ t[NameOf[w]] = x
        /\ \A b \in DOMAIN frames[g].vars : b # NameOf[w] => t[b] = frames[g].vars[b]
    BY <1>7
  <2>5. \A f \in 1 .. Len(frames) : CallersIn(frames', f) = CallersIn(frames, f)
    BY <1>10
  <2>6. frames \in Seq(FrameType) /\ Parents(frames) /\ var \in [VarIds -> Var] /\ Heap(frames, var)
    BY <1>1
  <2>7. Adding(frames, var, g, NameOf[w], x, v, t, frames', frames[g].id, var')
    BY <2>1, <2>2, <2>3, <2>4, <2>5, <2>6, <1>8, <1>12 DEF Adding
  <2> QED
    BY <2>7, HeapAdd
<1>14. Stacked(frames', stack)
  BY <1>1, <1>9 DEF Stacked
<1>15. Done \in Contents \cup {Done, Fail}
  OBVIOUS
<1>16. /\ op' \in OpType /\ cur' \in 1 .. Len(frames) /\ result' \in Contents \cup {Done, Fail}
       /\ Busy(frames', stack', cur', op')
  BY <1>15, Finishes
<1> QED
  BY <1>1, <1>9, <1>10, <1>11, <1>12, <1>13, <1>14, <1>16, InvNext

\* A write creates the variable.
LEMMA SetMissingStep ==
    ASSUME Inv, SetMissing
    PROVE  Inv'
<1>1. op.kind = "set" /\ Found(op.word) = Nil
  BY DEF SetMissing, Accessing
<1>2. op.word \in Words /\ op.kind # "idle" /\ op.val \in Contents
  BY <1>1, InvGives DEF Busy, WordKinds, Contents
<1>3. PICK x \in VarIds : AddVar(op.word, x, op.val, 0)
  BY DEF SetMissing
<1>4. Finish(Done) /\ UNCHANGED <<stack, callFrameEpoch>>
  BY DEF SetMissing
<1>5. 0 \in Nat
  OBVIOUS
<1> QED
  BY <1>1, <1>2, <1>3, <1>4, <1>5, AddVarStep
\* A variable goes away.
LEMMA UnsetFoundStep ==
    ASSUME Inv, UnsetFound
    PROVE  Inv'
<1> DEFINE w == op.word
           g == FrameOf(w, cur)
           table == frames[g].vars
           t == [b \in DOMAIN table \ {NameOf[w]} |-> table[b]]
<1>1. op.kind = "unset"
  BY DEF UnsetFound, Reached, Accessing
<1>2. /\ w \in Words /\ op.kind # "idle" /\ Remembered(w) \in [Words -> CacheType]
      /\ Caches(frames, Remembered(w), callFrameEpoch)
  BY <1>1, WordOf DEF WordKinds
<1>3. /\ NameOf[w] \in DOMAIN table /\ Finish(Done)
      /\ var' = [var EXCEPT ![table[NameOf[w]]] = NoVar]
      /\ frames' = [frames EXCEPT ![g] = [[frames[g] EXCEPT !.vars = t] EXCEPT !.id = callFrameEpoch]]
      /\ callFrameEpoch' = callFrameEpoch + 1 /\ cache' = Remembered(w) /\ stack' = stack
  BY DEF UnsetFound, Renumbered
<1>4. /\ frames \in Seq(FrameType) /\ stack \in Seq(Entry) /\ var \in [VarIds -> Var]
      /\ callFrameEpoch \in Nat /\ cur \in 1 .. Len(frames)
      /\ Parents(frames) /\ Identified(frames, callFrameEpoch) /\ Stacked(frames, stack)
      /\ Heap(frames, var)
  BY InvGives
<1>5. g \in 1 .. Len(frames)
  BY <1>2, <1>4, LookupIs
<1> HIDE DEF w
<1>6. /\ DOMAIN table \in SUBSET Bases /\ table \in [DOMAIN table -> VarIds]
      /\ \A b \in DOMAIN table : table[b] \in VarIds
  BY <1>4, <1>5, FramesAre
<1> HIDE DEF g
<1>7. t \in Tables
  <2> DEFINE D == DOMAIN table \ {NameOf[w]}
  <2>1. D \in SUBSET Bases /\ t \in [D -> VarIds]
    BY <1>6
  <2> QED
    BY <2>1, TableIs
<1>8. DOMAIN t = DOMAIN table \ {NameOf[w]} /\ \A b \in DOMAIN t : t[b] = table[b]
  OBVIOUS
<1> HIDE DEF t
<1>9. Changed(frames, frames', g, t, callFrameEpoch)
  BY <1>3, <1>4, <1>5, <1>7, FrameChange
<1>10. frames' \in Seq(FrameType) /\ Len(frames') = Len(frames)
  BY <1>9 DEF Changed
<1>11. callFrameEpoch' \in Nat /\ callFrameEpoch' = callFrameEpoch + 1
  BY <1>3, <1>4
<1>12. /\ Parents(frames') /\ \A f \in 1 .. Len(frames) : CallersIn(frames', f) = CallersIn(frames, f)
  BY <1>4, <1>5, <1>9, ChangedKeeps
<1>13. Identified(frames', callFrameEpoch')
  BY <1>4, <1>5, <1>9, <1>11, ChangedIds
<1>14. Caches(frames', cache', callFrameEpoch')
  BY <1>2, <1>3, <1>4, <1>5, <1>9, <1>11, CachesUnset
<1>15. NoVar \in Var
  BY DEF NoVar, Var
<1>16. /\ var' \in [VarIds -> Var]
       /\ \A y \in VarIds : var'[y] = IF y = frames[g].vars[NameOf[w]] THEN NoVar ELSE var[y]
  BY <1>3, <1>4, <1>6, <1>15
<1>17. Removing(frames, var, g, NameOf[w], t, frames', callFrameEpoch, var')
  BY <1>3, <1>4, <1>5, <1>8, <1>9, <1>12, <1>16 DEF Removing
<1>18. Heap(frames', var')
  BY <1>17, HeapUnset
<1>19. Stacked(frames', stack)
  BY <1>4, <1>10 DEF Stacked
<1>20. Done \in Contents \cup {Done, Fail}
  OBVIOUS
<1>21. /\ op' \in OpType /\ cur' \in 1 .. Len(frames) /\ result' \in Contents \cup {Done, Fail}
       /\ Busy(frames', stack', cur', op')
  BY <1>2, <1>3, <1>20, Finishes
<1> QED
  BY <1>2, <1>3, <1>4, <1>10, <1>11, <1>12, <1>13, <1>14, <1>16, <1>18, <1>19, <1>21, InvNext

\* Two operations that link have their ends in order.
LEMMA LinkEnds ==
    ASSUME Inv, op.kind \in {"upvar", "argument", "probe", "bind"}
    PROVE  /\ op.name \in Words /\ op.target \in Words /\ op.tframe \in 1 .. Len(frames)
           /\ op.tframe \in Nat /\ op.origin = cur /\ op.kind # "idle"
           /\ op.kind \in {"upvar", "argument"} => op.tframe \in CallersIn(frames, cur)
           /\ op.kind \in {"probe", "bind"} =>
                 /\ op.tframe \in CallersIn(frames, FrameOf(op.name, cur))
                 /\ ~IsGlobal[op.target] /\ NotStatic(frames, op.name, cur)
<1>1. Busy(frames, stack, cur, op) /\ op \in OpType
  BY InvGives
<1>2. op.tframe \in Nat
  BY <1>1 DEF OpType
<1> QED
  BY <1>1, <1>2 DEF Busy, LinkKinds

\* A link is bound.
LEMMA BindStep ==
    ASSUME Inv, Bind
    PROVE  Inv'
<1> DEFINE x == Found(op.name)
           g == FrameOf(op.name, cur)
           v == NewVar(op.target, op.tframe)
<1>1. op.kind = "bind"
  BY DEF Bind, Accessing
<1>2. /\ op.name \in Words /\ op.target \in Words /\ op.tframe \in 1 .. Len(frames)
      /\ op.tframe \in Nat /\ op.kind # "idle"
      /\ op.tframe \in CallersIn(frames, g) /\ ~IsGlobal[op.target]
      /\ NotStatic(frames, op.name, cur)
  BY <1>1, LinkEnds
<1>3. Finish(Done) /\ UNCHANGED <<stack, callFrameEpoch>>
  BY DEF Bind
<1>4. op.target \in Contents
  BY <1>2 DEF Contents
<1>5. CASE x = Nil
  <2>1. PICK y \in VarIds : AddVar(op.name, y, op.target, op.tframe)
    BY <1>5 DEF Bind
  <2> QED
    BY <2>1, <1>2, <1>3, <1>4, <1>5, AddVarStep
<1>6. CASE x # Nil
  <2>1. /\ var' = [var EXCEPT ![x] = v] /\ cache' = Remembered(op.name) /\ frames' = frames
    BY <1>6 DEF Bind
  <2>2. /\ frames \in Seq(FrameType) /\ stack \in Seq(Entry) /\ var \in [VarIds -> Var]
        /\ callFrameEpoch \in Nat /\ Parents(frames) /\ Identified(frames, callFrameEpoch)
        /\ Stacked(frames, stack) /\ Heap(frames, var)
    BY InvGives
  <2>3. /\ Remembered(op.name) \in [Words -> CacheType]
        /\ Caches(frames, Remembered(op.name), callFrameEpoch)
        /\ x = LookupIn(frames, op.name, cur)
    BY <1>2, Resolves
  <2>4. /\ x \in VarIds /\ g \in 1 .. Len(frames)
        /\ NameOf[op.name] \in DOMAIN frames[g].vars
        /\ x = frames[g].vars[NameOf[op.name]]
    <3>1. NameOf[op.name] \in DOMAIN frames[g].vars
      BY <1>2, <1>6, <2>3 DEF NotStatic
    <3> QED
      BY <3>1, <1>2, <1>6, FoundIs
  <2>5. v \in Var /\ v.used /\ v.obj = op.target /\ v.link = op.tframe
    BY <1>2, <1>4 DEF NewVar, Var
  <2> HIDE DEF x, v, g
  <2>6. \A a \in DOMAIN Statics : Statics[a] # x
    BY <2>2, <2>4 DEF Heap, Owned, InTable
  <2>7. \A f \in 1 .. Len(frames) : \A b \in DOMAIN frames[f].vars :
           frames[f].vars[b] = x /\ v.link # 0 => v.link \in CallersIn(frames, f)
    <3>1. \A f \in 1 .. Len(frames) : \A b \in DOMAIN frames[f].vars : frames[f].vars[b] = x => f = g
      BY <2>2, <2>4 DEF Heap, Owned, Apart
    <3> QED
      BY <3>1, <2>5, <1>2 DEF g
  <2>8. var' \in [VarIds -> Var] /\ \A y \in VarIds : var'[y] = IF y = x THEN v ELSE var[y]
    BY <2>1, <2>2, <2>4, <2>5
  <2>9. v.obj \in Contents /\ (v.link # 0 => v.obj \in Words /\ ~IsGlobal[v.obj])
    BY <1>2, <1>4, <2>5
  <2>10. Heap(frames, var')
    <3>1. Storing(frames, var, x, v, var')
      BY <2>2, <2>4, <2>5, <2>6, <2>7, <2>8, <2>9 DEF Storing
    <3> QED
      BY <3>1, HeapStore
  <2>11. Done \in Contents \cup {Done, Fail}
    OBVIOUS
  <2>12. /\ op' \in OpType /\ cur' \in 1 .. Len(frames) /\ result' \in Contents \cup {Done, Fail}
         /\ Busy(frames', stack', cur', op')
    BY <1>2, <1>3, <2>11, Finishes
  <2> QED
    BY <1>3, <2>1, <2>2, <2>3, <2>8, <2>10, <2>12, InvNext
<1> QED
  BY <1>5, <1>6
\* The ends of a link are checked, and an earlier link of the name is cut.
LEMMA LinkStep ==
    ASSUME Inv, Link
    PROVE  Inv'
<1> DEFINE n == op.name
           t == op.target
           x == Found(n)
           g == FrameOf(n, cur)
           target == IF IsGlobal[t] THEN 1 ELSE op.tframe
           was == IF x = Nil THEN 0 ELSE var[x].link
<1>1. op.kind \in {"upvar", "argument"}
  BY DEF Link, Accessing
<1>2. /\ n \in Words /\ t \in Words /\ op.tframe \in 1 .. Len(frames) /\ op.origin = cur
      /\ op.kind # "idle" /\ op.tframe \in CallersIn(frames, cur)
  BY <1>1, LinkEnds
<1>3. /\ frames \in Seq(FrameType) /\ stack \in Seq(Entry) /\ var \in [VarIds -> Var]
      /\ callFrameEpoch \in Nat /\ Parents(frames) /\ Identified(frames, callFrameEpoch)
      /\ Len(frames) \in Nat /\ Len(frames) >= 1
      /\ Stacked(frames, stack) /\ Heap(frames, var) /\ cur \in 1 .. Len(frames)
      /\ op \in OpType /\ result \in Contents \cup {Done, Fail}
  BY InvGives
<1>4. /\ Remembered(n) \in [Words -> CacheType] /\ Caches(frames, Remembered(n), callFrameEpoch)
      /\ x \in MaybeVar /\ x = LookupIn(frames, n, cur) /\ g \in 1 .. Len(frames)
  BY <1>2, <1>3, Resolves, LookupIs
<1>5. UNCHANGED <<frames, stack, callFrameEpoch>>
  BY DEF Link
<1>6. Fail \in Contents \cup {Done, Fail}
  OBVIOUS
<1>7. CASE x # Nil /\ ~IsLink(x)
  <2>1. cache' = Remembered(n) /\ Finish(Fail) /\ UNCHANGED var
    BY <1>7 DEF Link
  <2> QED
    BY <2>1, <1>2, <1>4, <1>5, <1>6, FinishingStep
<1>8. CASE ~(x # Nil /\ ~IsLink(x))
  <2>1. /\ var' = IF x = Nil THEN var ELSE [var EXCEPT ![x].link = 0]
        /\ IF TooHigh(g, target)
           THEN cache' = Remembered(n) /\ Finish(Fail)
           ELSE \E s \in Words :
                  /\ IF IsGlobal[t] THEN ~IsGlobal[s] /\ NameOf[s] = NameOf[t] /\ s # n ELSE s = t
                  /\ cache' = IF IsGlobal[t] THEN [Remembered(n) EXCEPT ![s] = NoCache]
                              ELSE Remembered(n)
                  /\ op' = [op EXCEPT !.kind = IF g = target THEN "probe" ELSE "bind",
                                      !.word = s, !.target = s, !.tframe = target, !.was = was]
                  /\ UNCHANGED <<cur, result>>
    BY <1>8 DEF Link
  <2>2. NotStatic(frames, n, cur)
    <3>1. CASE x = Nil
      BY <3>1, <1>4 DEF NotStatic
    <3>2. CASE x # Nil /\ IsLink(x)
      <4>1. NameOf[n] \in DOMAIN frames[g].vars
        BY <3>2, <1>2, FoundIs
      <4> QED
        BY <4>1 DEF NotStatic
    <3> QED
      BY <3>1, <3>2, <1>8
  <2>3. was \in Nat
    BY <1>3, <1>4 DEF MaybeVar, Var
  <2>4. target \in 1 .. Len(frames) /\ target \in Nat
    BY <1>2, <1>3
  <2>5. ~TooHigh(g, target) => target \in CallersIn(frames, g)
    <3>1. CASE ~IsGlobal[n]
      <4>1. g = cur
        BY <3>1 DEF FrameOf
      <4> QED
        BY <4>1, <1>2, <1>3, TopIsCaller
    <3>2. CASE IsGlobal[n]
      <4>1. g = 1 /\ 1 \in 1 .. Len(frames)
        BY <3>2, <1>3 DEF FrameOf
      <4>2. 1 \in CallersIn(frames, 1) /\ frames[1].level = 0
        BY <4>1, <1>3, CallersAre DEF Parents
      <4>3. target # 1 => frames[target].level >= 1 /\ frames[target].level \in Nat
        BY <2>4, <1>3, FramesAre DEF Parents
      <4> QED
        BY <4>1, <4>2, <4>3 DEF TooHigh
    <3> QED
      BY <3>1, <3>2
  <2>6. /\ var' \in [VarIds -> Var] /\ Heap(frames, var')
    <3>1. CASE x = Nil
      BY <3>1, <2>1, <1>3
    <3>2. CASE x # Nil
      <4>1. x \in VarIds /\ var[x] \in Var /\ var[x].used /\ var[x].obj \in Contents
        BY <3>2, <1>2, FoundIs
      <4>2. var' = [var EXCEPT ![x].link = 0]
        BY <2>1, <3>2
      <4> DEFINE v == [var[x] EXCEPT !.link = 0]
      <4> HIDE DEF x
      <4>3. v \in Var /\ v.used /\ v.obj \in Contents /\ v.link = 0
        BY <4>1 DEF Var
      <4>4. var' \in [VarIds -> Var] /\ \A y \in VarIds : var'[y] = IF y = x THEN v ELSE var[y]
        BY <4>1, <4>2, <4>3, <1>3
      <4> HIDE DEF v
      <4>5. Storing(frames, var, x, v, var')
        BY <4>1, <4>3, <4>4, <1>3 DEF Storing
      <4> QED
        BY <4>4, <4>5, HeapStore
    <3> QED
      BY <3>1, <3>2
  <2>7. CASE TooHigh(g, target)
    <3>1. cache' = Remembered(n) /\ Finish(Fail)
      BY <2>1, <2>7
    <3>2. /\ op' \in OpType /\ cur' \in 1 .. Len(frames) /\ result' \in Contents \cup {Done, Fail}
          /\ Busy(frames', stack', cur', op')
      BY <3>1, <1>2, <1>6, Finishes
    <3> QED
      BY <3>1, <3>2, <2>6, <1>3, <1>4, <1>5, InvNext
  <2>8. CASE ~TooHigh(g, target)
    <3>1. PICK s \in Words :
            /\ IF IsGlobal[t] THEN ~IsGlobal[s] /\ NameOf[s] = NameOf[t] /\ s # n ELSE s = t
            /\ cache' = IF IsGlobal[t] THEN [Remembered(n) EXCEPT ![s] = NoCache]
                        ELSE Remembered(n)
            /\ op' = [op EXCEPT !.kind = IF g = target THEN "probe" ELSE "bind",
                                !.word = s, !.target = s, !.tframe = target, !.was = was]
            /\ UNCHANGED <<cur, result>>
      BY <2>1, <2>8
    <3>2. ~IsGlobal[s]
      BY <3>1
    <3>3. cache' \in [Words -> CacheType] /\ Caches(frames, cache', callFrameEpoch)
      <4>1. /\ [Remembered(n) EXCEPT ![s] = NoCache] \in [Words -> CacheType]
            /\ Caches(frames, [Remembered(n) EXCEPT ![s] = NoCache], callFrameEpoch)
        BY <1>3, <1>4, CacheForget
      <4> QED
        BY <4>1, <3>1, <1>4
    <3>4. /\ op' \in OpType /\ op'.kind \in {"probe", "bind"} /\ op'.word = s /\ op'.target = s
          /\ op'.tframe = target /\ op'.name = n /\ op'.origin = cur
      <4> HIDE DEF target, was, g
      <4>1. (IF g = target THEN "probe" ELSE "bind") \in {"probe", "bind"}
        OBVIOUS
      <4> DEFINE k == IF g = target THEN "probe" ELSE "bind"
                 o1 == [op EXCEPT !.kind = k]
                 o2 == [o1 EXCEPT !.word = s]
                 o3 == [o2 EXCEPT !.target = s]
                 o4 == [o3 EXCEPT !.tframe = target]
                 o5 == [o4 EXCEPT !.was = was]
      <4>2. op' = o5
        BY <3>1
      <4> HIDE DEF k
      <4>3. k \in {"probe", "bind"}
        BY <4>1 DEF k
      <4>4. o1 \in OpType /\ o1.kind = k /\ o1.name = op.name /\ o1.origin = op.origin
        BY <4>3, <1>3 DEF OpType, Kinds
      <4> HIDE DEF o1
      <4>5. o2 \in OpType /\ o2.kind = k /\ o2.name = op.name /\ o2.origin = op.origin /\ o2.word = s
        BY <4>4 DEF OpType, MaybeWord
      <4> HIDE DEF o2
      <4>6. /\ o3 \in OpType /\ o3.kind = k /\ o3.name = op.name /\ o3.origin = op.origin /\ o3.word = s
            /\ o3.target = s
        BY <4>5 DEF OpType, MaybeWord
      <4> HIDE DEF o3
      <4>7. /\ o4 \in OpType /\ o4.kind = k /\ o4.name = op.name /\ o4.origin = op.origin /\ o4.word = s
            /\ o4.target = s /\ o4.tframe = target
        BY <4>6, <2>4 DEF OpType
      <4> HIDE DEF o4
      <4>8. /\ o5 \in OpType /\ o5.kind = k /\ o5.name = op.name /\ o5.origin = op.origin /\ o5.word = s
            /\ o5.target = s /\ o5.tframe = target
        BY <4>7, <2>3 DEF OpType
      <4> QED
        BY <4>2, <4>3, <4>8, <1>2
    <3>5. target \in CallersIn(frames, g) /\ cur' = cur /\ result' = result
      BY <2>5, <2>8, <3>1
    <3>6. Busy(frames', stack', cur', op')
      <4>1. op'.kind \notin {"idle", "get", "set", "unset", "byname", "upvar", "argument"}
        BY <3>4
      <4> QED
        BY <4>1, <1>2, <1>3, <1>5, <2>2, <2>4, <3>2, <3>4, <3>5 DEF Busy, LinkKinds, WordKinds
    <3> QED
      BY <3>3, <3>4, <3>5, <3>6, <2>6, <1>3, <1>5, InvNext
  <2> QED
    BY <2>7, <2>8
<1> QED
  BY <1>7, <1>8

\* Every step keeps the invariant.
LEMMA NextInv == Inv /\ [Next]_vars => Inv'
<1> SUFFICES ASSUME Inv, [Next]_vars PROVE Inv'
  OBVIOUS
<1>1. CASE UNCHANGED vars
  <2>1. UNCHANGED <<frames, stack, var, callFrameEpoch, cur, cache, op, result>>
    BY <1>1 DEF vars
  <2> QED
    BY <2>1, InvGives, InvNext
<1>2. CASE \E statics \in BOOLEAN : Call(statics)
  BY <1>2, CallStep
<1>3. CASE EndCall
  BY <1>3, EndCallStep
<1>4. CASE EndUplevel
  BY <1>4, EndUplevelStep
<1>5. CASE \E g \in DOMAIN frames : Uplevel(g)
  BY <1>5, UplevelStep
<1>6. CASE \E w \in Words : Get(w) \/ Unset(w)
  <2>1. PICK w \in Words : Get(w) \/ Unset(w)
    BY <1>6
  <2>2. Begin("get", w, Nil) \/ Begin("unset", w, Nil)
    BY <2>1 DEF Get, Unset
  <2>3. Nil \in Vals \cup {Nil}
    OBVIOUS
  <2> QED
    BY <2>2, <2>3, BeginStep
<1>7. CASE \E w \in Words, v \in Vals : Set(w, v)
  <2>1. PICK w \in Words, v \in Vals : Set(w, v)
    BY <1>7
  <2>2. Begin("set", w, v) /\ v \in Vals \cup {Nil}
    BY <2>1 DEF Set
  <2> QED
    BY <2>2, BeginStep
<1>8. CASE \E n, t \in Words : CallByName(n, t)
  BY <1>8, CallByNameStep
<1>9. CASE \E n \in LinkWords, t \in Words, tf \in DOMAIN frames : Upvar(n, t, tf)
  <2>1. PICK n \in LinkWords, t \in Words, tf \in DOMAIN frames : Upvar(n, t, tf)
    BY <1>9
  <2>2. n \in Words
    BY NameAssumption
  <2> QED
    BY <2>1, <2>2, UpvarStep
<1>10. CASE Continue
  BY <1>10, FollowStep, GetFoundStep, SetFoundStep, UnsetFoundStep, UnsetStaticStep, SetMissingStep,
     MissingStep, ByNameFoundStep, LinkStep, ByNameMissingStep, ProbeCycleStep, ProbeStep, BindStep
     DEF Continue
<1> QED
  BY <1>1, <1>2, <1>3, <1>4, <1>5, <1>6, <1>7, <1>8, <1>9, <1>10 DEF Next

---------------------------------------------------------------------------
(* The theorems *)

\* The invariant holds in every state.
THEOREM Invariant == Spec => []Inv
BY InitInv, NextInv, PTL DEF Spec

\* The interpreter keeps the types of its frames, structures, caches and operations:
\* framePtr is a live frame and every table holds structures.
THEOREM TypeCorrect == Spec => []TypeOK
<1>1. Inv => TypeOK
  BY DEF Inv
<1> QED
  BY <1>1, Invariant, PTL

\* The uncounted Jim_Var pointer a name object keeps is never used when it is stale:
\* whenever the id it was filled with is the id of the frame, it is what a lookup by
\* name finds there.
THEOREM CacheIsFresh == Spec => []CacheFresh
<1>1. Inv => CacheFresh
  BY Bridges DEF Inv, Caches
<1> QED
  BY <1>1, Invariant, PTL

\* A link leads to a live frame that its own frame was called from, or to that frame
\* itself, whatever is called, unset, linked and left.
THEOREM LinksGoUp == Spec => []LinksLive
<1>1. ASSUME Inv PROVE LinksLive
  <2>1. SUFFICES ASSUME NEW nd \in Links PROVE Target(nd)[1] \in Callers(nd[1])
    BY DEF LinksLive
  <2>2. /\ nd[1] \in DOMAIN frames /\ nd[2] \in DOMAIN frames[nd[1]].vars
        /\ IsLink(frames[nd[1]].vars[nd[2]])
    BY DEF Links
  <2> DEFINE x == frames[nd[1]].vars[nd[2]]
  <2>3. frames \in Seq(FrameType) /\ DOMAIN frames = 1 .. Len(frames) /\ Heap(frames, var)
    BY <1>1, InvGives
  <2>4. x \in VarIds /\ var[x].link # 0
    BY <2>2, <2>3, FramesAre DEF IsLink
  <2>5. var[x].link \in CallersIn(frames, nd[1])
    BY <2>2, <2>3, <2>4 DEF Heap, Upward
  <2>6. ~IsGlobal[var[x].obj]
    BY <2>3, <2>4 DEF Heap, Owned, Holding
  <2>7. Target(nd)[1] = var[x].link
    BY <2>6 DEF Target, At, Node, FrameOf
  <2> QED
    BY <2>5, <2>7, Bridges
<1> QED
  BY <1>1, Invariant, PTL
---------------------------------------------------------------------------
(* Cycles of links *)

\* The graph of links, for other frames and structures than the current ones.
Nodes(fr) == (DOMAIN fr) \X Bases
LinksIn(fr, va) ==
    {n \in Nodes(fr) : n[2] \in DOMAIN fr[n[1]].vars /\ va[fr[n[1]].vars[n[2]]].link # 0}
TargetIn(fr, va, n) ==
    Node(va[fr[n[1]].vars[n[2]]].obj, va[fr[n[1]].vars[n[2]]].link)
Acyclic(fr, va) == \A S \in SUBSET LinksIn(fr, va) : S = {} \/ \E n \in S : TargetIn(fr, va, n) \notin S

\* The links of P lead to nodes of Q.
LeadsInto(fr, va, P, Q) == \A n \in P : n \in LinksIn(fr, va) => TargetIn(fr, va, n) \in Q

\* What the search for a cycle knows: when a link is bound, its name is out of reach
\* of its target; and before, it is not among the nodes from the target to the word
\* the search has come to.
Here(c, w) == <<c, NameOf[w]>>
Searched(fr, va, c, o, P) ==
    /\ Here(c, o.name) \notin P
    /\ Here(o.tframe, o.target) \in P \cup {Here(c, o.word)}
    /\ LeadsInto(fr, va, P, P \cup {Here(c, o.word)})
Avoiding(fr, va, c, o, P) ==
    /\ Here(c, o.name) \notin P
    /\ Here(o.tframe, o.target) \in P
    /\ LeadsInto(fr, va, P, P)
Avoids(fr, va, c, o) ==
    /\ o.kind \in LinkKinds => ~IsGlobal[o.name]
    /\ o.kind = "probe" =>
          /\ o.tframe = c /\ ~IsGlobal[o.word]
          /\ \E P \in SUBSET Nodes(fr) : Searched(fr, va, c, o, P)
    /\ o.kind = "bind" => \E P \in SUBSET Nodes(fr) : Avoiding(fr, va, c, o, P)

CycleInv == Inv /\ Acyclic(frames, var) /\ Avoids(frames, var, cur, op)
\* The property NoLinkCycle.
LEMMA CycleBridge == NoLinkCycle <=> Acyclic(frames, var)
<1>1. Links = LinksIn(frames, var)
  BY DEF Links, LinksIn, Nodes, IsLink
<1>2. \A n : Target(n) = TargetIn(frames, var, n)
  BY DEF Target, TargetIn, At
<1> QED
  BY <1>1, <1>2, Zenon DEF NoLinkCycle, Acyclic

\* A node of the graph: its structure, and the end of the link.
LEMMA NodeIs ==
    ASSUME NEW fr \in Seq(FrameType), Parents(fr), NEW va \in [VarIds -> Var], Heap(fr, va),
           NEW n \in LinksIn(fr, va)
    PROVE  /\ n = <<n[1], n[2]>> /\ n[1] \in 1 .. Len(fr) /\ n[1] \in Nat /\ n[2] \in DOMAIN fr[n[1]].vars
           /\ fr[n[1]].vars[n[2]] \in VarIds
           /\ LET x == fr[n[1]].vars[n[2]]
              IN  /\ va[x].link # 0 /\ va[x].obj \in Words /\ ~IsGlobal[va[x].obj]
                  /\ TargetIn(fr, va, n) = <<va[x].link, NameOf[va[x].obj]>>
                  /\ va[x].link \in 1 .. n[1] /\ va[x].link \in 1 .. Len(fr)
                  /\ TargetIn(fr, va, n) \in Nodes(fr)
<1>1. /\ n \in (1 .. Len(fr)) \X Bases /\ DOMAIN fr = 1 .. Len(fr) /\ Len(fr) \in Nat
      /\ n[2] \in DOMAIN fr[n[1]].vars /\ va[fr[n[1]].vars[n[2]]].link # 0
  BY FramesAre DEF LinksIn, Nodes
<1>2. n = <<n[1], n[2]>> /\ n[1] \in 1 .. Len(fr) /\ n[1] \in Nat
  BY <1>1
<1> DEFINE x == fr[n[1]].vars[n[2]]
<1>3. x \in VarIds
  BY <1>1, <1>2, FramesAre
<1>4. va[x].obj \in Words /\ ~IsGlobal[va[x].obj]
  BY <1>1, <1>3 DEF Heap, Owned, Holding
<1>5. va[x].link \in CallersIn(fr, n[1])
  BY <1>1, <1>2 DEF Heap, Upward
<1>6. va[x].link \in 1 .. n[1] /\ va[x].link \in 1 .. Len(fr)
  BY <1>2, <1>5, CallersAre
<1>7. TargetIn(fr, va, n) = <<va[x].link, NameOf[va[x].obj]>>
  BY <1>4 DEF TargetIn, Node, FrameOf
<1>8. NameOf[va[x].obj] \in Bases
  BY <1>4, NameAssumption
<1>9. TargetIn(fr, va, n) \in Nodes(fr)
  <2> DEFINE l == va[x].link
             b == NameOf[va[x].obj]
  <2>1. l \in DOMAIN fr /\ b \in Bases /\ TargetIn(fr, va, n) = <<l, b>>
    BY <1>1, <1>6, <1>7, <1>8
  <2> HIDE DEF l, b
  <2> QED BY <2>1 DEF Nodes
<1> QED
  BY <1>1, <1>2, <1>3, <1>4, <1>6, <1>7, <1>9

\* Fewer links make no cycle.
Fewer(fr, va, gr, vb) ==
    \A n \in LinksIn(gr, vb) :
        n \in LinksIn(fr, va) /\ TargetIn(gr, vb, n) = TargetIn(fr, va, n)

\* Where there is no cycle, taking links away makes none.
LEMMA FewerLinks ==
    ASSUME NEW fr, NEW va, NEW gr, NEW vb, Acyclic(fr, va), Fewer(fr, va, gr, vb)
    PROVE  Acyclic(gr, vb)
<1>1. SUFFICES ASSUME NEW S \in SUBSET LinksIn(gr, vb), S # {}
               PROVE  \E n \in S : TargetIn(gr, vb, n) \notin S
  BY DEF Acyclic
<1>2. S \in SUBSET LinksIn(fr, va)
  BY DEF Fewer
<1>3. PICK n \in S : TargetIn(fr, va, n) \notin S
  BY <1>1, <1>2 DEF Acyclic
<1> QED
  BY <1>3 DEF Fewer

\* A new link makes no cycle, if its node n0 is out of reach of its target.
OneMore(fr, va, gr, vb, n0, P) ==
    /\ \A n \in LinksIn(gr, vb) :
          n # n0 => n \in LinksIn(fr, va) /\ TargetIn(gr, vb, n) = TargetIn(fr, va, n)
    /\ TargetIn(gr, vb, n0) \in P /\ n0 \notin P
    /\ LeadsInto(fr, va, P, P)

\* Where there is no cycle, a link out of reach of its target makes none.
LEMMA OneMoreLink ==
    ASSUME NEW fr, NEW va, NEW gr, NEW vb, NEW n0, NEW P,
           Acyclic(fr, va), OneMore(fr, va, gr, vb, n0, P)
    PROVE  Acyclic(gr, vb)
<1>1. SUFFICES ASSUME NEW S \in SUBSET LinksIn(gr, vb), S # {},
                      \A n \in S : TargetIn(gr, vb, n) \in S
               PROVE  FALSE
  BY DEF Acyclic
<1>2. \A n \in LinksIn(gr, vb) :
         n # n0 => n \in LinksIn(fr, va) /\ TargetIn(gr, vb, n) = TargetIn(fr, va, n)
  BY DEF OneMore
<1>3. CASE n0 \notin S
  <2>1. S \in SUBSET LinksIn(fr, va) /\ \A n \in S : TargetIn(fr, va, n) \in S
    BY <1>1, <1>2, <1>3
  <2> QED
    BY <2>1, <1>1 DEF Acyclic
<1>4. CASE n0 \in S
  <2> DEFINE Q == S \cap P
  <2>1. TargetIn(gr, vb, n0) \in Q
    BY <1>1, <1>4 DEF OneMore
  <2>2. \A n \in Q : n # n0 /\ n \in LinksIn(fr, va) /\ TargetIn(gr, vb, n) = TargetIn(fr, va, n)
    BY <1>2 DEF OneMore
  <2>3. \A n \in Q : TargetIn(fr, va, n) \in Q
    BY <1>1, <2>2 DEF OneMore, LeadsInto
  <2>4. Q \in SUBSET LinksIn(fr, va) /\ Q # {}
    BY <2>1, <2>2
  <2> HIDE DEF Q
  <2> QED
    BY <2>3, <2>4 DEF Acyclic
<1> QED
  BY <1>3, <1>4

\* A structure that is written becomes no link.
LEMMA StoreIsFewer ==
    ASSUME NEW fr \in Seq(FrameType), NEW va, NEW x, NEW vb,
           \A y \in VarIds : y # x => vb[y] = va[y], vb[x].link = 0
    PROVE  Fewer(fr, va, fr, vb)
<1>1. SUFFICES ASSUME NEW n \in LinksIn(fr, vb)
               PROVE  n \in LinksIn(fr, va) /\ TargetIn(fr, vb, n) = TargetIn(fr, va, n)
  BY DEF Fewer
<1>2. n[1] \in 1 .. Len(fr) /\ n[2] \in DOMAIN fr[n[1]].vars /\ n \in Nodes(fr)
      /\ vb[fr[n[1]].vars[n[2]]].link # 0
  BY FramesAre DEF LinksIn, Nodes
<1>3. fr[n[1]].vars[n[2]] \in VarIds
  BY <1>2, FramesAre
<1>4. vb[fr[n[1]].vars[n[2]]] = va[fr[n[1]].vars[n[2]]]
  BY <1>2, <1>3
<1> QED
  BY <1>2, <1>4 DEF LinksIn, TargetIn

\* A frame more, a frame less, or a variable less is no link more.
LEMMA TableIsFewer ==
    ASSUME NEW fr, NEW va, NEW gr, NEW vb, DOMAIN fr = 1 .. Len(fr),
           \A n \in LinksIn(gr, vb) :
               /\ n[1] \in 1 .. Len(fr) /\ n[2] \in DOMAIN fr[n[1]].vars
               /\ fr[n[1]].vars[n[2]] = gr[n[1]].vars[n[2]]
               /\ vb[gr[n[1]].vars[n[2]]] = va[gr[n[1]].vars[n[2]]]
    PROVE  Fewer(fr, va, gr, vb)
<1>1. SUFFICES ASSUME NEW n \in LinksIn(gr, vb)
               PROVE  n \in LinksIn(fr, va) /\ TargetIn(gr, vb, n) = TargetIn(fr, va, n)
  BY DEF Fewer
<1>2. n \in (DOMAIN gr) \X Bases /\ vb[gr[n[1]].vars[n[2]]].link # 0
  BY DEF LinksIn, Nodes
<1>3. n \in Nodes(fr)
  BY <1>2 DEF Nodes
<1> QED
  BY <1>2, <1>3 DEF LinksIn, TargetIn

\* Most operations look for no cycle.
LEMMA NotLinking ==
    ASSUME NEW fr, NEW va, NEW c, NEW o, o.kind \notin {"probe", "bind"},
           o.kind \in LinkKinds => ~IsGlobal[o.name]
    PROVE  Avoids(fr, va, c, o)
BY DEF Avoids

\* The steps that change neither frames nor structures, and are not of the search.
LEMMA SameGraph ==
    ASSUME CycleInv, UNCHANGED <<frames, var>>,
           op'.kind \notin {"probe", "bind"}, op'.kind \in LinkKinds => ~IsGlobal[op'.name]
    PROVE  Acyclic(frames', var') /\ Avoids(frames', var', cur', op')
BY NotLinking DEF CycleInv

\* The end of an operation.
LEMMA IdleAvoids ==
    ASSUME op' = Idle
    PROVE  Avoids(frames', var', cur', op')
<1>1. op'.kind = "idle"
  BY IdleIs
<1> QED
  BY <1>1, NotLinking DEF LinkKinds
\* A call makes a frame without links.
LEMMA EnterGraph ==
    ASSUME CycleInv, NEW statics \in BOOLEAN, Enter(statics), var' = var
    PROVE  Acyclic(frames', var')
<1>1. /\ Inv /\ Acyclic(frames, var) /\ frames \in Seq(FrameType) /\ Len(frames) \in Nat
      /\ DOMAIN frames = 1 .. Len(frames)
      /\ cache \in [Words -> CacheType] /\ Caches(frames, cache, callFrameEpoch)
  BY InvGives DEF CycleInv
<1> DEFINE nf == Frame(callFrameEpoch, cur, frames[cur].level + 1, statics)
<1>2. frames' \in Seq(FrameType) /\ Len(frames') = Len(frames) + 1
  BY <1>1, EnterStep
<1>3. frames' = Append(frames, nf) /\ DOMAIN nf.vars = {}
  BY DEF Enter, Frame, NoVars
<1> HIDE DEF nf
<1>4. \A f \in 1 .. Len(frames') : \/ f \in 1 .. Len(frames) /\ frames'[f] = frames[f]
                                   \/ frames'[f] = nf
  BY <1>1, <1>2, <1>3
<1>5. ASSUME NEW n \in LinksIn(frames', var')
      PROVE  /\ n[1] \in 1 .. Len(frames) /\ n[2] \in DOMAIN frames[n[1]].vars
             /\ frames[n[1]].vars[n[2]] = frames'[n[1]].vars[n[2]]
             /\ var'[frames'[n[1]].vars[n[2]]] = var[frames'[n[1]].vars[n[2]]]
  <2>1. n[1] \in 1 .. Len(frames') /\ n[2] \in DOMAIN frames'[n[1]].vars
    BY <1>2, FramesAre DEF LinksIn, Nodes
  <2> QED
    BY <2>1, <1>3, <1>4
<1>6. Fewer(frames, var, frames', var')
  BY <1>1, <1>5, TableIsFewer
<1> QED
  BY <1>1, <1>6, FewerLinks

\* The links of the frame that goes away go with it.
LEMMA LeaveGraph ==
    ASSUME CycleInv, Inv', Leave, Len(frames') = Len(frames) - 1
    PROVE  Acyclic(frames', var')
<1>1. /\ Acyclic(frames, var) /\ frames \in Seq(FrameType) /\ Len(frames) \in Nat
      /\ DOMAIN frames = 1 .. Len(frames) /\ Len(frames) >= 1
      /\ var \in [VarIds -> Var]
  BY InvGives DEF CycleInv
<1>2. /\ frames' = Pop(frames) /\ var' = Freed(frames, var)
  BY DEF Leave, LastFrame, Freed
<1>3. frames' \in Seq(FrameType) /\ Len(frames') \in Nat
      /\ \A f \in 1 .. Len(frames') : f \in 1 .. Len(frames) /\ frames'[f] = frames[f]
  BY <1>1, <1>2, FrontProperties, FramesAre DEF Pop
<1>4. ASSUME NEW n \in LinksIn(frames', var')
      PROVE  /\ n[1] \in 1 .. Len(frames) /\ n[2] \in DOMAIN frames[n[1]].vars
             /\ frames[n[1]].vars[n[2]] = frames'[n[1]].vars[n[2]]
             /\ var'[frames'[n[1]].vars[n[2]]] = var[frames'[n[1]].vars[n[2]]]
  <2>1. /\ n[1] \in 1 .. Len(frames') /\ n[2] \in DOMAIN frames'[n[1]].vars
        /\ var'[frames'[n[1]].vars[n[2]]].link # 0
    BY <1>3, FramesAre DEF LinksIn, Nodes
  <2>2. frames'[n[1]].vars[n[2]] \in VarIds
    BY <2>1, <1>3, FramesAre
  <2>3. \A y \in VarIds : var'[y] = NoVar \/ var'[y] = var[y]
    BY <1>2 DEF Freed
  <2>4. NoVar.link = 0
    BY DEF NoVar
  <2>5. var'[frames'[n[1]].vars[n[2]]] = var[frames'[n[1]].vars[n[2]]]
    BY <2>1, <2>2, <2>3, <2>4
  <2> QED
    BY <2>1, <2>5, <1>3
<1>5. Fewer(frames, var, frames', var')
  BY <1>1, <1>4, TableIsFewer
<1> QED
  BY <1>1, <1>5, FewerLinks

\* Both ways a call ends.
LEMMA LeaveIsPop ==
    ASSUME Inv, EndCall \/ ByNameMissing
    PROVE  Leave /\ op' = Idle /\ Len(frames') = Len(frames) - 1
<1>1. Leave /\ op' = Idle
  BY DEF EndCall, ByNameMissing, Running
<1>2. Ends(stack, "call")
  <2>1. CASE EndCall
    BY <2>1, Bridges DEF EndCall
  <2>2. CASE ByNameMissing
    BY <2>2, InvGives DEF ByNameMissing, Accessing, Busy
  <2> QED
    BY <2>1, <2>2
<1>3. frames \in Seq(FrameType) /\ Len(frames) \in Nat /\ Len(frames) >= 1 /\ frames' = Pop(frames)
  BY <1>1, InvGives DEF Leave
<1> QED
  BY <1>1, <1>3, FrontProperties DEF Pop

\* A write stores into a structure that is no link.
LEMMA SetFoundGraph ==
    ASSUME CycleInv, SetFound
    PROVE  Acyclic(frames', var')
<1> DEFINE x == Found(op.word)
<1>1. Inv /\ Acyclic(frames, var) /\ frames \in Seq(FrameType) /\ var \in [VarIds -> Var]
  BY InvGives DEF CycleInv
<1>2. op.kind = "set" /\ x # Nil /\ ~IsLink(x)
  BY DEF SetFound, Reached, Accessing
<1>3. op.word \in Words
  BY <1>1, <1>2, WordOf DEF WordKinds
<1>4. x \in VarIds /\ var[x] \in Var /\ var[x].link = 0
  BY <1>1, <1>2, <1>3, FoundIs DEF IsLink
<1>5. var' = [var EXCEPT ![x].obj = op.val] /\ frames' = frames
  BY DEF SetFound
<1> HIDE DEF x
<1>6. var'[x].link = 0 /\ \A y \in VarIds : y # x => var'[y] = var[y]
  BY <1>1, <1>4, <1>5 DEF Var
<1>7. Fewer(frames, var, frames, var')
  BY <1>1, <1>6, StoreIsFewer
<1> QED
  BY <1>1, <1>5, <1>7, FewerLinks

\* A variable goes away, with its link.
LEMMA UnsetFoundGraph ==
    ASSUME CycleInv, Inv', UnsetFound
    PROVE  Acyclic(frames', var')
<1> DEFINE w == op.word
           g == FrameOf(w, cur)
           table == frames[g].vars
           t == [b \in DOMAIN table \ {NameOf[w]} |-> table[b]]
<1>1. /\ Inv /\ Acyclic(frames, var) /\ frames \in Seq(FrameType) /\ Len(frames) \in Nat
      /\ DOMAIN frames = 1 .. Len(frames) /\ frames' \in Seq(FrameType)
      /\ Parents(frames) /\ cur \in 1 .. Len(frames)
      /\ var \in [VarIds -> Var] /\ callFrameEpoch \in Nat
  <2>1. frames' \in Seq(FrameType)
    BY DEF Inv, TypeOK
  <2> QED
    BY <2>1, InvGives DEF CycleInv
<1>2. op.kind = "unset"
  BY DEF UnsetFound, Reached, Accessing
<1>3. w \in Words
  BY <1>1, <1>2, WordOf DEF WordKinds
<1>4. g \in 1 .. Len(frames)
  BY <1>1, <1>3, LookupIs
<1>5. /\ var' = [var EXCEPT ![table[NameOf[w]]] = NoVar]
      /\ frames' = [frames EXCEPT ![g] = [[frames[g] EXCEPT !.vars = t] EXCEPT !.id = callFrameEpoch]]
  BY DEF UnsetFound, Renumbered
<1> HIDE DEF w
<1> HIDE DEF g
<1>6. t \in Tables
  <2> DEFINE D == DOMAIN table \ {NameOf[w]}
  <2>1. D \in SUBSET Bases /\ t \in [D -> VarIds]
    BY <1>1, <1>4, FramesAre
  <2> QED
    BY <2>1, TableIs
<1>7. DOMAIN t \subseteq DOMAIN table /\ \A b \in DOMAIN t : t[b] = table[b]
  OBVIOUS
<1> HIDE DEF t
<1>8. Changed(frames, frames', g, t, callFrameEpoch)
  BY <1>1, <1>4, <1>5, <1>6, FrameChange
<1>9. Len(frames') = Len(frames) /\ frames'[g].vars = t
      /\ \A f \in 1 .. Len(frames) : f # g => frames'[f] = frames[f]
  BY <1>8 DEF Changed
<1>10. \A y \in VarIds : var'[y] = NoVar \/ var'[y] = var[y]
  BY <1>1, <1>5
<1>11. NoVar.link = 0
  BY DEF NoVar
<1>12. ASSUME NEW n \in LinksIn(frames', var')
       PROVE  /\ n[1] \in 1 .. Len(frames) /\ n[2] \in DOMAIN frames[n[1]].vars
              /\ frames[n[1]].vars[n[2]] = frames'[n[1]].vars[n[2]]
              /\ var'[frames'[n[1]].vars[n[2]]] = var[frames'[n[1]].vars[n[2]]]
  <2>1. /\ n[1] \in 1 .. Len(frames') /\ n[2] \in DOMAIN frames'[n[1]].vars
        /\ var'[frames'[n[1]].vars[n[2]]].link # 0
    BY <1>1, FramesAre DEF LinksIn, Nodes
  <2>2. frames'[n[1]].vars[n[2]] \in VarIds
    BY <2>1, <1>1, FramesAre
  <2>3. var'[frames'[n[1]].vars[n[2]]] = var[frames'[n[1]].vars[n[2]]]
    BY <2>1, <2>2, <1>10, <1>11
  <2>4. n[2] \in DOMAIN frames[n[1]].vars /\ frames[n[1]].vars[n[2]] = frames'[n[1]].vars[n[2]]
    BY <2>1, <1>7, <1>9
  <2> QED
    BY <2>1, <2>3, <2>4, <1>9
<1>13. Fewer(frames, var, frames', var')
  BY <1>1, <1>12, TableIsFewer
<1> QED
  BY <1>1, <1>13, FewerLinks

\* A new variable: the node of its name is the only one that may be a link now and
\* was none before.
LEMMA AddVarGraph ==
    ASSUME Inv, Inv', NEW w \in Words, Found(w) = Nil, NEW x \in VarIds, NEW obj, NEW link,
           AddVar(w, x, obj, link)
    PROVE  LET n0 == <<FrameOf(w, cur), NameOf[w]>>
           IN  /\ \A n \in LinksIn(frames', var') :
                    n # n0 => /\ n \in LinksIn(frames, var)
                              /\ TargetIn(frames', var', n) = TargetIn(frames, var, n)
               /\ n0 \in LinksIn(frames', var') => link # 0
               /\ TargetIn(frames', var', n0) = Node(obj, link)
<1> DEFINE g == FrameOf(w, cur)
           n0 == <<g, NameOf[w]>>
           t == [b \in DOMAIN frames[g].vars \cup {NameOf[w]} |->
                    IF b = NameOf[w] THEN x ELSE frames[g].vars[b]]
           v == NewVar(obj, link)
<1>1. /\ frames \in Seq(FrameType) /\ var \in [VarIds -> Var] /\ Len(frames) \in Nat
      /\ cur \in 1 .. Len(frames) /\ DOMAIN frames = 1 .. Len(frames)
      /\ Parents(frames) /\ Heap(frames, var) /\ frames' \in Seq(FrameType)
  <2>1. frames' \in Seq(FrameType)
    BY DEF Inv, TypeOK
  <2> QED
    BY <2>1, InvGives
<1>2. g \in 1 .. Len(frames) /\ NameOf[w] \in Bases
  BY <1>1, LookupIs
<1>3. /\ ~var[x].used
      /\ var' = [var EXCEPT ![x] = v]
      /\ frames' = [frames EXCEPT ![g].vars = t]
  BY DEF AddVar
<1>4. v.obj = obj /\ v.link = link
  BY DEF NewVar
<1> HIDE DEF v
<1>5. t \in Tables
  <2>1. /\ DOMAIN frames[g].vars \in SUBSET Bases
        /\ \A b \in DOMAIN frames[g].vars : frames[g].vars[b] \in VarIds
    BY <1>1, <1>2, FramesAre
  <2> DEFINE D == DOMAIN frames[g].vars \cup {NameOf[w]}
  <2>2. D \in SUBSET Bases /\ t \in [D -> VarIds]
    BY <2>1, <1>2
  <2> QED
    BY <2>2, TableIs
<1>6. frames[g].id \in Nat
  BY <1>1, <1>2, FramesAre
<1>7. /\ DOMAIN t = DOMAIN frames[g].vars \cup {NameOf[w]} /\ t[NameOf[w]] = x
      /\ \A b \in DOMAIN frames[g].vars : b # NameOf[w] => t[b] = frames[g].vars[b]
  OBVIOUS
<1> HIDE DEF t
<1> HIDE DEF g
<1>8. Changed(frames, frames', g, t, frames[g].id)
  BY <1>1, <1>2, <1>3, <1>5, <1>6, FrameChange
<1>9. Len(frames') = Len(frames) /\ frames'[g].vars = t
      /\ \A f \in 1 .. Len(frames) : f # g => frames'[f] = frames[f]
  BY <1>8 DEF Changed
<1>10. var'[x] = v /\ \A y \in VarIds : y # x => var'[y] = var[y]
  BY <1>1, <1>3
<1>11. Unused(frames, x)
  BY <1>1, <1>3 DEF Unused, Heap, Owned, InTable, StaticsKept
<1>12. ASSUME NEW n \in LinksIn(frames', var'), n # n0
       PROVE  n \in LinksIn(frames, var) /\ TargetIn(frames', var', n) = TargetIn(frames, var, n)
  <2>1. /\ n \in (1 .. Len(frames)) \X Bases /\ n[2] \in DOMAIN frames'[n[1]].vars
        /\ var'[frames'[n[1]].vars[n[2]]].link # 0
    BY <1>1, <1>9, FramesAre DEF LinksIn, Nodes
  <2>2. n[1] \in 1 .. Len(frames) /\ (n[1] # g \/ n[2] # NameOf[w])
    BY <2>1, <1>12
  <2>3. n[2] \in DOMAIN frames[n[1]].vars /\ frames[n[1]].vars[n[2]] = frames'[n[1]].vars[n[2]]
    BY <2>1, <2>2, <1>7, <1>9
  <2>4. frames[n[1]].vars[n[2]] \in VarIds /\ frames[n[1]].vars[n[2]] # x
    BY <2>2, <2>3, <1>1, <1>11, FramesAre DEF Unused
  <2>5. var'[frames'[n[1]].vars[n[2]]] = var[frames[n[1]].vars[n[2]]]
    BY <2>3, <2>4, <1>10
  <2>6. n \in Nodes(frames)
    BY <2>1, <1>1 DEF Nodes
  <2> QED
    BY <2>1, <2>3, <2>5, <2>6 DEF LinksIn, TargetIn
<1>13. frames'[n0[1]].vars[n0[2]] = x
  BY <1>7, <1>9
<1>14. n0 \in LinksIn(frames', var') => link # 0
  BY <1>4, <1>10, <1>13 DEF LinksIn
<1>15. TargetIn(frames', var', n0) = Node(obj, link)
  BY <1>4, <1>10, <1>13 DEF TargetIn
<1> QED
  BY <1>12, <1>14, <1>15 DEF g

\* A write creates a variable that is no link.
LEMMA SetMissingGraph ==
    ASSUME CycleInv, Inv', SetMissing
    PROVE  Acyclic(frames', var')
<1>1. Inv /\ Acyclic(frames, var)
  BY DEF CycleInv
<1>2. op.kind = "set" /\ Found(op.word) = Nil
  BY DEF SetMissing, Accessing
<1>3. op.word \in Words
  BY <1>1, <1>2, WordOf DEF WordKinds
<1>4. PICK x \in VarIds : AddVar(op.word, x, op.val, 0)
  BY DEF SetMissing
<1>5. Fewer(frames, var, frames', var')
  BY <1>1, <1>2, <1>3, <1>4, AddVarGraph DEF Fewer
<1> QED
  BY <1>1, <1>5, FewerLinks
\* The ends of a link that is bound, in another frame than its target's: nothing
\* leads back to it, as links lead to older frames.
LEMMA OlderFrames ==
    ASSUME NEW fr \in Seq(FrameType), Parents(fr), NEW va \in [VarIds -> Var], Heap(fr, va), NEW m \in Nat
    PROVE  /\ {n \in Nodes(fr) : n[1] <= m} \in SUBSET Nodes(fr)
           /\ LeadsInto(fr, va, {n \in Nodes(fr) : n[1] <= m}, {n \in Nodes(fr) : n[1] <= m})
<1> DEFINE P == {n \in Nodes(fr) : n[1] <= m}
<1>1. SUFFICES ASSUME NEW n \in P, n \in LinksIn(fr, va)
               PROVE  TargetIn(fr, va, n) \in P
  BY DEF LeadsInto
<1> DEFINE x == fr[n[1]].vars[n[2]]
<1>2. /\ TargetIn(fr, va, n) = <<va[x].link, NameOf[va[x].obj]>>
      /\ va[x].link \in 1 .. n[1] /\ n[1] \in Nat
      /\ TargetIn(fr, va, n) \in Nodes(fr)
  BY <1>1, NodeIs
<1>3. n[1] <= m
  BY <1>1
<1> HIDE DEF x, P
<1>4. TargetIn(fr, va, n)[1] = va[x].link
  BY <1>2
<1>5. va[x].link <= n[1] /\ va[x].link \in Nat
  BY <1>2
<1>6. TargetIn(fr, va, n)[1] <= m
  BY <1>2, <1>3, <1>4, <1>5
<1> QED
  BY <1>2, <1>6 DEF P

\* [upvar] cuts an earlier link of the name and begins the search, at the target.
LEMMA LinkGraph ==
    ASSUME CycleInv, Inv', Link
    PROVE  Acyclic(frames', var') /\ Avoids(frames', var', cur', op')
<1> DEFINE n == op.name
           t == op.target
           x == Found(n)
           g == FrameOf(n, cur)
           target == IF IsGlobal[t] THEN 1 ELSE op.tframe
           was == IF x = Nil THEN 0 ELSE var[x].link
<1>1. op.kind \in {"upvar", "argument"}
  BY DEF Link, Accessing
<1>2. /\ Inv /\ Acyclic(frames, var) /\ Avoids(frames, var, cur, op)
      /\ frames \in Seq(FrameType) /\ DOMAIN frames = 1 .. Len(frames)
      /\ var \in [VarIds -> Var] /\ Parents(frames)
      /\ cur \in 1 .. Len(frames) /\ op \in OpType /\ Len(frames) \in Nat
  BY InvGives DEF CycleInv
<1>3. ~IsGlobal[n]
  BY <1>1, <1>2 DEF Avoids, LinkKinds
<1>4. n \in Words /\ t \in Words /\ g = cur /\ op.tframe \in 1 .. Len(frames)
  BY <1>1, <1>2, <1>3, LinkEnds DEF FrameOf
<1>5. x \in MaybeVar
  BY <1>2, <1>4, Resolves
<1>6. frames' = frames
  BY DEF Link
<1>7. CASE x # Nil /\ ~IsLink(x)
  <2>1. var' = var /\ op' = Idle
    BY <1>7 DEF Link, Finish
  <2> QED
    BY <2>1, <1>2, <1>6, IdleAvoids
<1>8. CASE ~(x # Nil /\ ~IsLink(x))
  <2>1. /\ var' = IF x = Nil THEN var ELSE [var EXCEPT ![x].link = 0]
        /\ \/ op' = Idle
           \/ \E s \in Words :
                  /\ ~IsGlobal[s] /\ cur' = cur
                  /\ op' = [op EXCEPT !.kind = IF g = target THEN "probe" ELSE "bind",
                                      !.word = s, !.target = s, !.tframe = target, !.was = was]
    <3>1. /\ var' = IF x = Nil THEN var ELSE [var EXCEPT ![x].link = 0]
          /\ IF TooHigh(g, target)
             THEN cache' = Remembered(n) /\ Finish(Fail)
             ELSE \E s \in Words :
                  /\ IF IsGlobal[t] THEN ~IsGlobal[s] /\ NameOf[s] = NameOf[t] /\ s # n ELSE s = t
                  /\ cache' = IF IsGlobal[t] THEN [Remembered(n) EXCEPT ![s] = NoCache]
                              ELSE Remembered(n)
                  /\ op' = [op EXCEPT !.kind = IF g = target THEN "probe" ELSE "bind",
                                      !.word = s, !.target = s, !.tframe = target, !.was = was]
                  /\ UNCHANGED <<cur, result>>
      BY <1>8 DEF Link
    <3>2. CASE TooHigh(g, target)
      BY <3>1, <3>2 DEF Finish
    <3>3. CASE ~TooHigh(g, target)
      <4>1. PICK s \in Words :
                  /\ IF IsGlobal[t] THEN ~IsGlobal[s] /\ NameOf[s] = NameOf[t] /\ s # n ELSE s = t
                  /\ op' = [op EXCEPT !.kind = IF g = target THEN "probe" ELSE "bind",
                                      !.word = s, !.target = s, !.tframe = target, !.was = was]
                  /\ UNCHANGED <<cur, result>>
        BY <3>1, <3>3
      <4>2. ~IsGlobal[s]
        BY <4>1
      <4> QED
        BY <3>1, <4>1, <4>2
    <3> QED
      BY <3>2, <3>3
  <2>2. Acyclic(frames, var')
    <3>1. CASE x = Nil
      BY <3>1, <2>1, <1>2
    <3>2. CASE x # Nil
      <4>1. x \in VarIds /\ var[x] \in Var
        BY <3>2, <1>2, <1>4, FoundIs
      <4>2. var' = [var EXCEPT ![x].link = 0]
        BY <2>1, <3>2
      <4> HIDE DEF x
      <4>3. var'[x].link = 0 /\ \A y \in VarIds : y # x => var'[y] = var[y]
        BY <4>1, <4>2, <1>2 DEF Var
      <4>4. Fewer(frames, var, frames, var')
        BY <4>3, <1>2, StoreIsFewer
      <4> QED
        BY <4>4, <1>2, FewerLinks
    <3> QED
      BY <3>1, <3>2
  <2>3. CASE op' = Idle
    BY <2>2, <2>3, <1>6, IdleAvoids
  <2>4. CASE \E s \in Words :
                  /\ ~IsGlobal[s] /\ cur' = cur
                  /\ op' = [op EXCEPT !.kind = IF g = target THEN "probe" ELSE "bind",
                                      !.word = s, !.target = s, !.tframe = target, !.was = was]
    <3>1. PICK s \in Words :
                  /\ ~IsGlobal[s] /\ cur' = cur
                  /\ op' = [op EXCEPT !.kind = IF g = target THEN "probe" ELSE "bind",
                                      !.word = s, !.target = s, !.tframe = target, !.was = was]
      BY <2>4
    <3>2. target \in 1 .. Len(frames) /\ target \in Nat
      BY <1>2, <1>4
    <3> HIDE DEF target, was, g, x
    <3>3. /\ op'.kind = (IF g = target THEN "probe" ELSE "bind") /\ op'.word = s
          /\ op'.target = s /\ op'.tframe = target /\ op'.name = op.name
      BY <3>1, <1>2 DEF OpType
    <3>4. NameOf[s] \in Bases /\ NameOf[n] \in Bases
      BY <1>4, NameAssumption
    <3>5. CASE g = target
      <4>1. op'.kind = "probe" /\ op'.tframe = cur'
        BY <3>1, <3>3, <3>5, <1>4
      <4>2. Searched(frames', var', cur', op', {})
        BY <4>1, <3>3 DEF Searched, LeadsInto, Here
      <4>3. {} \in SUBSET Nodes(frames')
        OBVIOUS
      <4>4. ~IsGlobal[op'.word] /\ ~IsGlobal[op'.name]
        BY <3>1, <3>3, <1>3
      <4> QED
        BY <4>1, <4>2, <4>3, <4>4, <2>2, <1>6 DEF Avoids
    <3>6. CASE g # target
      <4>1. op'.kind = "bind" /\ ~IsGlobal[op'.name]
        BY <3>3, <3>6, <1>3
      <4>2. /\ Heap(frames', var') /\ Busy(frames', stack', cur', op') /\ var' \in [VarIds -> Var]
        BY DEF Inv, TypeOK, Var
      <4>3. target \in CallersIn(frames, g)
        BY <4>1, <4>2, <3>1, <3>3, <1>6 DEF Busy, g
      <4>4. target \in 1 .. g /\ g \in Nat
        BY <4>3, <1>2, <1>4, CallersAre
      <4> DEFINE P == {m \in Nodes(frames) : m[1] <= target}
      <4>5. P \in SUBSET Nodes(frames) /\ LeadsInto(frames, var', P, P)
        BY <4>2, <3>2, <1>2, <1>6, OlderFrames
      <4>6. Here(op'.tframe, op'.target) \in P
        BY <3>2, <3>3, <3>4, <1>2 DEF Here, Nodes
      <4>7. Here(cur', op'.name) \notin P
        BY <4>4, <3>1, <3>2, <3>3, <3>6, <1>4 DEF Here
      <4> HIDE DEF P
      <4>8. Avoiding(frames', var', cur', op', P)
        BY <4>5, <4>6, <4>7, <1>6 DEF Avoiding
      <4> QED
        BY <4>1, <4>5, <4>8, <2>2, <1>6 DEF Avoids
    <3> QED
      BY <3>5, <3>6
  <2> QED
    BY <2>1, <2>3, <2>4
<1> QED
  BY <1>7, <1>8

\* The search takes a step, or ends: then everything the target leads to is known,
\* and the name is not there.
LEMMA ProbeGraph ==
    ASSUME CycleInv, Probe
    PROVE  Acyclic(frames', var') /\ Avoids(frames', var', cur', op')
<1> DEFINE w == op.word
           x == Found(w)
<1>1. op.kind = "probe"
  BY DEF Probe, Accessing
<1>2. /\ Inv /\ Acyclic(frames, var) /\ Avoids(frames, var, cur, op)
      /\ frames \in Seq(FrameType) /\ DOMAIN frames = 1 .. Len(frames)
      /\ var \in [VarIds -> Var] /\ Parents(frames) /\ Heap(frames, var)
      /\ cur \in 1 .. Len(frames) /\ op \in OpType /\ Len(frames) \in Nat /\ cur \in Nat
  BY InvGives DEF CycleInv
<1>3. ~IsGlobal[op.name] /\ op.tframe = cur /\ ~IsGlobal[w]
  BY <1>1, <1>2 DEF Avoids, LinkKinds
<1>4. PICK P \in SUBSET Nodes(frames) : Searched(frames, var, cur, op, P)
  BY <1>1, <1>2 DEF Avoids
<1>5. w \in Words /\ FrameOf(w, cur) = cur /\ NameOf[w] \in Bases
      /\ x = LookupIn(frames, w, cur)
  <2>1. w \in Words
    BY <1>1, <1>2, WordOf DEF WordKinds
  <2> QED
    BY <2>1, <1>2, <1>3, NameAssumption, Resolves DEF FrameOf
<1>6. NameOf[w] # NameOf[op.name]
  BY DEF Probe, SameName
<1>7. /\ op' = IF LeadsOn(w) THEN [op EXCEPT !.word = var[x].obj] ELSE [op EXCEPT !.kind = "bind"]
      /\ UNCHANGED <<frames, var, cur>>
  BY DEF Probe, scripts
<1> DEFINE W == Here(cur, w)
           Q == P \cup {W}
<1>8. W \in Nodes(frames) /\ W[1] = cur /\ W[2] = NameOf[w]
  BY <1>2, <1>5 DEF Here, Nodes
<1>9. /\ Here(cur, op.name) \notin Q /\ Here(op.tframe, op.target) \in Q
      /\ LeadsInto(frames, var, P, Q) /\ Q \in SUBSET Nodes(frames)
  BY <1>4, <1>6, <1>8 DEF Searched, Here
<1> HIDE DEF W, w
<1>10. CASE LeadsOn(w)
  <2>1. x # Nil /\ var[x].link = cur /\ cur # 0
    BY <1>2, <1>3, <1>10 DEF LeadsOn
  <2>2. /\ NameOf[w] \in DOMAIN frames[cur].vars /\ x = frames[cur].vars[NameOf[w]]
        /\ var[x].obj \in Words /\ ~IsGlobal[var[x].obj]
    BY <2>1, <1>2, <1>5, FoundIs DEF IsLink
  <2>3. op' = [op EXCEPT !.word = var[x].obj]
    BY <1>7, <1>10
  <2>4. TargetIn(frames, var, W) = Here(cur, var[x].obj)
    BY <2>1, <2>2, <1>8 DEF TargetIn, Node, FrameOf, Here
  <2> HIDE DEF x
  <2>5. /\ op'.kind = "probe" /\ op'.word = var[x].obj /\ op'.name = op.name
        /\ op'.target = op.target /\ op'.tframe = op.tframe
    BY <1>1, <1>2, <2>3 DEF OpType
  <2>6. LeadsInto(frames, var, Q, Q \cup {Here(cur, var[x].obj)})
    BY <2>4, <1>9 DEF LeadsInto
  <2>7. Searched(frames', var', cur', op', Q)
    BY <2>5, <2>6, <1>7, <1>9 DEF Searched
  <2> HIDE DEF Q
  <2>8. ~IsGlobal[op'.word] /\ ~IsGlobal[op'.name] /\ op'.tframe = cur'
    BY <2>2, <2>5, <1>3, <1>7
  <2> QED
    BY <2>5, <2>7, <2>8, <1>2, <1>7, <1>9 DEF Avoids
<1>11. CASE ~LeadsOn(w)
  <2> DEFINE R == {m \in Nodes(frames) : m[1] <= cur - 1}
             S == Q \cup R
  <2>1. op' = [op EXCEPT !.kind = "bind"]
    BY <1>7, <1>11
  <2>2. /\ op'.kind = "bind" /\ op'.name = op.name
        /\ op'.target = op.target /\ op'.tframe = op.tframe
    BY <1>2, <2>1 DEF OpType
  <2>3. cur - 1 \in Nat
    BY <1>2
  <2>4. R \in SUBSET Nodes(frames) /\ LeadsInto(frames, var, R, R)
    BY <2>3, <1>2, OlderFrames
  <2>5. ASSUME W \in LinksIn(frames, var)
        PROVE  TargetIn(frames, var, W) \in R
    <3> DEFINE y == frames[cur].vars[NameOf[w]]
    <3>1. /\ NameOf[w] \in DOMAIN frames[cur].vars /\ y \in VarIds /\ var[y].link # 0
          /\ TargetIn(frames, var, W) = <<var[y].link, NameOf[var[y].obj]>>
          /\ var[y].link \in 1 .. cur /\ TargetIn(frames, var, W) \in Nodes(frames)
      <4> DEFINE z == frames[W[1]].vars[W[2]]
      <4>1. /\ W[2] \in DOMAIN frames[W[1]].vars /\ z \in VarIds /\ var[z].link # 0
            /\ TargetIn(frames, var, W) = <<var[z].link, NameOf[var[z].obj]>>
            /\ var[z].link \in 1 .. W[1] /\ TargetIn(frames, var, W) \in Nodes(frames)
        BY <2>5, <1>2, NodeIs
      <4> QED BY <1>8, <4>1
    <3>2. x = y
      BY <3>1, <1>5 DEF LookupIn
    <3>3. x # Nil
      BY <3>1, <3>2, SortAssumption
    <3>4. var[y].link # cur
      BY <3>2, <3>3, <1>3, <1>11, SMTT(30) DEF LeadsOn
    <3>a. TargetIn(frames, var, W)[1] = var[y].link
      BY <3>1
    <3> HIDE DEF y
    <3>5. TargetIn(frames, var, W)[1] <= cur - 1
      BY <3>1, <3>4, <3>a, <1>2
    <3> QED
      BY <3>1, <3>5
  <2>6. LeadsInto(frames, var, S, S)
    BY <2>4, <2>5, <1>9 DEF LeadsInto
  <2>7. Here(cur, op.name) \notin R
    BY <1>2 DEF Here
  <2> HIDE DEF R
  <2>8. Avoiding(frames', var', cur', op', S) /\ S \in SUBSET Nodes(frames)
    BY <2>2, <2>4, <2>6, <2>7, <1>7, <1>9 DEF Avoiding
  <2> HIDE DEF S
  <2> QED
    BY <2>2, <2>8, <1>2, <1>3, <1>7 DEF Avoids
<1> QED
  BY <1>10, <1>11

\* The link is bound.
LEMMA BindGraph ==
    ASSUME CycleInv, Inv', Bind
    PROVE  Acyclic(frames', var')
<1> DEFINE x == Found(op.name)
           n0 == Here(cur, op.name)
           v == NewVar(op.target, op.tframe)
<1>1. op.kind = "bind"
  BY DEF Bind, Accessing
<1>2. /\ Inv /\ Acyclic(frames, var) /\ Avoids(frames, var, cur, op)
      /\ frames \in Seq(FrameType) /\ DOMAIN frames = 1 .. Len(frames)
      /\ var \in [VarIds -> Var] /\ Parents(frames) /\ Heap(frames, var)
      /\ cur \in 1 .. Len(frames)
  BY InvGives DEF CycleInv
<1>3. ~IsGlobal[op.name]
  BY <1>1, <1>2 DEF Avoids, LinkKinds
<1>4. /\ op.name \in Words /\ op.target \in Words /\ ~IsGlobal[op.target]
      /\ FrameOf(op.name, cur) = cur /\ NotStatic(frames, op.name, cur)
      /\ op.tframe \in 1 .. Len(frames)
  BY <1>1, <1>2, <1>3, LinkEnds DEF FrameOf
<1>5. PICK P \in SUBSET Nodes(frames) : Avoiding(frames, var, cur, op, P)
  BY <1>1, <1>2 DEF Avoids
<1>6. Node(op.target, op.tframe) = Here(op.tframe, op.target)
  BY <1>4 DEF Node, FrameOf, Here
<1>7. CASE x = Nil
  <2>1. PICK y \in VarIds : AddVar(op.name, y, op.target, op.tframe)
    BY <1>7 DEF Bind
  <2>2. n0 = <<FrameOf(op.name, cur), NameOf[op.name]>>
    BY <1>4 DEF Here
  <2>3. /\ \A n \in LinksIn(frames', var') :
              n # n0 => /\ n \in LinksIn(frames, var)
                        /\ TargetIn(frames', var', n) = TargetIn(frames, var, n)
        /\ TargetIn(frames', var', n0) = Node(op.target, op.tframe)
    BY <2>1, <2>2, <1>2, <1>4, <1>7, AddVarGraph
  <2>4. OneMore(frames, var, frames', var', n0, P)
    BY <2>3, <1>5, <1>6 DEF OneMore, Avoiding
  <2> QED
    BY <2>4, <1>2, OneMoreLink
<1>8. CASE x # Nil
  <2>1. var' = [var EXCEPT ![x] = v] /\ frames' = frames
    BY <1>8 DEF Bind
  <2>2. /\ x \in VarIds /\ NameOf[op.name] \in DOMAIN frames[cur].vars
        /\ x = frames[cur].vars[NameOf[op.name]]
    <3>1. x = LookupIn(frames, op.name, cur)
      BY <1>2, <1>4, Resolves
    <3>2. NameOf[op.name] \in DOMAIN frames[cur].vars
      BY <3>1, <1>4, <1>8 DEF NotStatic
    <3> QED
      BY <3>2, <1>2, <1>4, <1>8, FoundIs
  <2>3. v.obj = op.target /\ v.link = op.tframe
    BY DEF NewVar
  <2> HIDE DEF v, x
  <2>4. var'[x] = v /\ \A y \in VarIds : y # x => var'[y] = var[y]
    BY <2>1, <2>2, <1>2
  <2>5. n0[1] = cur /\ n0[2] = NameOf[op.name]
    BY DEF Here
  <2>6. TargetIn(frames', var', n0) = Node(op.target, op.tframe)
    BY <2>1, <2>2, <2>3, <2>4, <2>5 DEF TargetIn
  <2>7. ASSUME NEW n \in LinksIn(frames, var'), n # n0
        PROVE  n \in LinksIn(frames, var) /\ TargetIn(frames, var', n) = TargetIn(frames, var, n)
    <3>1. /\ n \in (1 .. Len(frames)) \X Bases /\ n[2] \in DOMAIN frames[n[1]].vars /\ n \in Nodes(frames)
          /\ var'[frames[n[1]].vars[n[2]]].link # 0
      BY <1>2 DEF LinksIn, Nodes
    <3>2. n = <<n[1], n[2]>> /\ n[1] \in 1 .. Len(frames)
      BY <3>1
    <3>3. frames[n[1]].vars[n[2]] \in VarIds
      BY <3>1, <3>2, <1>2, FramesAre
    <3>4. frames[n[1]].vars[n[2]] # x
      <4>1. SUFFICES ASSUME frames[n[1]].vars[n[2]] = x PROVE FALSE
        OBVIOUS
      <4>2. n[1] = cur /\ n[2] = NameOf[op.name]
        BY <4>1, <3>1, <3>2, <2>2, <1>2 DEF Heap, Owned, Apart
      <4> QED
        BY <4>2, <3>2, <2>7 DEF Here
    <3>5. var'[frames[n[1]].vars[n[2]]] = var[frames[n[1]].vars[n[2]]]
      BY <3>3, <3>4, <2>4
    <3> QED
      BY <3>1, <3>5 DEF LinksIn, TargetIn
  <2>8. OneMore(frames, var, frames', var', n0, P)
    BY <2>1, <2>6, <2>7, <1>5, <1>6 DEF OneMore, Avoiding
  <2> QED
    BY <2>8, <1>2, OneMoreLink
<1> QED
  BY <1>7, <1>8

\* At the start there is no link.
LEMMA InitCycle == Init => CycleInv
<1> SUFFICES ASSUME Init PROVE CycleInv
  OBVIOUS
<1>1. Inv
  BY InitInv
<1>2. frames = <<Frame(0, 0, 0, FALSE)>> /\ op = Idle
  BY DEF Init
<1>3. Len(frames) = 1 /\ frames[1] = Frame(0, 0, 0, FALSE)
  BY <1>2
<1>4. DOMAIN frames[1].vars = {}
  BY <1>3 DEF Frame, NoVars
<1>5. DOMAIN frames = 1 .. Len(frames)
  BY <1>1, InvGives
<1>6. \A n \in Nodes(frames) : n[1] = 1
  BY <1>3, <1>5 DEF Nodes
<1>7. LinksIn(frames, var) = {}
  BY <1>4, <1>6 DEF LinksIn
<1>8. Acyclic(frames, var)
  BY <1>7 DEF Acyclic
<1>9. Avoids(frames, var, cur, op)
  BY <1>2, IdleIs, NotLinking DEF LinkKinds
<1> QED
  BY <1>1, <1>8, <1>9 DEF CycleInv

\* Every step keeps the links without cycle, if no global name is made a link.
LEMMA NextCycle ==
    ASSUME \A n \in LinkWords : ~IsGlobal[n], CycleInv, [Next]_vars
    PROVE  CycleInv'
<1>1. Inv /\ Acyclic(frames, var) /\ Avoids(frames, var, cur, op)
  BY DEF CycleInv
<1>2. Inv'
  BY <1>1, NextInv
<1>3. op \in OpType
  BY <1>1, InvGives
<1>4. SUFFICES Acyclic(frames', var') /\ Avoids(frames', var', cur', op')
  BY <1>2 DEF CycleInv
<1>5. CASE UNCHANGED vars
  <2>1. frames' = frames /\ var' = var /\ cur' = cur /\ op' = op
    BY <1>5 DEF vars
  <2> QED
    BY <2>1, <1>1
<1>6. CASE \E statics \in BOOLEAN : Call(statics)
  <2>1. PICK statics \in BOOLEAN : Enter(statics) /\ var' = var /\ op' = Idle
    BY <1>6 DEF Call, Running
  <2> QED
    BY <2>1, EnterGraph, IdleAvoids
<1>7. CASE EndCall \/ ByNameMissing
  <2>1. Leave /\ op' = Idle /\ Len(frames') = Len(frames) - 1
    BY <1>1, <1>7, LeaveIsPop
  <2> QED
    BY <2>1, <1>2, LeaveGraph, IdleAvoids
<1>8. CASE EndUplevel \/ \E g \in DOMAIN frames : Uplevel(g)
  <2>1. frames' = frames /\ var' = var /\ op' = Idle
    BY <1>8 DEF EndUplevel, Uplevel, Running
  <2> QED
    BY <2>1, <1>1, IdleAvoids
<1>9. CASE \/ \E w \in Words : Get(w) \/ Unset(w)
           \/ \E w \in Words, v \in Vals : Set(w, v)
  <2>1. PICK kind, w, v : kind \in {"get", "set", "unset"} /\ Begin(kind, w, v)
    BY <1>9 DEF Get, Set, Unset
  <2>2. /\ frames' = frames /\ var' = var
        /\ op' = [Idle EXCEPT !.kind = kind, !.asked = w, !.word = w, !.origin = cur, !.val = v]
    BY <2>1 DEF Begin, scripts
  <2>3. op'.kind = kind
    BY <2>2 DEF Idle
  <2>4. op'.kind \notin {"probe", "bind"} /\ op'.kind \notin LinkKinds
    BY <2>1, <2>3 DEF LinkKinds
  <2> QED
    BY <2>2, <2>4, SameGraph
<1>10. CASE \E n, t \in Words : CallByName(n, t)
  <2>1. PICK n \in Words, t \in Words : CallByName(n, t)
    BY <1>10
  <2>2. /\ Enter(FALSE) /\ var' = var /\ ~IsGlobal[n]
        /\ op' = [Idle EXCEPT !.kind = "byname", !.asked = n, !.word = t, !.name = n,
                              !.origin = Len(frames) + 1, !.target = t, !.tframe = cur]
    BY <2>1 DEF CallByName
  <2>3. op'.kind = "byname" /\ op'.name = n
    BY <2>2 DEF Idle
  <2> QED
    BY <2>2, <2>3, EnterGraph, NotLinking
<1>11. CASE \E n \in LinkWords, t \in Words, tf \in DOMAIN frames : Upvar(n, t, tf)
  <2>1. PICK n \in LinkWords, t \in Words, tf \in DOMAIN frames : Upvar(n, t, tf)
    BY <1>11
  <2>2. /\ frames' = frames /\ var' = var
        /\ op' = [Idle EXCEPT !.kind = "upvar", !.asked = n, !.name = n, !.origin = cur,
                              !.target = t, !.tframe = tf]
    BY <2>1 DEF Upvar, scripts
  <2>3. op'.kind = "upvar" /\ op'.name = n
    BY <2>2 DEF Idle
  <2> QED
    BY <2>2, <2>3, SameGraph
<1>12. CASE Follow
  <2>1. /\ frames' = frames /\ var' = var /\ op.kind \in {"get", "set", "unset", "byname"}
        /\ op' = [op EXCEPT !.word = var[Found(op.word)].obj]
    BY <1>12 DEF Follow, Accessing
  <2>2. op'.kind = op.kind /\ op'.name = op.name
    BY <2>1, <1>3 DEF OpType
  <2> QED
    BY <2>1, <2>2, <1>1, SameGraph DEF Avoids
<1>13. CASE ByNameFound
  <2>1. /\ frames' = frames /\ var' = var /\ op.kind = "byname"
        /\ op' = [op EXCEPT !.kind = "argument"]
    BY <1>13 DEF ByNameFound, Reached, Accessing
  <2>2. op'.kind = "argument" /\ op'.name = op.name
    BY <2>1, <1>3 DEF OpType
  <2> QED
    BY <2>1, <2>2, <1>1, SameGraph DEF Avoids, LinkKinds
<1>14. CASE GetFound \/ UnsetStatic \/ Missing \/ ProbeCycle
  <2>1. frames' = frames /\ var' = var /\ op' = Idle
    BY <1>14 DEF GetFound, UnsetStatic, Missing, ProbeCycle, Finish
  <2> QED
    BY <2>1, <1>1, IdleAvoids
<1>15. CASE SetFound
  <2>1. op' = Idle
    BY <1>15 DEF SetFound, Finish
  <2> QED
    BY <2>1, <1>15, SetFoundGraph, IdleAvoids
<1>16. CASE UnsetFound
  <2>1. op' = Idle
    BY <1>16 DEF UnsetFound, Finish
  <2> QED
    BY <2>1, <1>2, <1>16, UnsetFoundGraph, IdleAvoids
<1>17. CASE SetMissing
  <2>1. op' = Idle
    BY <1>17 DEF SetMissing, Finish
  <2> QED
    BY <2>1, <1>2, <1>17, SetMissingGraph, IdleAvoids
<1>18. CASE Link
  BY <1>2, <1>18, LinkGraph
<1>19. CASE Probe
  BY <1>19, ProbeGraph
<1>20. CASE Bind
  <2>1. op' = Idle
    BY <1>20 DEF Bind, Finish
  <2> QED
    BY <2>1, <1>2, <1>20, BindGraph, IdleAvoids
<1> QED
  BY <1>5, <1>6, <1>7, <1>8, <1>9, <1>10, <1>11, <1>12, <1>13, <1>14, <1>15, <1>16, <1>17,
     <1>18, <1>19, <1>20 DEF Next, Continue

\* As long as no script makes a name written with a leading "::" a link, links never
\* form a cycle: each access that follows links comes to an end.  (With such a name
\* the search for cycles looks in the wrong frame, and there can be one.)
THEOREM LinksHaveNoCycle ==
    ASSUME \A n \in LinkWords : ~IsGlobal[n]
    PROVE  Spec => []NoLinkCycle
<1>1. CycleInv /\ [Next]_vars => CycleInv'
  BY NextCycle
<1>2. CycleInv => NoLinkCycle
  BY CycleBridge DEF CycleInv
<1> QED
  BY InitCycle, <1>1, <1>2, PTL DEF Spec
---------------------------------------------------------------------------
(* The end of an access *)

\* The links from the node h on, h included.
Onward(fr, va, S) ==
    \A n \in S : TargetIn(fr, va, n) \in LinksIn(fr, va) => TargetIn(fr, va, n) \in S
Holds(fr, va, h, S) == (h \in LinksIn(fr, va) => h \in S) /\ Onward(fr, va, S)
From(fr, va, h) ==
    {n \in LinksIn(fr, va) : \A S \in SUBSET LinksIn(fr, va) : Holds(fr, va, h, S) => n \in S}

\* The links that the operation in progress has still before it.
Ahead == IF op.word = Nil THEN {} ELSE From(frames, var, Node(op.word, cur))

\* The order of the phases of an operation.
Phases == {<<"byname", "argument">>, <<"argument", "probe">>, <<"argument", "bind">>,
           <<"upvar", "probe">>, <<"upvar", "bind">>, <<"probe", "bind">>}
\* A step of an operation ends it, takes it to a later phase, or leaves a link behind.
AccessShrinks ==
    \/ op' = Idle
    \/ <<op.kind, op'.kind>> \in Phases
    \/ op'.kind = op.kind /\ Ahead' \subseteq Ahead /\ Ahead' # Ahead

\* From a link on lie the link itself and what lies from its target on.
LEMMA FromLink ==
    ASSUME NEW fr, NEW va, NEW h \in LinksIn(fr, va)
    PROVE  /\ h \in From(fr, va, h)
           /\ From(fr, va, TargetIn(fr, va, h)) \subseteq From(fr, va, h)
           /\ From(fr, va, h) \subseteq {h} \cup From(fr, va, TargetIn(fr, va, h))
<1> DEFINE L == LinksIn(fr, va)
           t == TargetIn(fr, va, h)
<1>1. h \in From(fr, va, h)
  BY DEF From, Holds
<1>2. ASSUME NEW n \in From(fr, va, t)
      PROVE  n \in From(fr, va, h)
  <2>1. SUFFICES ASSUME NEW S \in SUBSET L, Holds(fr, va, h, S)
                 PROVE  n \in S
    BY <1>2 DEF From
  <2>2. Holds(fr, va, t, S)
    BY <2>1 DEF Holds, Onward
  <2> QED
    BY <2>2, <1>2 DEF From
<1>3. ASSUME NEW n \in From(fr, va, h), n # h
      PROVE  n \in From(fr, va, t)
  <2>1. SUFFICES ASSUME NEW S \in SUBSET L, Holds(fr, va, t, S)
                 PROVE  n \in S
    BY <1>3 DEF From
  <2>2. S \cup {h} \in SUBSET L /\ Holds(fr, va, h, S \cup {h})
    BY <2>1 DEF Holds, Onward
  <2>3. n \in S \cup {h}
    BY <2>2, <1>3 DEF From
  <2> QED
    BY <2>3, <1>3
<1> QED
  BY <1>1, <1>2, <1>3

\* Nothing lies from a node on that is not a link.
LEMMA FromNoLink ==
    ASSUME NEW fr, NEW va, NEW h, h \notin LinksIn(fr, va)
    PROVE  From(fr, va, h) = {}
<1>1. Holds(fr, va, h, {})
  BY DEF Holds, Onward
<1> QED
  BY <1>1 DEF From

\* Without a cycle, a link does not lie from its own target on: the links from which
\* it can be reached would lead only to each other.
LEMMA LinkIsLeft ==
    ASSUME NEW fr, NEW va, Acyclic(fr, va), NEW h \in LinksIn(fr, va)
    PROVE  h \notin From(fr, va, TargetIn(fr, va, h))
<1> DEFINE L == LinksIn(fr, va)
<1>1. SUFFICES ASSUME h \in From(fr, va, TargetIn(fr, va, h))
               PROVE  FALSE
  OBVIOUS
<1> DEFINE S == {x \in L : h \in From(fr, va, x)}
<1>2. h \in S
  BY FromLink
<1>3. ASSUME NEW x \in S
      PROVE  TargetIn(fr, va, x) \in S
  <2>1. x \in L /\ h \in From(fr, va, x)
    OBVIOUS
  <2>2. h \in From(fr, va, TargetIn(fr, va, x))
    BY <2>1, <1>1, FromLink
  <2>3. TargetIn(fr, va, x) \in L
    BY <2>2, FromNoLink
  <2> QED
    BY <2>2, <2>3
<1>4. S \in SUBSET L /\ S # {}
  BY <1>2
<1> HIDE DEF S
<1> QED
  BY <1>3, <1>4 DEF Acyclic

\* A step from a link to its target leaves the link behind.
LEMMA FromShrinks ==
    ASSUME NEW fr, NEW va, Acyclic(fr, va), NEW h \in LinksIn(fr, va)
    PROVE  /\ From(fr, va, TargetIn(fr, va, h)) \subseteq From(fr, va, h)
           /\ From(fr, va, TargetIn(fr, va, h)) # From(fr, va, h)
BY FromLink, LinkIsLeft

\* A word that is found to be a link is a node of the graph, and what it leads to is
\* the target of the node.
LEMMA WordNode ==
    ASSUME Inv, NEW w \in Words, Found(w) # Nil, IsLink(Found(w))
    PROVE  /\ Node(w, cur) \in LinksIn(frames, var)
           /\ TargetIn(frames, var, Node(w, cur)) = Node(var[Found(w)].obj, var[Found(w)].link)
           /\ var[Found(w)].obj \in Words
<1> DEFINE g == FrameOf(w, cur)
           x == Found(w)
<1>1. /\ g \in 1 .. Len(frames) /\ NameOf[w] \in Bases /\ NameOf[w] \in DOMAIN frames[g].vars
      /\ x = frames[g].vars[NameOf[w]] /\ var[x].link # 0 /\ var[x].obj \in Words
  BY FoundIs DEF IsLink
<1>2. DOMAIN frames = 1 .. Len(frames)
  BY InvGives
<1>3. Node(w, cur) = <<g, NameOf[w]>>
  BY DEF Node
<1> HIDE DEF g, x
<1>4. <<g, NameOf[w]>> \in LinksIn(frames, var)
  BY <1>1, <1>2 DEF LinksIn, Nodes
<1>5. TargetIn(frames, var, <<g, NameOf[w]>>) = Node(var[x].obj, var[x].link)
  BY <1>1 DEF TargetIn
<1> QED
  BY <1>1, <1>3, <1>4, <1>5 DEF x

\* A step that goes from a word which is a link to the word it stands for.
LEMMA StepShrinks ==
    ASSUME CycleInv, op.word \in Words, Found(op.word) # Nil, IsLink(Found(op.word)),
           op' = [op EXCEPT !.word = var[Found(op.word)].obj],
           cur' = var[Found(op.word)].link, UNCHANGED <<frames, var>>
    PROVE  op'.kind = op.kind /\ Ahead' \subseteq Ahead /\ Ahead' # Ahead
<1> DEFINE h == Node(op.word, cur)
<1>1. Inv /\ Acyclic(frames, var) /\ op \in OpType
  BY InvGives DEF CycleInv
<1>2. /\ h \in LinksIn(frames, var) /\ var[Found(op.word)].obj \in Words
      /\ TargetIn(frames, var, h) = Node(var[Found(op.word)].obj, var[Found(op.word)].link)
  BY <1>1, WordNode
<1>3. op'.kind = op.kind /\ op'.word = var[Found(op.word)].obj
  BY <1>1 DEF OpType
<1>4. Nil \notin Words
  BY SortAssumption
<1>5. Ahead = From(frames, var, h)
  BY <1>4 DEF Ahead
<1>6. op'.word # Nil /\ Node(op'.word, cur') = TargetIn(frames, var, h)
  BY <1>2, <1>3, <1>4
<1>7. Ahead' = From(frames, var, TargetIn(frames, var, h))
  BY <1>6 DEF Ahead
<1> HIDE DEF h
<1> QED
  BY <1>1, <1>2, <1>3, <1>5, <1>7, FromShrinks

\* After the check of its ends, a link is looked for a cycle or bound.
LEMMA LinkPhase ==
    ASSUME Inv, Link
    PROVE  op.kind \in {"upvar", "argument"} /\ (op' = Idle \/ op'.kind \in {"probe", "bind"})
<1> DEFINE n == op.name
           t == op.target
           x == Found(n)
           g == FrameOf(n, cur)
           target == IF IsGlobal[t] THEN 1 ELSE op.tframe
           was == IF x = Nil THEN 0 ELSE var[x].link
<1>1. op.kind \in {"upvar", "argument"}
  BY DEF Link, Accessing
<1>2. CASE x # Nil /\ ~IsLink(x)
  BY <1>1, <1>2 DEF Link, Finish
<1>3. CASE ~(x # Nil /\ ~IsLink(x))
  <2>1. IF TooHigh(g, target)
        THEN cache' = Remembered(n) /\ Finish(Fail)
        ELSE \E s \in Words :
             /\ IF IsGlobal[t] THEN ~IsGlobal[s] /\ NameOf[s] = NameOf[t] /\ s # n ELSE s = t
             /\ cache' = IF IsGlobal[t] THEN [Remembered(n) EXCEPT ![s] = NoCache]
                         ELSE Remembered(n)
             /\ op' = [op EXCEPT !.kind = IF g = target THEN "probe" ELSE "bind",
                                 !.word = s, !.target = s, !.tframe = target, !.was = was]
             /\ UNCHANGED <<cur, result>>
    BY <1>3 DEF Link
  <2>2. CASE TooHigh(g, target)
    BY <1>1, <2>1, <2>2 DEF Finish
  <2>3. CASE ~TooHigh(g, target)
    <3>1. PICK s \in Words :
             op' = [op EXCEPT !.kind = IF g = target THEN "probe" ELSE "bind",
                              !.word = s, !.target = s, !.tframe = target, !.was = was]
      BY <2>1, <2>3
    <3> HIDE DEF target, was, g
    <3>2. op'.kind \in {"probe", "bind"}
      <4>1. op \in OpType
        BY InvGives
      <4> QED
        BY <3>1, <4>1 DEF OpType
    <3> QED
      BY <1>1, <3>2
  <2> QED
    BY <2>2, <2>3
<1> QED
  BY <1>2, <1>3

\* Every step of an operation ends it, takes it to a later phase, or leaves a link
\* behind.
LEMMA ContinueShrinks ==
    ASSUME CycleInv, Continue
    PROVE  AccessShrinks
<1>1. Inv /\ Acyclic(frames, var) /\ Avoids(frames, var, cur, op) /\ op \in OpType
  BY InvGives DEF CycleInv
<1>2. CASE \/ GetFound \/ SetFound \/ UnsetFound \/ UnsetStatic \/ SetMissing \/ Missing
           \/ ByNameMissing \/ ProbeCycle \/ Bind
  <2>1. op' = Idle
    BY <1>2 DEF GetFound, SetFound, UnsetFound, UnsetStatic, SetMissing, Missing,
                ByNameMissing, ProbeCycle, Bind, Finish
  <2> QED
    BY <2>1 DEF AccessShrinks
<1>3. CASE ByNameFound
  <2>1. op.kind = "byname" /\ op' = [op EXCEPT !.kind = "argument"]
    BY <1>3 DEF ByNameFound, Reached, Accessing
  <2>2. op'.kind = "argument"
    BY <1>1, <2>1 DEF OpType
  <2> QED
    BY <2>1, <2>2 DEF AccessShrinks, Phases
<1>4. CASE Link
  <2>1. op.kind \in {"upvar", "argument"} /\ (op' = Idle \/ op'.kind \in {"probe", "bind"})
    BY <1>1, <1>4, LinkPhase
  <2>2. op'.kind \in {"probe", "bind"} => <<op.kind, op'.kind>> \in Phases
    BY <2>1 DEF Phases
  <2> QED
    BY <2>1, <2>2, Zenon DEF AccessShrinks
<1>5. CASE Follow
  <2>1. op.kind \in WordKinds
    BY <1>5 DEF Follow, Accessing, WordKinds
  <2>2. op.word \in Words
    BY <1>1, <2>1, WordOf
  <2>3. /\ Found(op.word) # Nil /\ IsLink(Found(op.word)) /\ UNCHANGED <<frames, var>>
        /\ op' = [op EXCEPT !.word = var[Found(op.word)].obj]
        /\ cur' = var[Found(op.word)].link
    BY <1>5 DEF Follow
  <2>4. op'.kind = op.kind /\ Ahead' \subseteq Ahead /\ Ahead' # Ahead
    BY <2>2, <2>3, StepShrinks
  <2> QED
    BY <2>4 DEF AccessShrinks
<1>6. CASE Probe
  <2>1. op.kind = "probe"
    BY <1>6 DEF Probe, Accessing
  <2>2. op.word \in Words
    BY <1>1, <2>1, WordOf DEF WordKinds
  <2>3. op.tframe = cur /\ cur # 0
    BY <1>1, <2>1, InvGives DEF Avoids
  <2>4. CASE LeadsOn(op.word)
    <3>1. /\ op' = [op EXCEPT !.word = var[Found(op.word)].obj]
          /\ UNCHANGED <<frames, var, cur>>
      BY <1>6, <2>4 DEF Probe, scripts
    <3>2. /\ Found(op.word) # Nil /\ IsLink(Found(op.word))
          /\ cur' = var[Found(op.word)].link
      BY <2>3, <2>4, <3>1 DEF LeadsOn, IsLink
    <3>3. op'.kind = op.kind /\ Ahead' \subseteq Ahead /\ Ahead' # Ahead
      BY <2>2, <3>1, <3>2, StepShrinks
    <3> QED
      BY <3>3 DEF AccessShrinks
  <2>5. CASE ~LeadsOn(op.word)
    <3>1. op' = [op EXCEPT !.kind = "bind"]
      BY <1>6, <2>5 DEF Probe
    <3>2. op'.kind = "bind"
      BY <1>1, <3>1 DEF OpType
    <3> QED
      BY <2>1, <3>2 DEF AccessShrinks, Phases
  <2> QED
    BY <2>4, <2>5
<1> QED
  BY <1>2, <1>3, <1>4, <1>5, <1>6 DEF Continue

\* With finitely many words there are finitely many links.
LEMMA FewAhead ==
    ASSUME IsFiniteSet(Words), Inv
    PROVE  IsFiniteSet(Ahead)
<1>1. IsFiniteSet(Bases)
  <2> DEFINE f == [w \in Words |-> NameOf[w]]
  <2>1. f \in Surjection(Words, Bases)
    BY DEF Surjection, Bases
  <2> QED
    BY <2>1, FS_Surjection
<1>2. DOMAIN frames = 1 .. Len(frames) /\ Len(frames) \in Nat
  BY InvGives
<1>3. IsFiniteSet(1 .. Len(frames))
  BY <1>2, FS_Interval
<1>4. IsFiniteSet((1 .. Len(frames)) \X Bases)
  BY <1>1, <1>3, FS_Product
<1>5. Ahead \in SUBSET ((1 .. Len(frames)) \X Bases)
  BY <1>2 DEF Ahead, From, LinksIn, Nodes
<1> QED
  BY <1>4, <1>5, FS_Subset

\* Every read, write, unset and link comes to an end as long as it goes on (the safety
\* half of AccessEnds): each of its steps ends it, takes it to a later one of at most
\* four phases, or leaves behind one of the finitely many links it has before it, which
\* it does not meet again.  No link is cut or made while an operation follows links.
THEOREM AccessesShrink ==
    ASSUME \A n \in LinkWords : ~IsGlobal[n], IsFiniteSet(Words)
    PROVE  Spec => [](IsFiniteSet(Ahead)) /\ [][Continue => AccessShrinks]_vars
<1>1. CycleInv /\ [Next]_vars => CycleInv'
  BY NextCycle
<1>2. CycleInv => IsFiniteSet(Ahead)
  BY FewAhead DEF CycleInv
<1>3. CycleInv => (Continue => AccessShrinks)
  BY ContinueShrinks
<1> QED
  BY InitCycle, <1>1, <1>2, <1>3, PTL DEF Spec
=============================================================================
