-------------------------- MODULE JimScopes_proofs --------------------------
(***************************************************************************)
(* JimVariables implements JimScopes: each step of an operation is a step  *)
(* that JimScopes allows, or changes nothing that a script can see.        *)
(*                                                                         *)
(* The operators of JimScopes are repeated here for the scopes sc, so that *)
(* a fact about the next state is the same fact about other arguments.     *)
(***************************************************************************)
EXTENDS JimVariables_proofs

NodesOf(sc) == (DOMAIN sc) \X Bases
Tabled(sc, n) == n[2] \in DOMAIN sc[n[1]].vars
Entered(sc, n) == sc[n[1]].vars[n[2]]
StaticIn(sc, n) == ~Tabled(sc, n) /\ sc[n[1]].hasStatics /\ n[2] \in DOMAIN Statics
Linked(sc, n) == Tabled(sc, n) /\ Entered(sc, n).link # 0
LinkEnd(sc, n) == <<Entered(sc, n).link, Entered(sc, n).obj>>
ChainOf(sc, n) ==
    {m \in NodesOf(sc) : \A S \in SUBSET NodesOf(sc) :
        n \in S /\ (\A x \in S : Linked(sc, x) => LinkEnd(sc, x) \in S) => m \in S}
Put(sc, n, contents) ==
    [sc EXCEPT ![n[1]].vars =
        [b \in DOMAIN sc[n[1]].vars \cup {n[2]} |-> IF b = n[2] THEN contents ELSE sc[n[1]].vars[b]]]
Taken(sc, n) ==
    [sc EXCEPT ![n[1]].vars = [b \in DOMAIN sc[n[1]].vars \ {n[2]} |-> sc[n[1]].vars[b]]]

\* The frame a script is in, whatever frame its operation has come to.
Current == IF op = Idle THEN cur ELSE op.origin

\* A call made by a procedure that was not in an [uplevel] is made in the last
\* frame, and so is an [uplevel]; the frame of a procedure is the last one.
Returns(fr, s, c) ==
    /\ Ends(s, "call") => c = Len(fr)
    /\ \A i \in 2 .. Len(s) : s[i - 1].kind = "call" =>
          /\ s[i].kind = "uplevel" => s[i].saved = 1 + CallsIn(s, i)
          /\ s[i].kind = "call" => fr[1 + CallsIn(s, i)].parent = CallsIn(s, i)

\* What an operation has been asked for.  A name that is being linked is none, or
\* was a link, which has been cut.
Cut(fr, va, o) ==
    IF o.was = 0 THEN NameOf[o.name] \notin DOMAIN fr[o.origin].vars
    ELSE /\ NameOf[o.name] \in DOMAIN fr[o.origin].vars
         /\ va[fr[o.origin].vars[NameOf[o.name]]].link = 0
         /\ va[fr[o.origin].vars[NameOf[o.name]]].obj \in Words
Asks(fr, va, o) ==
    /\ o.kind = "idle" => o = Idle
    /\ o.kind # "idle" => o.asked \in Words
    /\ o.kind \in LinkKinds => o.asked = o.name
    /\ o.kind \notin {"probe", "bind"} => o.was = 0
    /\ o.kind \in {"probe", "bind"} =>
          fr[o.origin].level >= fr[o.tframe].level /\ Cut(fr, va, o)

\* The name an operation has come to is reached from the one it was asked for.
Answers(sc, c, o) ==
    /\ o.kind \in {"get", "set", "unset"} => Node(o.word, c) \in ChainOf(sc, Node(o.asked, o.origin))
    /\ o.kind \in {"byname", "probe"} => Node(o.word, c) \in ChainOf(sc, Node(o.target, o.tframe))

\* The inductive invariant of the refinement; RefRest is what it adds to CycleInv.
RefInv ==
    /\ CycleInv
    /\ Returns(frames, stack, Current)
    /\ Asks(frames, var, op)
    /\ Answers(Scopes, cur, op)
RefRest ==
    /\ Returns(frames, stack, Current)
    /\ Asks(frames, var, op)
    /\ Answers(Scopes, cur, op)
---------------------------------------------------------------------------
(* The operators of JimScopes *)

StaticValues == [b \in DOMAIN Statics |-> Spelt(var[Statics[b]].obj)]

\* They are those above, for the scopes that JimVariables has.
LEMMA PromiseIs ==
    /\ Promise!Nodes = NodesOf(Scopes)
    /\ \A n : Promise!InTable(n) <=> Tabled(Scopes, n)
    /\ \A n : Promise!IsStatic(n) <=> StaticIn(Scopes, n)
    /\ \A n : Promise!Exists(n) <=> Tabled(Scopes, n) \/ StaticIn(Scopes, n)
    /\ \A n : Tabled(Scopes, n) => Promise!Contents(n) = Entered(Scopes, n)
    /\ \A n : ~Tabled(Scopes, n) => Promise!Contents(n).obj = StaticValues[n[2]]
    /\ \A n : Promise!IsLink(n) <=> Linked(Scopes, n)
    /\ \A n : Promise!Chain(n) = ChainOf(Scopes, n)
    /\ \A n, c : Promise!With(n, c) = Put(Scopes, n, c)
    /\ \A n : Promise!Without(n) = Taken(Scopes, n)
<1>1. Promise!Nodes = NodesOf(Scopes)
  BY DEF Promise!Nodes, NodesOf
<1>2. /\ \A n : Promise!InTable(n) <=> Tabled(Scopes, n)
      /\ \A n : Promise!IsStatic(n) <=> StaticIn(Scopes, n)
      /\ \A n : Promise!Exists(n) <=> Tabled(Scopes, n) \/ StaticIn(Scopes, n)
  BY Zenon DEF Promise!InTable, Promise!IsStatic, Promise!Exists, Tabled, StaticIn
<1>3. /\ \A n : Tabled(Scopes, n) => Promise!Contents(n) = Entered(Scopes, n)
      /\ \A n : ~Tabled(Scopes, n) => Promise!Contents(n).obj = StaticValues[n[2]]
  BY DEF Promise!InTable, Promise!Contents, Promise!Plain, Tabled, Entered, StaticValues
<1>4. \A n : Promise!IsLink(n) <=> Linked(Scopes, n)
  BY <1>2, <1>3 DEF Promise!IsLink, Linked
<1>5. \A n : Linked(Scopes, n) => Promise!Target(n) = LinkEnd(Scopes, n)
  BY <1>3 DEF Promise!Target, LinkEnd, Linked
<1>6. \A n : Promise!Chain(n) = ChainOf(Scopes, n)
  BY <1>1, <1>4, <1>5 DEF Promise!Chain, ChainOf
<1>7. /\ \A n, c : Promise!With(n, c) = Put(Scopes, n, c)
      /\ \A n : Promise!Without(n) = Taken(Scopes, n)
  BY Zenon DEF Promise!With, Promise!Without, Put, Taken
<1> QED
  BY <1>1, <1>2, <1>3, <1>4, <1>6, <1>7
---------------------------------------------------------------------------
(* Scopes *)

\* What a script sees of frames fr and structures va during the operation o.
SeenIn(fr, va, o, f, b) ==
    [obj |-> Spelt(va[fr[f].vars[b]].obj),
     link |-> IF o.was # 0 /\ <<f, b>> = Node(o.name, o.origin) THEN o.was
              ELSE va[fr[f].vars[b]].link]
ScopeIn(fr, va, o, f) ==
    [parent |-> fr[f].parent, level |-> fr[f].level, hasStatics |-> fr[f].hasStatics,
     vars |-> [b \in DOMAIN fr[f].vars |-> SeenIn(fr, va, o, f, b)]]
ScopesIn(fr, va, o) == [f \in DOMAIN fr |-> ScopeIn(fr, va, o, f)]

\* The scopes are what is seen in the frames, in this state and in the next one.
LEMMA ScopesIs ==
    /\ Scopes = ScopesIn(frames, var, op)
    /\ Scopes' = ScopesIn(frames', var', op')
<1>1. \A f, b : Seen(f, b) = SeenIn(frames, var, op, f, b)
  BY DEF Seen, SeenIn, Relinking
<1>2. Scopes = ScopesIn(frames, var, op)
  BY <1>1 DEF Scopes, ScopesIn, ScopeIn
<1>3. \A f, b : Seen(f, b)' = SeenIn(frames', var', op', f, b)
  BY DEF Seen, SeenIn, Relinking
<1>4. Scopes' = ScopesIn(frames', var', op')
  BY <1>3 DEF Scopes, ScopesIn, ScopeIn
<1> QED
  BY <1>2, <1>4

\* The fields of a scope.
LEMMA ScopesAre ==
    ASSUME NEW fr \in Seq(FrameType), NEW va, NEW o
    PROVE  LET sc == ScopesIn(fr, va, o)
           IN  /\ DOMAIN sc = 1 .. Len(fr) /\ Len(sc) = Len(fr) /\ Len(fr) \in Nat
               /\ sc \in Seq({ScopeIn(fr, va, o, f) : f \in 1 .. Len(fr)})
               /\ \A f \in 1 .. Len(fr) :
                     /\ sc[f] = ScopeIn(fr, va, o, f)
                     /\ sc[f].parent = fr[f].parent /\ sc[f].level = fr[f].level
                     /\ sc[f].hasStatics = fr[f].hasStatics
                     /\ DOMAIN sc[f].vars = DOMAIN fr[f].vars
                     /\ \A b \in DOMAIN fr[f].vars : sc[f].vars[b] = SeenIn(fr, va, o, f, b)
<1> DEFINE sc == ScopesIn(fr, va, o)
           S == {ScopeIn(fr, va, o, f) : f \in 1 .. Len(fr)}
<1>1. Len(fr) \in Nat /\ DOMAIN fr = 1 .. Len(fr)
  BY FramesAre
<1>2. DOMAIN sc = 1 .. Len(fr) /\ \A f \in 1 .. Len(fr) : sc[f] = ScopeIn(fr, va, o, f)
  BY <1>1 DEF ScopesIn
<1>3. sc \in [1 .. Len(fr) -> S]
  BY <1>1 DEF ScopesIn
<1> HIDE DEF sc, S
<1>4. sc \in Seq(S) /\ Len(sc) = Len(fr)
  BY <1>1, <1>3, FunctionIsSeq
<1>5. ASSUME NEW f \in 1 .. Len(fr)
      PROVE  /\ sc[f].parent = fr[f].parent /\ sc[f].level = fr[f].level
             /\ sc[f].hasStatics = fr[f].hasStatics
             /\ DOMAIN sc[f].vars = DOMAIN fr[f].vars
             /\ \A b \in DOMAIN fr[f].vars : sc[f].vars[b] = SeenIn(fr, va, o, f, b)
  BY <1>2 DEF ScopeIn
<1> QED
  BY <1>1, <1>2, <1>4, <1>5 DEF sc, S

\* The scope of a frame.
LEMMA ScopeAt ==
    ASSUME NEW fr \in Seq(FrameType), NEW va, NEW o
    PROVE  /\ DOMAIN ScopesIn(fr, va, o) = 1 .. Len(fr)
           /\ \A f \in 1 .. Len(fr) : ScopesIn(fr, va, o)[f] = ScopeIn(fr, va, o, f)
BY FramesAre DEF ScopesIn

\* Two lists of frames that differ in their tables and ids only.
SameShape(fr, gr) ==
    /\ Len(gr) = Len(fr)
    /\ \A f \in 1 .. Len(fr) : /\ gr[f].parent = fr[f].parent /\ gr[f].level = fr[f].level
                               /\ gr[f].hasStatics = fr[f].hasStatics

\* Scopes are equal if the frames and what is seen in them are.
LEMMA ScopesSame ==
    ASSUME NEW fr \in Seq(FrameType), NEW gr \in Seq(FrameType), SameShape(fr, gr),
           NEW va, NEW vb, NEW o, NEW p,
           \A f \in 1 .. Len(fr) : DOMAIN gr[f].vars = DOMAIN fr[f].vars,
           \A f \in 1 .. Len(fr) : \A b \in DOMAIN fr[f].vars :
              SeenIn(gr, vb, p, f, b) = SeenIn(fr, va, o, f, b)
    PROVE  ScopesIn(gr, vb, p) = ScopesIn(fr, va, o)
<1>1. DOMAIN fr = 1 .. Len(fr) /\ DOMAIN gr = 1 .. Len(fr)
  BY FramesAre DEF SameShape
<1>2. ASSUME NEW f \in 1 .. Len(fr)
      PROVE  ScopeIn(gr, vb, p, f) = ScopeIn(fr, va, o, f)
  <2>1. [b \in DOMAIN gr[f].vars |-> SeenIn(gr, vb, p, f, b)]
          = [b \in DOMAIN fr[f].vars |-> SeenIn(fr, va, o, f, b)]
    OBVIOUS
  <2> QED
    BY <2>1 DEF ScopeIn, SameShape
<1> QED
  BY <1>1, <1>2 DEF ScopesIn

\* Frames that look the same but for frame g.
SameElsewhere(fr, gr, va, vb, o, p, g) ==
    \A f \in 1 .. Len(fr) : f # g =>
        /\ DOMAIN gr[f].vars = DOMAIN fr[f].vars
        /\ \A b \in DOMAIN fr[f].vars : SeenIn(gr, vb, p, f, b) = SeenIn(fr, va, o, f, b)

\* The variables seen in a frame, and scopes with others in their place.
TableIn(fr, va, o, f) == [b \in DOMAIN fr[f].vars |-> SeenIn(fr, va, o, f, b)]
Revised(sc, g, v) == [sc EXCEPT ![g].vars = v]

\* If only frame g looks different, only its variables are replaced.
LEMMA OneScope ==
    ASSUME NEW fr \in Seq(FrameType), NEW gr \in Seq(FrameType), SameShape(fr, gr),
           NEW va, NEW vb, NEW o, NEW p, NEW g \in 1 .. Len(fr), SameElsewhere(fr, gr, va, vb, o, p, g)
    PROVE  ScopesIn(gr, vb, p) = Revised(ScopesIn(fr, va, o), g, TableIn(gr, vb, p, g))
<1> DEFINE sc == ScopesIn(fr, va, o)
           sd == ScopesIn(gr, vb, p)
           v == TableIn(gr, vb, p, g)
<1>1. Len(gr) = Len(fr)
  BY DEF SameShape
<1>2. DOMAIN sc = 1 .. Len(fr) /\ \A f \in 1 .. Len(fr) : sc[f] = ScopeIn(fr, va, o, f)
  BY ScopeAt
<1>3. DOMAIN sd = 1 .. Len(fr) /\ \A f \in 1 .. Len(fr) : sd[f] = ScopeIn(gr, vb, p, f)
  <2>1. DOMAIN sd = 1 .. Len(gr) /\ \A f \in 1 .. Len(gr) : sd[f] = ScopeIn(gr, vb, p, f)
    BY ScopeAt
  <2> QED
    BY <1>1, <2>1
<1>4. sc = [f \in 1 .. Len(fr) |-> sc[f]] /\ sd = [f \in 1 .. Len(fr) |-> sd[f]]
  BY <1>2, <1>3 DEF ScopesIn
<1> HIDE DEF sc, sd
<1>5. ASSUME NEW f \in 1 .. Len(fr), f # g
      PROVE  sd[f] = sc[f]
  <2>1. [b \in DOMAIN gr[f].vars |-> SeenIn(gr, vb, p, f, b)]
          = [b \in DOMAIN fr[f].vars |-> SeenIn(fr, va, o, f, b)]
    BY <1>5 DEF SameElsewhere
  <2>2. sd[f] = ScopeIn(gr, vb, p, f) /\ sc[f] = ScopeIn(fr, va, o, f)
    BY <1>2, <1>3
  <2>3. /\ gr[f].parent = fr[f].parent /\ gr[f].level = fr[f].level
        /\ gr[f].hasStatics = fr[f].hasStatics
    BY DEF SameShape
  <2> QED
    BY <2>1, <2>2, <2>3 DEF ScopeIn
<1>6. sd[g] = [sc[g] EXCEPT !.vars = v]
  <2>1. sd[g] = ScopeIn(gr, vb, p, g) /\ sc[g] = ScopeIn(fr, va, o, g)
    BY <1>2, <1>3
  <2>2. /\ gr[g].parent = fr[g].parent /\ gr[g].level = fr[g].level
        /\ gr[g].hasStatics = fr[g].hasStatics
    BY DEF SameShape
  <2>3. sd[g] = [parent |-> fr[g].parent, level |-> fr[g].level, hasStatics |-> fr[g].hasStatics,
                 vars |-> v]
    BY <2>1, <2>2 DEF ScopeIn, TableIn
  <2>4. sc[g] = [parent |-> fr[g].parent, level |-> fr[g].level, hasStatics |-> fr[g].hasStatics,
                 vars |-> [b \in DOMAIN fr[g].vars |-> SeenIn(fr, va, o, g, b)]]
    BY <2>1 DEF ScopeIn
  <2> HIDE DEF v
  <2> QED
    BY <2>3, <2>4
<1> HIDE DEF v
<1>7. sd = [sc EXCEPT ![g] = [sc[g] EXCEPT !.vars = v]]
  BY <1>2, <1>4, <1>5, <1>6
<1> QED
  BY <1>7 DEF sc, sd, v, Revised

\* A variable that is put in a frame, or overwritten there.
LEMMA PutIs ==
    ASSUME NEW fr \in Seq(FrameType), NEW gr \in Seq(FrameType), SameShape(fr, gr),
           NEW va, NEW vb, NEW o, NEW p, NEW g \in 1 .. Len(fr), NEW a, NEW c,
           \A f \in 1 .. Len(fr) : f # g => DOMAIN gr[f].vars = DOMAIN fr[f].vars,
           DOMAIN gr[g].vars = DOMAIN fr[g].vars \cup {a},
           SeenIn(gr, vb, p, g, a) = c,
           \A f \in 1 .. Len(fr) : \A b \in DOMAIN fr[f].vars :
              ~(f = g /\ b = a) => SeenIn(gr, vb, p, f, b) = SeenIn(fr, va, o, f, b)
    PROVE  ScopesIn(gr, vb, p) = Put(ScopesIn(fr, va, o), <<g, a>>, c)
<1> DEFINE sc == ScopesIn(fr, va, o)
           v == TableIn(gr, vb, p, g)
           u == [b \in DOMAIN sc[g].vars \cup {a} |-> IF b = a THEN c ELSE sc[g].vars[b]]
<1>0. SameElsewhere(fr, gr, va, vb, o, p, g)
  BY DEF SameElsewhere
<1>1. ScopesIn(gr, vb, p) = Revised(sc, g, v)
  BY <1>0, OneScope
<1>2. DOMAIN sc[g].vars = DOMAIN fr[g].vars
      /\ \A b \in DOMAIN fr[g].vars : sc[g].vars[b] = SeenIn(fr, va, o, g, b)
  <2>1. sc[g] = ScopeIn(fr, va, o, g)
    BY ScopeAt
  <2> QED
    BY <2>1 DEF ScopeIn
<1>3. v = u
  <2> HIDE DEF sc
  <2>1. \A b \in DOMAIN gr[g].vars :
            SeenIn(gr, vb, p, g, b) = IF b = a THEN c ELSE sc[g].vars[b]
    BY <1>2
  <2> QED
    BY <1>2, <2>1 DEF TableIn
<1>4. Put(sc, <<g, a>>, c) = Revised(sc, g, u)
  BY DEF Put, Revised
<1> HIDE DEF u, v, sc
<1> QED
  BY <1>1, <1>3, <1>4 DEF sc

\* A variable that is taken from a frame.
LEMMA TakenIs ==
    ASSUME NEW fr \in Seq(FrameType), NEW gr \in Seq(FrameType), SameShape(fr, gr),
           NEW va, NEW vb, NEW o, NEW p, NEW g \in 1 .. Len(fr), NEW a,
           \A f \in 1 .. Len(fr) : f # g => DOMAIN gr[f].vars = DOMAIN fr[f].vars,
           DOMAIN gr[g].vars = DOMAIN fr[g].vars \ {a},
           \A f \in 1 .. Len(fr) : \A b \in DOMAIN fr[f].vars :
              ~(f = g /\ b = a) => SeenIn(gr, vb, p, f, b) = SeenIn(fr, va, o, f, b)
    PROVE  ScopesIn(gr, vb, p) = Taken(ScopesIn(fr, va, o), <<g, a>>)
<1> DEFINE sc == ScopesIn(fr, va, o)
           v == TableIn(gr, vb, p, g)
           u == [b \in DOMAIN sc[g].vars \ {a} |-> sc[g].vars[b]]
<1>0. SameElsewhere(fr, gr, va, vb, o, p, g)
  BY DEF SameElsewhere
<1>1. ScopesIn(gr, vb, p) = Revised(sc, g, v)
  BY <1>0, OneScope
<1>2. DOMAIN sc[g].vars = DOMAIN fr[g].vars
      /\ \A b \in DOMAIN fr[g].vars : sc[g].vars[b] = SeenIn(fr, va, o, g, b)
  <2>1. sc[g] = ScopeIn(fr, va, o, g)
    BY ScopeAt
  <2> QED
    BY <2>1 DEF ScopeIn
<1>3. v = u
  <2> HIDE DEF sc
  <2>1. \A b \in DOMAIN gr[g].vars : SeenIn(gr, vb, p, g, b) = sc[g].vars[b]
    BY <1>2
  <2> QED
    BY <1>2, <2>1 DEF TableIn
<1>4. Taken(sc, <<g, a>>) = Revised(sc, g, u)
  BY DEF Taken, Revised
<1> HIDE DEF u, v, sc
<1> QED
  BY <1>1, <1>3, <1>4 DEF sc

\* A frame that has not changed, and in which nothing looks different.
LEMMA ScopeSame ==
    ASSUME NEW fr, NEW gr, NEW va, NEW vb, NEW o, NEW p, NEW f, gr[f] = fr[f],
           \A b \in DOMAIN fr[f].vars : SeenIn(gr, vb, p, f, b) = SeenIn(fr, va, o, f, b)
    PROVE  ScopeIn(gr, vb, p, f) = ScopeIn(fr, va, o, f)
<1>1. [b \in DOMAIN gr[f].vars |-> SeenIn(gr, vb, p, f, b)]
        = [b \in DOMAIN fr[f].vars |-> SeenIn(fr, va, o, f, b)]
  OBVIOUS
<1> QED
  BY <1>1 DEF ScopeIn

\* One frame more.
LEMMA ScopesGrow ==
    ASSUME NEW fr \in Seq(FrameType), NEW gr \in Seq(FrameType), NEW va, NEW vb, NEW o, NEW p,
           Len(gr) = Len(fr) + 1,
           \A f \in 1 .. Len(fr) : ScopeIn(gr, vb, p, f) = ScopeIn(fr, va, o, f)
    PROVE  ScopesIn(gr, vb, p) = Append(ScopesIn(fr, va, o), ScopeIn(gr, vb, p, Len(fr) + 1))
<1> DEFINE S == {ScopeIn(gr, vb, p, f) : f \in 1 .. Len(gr)}
           n == Len(fr)
           sc == ScopesIn(fr, va, o)
           sd == ScopesIn(gr, vb, p)
           e == ScopeIn(gr, vb, p, n + 1)
<1>1. n \in Nat /\ Len(gr) = n + 1
  BY FramesAre
<1>2. DOMAIN sc = 1 .. n /\ \A f \in 1 .. n : sc[f] = ScopeIn(fr, va, o, f)
  BY ScopeAt
<1>3. DOMAIN sd = 1 .. n + 1 /\ \A f \in 1 .. n + 1 : sd[f] = ScopeIn(gr, vb, p, f)
  <2>1. DOMAIN sd = 1 .. Len(gr) /\ \A f \in 1 .. Len(gr) : sd[f] = ScopeIn(gr, vb, p, f)
    BY ScopeAt
  <2> QED
    BY <1>1, <2>1
<1>4. sc = [f \in 1 .. n |-> sc[f]] /\ sd = [f \in 1 .. n + 1 |-> sd[f]]
  BY <1>2, <1>3 DEF ScopesIn
<1> HIDE DEF sc, sd
<1>5. (\A f \in 1 .. n + 1 : sd[f] \in S) /\ \A f \in 1 .. n : sc[f] = sd[f] /\ sc[f] \in S
  <2>1. \A f \in 1 .. n : sc[f] = ScopeIn(gr, vb, p, f) /\ f \in 1 .. n + 1
    BY <1>1, <1>2
  <2> QED
    BY <1>1, <1>3, <2>1
<1>6. e \in S /\ sd[n + 1] = e
  <2>1. n + 1 \in 1 .. n + 1
    BY <1>1
  <2> QED
    BY <1>3, <1>5, <2>1
<1> HIDE DEF S, e, n
<1>7. sc \in Seq(S) /\ Len(sc) = n /\ sd \in Seq(S) /\ Len(sd) = n + 1
  <2>1. sc \in [1 .. n -> S]
    BY <1>4, <1>5
  <2>2. sd \in [1 .. n + 1 -> S]
    BY <1>4, <1>5
  <2>3. n + 1 \in Nat
    BY <1>1
  <2> QED
    BY <1>1, <2>1, <2>2, <2>3, FunctionIsSeq
<1>8. /\ Append(sc, e) \in Seq(S) /\ Len(Append(sc, e)) = n + 1
      /\ \A f \in 1 .. n : Append(sc, e)[f] = sc[f]
      /\ Append(sc, e)[n + 1] = e
  BY <1>1, <1>6, <1>7, AppendLast, AppendAt
<1>9. \A f \in 1 .. Len(sd) : sd[f] = Append(sc, e)[f]
  <2>1. SUFFICES ASSUME NEW f \in 1 .. n + 1 PROVE sd[f] = Append(sc, e)[f]
    BY <1>7
  <2>2. CASE f \in 1 .. n
    BY <2>2, <1>5, <1>8
  <2>3. CASE f = n + 1
    BY <2>3, <1>6, <1>8
  <2>4. f \in 1 .. n \/ f = n + 1
    BY <1>1, SMTT(20)
  <2> QED
    BY <2>2, <2>3, <2>4
<1>10. sd = Append(sc, e)
  BY <1>7, <1>8, <1>9, SeqEqual
<1> QED
  BY <1>10 DEF sc, sd, e, n

\* One frame less.
LEMMA ScopesShrink ==
    ASSUME NEW fr \in Seq(FrameType), NEW gr \in Seq(FrameType), NEW va, NEW vb, NEW o, NEW p,
           Len(fr) = Len(gr) + 1,
           \A f \in 1 .. Len(gr) : ScopeIn(gr, vb, p, f) = ScopeIn(fr, va, o, f)
    PROVE  ScopesIn(gr, vb, p) = SubSeq(ScopesIn(fr, va, o), 1, Len(ScopesIn(fr, va, o)) - 1)
<1> DEFINE S == {ScopeIn(fr, va, o, f) : f \in 1 .. Len(fr)}
           n == Len(gr)
           sc == ScopesIn(fr, va, o)
           sd == ScopesIn(gr, vb, p)
<1>1. n \in Nat /\ Len(fr) = n + 1 /\ n + 1 \in Nat
  BY FramesAre
<1>2. \A f \in 1 .. n : ScopeIn(fr, va, o, f) = ScopeIn(gr, vb, p, f)
  OBVIOUS
<1>3. sc = Append(sd, ScopeIn(fr, va, o, n + 1))
  BY <1>1, <1>2, ScopesGrow
<1>4. sd \in Seq({ScopeIn(gr, vb, p, f) : f \in 1 .. n}) /\ Len(sd) = n
  BY ScopesAre
<1> DEFINE T == S \cup {ScopeIn(gr, vb, p, f) : f \in 1 .. n}
<1>5. sd \in Seq(T) /\ ScopeIn(fr, va, o, n + 1) \in T
  <2>1. ScopeIn(fr, va, o, n + 1) \in S
    BY <1>1
  <2> QED
    BY <1>4, <2>1, SeqMonotonic
<1> HIDE DEF sc, sd, T, n, S
<1>6. sc \in Seq(T) /\ Len(sc) = n + 1 /\ \A f \in 1 .. n : sc[f] = sd[f]
  BY <1>3, <1>4, <1>5, AppendLast, AppendAt
<1>7. LET f == SubSeq(sc, 1, Len(sc) - 1)
      IN  f \in Seq(T) /\ Len(f) = n /\ \A i \in 1 .. n : f[i] = sc[i]
  <2>1. Len(sc) >= 1
    BY <1>1, <1>6
  <2>2. LET f == SubSeq(sc, 1, Len(sc) - 1)
        IN  f \in Seq(T) /\ Len(f) = Len(sc) - 1 /\ \A i \in 1 .. Len(f) : f[i] = sc[i]
    BY <1>6, <2>1, FrontProperties
  <2>3. Len(sc) - 1 = n
    BY <1>1, <1>6
  <2> QED
    BY <2>2, <2>3
<1>8. sd = SubSeq(sc, 1, Len(sc) - 1)
  BY <1>4, <1>5, <1>6, <1>7, SeqEqual
<1> QED
  BY <1>8 DEF sc, sd

\* The scope of a frame that has just been made.
LEMMA NewScopeIs ==
    ASSUME NEW gr, NEW vb, NEW p, NEW f, NEW e, NEW c, NEW l, NEW statics,
           gr[f] = Frame(e, c, l, statics)
    PROVE  ScopeIn(gr, vb, p, f) = Promise!NewScope(c, l, statics)
<1>1. /\ gr[f].parent = c /\ gr[f].level = l /\ gr[f].hasStatics = statics
      /\ DOMAIN gr[f].vars = {}
  BY DEF Frame, NoVars
<1>2. [b \in DOMAIN gr[f].vars |-> SeenIn(gr, vb, p, f, b)] = [b \in {} |-> Promise!Plain(b)]
  BY <1>1
<1> QED
  BY <1>1, <1>2 DEF ScopeIn, Promise!NewScope
---------------------------------------------------------------------------
(* The steps of JimScopes, said of the state of JimVariables *)

\* What the operation o asks of JimScopes.
RequestOf(o) ==
    [kind |-> IF o.kind = "idle" THEN "none"
              ELSE IF o.kind \in {"argument", "probe", "bind"} THEN "upvar" ELSE o.kind,
     node |-> IF o.asked = Nil THEN <<>> ELSE Node(o.asked, o.origin),
     val |-> o.val,
     target |-> IF o.target = Nil THEN <<>> ELSE Node(o.target, o.tframe)]

\* The variables of JimScopes, in the next state.
LEMMA NextState ==
    /\ Request = RequestOf(op) /\ Request' = RequestOf(op')
    /\ (Spelt(result))' = Spelt(result')
    /\ Current' = IF op' = Idle THEN cur' ELSE op'.origin
    /\ StaticValues' = [b \in DOMAIN Statics |-> Spelt(var'[Statics[b]].obj)]
    /\ Promise!NoRequest = RequestOf(Idle)
<1>1. Request = RequestOf(op) /\ Request' = RequestOf(op')
  BY DEF Request, RequestOf
<1>2. /\ (Spelt(result))' = Spelt(result')
      /\ Current' = IF op' = Idle THEN cur' ELSE op'.origin
      /\ StaticValues' = [b \in DOMAIN Statics |-> Spelt(var'[Statics[b]].obj)]
  BY DEF Spelt, Current, StaticValues
<1>3. Promise!NoRequest = RequestOf(Idle)
  BY DEF Promise!NoRequest, RequestOf, Idle, Promise!Nil, Nil
<1> QED
  BY <1>1, <1>2, <1>3

\* Nothing that a script can see.
Scripts == Scopes' = Scopes /\ Current' = Current /\ stack' = stack

\* A step that changes nothing of that.
LEMMA SilentAllowed ==
    ASSUME Scripts, StaticValues' = StaticValues, Request' = Request, result' = result
    PROVE  UNCHANGED Promise!scopeVars
BY NextState DEF Scripts, Promise!scopeVars, StaticValues, Current, Spelt

\* A read.
LEMMA GetAllowed ==
    ASSUME Request.kind = "get", Request' = Promise!NoRequest,
           Scripts, StaticValues' = StaticValues,
           NEW end \in ChainOf(Scopes, Request.node), ~Linked(Scopes, end),
           Spelt(result') = IF Tabled(Scopes, end) THEN Entered(Scopes, end).obj
                            ELSE IF StaticIn(Scopes, end) THEN StaticValues[end[2]] ELSE Fail
    PROVE  Promise!Get
<1>1. /\ end \in Promise!Chain(Request.node) /\ ~Promise!IsLink(end)
      /\ Spelt(result') = IF Promise!Exists(end) THEN Promise!Contents(end).obj ELSE Fail
  BY PromiseIs
<1>2. /\ Promise!Asked("get") /\ UNCHANGED <<Promise!scripts, StaticValues>>
      /\ end \in Promise!Ends(Request.node)
  BY <1>1 DEF Promise!Asked, Promise!scripts, Promise!Ends, Scripts, Current
<1>3. Promise!Answer(IF Promise!Exists(end) THEN Promise!Contents(end).obj ELSE Fail)
  BY <1>1, NextState DEF Promise!Answer
<1> QED
  BY <1>2, <1>3 DEF Promise!Get, Promise!Fail, Fail, StaticValues

\* A write, to a static variable or to one of a frame.
LEMMA SetAllowed ==
    ASSUME Request.kind = "set", Request' = Promise!NoRequest, Spelt(result') = Done,
           Current' = Current, stack' = stack,
           NEW end \in ChainOf(Scopes, Request.node), ~Linked(Scopes, end),
           IF StaticIn(Scopes, end)
           THEN StaticValues' = [StaticValues EXCEPT ![end[2]] = Request.val] /\ Scopes' = Scopes
           ELSE Scopes' = Put(Scopes, end, [obj |-> Request.val, link |-> 0])
                /\ StaticValues' = StaticValues
    PROVE  Promise!Set
<1>1. end \in Promise!Chain(Request.node) /\ ~Promise!IsLink(end)
  BY PromiseIs
<1>2. Promise!Asked("set") /\ UNCHANGED <<Current, stack>> /\ end \in Promise!Ends(Request.node)
  BY <1>1 DEF Promise!Asked, Promise!Ends
<1>3. Promise!Answer(Done)
  BY NextState DEF Promise!Answer
<1>4. IF Promise!IsStatic(end)
      THEN StaticValues' = [StaticValues EXCEPT ![end[2]] = Request.val] /\ Scopes' = Scopes
      ELSE Scopes' = Promise!With(end, Promise!Plain(Request.val)) /\ StaticValues' = StaticValues
  BY PromiseIs DEF Promise!Plain
<1> QED
  BY <1>2, <1>3, <1>4 DEF Promise!Set, Promise!Done, Done, StaticValues, Current

\* An unset.
LEMMA UnsetAllowed ==
    ASSUME Request.kind = "unset", Request' = Promise!NoRequest,
           Current' = Current, stack' = stack, StaticValues' = StaticValues,
           NEW end \in ChainOf(Scopes, Request.node), ~Linked(Scopes, end),
           IF Tabled(Scopes, end) THEN Scopes' = Taken(Scopes, end) /\ Spelt(result') = Done
           ELSE Scopes' = Scopes /\ Spelt(result') = Fail
    PROVE  Promise!Unset
<1>1. end \in Promise!Chain(Request.node) /\ ~Promise!IsLink(end)
  BY PromiseIs
<1>2. /\ Promise!Asked("unset") /\ end \in Promise!Ends(Request.node)
      /\ UNCHANGED <<Current, stack, StaticValues>>
  BY <1>1 DEF Promise!Asked, Promise!Ends
<1>3. IF Promise!InTable(end) THEN Scopes' = Promise!Without(end) /\ Promise!Answer(Done)
      ELSE Scopes' = Scopes /\ Promise!Answer(Fail)
  BY PromiseIs, NextState DEF Promise!Answer
<1> QED
  BY <1>2, <1>3
  DEF Promise!Unset, Promise!Done, Done, Promise!Fail, Fail, StaticValues, Current

\* A link: it is refused, cut without being replaced, or made.
LEMMA UpvarAllowed ==
    ASSUME Request.kind = "upvar", Request' = Promise!NoRequest,
           Current' = Current, stack' = stack, StaticValues' = StaticValues,
           NEW n, n = Request.node, NEW t, t = Request.target,
           \/ /\ Tabled(Scopes, n) \/ StaticIn(Scopes, n)
              /\ ~Linked(Scopes, n)
              /\ Scopes' = Scopes /\ Spelt(result') = Fail
           \/ /\ Linked(Scopes, n) \/ ~(Tabled(Scopes, n) \/ StaticIn(Scopes, n))
              /\ Scopes[n[1]].level < Scopes[t[1]].level \/ n \in ChainOf(Scopes, t)
              /\ Scopes' = IF Linked(Scopes, n)
                           THEN Put(Scopes, n, [obj |-> Entered(Scopes, n).obj, link |-> 0])
                           ELSE Scopes
              /\ Spelt(result') = Fail
           \/ /\ Linked(Scopes, n) \/ ~(Tabled(Scopes, n) \/ StaticIn(Scopes, n))
              /\ ~(Scopes[n[1]].level < Scopes[t[1]].level \/ n \in ChainOf(Scopes, t))
              /\ Scopes' = Put(Scopes, n, [obj |-> t[2], link |-> t[1]])
              /\ Spelt(result') = Done
    PROVE  Promise!Upvar
<1>1. /\ Promise!Asked("upvar") /\ UNCHANGED <<Current, stack, StaticValues>>
  BY DEF Promise!Asked
<1>2. \A r : Promise!Answer(r) <=> Spelt(result') = r
  BY NextState DEF Promise!Answer
<1>3. Linked(Scopes, n) => Promise!Contents(n) = Entered(Scopes, n)
  BY PromiseIs DEF Linked
<1>4. IF Promise!Exists(n) /\ ~Promise!IsLink(n) THEN Scopes' = Scopes /\ Promise!Answer(Fail)
      ELSE IF Scopes[n[1]].level < Scopes[t[1]].level \/ n \in Promise!Chain(t)
      THEN /\ Scopes' = IF Promise!IsLink(n)
                        THEN Promise!With(n, Promise!Plain(Promise!Contents(n).obj)) ELSE Scopes
           /\ Promise!Answer(Fail)
      ELSE Scopes' = Promise!With(n, [obj |-> t[2], link |-> t[1]]) /\ Promise!Answer(Done)
  <2>1. /\ Promise!Exists(n) <=> Tabled(Scopes, n) \/ StaticIn(Scopes, n)
        /\ Promise!IsLink(n) <=> Linked(Scopes, n)
        /\ Promise!Chain(t) = ChainOf(Scopes, t)
        /\ \A c : Promise!With(n, c) = Put(Scopes, n, c)
    BY PromiseIs
  <2>2. Linked(Scopes, n) =>
            Promise!Plain(Promise!Contents(n).obj) = [obj |-> Entered(Scopes, n).obj, link |-> 0]
    BY <1>3 DEF Promise!Plain
  <2>3. Linked(Scopes, n) => Tabled(Scopes, n) \/ StaticIn(Scopes, n)
    BY DEF Linked
  <2> QED
    BY <2>1, <2>2, <2>3, <1>2
<1> QED
  BY <1>1, <1>4, Zenon
  DEF Promise!Upvar, Promise!Done, Done, Promise!Fail, Fail, StaticValues, Current

\* The variable of a by-name argument exists, or it does not.
LEMMA ByNameAllowed ==
    ASSUME Request.kind = "byname", Request' = [Request EXCEPT !.kind = "upvar"],
           Scripts, StaticValues' = StaticValues, result' = result,
           NEW end \in ChainOf(Scopes, Request.target), ~Linked(Scopes, end),
           Tabled(Scopes, end) \/ StaticIn(Scopes, end)
    PROVE  Promise!ByName
<1>1. end \in Promise!Chain(Request.target) /\ ~Promise!IsLink(end) /\ Promise!Exists(end)
  BY PromiseIs
<1>2. Promise!Asked("byname") /\ end \in Promise!Ends(Request.target)
  BY <1>1 DEF Promise!Asked, Promise!Ends
<1>3. UNCHANGED <<Promise!scripts, StaticValues, Spelt(result)>>
  BY NextState DEF Scripts, Promise!scripts, Current
<1> QED
  BY <1>1, <1>2, <1>3 DEF Promise!ByName, StaticValues

\* The frame of a call goes away: at its end, or because a by-name argument does
\* not exist.
LEMMA LeaveAllowed ==
    ASSUME Ends(stack, "call"), Current = Len(Scopes),
           Current' = Scopes[Len(Scopes)].parent,
           Scopes' = SubSeq(Scopes, 1, Len(Scopes) - 1), stack' = Pop(stack),
           StaticValues' = StaticValues
    PROVE  Promise!Leave
<1>1. Promise!Ending("call") /\ stack' = Promise!Pop(stack) /\ Scopes' = Promise!Pop(Scopes)
  BY DEF Promise!Ending, Promise!Pop, Pop, Ends
<1>2. Current' = Scopes[Current].parent
  OBVIOUS
<1> QED
  BY <1>1, <1>2, Zenon DEF Promise!Leave, Current, StaticValues

\* A call ends.
LEMMA EndCallAllowed ==
    ASSUME Request = Promise!NoRequest, Request' = Request, result' = result, Promise!Leave
    PROVE  Promise!EndCall
BY NextState DEF Promise!EndCall, Promise!Running

\* The variable of a by-name argument does not exist, and the call ends.
LEMMA ByNameMissingAllowed ==
    ASSUME Request.kind = "byname", Request' = Promise!NoRequest, Spelt(result') = Fail,
           NEW end \in ChainOf(Scopes, Request.target), ~Linked(Scopes, end),
           ~(Tabled(Scopes, end) \/ StaticIn(Scopes, end)), Promise!Leave
    PROVE  Promise!ByNameMissing
<1>1. end \in Promise!Chain(Request.target) /\ ~Promise!IsLink(end) /\ ~Promise!Exists(end)
  BY PromiseIs
<1>2. Promise!Asked("byname") /\ end \in Promise!Ends(Request.target)
  BY <1>1 DEF Promise!Asked, Promise!Ends
<1>3. Promise!Answer(Fail)
  BY NextState DEF Promise!Answer
<1> QED
  BY <1>1, <1>2, <1>3 DEF Promise!ByNameMissing, Promise!Fail, Fail

\* A call begins.
LEMMA EnterAllowed ==
    ASSUME Request = Promise!NoRequest, NEW statics,
           Scopes' = Append(Scopes, Promise!NewScope(Current, Scopes[Current].level + 1, statics)),
           Current' = Len(Scopes) + 1,
           stack' = Append(stack, [kind |-> "call", saved |-> 0])
    PROVE  Promise!Enter(statics)
BY Zenon DEF Promise!Enter, Promise!Running, Current

\* A call with arguments by value.
LEMMA CallAllowed ==
    ASSUME NEW statics, Promise!Enter(statics), StaticValues' = StaticValues,
           Request' = Request, result' = result
    PROVE  Promise!Call(statics)
BY NextState DEF Promise!Call, StaticValues

\* A call with an argument by name.
LEMMA CallByNameAllowed ==
    ASSUME NEW b, NEW t, Promise!Enter(FALSE), StaticValues' = StaticValues, result' = result,
           Request' = [kind |-> "byname", node |-> <<Len(Scopes) + 1, b>>, val |-> Nil, target |-> t]
    PROVE  Promise!CallByName(b, t)
<1>1. [Promise!NoRequest EXCEPT !.kind = "byname", !.node = <<Len(Scopes) + 1, b>>, !.target = t]
        = [kind |-> "byname", node |-> <<Len(Scopes) + 1, b>>, val |-> Nil, target |-> t]
  <2> DEFINE n == <<Len(Scopes) + 1, b>>
             r == Promise!NoRequest
  <2>1. r = [kind |-> "none", node |-> <<>>, val |-> Nil, target |-> <<>>]
    BY DEF Promise!NoRequest, Promise!Nil, Nil
  <2> HIDE DEF n, r
  <2>2. [r EXCEPT !.kind = "byname", !.node = n, !.target = t]
          \in [kind : {"byname"}, node : {n}, val : {Nil}, target : {t}]
    BY <2>1
  <2>3. ASSUME NEW k, NEW v, NEW q \in [kind : {k}, node : {n}, val : {v}, target : {t}]
        PROVE  q = [kind |-> k, node |-> n, val |-> v, target |-> t]
    OBVIOUS
  <2>4. [r EXCEPT !.kind = "byname", !.node = n, !.target = t]
          = [kind |-> "byname", node |-> n, val |-> Nil, target |-> t]
    BY <2>2, <2>3
  <2> QED
    BY <2>4 DEF n, r
<1>2. UNCHANGED <<StaticValues, Spelt(result)>>
  BY NextState
<1> QED
  BY <1>1, <1>2, Zenon DEF Promise!CallByName, StaticValues

\* [uplevel] begins.
LEMMA UplevelAllowed ==
    ASSUME Request = Promise!NoRequest, Request' = Request, NEW g,
           g \in CallersIn(Scopes, Current),
           Current' = g, stack' = Append(stack, [kind |-> "uplevel", saved |-> Current]),
           Scopes' = Scopes, StaticValues' = StaticValues, result' = result
    PROVE  Promise!Uplevel(g)
<1>1. UNCHANGED <<Scopes, StaticValues, Request, Spelt(result)>>
  BY NextState
<1>2. g \in Promise!Callers(Current)
  BY DEF Promise!Callers, CallersIn
<1> QED
  BY <1>1, <1>2, Zenon DEF Promise!Uplevel, Promise!Running, StaticValues, Current

\* [uplevel] ends.
LEMMA EndUplevelAllowed ==
    ASSUME Request = Promise!NoRequest, Request' = Request, Ends(stack, "uplevel"),
           Current' = stack[Len(stack)].saved, stack' = Pop(stack),
           Scopes' = Scopes, StaticValues' = StaticValues, result' = result
    PROVE  Promise!EndUplevel
<1>1. UNCHANGED <<Scopes, StaticValues, Request, Spelt(result)>>
  BY NextState
<1>2. Promise!Ending("uplevel") /\ stack' = Promise!Pop(stack)
  BY DEF Promise!Ending, Promise!Pop, Pop, Ends
<1> QED
  BY <1>1, <1>2, Zenon DEF Promise!EndUplevel, Promise!Running, StaticValues, Current

\* A script asks for something.
LEMMA AskAllowed ==
    ASSUME Request = Promise!NoRequest, NEW kind, NEW n, NEW v, NEW t,
           Request' = [kind |-> kind, node |-> n, val |-> v, target |-> t],
           Scripts, StaticValues' = StaticValues, result' = result
    PROVE  Promise!Ask(kind, n, v, t)
<1>1. UNCHANGED <<Promise!scripts, StaticValues, Spelt(result)>>
  BY NextState DEF Scripts, Promise!scripts, Current
<1> QED
  BY <1>1, Zenon DEF Promise!Ask, Promise!Running, StaticValues
---------------------------------------------------------------------------
(* Chains of links *)

\* A chain starts at its node,
LEMMA ChainStart ==
    ASSUME NEW sc, NEW n \in NodesOf(sc)
    PROVE  n \in ChainOf(sc, n)
BY DEF ChainOf

\* goes on with the end of every link,
LEMMA ChainFollow ==
    ASSUME NEW sc, NEW n, NEW m \in ChainOf(sc, n), Linked(sc, m), LinkEnd(sc, m) \in NodesOf(sc)
    PROVE  LinkEnd(sc, m) \in ChainOf(sc, n)
BY DEF ChainOf

\* and stays in a set that it starts in and that no link leaves.
LEMMA ChainWithin ==
    ASSUME NEW sc, NEW n, NEW P \in SUBSET NodesOf(sc), n \in P,
           \A m \in P : Linked(sc, m) => LinkEnd(sc, m) \in P
    PROVE  ChainOf(sc, n) \subseteq P
BY DEF ChainOf

---------------------------------------------------------------------------
(* Names *)

\* The node a name stands for, in a live frame.
LEMMA NodeOf ==
    ASSUME Inv, NEW w \in Words, NEW f \in 1 .. Len(frames)
    PROVE  /\ DOMAIN Scopes = 1 .. Len(frames) /\ Len(Scopes) = Len(frames)
           /\ NameOf[w] \in Bases /\ FrameOf(w, f) \in 1 .. Len(frames)
           /\ Node(w, f) = <<FrameOf(w, f), NameOf[w]>>
           /\ Node(w, f)[1] = FrameOf(w, f) /\ Node(w, f)[2] = NameOf[w]
           /\ Node(w, f) \in NodesOf(Scopes)
           /\ ~IsGlobal[w] => FrameOf(w, f) = f
           /\ FrameOf(w, f) \in {1, f}
<1>1. frames \in Seq(FrameType) /\ Len(frames) \in Nat /\ Len(frames) >= 1
  BY InvGives
<1>2. DOMAIN Scopes = 1 .. Len(frames) /\ Len(Scopes) = Len(frames)
  BY <1>1, ScopesIs, ScopesAre
<1>3. NameOf[w] \in Bases /\ FrameOf(w, f) \in 1 .. Len(frames)
  BY <1>1, FrameOfIs DEF Bases
<1> QED
  BY <1>2, <1>3 DEF Node, NodesOf, FrameOf

\* What a name stands for, and what a script sees there, unless the link of
\* that name has been cut.
LEMMA WordIs ==
    ASSUME Inv, NEW w \in Words, op.was = 0 \/ Node(w, cur) # Node(op.name, op.origin)
    PROVE  LET n == Node(w, cur)
               x == Found(w)
               table == frames[FrameOf(w, cur)].vars
           IN  /\ Tabled(Scopes, n) <=> NameOf[w] \in DOMAIN table
               /\ StaticIn(Scopes, n) <=> x # Nil /\ NameOf[w] \notin DOMAIN table
               /\ NameOf[w] \in DOMAIN table =>
                     /\ x # Nil /\ x = table[NameOf[w]]
                     /\ Entered(Scopes, n) = [obj |-> Spelt(var[x].obj), link |-> var[x].link]
               /\ StaticIn(Scopes, n) =>
                     /\ NameOf[w] \in DOMAIN Statics /\ x = Statics[NameOf[w]] /\ var[x].link = 0
                     /\ StaticValues[n[2]] = Spelt(var[x].obj)
               /\ Linked(Scopes, n) <=> x # Nil /\ IsLink(x)
               /\ x # Nil /\ IsLink(x) =>
                     /\ LinkEnd(Scopes, n) = Node(var[x].obj, var[x].link)
                     /\ LinkEnd(Scopes, n) \in NodesOf(Scopes)
<1> DEFINE n == Node(w, cur)
           x == Found(w)
           g == FrameOf(w, cur)
           b == NameOf[w]
           table == frames[g].vars
<1>1. /\ frames \in Seq(FrameType) /\ Len(frames) \in Nat /\ cur \in 1 .. Len(frames)
      /\ Parents(frames) /\ Heap(frames, var) /\ var \in [VarIds -> Var]
  BY InvGives
<1>2. /\ n[1] = g /\ n[2] = b /\ n = <<g, b>> /\ g \in 1 .. Len(frames) /\ b \in Bases
      /\ ~IsGlobal[w] => g = cur
      /\ n \in NodesOf(Scopes)
  BY <1>1, NodeOf
<1>3. /\ Scopes[g].hasStatics = frames[g].hasStatics /\ DOMAIN Scopes[g].vars = DOMAIN table
      /\ b \in DOMAIN table => Scopes[g].vars[b] = SeenIn(frames, var, op, g, b)
  <2>1. Scopes = ScopesIn(frames, var, op)
    BY ScopesIs
  <2> DEFINE sc == ScopesIn(frames, var, op)
  <2>2. /\ sc[g].hasStatics = frames[g].hasStatics /\ DOMAIN sc[g].vars = DOMAIN frames[g].vars
        /\ \A a \in DOMAIN frames[g].vars : sc[g].vars[a] = SeenIn(frames, var, op, g, a)
    <3>1. sc[g] = ScopeIn(frames, var, op, g)
      BY <1>1, <1>2, ScopeAt
    <3> QED
      BY <3>1 DEF ScopeIn
  <2> HIDE DEF sc
  <2> QED
    BY <2>1, <2>2 DEF sc
<1>4. x = LookupIn(frames, w, cur) /\ x \in MaybeVar
  BY Resolves
<1>5. Tabled(Scopes, n) <=> b \in DOMAIN table
  BY <1>2, <1>3 DEF Tabled
<1>6. b \in DOMAIN table => x # Nil /\ x = table[b]
  <2>1. b \in DOMAIN table => table[b] \in VarIds
    BY <1>1, <1>2, FramesAre
  <2> QED
    BY <2>1, <1>4, SortAssumption DEF LookupIn
<1>7. b \in DOMAIN table => Entered(Scopes, n) = [obj |-> Spelt(var[x].obj), link |-> var[x].link]
  <2>1. op.was # 0 => <<g, b>> # Node(op.name, op.origin)
    BY <1>2
  <2> QED
    BY <2>1, <1>2, <1>3, <1>6 DEF Entered, SeenIn
<1>8. StaticIn(Scopes, n) <=> b \notin DOMAIN table /\ frames[g].hasStatics /\ b \in DOMAIN Statics
  BY <1>2, <1>3, <1>5 DEF StaticIn
<1>9. IsGlobal[w] => ~frames[g].hasStatics
  BY <1>1 DEF Parents, FrameOf
<1>10. IsGlobal[w] \in BOOLEAN
  BY NameAssumption
<1>11. StaticIn(Scopes, n) => b \in DOMAIN Statics /\ x = Statics[b] /\ x \in VarIds /\ x # Nil
  <2>1. b \in DOMAIN Statics => Statics[b] \in VarIds
    BY StaticsAssumption
  <2> QED
    BY <2>1, <1>2, <1>4, <1>8, <1>9, <1>10, SortAssumption DEF LookupIn
<1>12. x # Nil /\ b \notin DOMAIN table => StaticIn(Scopes, n)
  BY <1>2, <1>4, <1>8, <1>10 DEF LookupIn
<1>13. StaticIn(Scopes, n) => var[x].link = 0 /\ StaticValues[n[2]] = Spelt(var[x].obj)
  BY <1>1, <1>2, <1>11 DEF Heap, Owned, StaticsKept, StaticValues
<1>14. Linked(Scopes, n) <=> x # Nil /\ IsLink(x)
  BY <1>5, <1>6, <1>7, <1>12, <1>13 DEF Linked, IsLink
<1>15. ASSUME x # Nil, IsLink(x)
       PROVE  LinkEnd(Scopes, n) = Node(var[x].obj, var[x].link) /\ LinkEnd(Scopes, n) \in NodesOf(Scopes)
  <2>1. /\ b \in DOMAIN table /\ var[x].obj \in Words /\ ~IsGlobal[var[x].obj]
        /\ var[x].link \in 1 .. Len(frames)
    BY <1>15, FoundIs
  <2>2. Node(var[x].obj, var[x].link) \in NodesOf(Scopes)
        /\ Node(var[x].obj, var[x].link) = <<var[x].link, NameOf[var[x].obj]>>
    <3> DEFINE y == var[x].obj
               l == var[x].link
    <3>1. y \in Words /\ l \in 1 .. Len(frames) /\ ~IsGlobal[y]
      BY <2>1
    <3> HIDE DEF y, l
    <3>2. Node(y, l) \in NodesOf(Scopes) /\ Node(y, l) = <<l, NameOf[y]>>
      BY <3>1, NodeOf
    <3> QED
      BY <3>2 DEF y, l
  <2>3. LinkEnd(Scopes, n) = <<var[x].link, NameOf[var[x].obj]>>
    BY <2>1, <1>7 DEF LinkEnd, Spelt
  <2> QED
    BY <2>2, <2>3
<1> QED
  BY <1>5, <1>6, <1>7, <1>8, <1>11, <1>12, <1>13, <1>14, <1>15

---------------------------------------------------------------------------
(* Returning from calls *)

\* The calls up to an entry of the stack are among all of them.
LEMMA CallsBound ==
    ASSUME NEW fr, NEW s \in Seq(Entry), Stacked(fr, s), NEW i \in 1 .. Len(s)
    PROVE  /\ Len(s) \in Nat /\ CallsIn(s, i) \in Nat /\ 1 + CallsIn(s, i) \in 1 .. Len(fr)
           /\ CallsIn(s, Len(s)) \in Nat /\ Len(fr) = 1 + CallsIn(s, Len(s))
<1> DEFINE A == {j \in 1 .. i : s[j].kind = "call"}
           B == {j \in 1 .. Len(s) : s[j].kind = "call"}
<1>1. Len(s) \in Nat /\ A \in SUBSET B /\ B \in SUBSET (1 .. Len(s))
  OBVIOUS
<1>2. Cardinality(A) \in Nat /\ Cardinality(B) \in Nat /\ Cardinality(A) <= Cardinality(B)
  BY <1>1, CountMore
<1>3. CallsIn(s, i) = Cardinality(A) /\ CallsIn(s, Len(s)) = Cardinality(B)
  BY DEF CallsIn
<1>4. Len(fr) = 1 + CallsIn(s, Len(s))
  BY DEF Stacked
<1> HIDE DEF A, B
<1> QED
  BY <1>1, <1>2, <1>3, <1>4

\* Calls return to the same frames whatever is in their tables.
LEMMA ReturnsSame ==
    ASSUME NEW fr, NEW gr, NEW s \in Seq(Entry), NEW c, Stacked(fr, s), Returns(fr, s, c),
           SameShape(fr, gr)
    PROVE  Returns(gr, s, c)
<1>1. ASSUME NEW i \in 2 .. Len(s), s[i - 1].kind = "call"
      PROVE  /\ s[i].kind = "uplevel" => s[i].saved = 1 + CallsIn(s, i)
             /\ s[i].kind = "call" => gr[1 + CallsIn(s, i)].parent = CallsIn(s, i)
  <2>1. i \in 1 .. Len(s)
    OBVIOUS
  <2>2. 1 + CallsIn(s, i) \in 1 .. Len(fr)
    BY <2>1, CallsBound
  <2>3. gr[1 + CallsIn(s, i)].parent = fr[1 + CallsIn(s, i)].parent
    BY <2>2 DEF SameShape
  <2> QED
    BY <1>1, <2>3 DEF Returns
<1>2. Ends(s, "call") => c = Len(gr)
  BY DEF Returns, SameShape
<1> QED
  BY <1>1, <1>2 DEF Returns

\* A call or an [uplevel] begins in frame c.
LEMMA ReturnsAppend ==
    ASSUME NEW fr, NEW gr, NEW s \in Seq(Entry), NEW en \in Entry, NEW c, NEW d,
           Stacked(fr, s), Returns(fr, s, c),
           \A f \in 1 .. Len(fr) : gr[f].parent = fr[f].parent,
           en.kind = "uplevel" => Len(gr) = Len(fr) /\ en.saved = c,
           en.kind = "call" => Len(gr) = Len(fr) + 1 /\ gr[Len(fr) + 1].parent = c /\ d = Len(gr)
    PROVE  Returns(gr, Append(s, en), d)
<1> DEFINE t == Append(s, en)
<1>1. /\ Len(s) \in Nat /\ t \in Seq(Entry) /\ Len(t) = Len(s) + 1
      /\ \A i \in 1 .. Len(s) : t[i] = s[i]
      /\ t[Len(s) + 1] = en
  BY AppendAt, AppendLast
<1>2. CallsIn(s, Len(s)) \in Nat /\ Len(fr) = 1 + CallsIn(s, Len(s))
  BY CallsInAppend DEF Stacked
<1>3. \A i \in 1 .. Len(s) : CallsIn(t, i) = CallsIn(s, i)
  BY CallsInAppend
<1>4. CallsIn(t, Len(s) + 1) = CallsIn(s, Len(s)) + IF en.kind = "call" THEN 1 ELSE 0
  BY CallsInAppend
<1>5. en.kind \in {"call", "uplevel"}
  BY DEF Entry
<1> HIDE DEF t
<1>6. ASSUME NEW i \in 2 .. Len(t), t[i - 1].kind = "call"
      PROVE  /\ t[i].kind = "uplevel" => t[i].saved = 1 + CallsIn(t, i)
             /\ t[i].kind = "call" => gr[1 + CallsIn(t, i)].parent = CallsIn(t, i)
  <2>1. CASE i \in 1 .. Len(s)
    <3>1. t[i] = s[i] /\ t[i - 1] = s[i - 1] /\ i \in 2 .. Len(s)
      BY <2>1, <1>1
    <3>2. 1 + CallsIn(s, i) \in 1 .. Len(fr)
      BY <2>1, CallsBound
    <3> QED
      BY <1>6, <2>1, <3>1, <3>2, <1>3 DEF Returns
  <2>2. CASE i = Len(s) + 1
    <3>1. t[i] = en /\ t[i - 1] = s[Len(s)] /\ Len(s) >= 1
      BY <2>2, <1>1
    <3>2. Ends(s, "call")
      BY <3>1, <1>1, <1>6 DEF Ends
    <3>3. c = Len(fr)
      BY <3>2 DEF Returns
    <3> QED
      BY <2>2, <3>1, <3>3, <1>2, <1>4, <1>5
  <2> QED
    BY <2>1, <2>2, <1>1
<1>7. Ends(t, "call") => d = Len(gr)
  BY <1>1 DEF Ends
<1> QED
  BY <1>6, <1>7 DEF Returns, t

\* The last of them ends.
LEMMA ReturnsPop ==
    ASSUME NEW fr, NEW gr, NEW s \in Seq(Entry), s # <<>>, NEW c, NEW d,
           Stacked(fr, s), Returns(fr, s, c),
           Len(gr) = Len(fr) - IF s[Len(s)].kind = "call" THEN 1 ELSE 0,
           \A f \in 1 .. Len(gr) : gr[f].parent = fr[f].parent,
           s[Len(s)].kind = "call" => d = fr[Len(fr)].parent,
           s[Len(s)].kind = "uplevel" => d = s[Len(s)].saved
    PROVE  Returns(gr, Pop(s), d)
<1> DEFINE t == Pop(s)
<1>1. Len(s) \in Nat /\ Len(s) >= 1
  OBVIOUS
<1>2. /\ t \in Seq(Entry) /\ Len(t) = Len(s) - 1 /\ s[Len(s)] \in Entry
      /\ \A i \in 1 .. Len(t) : t[i] = s[i]
      /\ s = Append(t, s[Len(s)])
  BY <1>1, FrontProperties DEF Pop
<1> HIDE DEF t
<1>3. \A i \in 1 .. Len(t) : CallsIn(t, i) = CallsIn(s, i)
  <2>1. \A i \in 1 .. Len(t) : CallsIn(Append(t, s[Len(s)]), i) = CallsIn(t, i)
    BY <1>2, CallsInAppend
  <2> QED
    BY <2>1, <1>2
<1>4. Stacked(gr, t)
  <2>1. Len(fr) \in Nat
    BY <1>1, CallsBound
  <2> QED
    BY <2>1, StackedPop DEF t
<1>5. ASSUME NEW i \in 2 .. Len(t), t[i - 1].kind = "call"
      PROVE  /\ t[i].kind = "uplevel" => t[i].saved = 1 + CallsIn(t, i)
             /\ t[i].kind = "call" => gr[1 + CallsIn(t, i)].parent = CallsIn(t, i)
  <2>1. /\ i \in 1 .. Len(t) /\ i - 1 \in 1 .. Len(t) /\ i \in 2 .. Len(s)
    BY <1>1, <1>2
  <2>2. t[i] = s[i] /\ t[i - 1] = s[i - 1] /\ CallsIn(t, i) = CallsIn(s, i)
    BY <2>1, <1>2, <1>3
  <2>3. 1 + CallsIn(t, i) \in 1 .. Len(gr)
    BY <2>1, <1>2, <1>4, CallsBound
  <2> QED
    BY <1>5, <2>1, <2>2, <2>3 DEF Returns
<1>6. ASSUME Ends(t, "call")
      PROVE  d = Len(gr)
  <2>1. Len(t) >= 1 /\ t[Len(t)].kind = "call"
    BY <1>2, <1>6 DEF Ends
  <2>2. Len(s) \in 2 .. Len(s) /\ Len(s) - 1 = Len(t) /\ Len(s) \in 1 .. Len(s)
    BY <2>1, <1>1, <1>2
  <2>3. s[Len(s) - 1].kind = "call"
    BY <2>1, <2>2, <1>2
  <2>4. /\ s[Len(s)].kind = "uplevel" => s[Len(s)].saved = 1 + CallsIn(s, Len(s))
        /\ s[Len(s)].kind = "call" =>
              fr[1 + CallsIn(s, Len(s))].parent = CallsIn(s, Len(s))
    BY <2>2, <2>3 DEF Returns
  <2>5. Len(fr) = 1 + CallsIn(s, Len(s)) /\ CallsIn(s, Len(s)) \in Nat
    BY <2>2, CallsBound
  <2>6. s[Len(s)].kind \in {"call", "uplevel"}
    BY <1>2 DEF Entry
  <2> QED
    BY <2>4, <2>5, <2>6
<1> QED
  BY <1>5, <1>6 DEF Returns, t
---------------------------------------------------------------------------
(* Steps that leave the frames as they are *)

\* What the invariant says.
LEMMA RefGives ==
    ASSUME RefInv
    PROVE  /\ CycleInv /\ Inv
           /\ Returns(frames, stack, Current) /\ Asks(frames, var, op) /\ Answers(Scopes, cur, op)
           /\ op.kind = "idle" <=> op = Idle
           /\ op.kind # "idle" => Current = op.origin
           /\ op = Idle => Current = cur /\ Request = Promise!NoRequest
           /\ Stacked(frames, stack) /\ stack \in Seq(Entry)
<1>1. /\ CycleInv /\ Inv
      /\ Returns(frames, stack, Current) /\ Asks(frames, var, op) /\ Answers(Scopes, cur, op)
  BY DEF RefInv, CycleInv
<1>2. op.kind = "idle" <=> op = Idle
  BY <1>1 DEF Asks, Idle
<1>3. op = Idle => Request = Promise!NoRequest
  BY NextState
<1>4. Stacked(frames, stack) /\ stack \in Seq(Entry)
  BY <1>1, InvGives
<1> QED
  BY <1>1, <1>2, <1>3, <1>4 DEF Current

\* A script sees what it saw if the frames and the structures are the same and
\* no link is cut meanwhile.
LEMMA ScopesKept ==
    ASSUME Inv, frames' = frames, var' = var,
           \/ op.was = 0 /\ op'.was = 0
           \/ op'.was = op.was /\ op'.name = op.name /\ op'.origin = op.origin
    PROVE  Scopes' = Scopes /\ StaticValues' = StaticValues
<1>1. frames \in Seq(FrameType)
  BY InvGives
<1>2. SameShape(frames, frames)
  BY DEF SameShape
<1>3. \A f \in 1 .. Len(frames) : \A b \in DOMAIN frames[f].vars :
         SeenIn(frames, var, op', f, b) = SeenIn(frames, var, op, f, b)
  BY DEF SeenIn
<1>4. ScopesIn(frames, var, op') = ScopesIn(frames, var, op)
  BY <1>1, <1>2, <1>3, ScopesSame
<1>5. Scopes' = Scopes
  BY <1>4, ScopesIs
<1> QED
  BY <1>5, NextState DEF StaticValues

\* When an operation is over.
LEMMA Finishing ==
    ASSUME RefInv, op.kind # "idle", NEW r, Finish(r), stack' = stack, SameShape(frames, frames')
    PROVE  /\ RefRest' /\ Request' = Promise!NoRequest /\ Current' = Current
           /\ op' = Idle /\ op'.was = 0 /\ result' = r
<1>1. op' = Idle /\ cur' = op.origin /\ result' = r
  BY DEF Finish
<1>2. Current' = Current
  BY <1>1, RefGives, NextState
<1>3. Request' = Promise!NoRequest
  BY <1>1, NextState
<1>4. Asks(frames', var', op') /\ Answers(Scopes', cur', op') /\ op'.was = 0
  BY <1>1 DEF Asks, Answers, Idle, LinkKinds
<1>5. Returns(frames', stack', Current')
  BY <1>2, RefGives, ReturnsSame
<1> QED
  BY <1>1, <1>2, <1>3, <1>4, <1>5 DEF RefRest

\* When it goes on.
LEMMA GoingOn ==
    ASSUME RefInv, op.kind # "idle", op'.kind # "idle", op'.origin = op.origin,
           stack' = stack, frames' = frames,
           Asks(frames, var', op'), Answers(Scopes', cur', op')
    PROVE  RefRest' /\ Current' = Current
<1>1. Current' = Current
  <2>1. op' # Idle
    BY DEF Idle
  <2> QED
    BY <2>1, RefGives, NextState
<1> QED
  BY <1>1, RefGives DEF RefRest

\* A read, a write or an unset is asked for.
LEMMA BeginRef ==
    ASSUME RefInv, NEW kind \in {"get", "set", "unset"}, NEW w \in Words, NEW v, Begin(kind, w, v)
    PROVE  /\ RefRest'
           /\ Promise!Ask(kind, Node(w, cur), v, <<>>) /\ Node(w, cur) \in Promise!Visible
<1>1. /\ op = Idle /\ frames' = frames /\ cur' = cur /\ stack' = stack /\ var' = var
      /\ result' = result
      /\ op' = [Idle EXCEPT !.kind = kind, !.asked = w, !.word = w, !.origin = cur, !.val = v]
  BY DEF Begin, Running, scripts
<1>2. /\ op'.kind = kind /\ op'.asked = w /\ op'.word = w /\ op'.origin = cur /\ op'.val = v
      /\ op'.target = Nil /\ op'.was = 0 /\ op.was = 0 /\ op' # Idle
  BY <1>1 DEF Idle
<1>3. Inv /\ cur \in 1 .. Len(frames) /\ Current = cur /\ Request = Promise!NoRequest
      /\ Returns(frames, stack, Current)
  BY <1>1, RefGives, InvGives
<1>4. Scopes' = Scopes /\ StaticValues' = StaticValues
  BY <1>1, <1>2, <1>3, ScopesKept
<1>5. Current' = Current
  BY <1>2, <1>3, NextState
<1>6. Node(w, cur) \in NodesOf(Scopes) /\ Node(w, cur)[1] \in {1, cur}
  BY <1>3, NodeOf
<1>7. Request' = [kind |-> kind, node |-> Node(w, cur), val |-> v, target |-> <<>>]
  <2>1. Request' = RequestOf(op')
    BY NextState
  <2>2. w # Nil
    BY SortAssumption
  <2> QED
    BY <2>1, <2>2, <1>2 DEF RequestOf
<1>8. Node(w, cur) \in Promise!Visible
  BY <1>1, <1>6, PromiseIs DEF Promise!Visible
<1>9. Promise!Ask(kind, Node(w, cur), v, <<>>)
  BY <1>1, <1>3, <1>4, <1>5, <1>7, AskAllowed DEF Scripts
<1>10. Asks(frames', var', op')
  BY <1>2 DEF Asks, LinkKinds
<1>11. Answers(Scopes', cur', op')
  <2>1. Node(w, cur) \in ChainOf(Scopes, Node(w, cur))
    BY <1>6, ChainStart
  <2> QED
    BY <2>1, <1>1, <1>2, <1>4 DEF Answers
<1> QED
  BY <1>1, <1>3, <1>5, <1>8, <1>9, <1>10, <1>11 DEF RefRest

\* What a read, write, unset or by-name argument has come to.
LEMMA ComeTo ==
    ASSUME RefInv, op.kind \in {"get", "set", "unset", "byname"}
    PROVE  /\ Inv /\ op.word \in Words /\ op.was = 0 /\ op.kind # "idle" /\ op.asked \in Words
           /\ Node(op.word, cur) \in NodesOf(Scopes)
           /\ Request.kind = op.kind /\ Request.val = op.val
           /\ op.kind # "byname" => Node(op.word, cur) \in ChainOf(Scopes, Request.node)
           /\ op.kind = "byname" => Node(op.word, cur) \in ChainOf(Scopes, Request.target)
<1>1. Inv /\ Asks(frames, var, op) /\ Answers(Scopes, cur, op) /\ cur \in 1 .. Len(frames)
  BY RefGives, InvGives
<1>2. op.word \in Words
  BY <1>1, WordOf DEF WordKinds
<1>3. op.was = 0 /\ op.kind # "idle" /\ op.asked \in Words
  BY <1>1 DEF Asks
<1>4. Node(op.word, cur) \in NodesOf(Scopes)
  BY <1>1, <1>2, NodeOf
<1>5. op.asked # Nil
  BY <1>3, SortAssumption
<1>6. op.kind = "byname" => op.target # Nil
  BY <1>1, SortAssumption, InvGives DEF Busy, LinkKinds
<1>7. /\ Request.kind = op.kind /\ Request.val = op.val
      /\ Request.node = Node(op.asked, op.origin)
      /\ op.kind = "byname" => Request.target = Node(op.target, op.tframe)
  <2>1. Request = RequestOf(op)
    BY NextState
  <2> QED
    BY <2>1, <1>5, <1>6 DEF RequestOf
<1> QED
  BY <1>1, <1>2, <1>3, <1>4, <1>7 DEF Answers

\* A link is followed: nothing that a script can see.
LEMMA FollowRef ==
    ASSUME RefInv, Follow
    PROVE  RefRest' /\ UNCHANGED Promise!scopeVars
<1> DEFINE x == Found(op.word)
<1>1. /\ op.kind \in {"get", "set", "unset", "byname"} /\ x # Nil /\ IsLink(x)
      /\ cur' = var[x].link /\ op' = [op EXCEPT !.word = var[x].obj]
      /\ UNCHANGED <<frames, stack, var, callFrameEpoch, result>>
  BY DEF Follow, Accessing
<1>2. /\ Inv /\ op.word \in Words /\ op.was = 0 /\ op.kind # "idle"
      /\ Asks(frames, var, op) /\ Answers(Scopes, cur, op) /\ op \in OpType
  BY <1>1, ComeTo, RefGives, InvGives
<1>3. /\ op'.kind = op.kind /\ op'.asked = op.asked /\ op'.origin = op.origin /\ op'.val = op.val
      /\ op'.name = op.name /\ op'.target = op.target /\ op'.tframe = op.tframe /\ op'.was = op.was
      /\ op'.word = var[x].obj
  BY <1>1, <1>2 DEF OpType
<1>4. /\ Linked(Scopes, Node(op.word, cur))
      /\ LinkEnd(Scopes, Node(op.word, cur)) = Node(op'.word, cur')
      /\ LinkEnd(Scopes, Node(op.word, cur)) \in NodesOf(Scopes)
  BY <1>1, <1>2, <1>3, WordIs
<1>5. Scopes' = Scopes /\ StaticValues' = StaticValues
  BY <1>1, <1>2, <1>3, ScopesKept
<1>6. Asks(frames, var', op')
  BY <1>1, <1>2, <1>3 DEF Asks, Cut, Idle
<1>7. Answers(Scopes', cur', op')
  <2>1. ASSUME NEW n, Node(op.word, cur) \in ChainOf(Scopes, n)
        PROVE  Node(op'.word, cur') \in ChainOf(Scopes, n)
    BY <2>1, <1>4, ChainFollow
  <2> QED
    BY <2>1, <1>1, <1>2, <1>3, <1>5 DEF Answers
<1>8. RefRest' /\ Current' = Current
  BY <1>1, <1>2, <1>3, <1>6, <1>7, GoingOn
<1>9. Request' = Request
  BY <1>3, NextState DEF RequestOf
<1> QED
  BY <1>1, <1>5, <1>8, <1>9, SilentAllowed DEF Scripts

\* A read of a variable.
LEMMA GetFoundRef ==
    ASSUME RefInv, GetFound
    PROVE  RefRest' /\ Promise!Get
<1> DEFINE x == Found(op.word)
           end == Node(op.word, cur)
<1>1. /\ op.kind = "get" /\ x # Nil /\ ~IsLink(x) /\ Finish(var[x].obj)
      /\ UNCHANGED <<frames, stack, var, callFrameEpoch>>
  BY DEF GetFound, Reached, Accessing
<1>2. /\ Inv /\ op.word \in Words /\ op.was = 0 /\ op.kind # "idle" /\ Request.kind = "get"
      /\ end \in ChainOf(Scopes, Request.node)
  BY <1>1, ComeTo
<1>3. /\ RefRest' /\ Request' = Promise!NoRequest /\ Current' = Current /\ op'.was = 0
      /\ result' = var[x].obj
  BY <1>1, <1>2, Finishing DEF SameShape
<1>4. Scopes' = Scopes /\ StaticValues' = StaticValues
  BY <1>1, <1>2, <1>3, ScopesKept
<1>5. ~Linked(Scopes, end)
  BY <1>1, <1>2, WordIs
<1>6. Spelt(result') = IF Tabled(Scopes, end) THEN Entered(Scopes, end).obj
                       ELSE IF StaticIn(Scopes, end) THEN StaticValues[end[2]] ELSE Fail
  BY <1>1, <1>2, <1>3, WordIs
<1> HIDE DEF end, x
<1> QED
  BY <1>1, <1>2, <1>3, <1>4, <1>5, <1>6, GetAllowed DEF Scripts

\* A read or an unset of a variable that does not exist.
LEMMA MissingRef ==
    ASSUME RefInv, Missing
    PROVE  RefRest' /\ (Promise!Get \/ Promise!Unset)
<1> DEFINE end == Node(op.word, cur)
<1>1. /\ op.kind \in {"get", "unset"} /\ Found(op.word) = Nil /\ Finish(Fail)
      /\ UNCHANGED <<frames, stack, var, callFrameEpoch>>
  BY DEF Missing, Accessing
<1>2. /\ Inv /\ op.word \in Words /\ op.was = 0 /\ op.kind # "idle" /\ Request.kind = op.kind
      /\ end \in ChainOf(Scopes, Request.node)
  BY <1>1, ComeTo
<1>3. /\ RefRest' /\ Request' = Promise!NoRequest /\ Current' = Current /\ op'.was = 0
      /\ result' = Fail
  BY <1>1, <1>2, Finishing DEF SameShape
<1>4. Scopes' = Scopes /\ StaticValues' = StaticValues
  BY <1>1, <1>2, <1>3, ScopesKept
<1>5. ~Linked(Scopes, end) /\ ~Tabled(Scopes, end) /\ ~StaticIn(Scopes, end)
  BY <1>1, <1>2, WordIs
<1>6. Spelt(Fail) = Fail
  BY SortAssumption DEF Spelt
<1> HIDE DEF end
<1>7. CASE op.kind = "get"
  BY <1>7, <1>1, <1>2, <1>3, <1>4, <1>5, <1>6, GetAllowed DEF Scripts
<1>8. CASE op.kind = "unset"
  BY <1>8, <1>1, <1>2, <1>3, <1>4, <1>5, <1>6, UnsetAllowed
<1> QED
  BY <1>1, <1>7, <1>8

\* An unset of a static variable.
LEMMA UnsetStaticRef ==
    ASSUME RefInv, UnsetStatic
    PROVE  RefRest' /\ Promise!Unset
<1> DEFINE x == Found(op.word)
           end == Node(op.word, cur)
<1>1. /\ op.kind = "unset" /\ x # Nil /\ ~IsLink(x) /\ Finish(Fail)
      /\ NameOf[op.word] \notin DOMAIN frames[FrameOf(op.word, cur)].vars
      /\ UNCHANGED <<frames, stack, var, callFrameEpoch>>
  BY DEF UnsetStatic, Reached, Accessing
<1>2. /\ Inv /\ op.word \in Words /\ op.was = 0 /\ op.kind # "idle" /\ Request.kind = "unset"
      /\ end \in ChainOf(Scopes, Request.node)
  BY <1>1, ComeTo
<1>3. /\ RefRest' /\ Request' = Promise!NoRequest /\ Current' = Current /\ op'.was = 0
      /\ result' = Fail
  BY <1>1, <1>2, Finishing DEF SameShape
<1>4. Scopes' = Scopes /\ StaticValues' = StaticValues
  BY <1>1, <1>2, <1>3, ScopesKept
<1>5. ~Linked(Scopes, end) /\ ~Tabled(Scopes, end)
  BY <1>1, <1>2, WordIs
<1>6. Spelt(Fail) = Fail
  BY SortAssumption DEF Spelt
<1> HIDE DEF end, x
<1> QED
  BY <1>1, <1>2, <1>3, <1>4, <1>5, <1>6, UnsetAllowed

\* The variable of a by-name argument is found.
LEMMA ByNameFoundRef ==
    ASSUME RefInv, ByNameFound
    PROVE  RefRest' /\ Promise!ByName
<1> DEFINE x == Found(op.word)
           end == Node(op.word, cur)
<1>1. /\ op.kind = "byname" /\ x # Nil /\ ~IsLink(x)
      /\ cur' = op.origin /\ op' = [op EXCEPT !.kind = "argument"]
      /\ UNCHANGED <<frames, stack, var, callFrameEpoch, result>>
  BY DEF ByNameFound, Reached, Accessing
<1>2. /\ Inv /\ op.word \in Words /\ op.was = 0 /\ op.kind # "idle" /\ Request.kind = "byname"
      /\ end \in ChainOf(Scopes, Request.target) /\ Asks(frames, var, op) /\ op \in OpType
  BY <1>1, ComeTo, RefGives, InvGives
<1>3. /\ op'.kind = "argument" /\ op'.asked = op.asked /\ op'.origin = op.origin
      /\ op'.val = op.val /\ op'.name = op.name /\ op'.target = op.target
      /\ op'.tframe = op.tframe /\ op'.was = 0
  BY <1>1, <1>2 DEF OpType
<1>4. Scopes' = Scopes /\ StaticValues' = StaticValues
  BY <1>1, <1>2, <1>3, ScopesKept
<1>5. ~Linked(Scopes, end) /\ (Tabled(Scopes, end) \/ StaticIn(Scopes, end))
  BY <1>1, <1>2, WordIs
<1>6. Asks(frames, var', op') /\ Answers(Scopes', cur', op')
  BY <1>1, <1>2, <1>3 DEF Asks, Answers, LinkKinds
<1>7. RefRest' /\ Current' = Current
  BY <1>1, <1>2, <1>3, <1>6, GoingOn
<1>8. Request' = [Request EXCEPT !.kind = "upvar"]
  <2>1. Request = RequestOf(op) /\ Request' = RequestOf(op')
    BY NextState
  <2> QED
    BY <2>1, <1>1, <1>3 DEF RequestOf
<1> HIDE DEF end, x
<1> QED
  BY <1>1, <1>2, <1>4, <1>5, <1>7, <1>8, ByNameAllowed DEF Scripts
---------------------------------------------------------------------------
(* Steps that write *)

\* The structure of an entry is in no other entry and is not static.
LEMMA EntryApart ==
    ASSUME Inv, NEW g \in 1 .. Len(frames), NEW b \in DOMAIN frames[g].vars
    PROVE  /\ frames[g].vars[b] \in VarIds /\ b \in Bases
           /\ \A f \in 1 .. Len(frames) : \A a \in DOMAIN frames[f].vars :
                 ~(f = g /\ a = b) => frames[f].vars[a] # frames[g].vars[b]
           /\ \A a \in DOMAIN Statics : Statics[a] # frames[g].vars[b]
<1>1. frames \in Seq(FrameType) /\ InTable(frames, var) /\ Apart(frames)
  BY InvGives DEF Heap, Owned
<1>2. frames[g].vars[b] \in VarIds /\ b \in Bases
  BY <1>1, FramesAre
<1> QED
  BY <1>1, <1>2 DEF InTable, Apart

\* The structure x is given contents; it is the entry b of the frame g.
Stores(x, obj, link) ==
    /\ frames' = frames /\ op'.was = 0
    /\ Spelt(var'[x].obj) = obj /\ var'[x].link = link
    /\ \A y \in VarIds : y # x => var'[y] = var[y]
StoredIn(x, g, b) ==
    /\ g \in 1 .. Len(frames) /\ b \in DOMAIN frames[g].vars /\ x = frames[g].vars[b]
    /\ op.was = 0 \/ <<g, b>> = Node(op.name, op.origin)

\* The contents of an entry are written.
LEMMA StoreSeen ==
    ASSUME Inv, NEW x, NEW g, NEW b, NEW obj, NEW link,
           StoredIn(x, g, b), Stores(x, obj, link)
    PROVE  /\ Scopes' = Put(Scopes, <<g, b>>, [obj |-> obj, link |-> link])
           /\ StaticValues' = StaticValues
<1> DEFINE c == [obj |-> obj, link |-> link]
<1> USE DEF Stores, StoredIn
<1>1. frames \in Seq(FrameType)
  BY InvGives
<1>2. SameShape(frames, frames) /\ DOMAIN frames[g].vars = DOMAIN frames[g].vars \cup {b}
  BY DEF SameShape
<1>3. /\ \A f \in 1 .. Len(frames) : \A a \in DOMAIN frames[f].vars :
            ~(f = g /\ a = b) => frames[f].vars[a] # x
      /\ \A a \in DOMAIN Statics : Statics[a] # x
  BY EntryApart
<1>4. \A f \in 1 .. Len(frames) : \A a \in DOMAIN frames[f].vars : frames[f].vars[a] \in VarIds
  BY EntryApart
<1>5. SeenIn(frames, var', op', g, b) = c
  BY DEF SeenIn
<1> HIDE DEF c
<1>6. \A f \in 1 .. Len(frames) : \A a \in DOMAIN frames[f].vars :
         ~(f = g /\ a = b) => SeenIn(frames, var', op', f, a) = SeenIn(frames, var, op, f, a)
  BY <1>3, <1>4 DEF SeenIn
<1>7. ScopesIn(frames, var', op') = Put(ScopesIn(frames, var, op), <<g, b>>, c)
  BY <1>1, <1>2, <1>5, <1>6, PutIs
<1>8. Scopes' = Put(Scopes, <<g, b>>, c)
  BY <1>7, ScopesIs
<1>9. StaticValues' = StaticValues
  <2>1. \A a \in DOMAIN Statics : var'[Statics[a]] = var[Statics[a]]
    BY <1>3, StaticsAssumption
  <2> QED
    BY <2>1, NextState DEF StaticValues
<1> QED
  BY <1>8, <1>9 DEF c

\* A variable is created.
LEMMA AddSeen ==
    ASSUME Inv, op.was = 0, op'.was = 0, NEW w \in Words, Found(w) = Nil, NEW x \in VarIds,
           NEW obj, NEW link, AddVar(w, x, obj, link)
    PROVE  /\ Scopes' = Put(Scopes, Node(w, cur), [obj |-> Spelt(obj), link |-> link])
           /\ StaticValues' = StaticValues
           /\ SameShape(frames, frames')
<1> DEFINE g == FrameOf(w, cur)
           b == NameOf[w]
           c == [obj |-> Spelt(obj), link |-> link]
           t == [a \in DOMAIN frames[g].vars \cup {b} |-> IF a = b THEN x ELSE frames[g].vars[a]]
<1>1. /\ frames \in Seq(FrameType) /\ Len(frames) \in Nat /\ cur \in 1 .. Len(frames)
      /\ var \in [VarIds -> Var] /\ Parents(frames) /\ Heap(frames, var)
  BY InvGives
<1>2. g \in 1 .. Len(frames) /\ b \in Bases /\ LookupIn(frames, w, cur) = Nil
  <2>1. Found(w) = LookupIn(frames, w, cur)
    BY Resolves
  <2> QED
    BY <2>1, <1>1, LookupIs
<1>3. /\ ~var[x].used /\ var' = [var EXCEPT ![x] = NewVar(obj, link)]
      /\ frames' = [frames EXCEPT ![g].vars = t]
  BY DEF AddVar
<1>4. /\ var'[x].obj = obj /\ var'[x].link = link
      /\ \A y \in VarIds : y # x => var'[y] = var[y]
  BY <1>1, <1>3 DEF NewVar
<1>5. b \notin DOMAIN frames[g].vars /\ t \in Tables
  <2>1. /\ DOMAIN frames[g].vars \in SUBSET Bases
        /\ \A a \in DOMAIN frames[g].vars : frames[g].vars[a] \in VarIds
    BY <1>1, <1>2, FramesAre
  <2>2. b \notin DOMAIN frames[g].vars
    BY <2>1, <1>2, SortAssumption DEF LookupIn
  <2> DEFINE D == DOMAIN frames[g].vars \cup {b}
  <2>3. D \in SUBSET Bases /\ t \in [D -> VarIds]
    BY <2>1, <1>2
  <2> QED
    BY <2>2, <2>3, TableIs
<1>6. /\ DOMAIN t = DOMAIN frames[g].vars \cup {b} /\ t[b] = x
      /\ \A a \in DOMAIN frames[g].vars : t[a] = frames[g].vars[a]
  BY <1>5
<1> HIDE DEF t
<1>7. Changed(frames, frames', g, t, frames[g].id)
  BY <1>1, <1>2, <1>3, <1>5, FramesAre, FrameChange
<1>8. /\ frames' \in Seq(FrameType) /\ SameShape(frames, frames')
      /\ frames'[g].vars = t /\ \A f \in 1 .. Len(frames) : f # g => frames'[f] = frames[f]
  BY <1>7 DEF Changed, SameShape
<1>9. /\ \A f \in 1 .. Len(frames) : \A a \in DOMAIN frames[f].vars :
            frames[f].vars[a] # x /\ frames[f].vars[a] \in VarIds
      /\ \A a \in DOMAIN Statics : Statics[a] # x /\ Statics[a] \in VarIds
  BY <1>1, <1>3, FramesAre, StaticsAssumption DEF Heap, Owned, InTable, StaticsKept
<1>10. SeenIn(frames', var', op', g, b) = c
  BY <1>4, <1>6, <1>8 DEF SeenIn
<1> HIDE DEF c
<1>11. \A f \in 1 .. Len(frames) : \A a \in DOMAIN frames[f].vars :
         ~(f = g /\ a = b) => SeenIn(frames', var', op', f, a) = SeenIn(frames, var, op, f, a)
  <2> SUFFICES ASSUME NEW f \in 1 .. Len(frames), NEW a \in DOMAIN frames[f].vars
               PROVE  SeenIn(frames', var', op', f, a) = SeenIn(frames, var, op, f, a)
    OBVIOUS
  <2>1. frames'[f].vars[a] = frames[f].vars[a]
    BY <1>6, <1>8
  <2>2. var'[frames[f].vars[a]] = var[frames[f].vars[a]]
    BY <1>4, <1>9
  <2> QED
    BY <2>1, <2>2 DEF SeenIn
<1>12. ScopesIn(frames', var', op') = Put(ScopesIn(frames, var, op), <<g, b>>, c)
  <2>1. /\ \A f \in 1 .. Len(frames) : f # g => DOMAIN frames'[f].vars = DOMAIN frames[f].vars
        /\ DOMAIN frames'[g].vars = DOMAIN frames[g].vars \cup {b}
    BY <1>6, <1>8
  <2> QED
    BY <2>1, <1>1, <1>2, <1>8, <1>10, <1>11, PutIs
<1>13. Scopes' = Put(Scopes, Node(w, cur), c)
  BY <1>12, ScopesIs DEF Node
<1>14. StaticValues' = StaticValues
  BY <1>4, <1>9, NextState DEF StaticValues
<1> QED
  BY <1>8, <1>13, <1>14 DEF c

\* A write to a variable that is in a table, or is static.
LEMMA SetFoundRef ==
    ASSUME RefInv, SetFound
    PROVE  RefRest' /\ Promise!Set
<1> DEFINE x == Found(op.word)
           end == Node(op.word, cur)
           g == FrameOf(op.word, cur)
           b == NameOf[op.word]
<1>1. /\ op.kind = "set" /\ x # Nil /\ ~IsLink(x) /\ Finish(Done)
      /\ var' = [var EXCEPT ![x].obj = op.val]
      /\ UNCHANGED <<frames, stack, callFrameEpoch>>
  BY DEF SetFound, Reached, Accessing
<1>2. /\ Inv /\ op.word \in Words /\ op.was = 0 /\ op.kind # "idle" /\ Request.kind = "set"
      /\ Request.val = op.val /\ end \in ChainOf(Scopes, Request.node)
  BY <1>1, ComeTo
<1>3. /\ frames \in Seq(FrameType) /\ var \in [VarIds -> Var] /\ cur \in 1 .. Len(frames)
      /\ Heap(frames, var) /\ op.val \in Vals
  BY <1>1, <1>2, InvGives DEF Busy
<1>4. /\ RefRest' /\ Request' = Promise!NoRequest /\ Current' = Current /\ op'.was = 0
      /\ result' = Done
  BY <1>1, <1>2, Finishing DEF SameShape
<1>5. ~Linked(Scopes, end)
  BY <1>1, <1>2, WordIs
<1>6. Spelt(Done) = Done /\ Spelt(op.val) = op.val
  BY <1>3, SortAssumption DEF Spelt
<1>7. x \in VarIds
  BY <1>1, <1>2, FoundIs
<1>8. /\ var'[x].obj = op.val /\ var'[x].link = 0
      /\ \A y \in VarIds : y # x => var'[y] = var[y]
  BY <1>1, <1>3, <1>7 DEF Var, IsLink
<1>9. g \in 1 .. Len(frames) /\ end = <<g, b>> /\ end[2] = b
  BY <1>2, <1>3, NodeOf
<1>10. CASE b \in DOMAIN frames[g].vars
  <2>1. x = frames[g].vars[b] /\ ~StaticIn(Scopes, end)
    BY <1>2, <1>10, WordIs
  <2> HIDE DEF x, g, b, end
  <2>2. StoredIn(x, g, b)
    BY <2>1, <1>2, <1>9, <1>10 DEF StoredIn
  <2>3. Stores(x, op.val, 0)
    BY <1>1, <1>4, <1>6, <1>8 DEF Stores
  <2>4. /\ Scopes' = Put(Scopes, <<g, b>>, [obj |-> op.val, link |-> 0])
        /\ StaticValues' = StaticValues
    BY <2>2, <2>3, <1>2, StoreSeen
  <2> QED
    BY <2>1, <2>4, <1>1, <1>2, <1>4, <1>5, <1>6, <1>9, SetAllowed
<1>11. CASE b \notin DOMAIN frames[g].vars
  <2>1. StaticIn(Scopes, end) /\ b \in DOMAIN Statics /\ x = Statics[b]
    BY <1>1, <1>2, <1>11, WordIs
  <2> HIDE DEF x, g, b, end
  <2>2. Scopes' = Scopes
    <3>1. \A f \in 1 .. Len(frames) : \A a \in DOMAIN frames[f].vars :
             frames[f].vars[a] # x /\ frames[f].vars[a] \in VarIds
      BY <1>3, <2>1, FramesAre DEF Heap, Owned, InTable
    <3>2. \A f \in 1 .. Len(frames) : \A a \in DOMAIN frames[f].vars :
             SeenIn(frames, var', op', f, a) = SeenIn(frames, var, op, f, a)
      BY <3>1, <1>2, <1>4, <1>8 DEF SeenIn
    <3>3. SameShape(frames, frames)
      BY DEF SameShape
    <3>4. ScopesIn(frames, var', op') = ScopesIn(frames, var, op)
      BY <3>2, <3>3, <1>3, ScopesSame
    <3> QED
      BY <3>4, <1>1, ScopesIs
  <2>3. StaticValues' = [StaticValues EXCEPT ![b] = op.val]
    <3>1. \A a \in DOMAIN Statics :
             Spelt(var'[Statics[a]].obj) = IF a = b THEN op.val ELSE Spelt(var[Statics[a]].obj)
      BY <2>1, <1>6, <1>8, StaticsAssumption
    <3>2. StaticValues' = [a \in DOMAIN Statics |-> Spelt(var'[Statics[a]].obj)]
      BY NextState
    <3> QED
      BY <3>1, <3>2, <2>1 DEF StaticValues
  <2> QED
    BY <2>1, <2>2, <2>3, <1>1, <1>2, <1>4, <1>5, <1>6, <1>9, SetAllowed
<1> QED
  BY <1>10, <1>11

\* A write to a variable that does not exist.
LEMMA SetMissingRef ==
    ASSUME RefInv, SetMissing
    PROVE  RefRest' /\ Promise!Set
<1> DEFINE end == Node(op.word, cur)
<1>1. /\ op.kind = "set" /\ Found(op.word) = Nil /\ Finish(Done)
      /\ UNCHANGED <<stack, callFrameEpoch>>
      /\ \E x \in VarIds : AddVar(op.word, x, op.val, 0)
  BY DEF SetMissing, Accessing
<1>2. /\ Inv /\ op.word \in Words /\ op.was = 0 /\ op.kind # "idle" /\ Request.kind = "set"
      /\ Request.val = op.val /\ end \in ChainOf(Scopes, Request.node)
  BY <1>1, ComeTo
<1>3. PICK x \in VarIds : AddVar(op.word, x, op.val, 0)
  BY <1>1
<1>4. op'.was = 0
  BY <1>1 DEF Finish, Idle
<1>5. /\ Scopes' = Put(Scopes, end, [obj |-> Spelt(op.val), link |-> 0])
      /\ StaticValues' = StaticValues /\ SameShape(frames, frames')
  BY <1>1, <1>2, <1>3, <1>4, AddSeen
<1>6. /\ RefRest' /\ Request' = Promise!NoRequest /\ Current' = Current /\ result' = Done
  BY <1>1, <1>2, <1>5, Finishing
<1>7. ~Linked(Scopes, end) /\ ~StaticIn(Scopes, end)
  BY <1>1, <1>2, WordIs
<1>8. Spelt(Done) = Done /\ Spelt(op.val) = op.val
  BY <1>1, <1>2, InvGives, SortAssumption DEF Spelt, Busy
<1> HIDE DEF end
<1> QED
  BY <1>1, <1>2, <1>5, <1>6, <1>7, <1>8, SetAllowed

\* An unset of a variable that is in a table.
LEMMA UnsetFoundRef ==
    ASSUME RefInv, UnsetFound
    PROVE  RefRest' /\ Promise!Unset
<1> DEFINE x == Found(op.word)
           end == Node(op.word, cur)
           g == FrameOf(op.word, cur)
           b == NameOf[op.word]
           t == [a \in DOMAIN frames[g].vars \ {b} |-> frames[g].vars[a]]
<1>1. /\ op.kind = "unset" /\ x # Nil /\ ~IsLink(x) /\ Finish(Done)
      /\ b \in DOMAIN frames[g].vars
      /\ var' = [var EXCEPT ![frames[g].vars[b]] = NoVar]
      /\ frames' = [frames EXCEPT ![g] = [[frames[g] EXCEPT !.vars = t] EXCEPT !.id = callFrameEpoch]]
      /\ stack' = stack
  BY DEF UnsetFound, Reached, Accessing, Renumbered
<1>2. /\ Inv /\ op.word \in Words /\ op.was = 0 /\ op.kind # "idle" /\ Request.kind = "unset"
      /\ end \in ChainOf(Scopes, Request.node)
  BY <1>1, ComeTo
<1>3. /\ frames \in Seq(FrameType) /\ var \in [VarIds -> Var] /\ cur \in 1 .. Len(frames)
      /\ callFrameEpoch \in Nat
  BY <1>2, InvGives
<1>4. op'.was = 0
  BY <1>1 DEF Finish, Idle
<1>5. ~Linked(Scopes, end) /\ Tabled(Scopes, end)
  BY <1>1, <1>2, WordIs
<1>6. Spelt(Done) = Done
  BY SortAssumption DEF Spelt
<1>7. g \in 1 .. Len(frames) /\ end = <<g, b>>
  BY <1>2, <1>3, NodeOf
<1> HIDE DEF x, g, b, end
<1>8. /\ \A f \in 1 .. Len(frames) : \A a \in DOMAIN frames[f].vars :
            ~(f = g /\ a = b) => frames[f].vars[a] # frames[g].vars[b]
      /\ \A a \in DOMAIN Statics : Statics[a] # frames[g].vars[b]
      /\ \A f \in 1 .. Len(frames) : \A a \in DOMAIN frames[f].vars : frames[f].vars[a] \in VarIds
      /\ frames[g].vars[b] \in VarIds
  BY <1>1, <1>2, <1>7, EntryApart
<1>9. \A y \in VarIds : y # frames[g].vars[b] => var'[y] = var[y]
  BY <1>1, <1>3
<1>10. t \in Tables
  <2> DEFINE D == DOMAIN frames[g].vars \ {b}
  <2>1. D \in SUBSET Bases /\ t \in [D -> VarIds]
    BY <1>2, <1>3, <1>7, <1>8, FramesAre
  <2> QED
    BY <2>1, TableIs
<1>11. DOMAIN t = DOMAIN frames[g].vars \ {b} /\ \A a \in DOMAIN t : t[a] = frames[g].vars[a]
  OBVIOUS
<1> HIDE DEF t
<1>12. Changed(frames, frames', g, t, callFrameEpoch)
  BY <1>1, <1>3, <1>7, <1>10, FrameChange
<1>13. /\ frames' \in Seq(FrameType) /\ SameShape(frames, frames')
       /\ frames'[g].vars = t /\ \A f \in 1 .. Len(frames) : f # g => frames'[f] = frames[f]
  BY <1>12 DEF Changed, SameShape
<1>14. \A f \in 1 .. Len(frames) : \A a \in DOMAIN frames[f].vars :
         ~(f = g /\ a = b) => SeenIn(frames', var', op', f, a) = SeenIn(frames, var, op, f, a)
  <2> SUFFICES ASSUME NEW f \in 1 .. Len(frames), NEW a \in DOMAIN frames[f].vars, ~(f = g /\ a = b)
               PROVE  SeenIn(frames', var', op', f, a) = SeenIn(frames, var, op, f, a)
    OBVIOUS
  <2>1. frames'[f].vars[a] = frames[f].vars[a]
    BY <1>11, <1>13
  <2>2. var'[frames[f].vars[a]] = var[frames[f].vars[a]]
    BY <1>8, <1>9
  <2> QED
    BY <2>1, <2>2, <1>2, <1>4 DEF SeenIn
<1>15. ScopesIn(frames', var', op') = Taken(ScopesIn(frames, var, op), <<g, b>>)
  <2>1. /\ \A f \in 1 .. Len(frames) : f # g => DOMAIN frames'[f].vars = DOMAIN frames[f].vars
        /\ DOMAIN frames'[g].vars = DOMAIN frames[g].vars \ {b}
    BY <1>11, <1>13
  <2> QED
    BY <2>1, <1>3, <1>7, <1>13, <1>14, TakenIs
<1>16. Scopes' = Taken(Scopes, end)
  BY <1>7, <1>15, ScopesIs
<1>17. StaticValues' = StaticValues
  BY <1>8, <1>9, NextState, StaticsAssumption DEF StaticValues
<1>18. /\ RefRest' /\ Request' = Promise!NoRequest /\ Current' = Current /\ result' = Done
  BY <1>1, <1>2, <1>13, Finishing
<1> QED
  BY <1>1, <1>2, <1>5, <1>6, <1>16, <1>17, <1>18, UnsetAllowed
---------------------------------------------------------------------------
(* Calls *)

\* The callers of a frame are those of its scope.
LEMMA CallersSeen ==
    ASSUME Inv
    PROVE  \A f : CallersIn(Scopes, f) = CallersIn(frames, f)
<1>1. frames \in Seq(FrameType) /\ DOMAIN frames = 1 .. Len(frames)
  BY InvGives
<1>2. DOMAIN Scopes = DOMAIN frames /\ \A f \in DOMAIN frames : Scopes[f].parent = frames[f].parent
  <2>1. DOMAIN ScopesIn(frames, var, op) = DOMAIN frames
        /\ \A f \in DOMAIN frames : ScopesIn(frames, var, op)[f] = ScopeIn(frames, var, op, f)
    BY <1>1, ScopeAt
  <2> QED
    BY <2>1, ScopesIs DEF ScopeIn
<1> QED
  BY <1>2 DEF CallersIn

\* A frame and a scope are pushed.
LEMMA EnterSeen ==
    ASSUME RefInv, op = Idle, op'.was = 0, NEW statics \in BOOLEAN, Enter(statics), var' = var
    PROVE  /\ Scopes' = Append(Scopes, Promise!NewScope(Current, Scopes[Current].level + 1, statics))
           /\ StaticValues' = StaticValues /\ Len(Scopes) = Len(frames)
           /\ stack' = Append(stack, [kind |-> "call", saved |-> 0])
           /\ Returns(frames', stack', Len(frames) + 1)
<1> DEFINE n == Len(frames)
           nf == Frame(callFrameEpoch, cur, frames[cur].level + 1, statics)
           en == [kind |-> "call", saved |-> 0]
<1>1. /\ Inv /\ frames \in Seq(FrameType) /\ stack \in Seq(Entry) /\ n \in Nat /\ cur \in 1 .. n
      /\ callFrameEpoch \in Nat /\ Parents(frames) /\ Stacked(frames, stack)
      /\ Current = cur /\ op.was = 0 /\ Returns(frames, stack, Current)
  BY RefGives, InvGives DEF Idle
<1>2. frames' = Append(frames, nf) /\ stack' = Append(stack, en)
  BY DEF Enter
<1>3. nf \in FrameType /\ nf.parent = cur
  <2> DEFINE l == frames[cur].level + 1
  <2>1. cur \in Nat /\ l \in Nat /\ l >= 1
    BY <1>1, FramesAre
  <2> HIDE DEF l
  <2>2. LET fr == Frame(callFrameEpoch, cur, l, statics) IN fr \in FrameType /\ fr.parent = cur
    BY <2>1, <1>1, FrameIs
  <2> QED
    BY <2>2 DEF l
<1>4. /\ frames' \in Seq(FrameType) /\ Len(frames') = n + 1
      /\ \A f \in 1 .. n : frames'[f] = frames[f]
      /\ frames'[n + 1] = nf
  <2> HIDE DEF nf, n
  <2> QED
    BY <1>1, <1>2, <1>3, AppendAt, AppendLast DEF n
<1>5. \A f \in 1 .. n : ScopeIn(frames', var', op', f) = ScopeIn(frames, var, op, f)
  <2> SUFFICES ASSUME NEW f \in 1 .. n
               PROVE  ScopeIn(frames', var, op', f) = ScopeIn(frames, var, op, f)
    OBVIOUS
  <2>1. frames'[f] = frames[f]
    BY <1>4
  <2>2. \A b \in DOMAIN frames[f].vars : SeenIn(frames', var, op', f, b) = SeenIn(frames, var, op, f, b)
    BY <2>1, <1>1 DEF SeenIn
  <2> QED
    BY <2>1, <2>2, ScopeSame
<1>6. Scopes' = Append(Scopes, ScopeIn(frames', var', op', n + 1))
  <2>1. ScopesIn(frames', var', op')
          = Append(ScopesIn(frames, var, op), ScopeIn(frames', var', op', n + 1))
    <3>1. frames' \in Seq(FrameType) /\ Len(frames') = Len(frames) + 1
      BY <1>4
    <3>2. frames \in Seq(FrameType)
      BY <1>1
    <3>3. \A f \in 1 .. Len(frames) : ScopeIn(frames', var', op', f) = ScopeIn(frames, var, op, f)
      BY <1>5
    <3> HIDE DEF nf, en
    <3> QED
      BY <3>1, <3>2, <3>3, ScopesGrow
  <2> QED
    BY <2>1, ScopesIs
<1>7. ScopeIn(frames', var', op', n + 1) = Promise!NewScope(cur, frames[cur].level + 1, statics)
  BY <1>4, NewScopeIs
<1>8. Scopes[cur].level = frames[cur].level /\ Len(Scopes) = Len(frames)
  <2>1. ScopesIn(frames, var, op)[cur] = ScopeIn(frames, var, op, cur)
    BY <1>1, ScopeAt
  <2>2. Len(ScopesIn(frames, var, op)) = Len(frames)
    BY <1>1, ScopesAre
  <2> QED
    BY <2>1, <2>2, ScopesIs DEF ScopeIn
<1>9. en \in Entry /\ en.kind = "call"
  BY DEF Entry
<1>10. Returns(frames', stack', n + 1)
  <2>1. \A f \in 1 .. n : frames'[f].parent = frames[f].parent
    BY <1>4
  <2>2. frames'[n + 1].parent = Current
    BY <1>1, <1>3, <1>4
  <2> HIDE DEF en, nf
  <2> QED
    BY <2>1, <2>2, <1>1, <1>2, <1>4, <1>9, ReturnsAppend
<1>11. StaticValues' = StaticValues
  BY NextState DEF StaticValues
<1> QED
  BY <1>1, <1>2, <1>6, <1>7, <1>8, <1>10, <1>11

\* A call with arguments by value.
LEMMA CallRef ==
    ASSUME RefInv, NEW statics \in BOOLEAN, Call(statics)
    PROVE  RefRest' /\ Promise!Call(statics)
<1>1. /\ op = Idle /\ Enter(statics) /\ cur' = Len(frames) + 1
      /\ var' = var /\ op' = op /\ result' = result
  BY DEF Call, Running
<1>2. op'.was = 0 /\ Request = Promise!NoRequest
  BY <1>1, RefGives DEF Idle
<1>3. /\ Scopes' = Append(Scopes, Promise!NewScope(Current, Scopes[Current].level + 1, statics))
      /\ StaticValues' = StaticValues /\ Len(Scopes) = Len(frames)
      /\ stack' = Append(stack, [kind |-> "call", saved |-> 0])
      /\ Returns(frames', stack', Len(frames) + 1)
  BY <1>1, <1>2, EnterSeen
<1>4. Current' = Len(frames) + 1 /\ Request' = Request
  BY <1>1, NextState
<1>5. Promise!Call(statics)
  <2>1. Promise!Enter(statics)
    BY <1>2, <1>3, <1>4, EnterAllowed
  <2> QED
    BY <2>1, <1>1, <1>3, <1>4, CallAllowed
<1>6. Asks(frames', var', op') /\ Answers(Scopes', cur', op')
  BY <1>1 DEF Asks, Answers, Idle, LinkKinds
<1> QED
  BY <1>3, <1>4, <1>5, <1>6 DEF RefRest

\* A call with an argument by name.
LEMMA CallByNameRef ==
    ASSUME RefInv, NEW n \in Words, NEW t \in Words, CallByName(n, t)
    PROVE  /\ RefRest' /\ Promise!CallByName(NameOf[n], Node(t, cur))
           /\ NameOf[n] \in Bases /\ Node(t, cur) \in Promise!Visible
<1>1. /\ op = Idle /\ Enter(FALSE) /\ ~IsGlobal[n]
      /\ cur' = cur /\ var' = var /\ result' = result
      /\ op' = [Idle EXCEPT !.kind = "byname", !.asked = n, !.word = t, !.name = n,
                            !.origin = Len(frames) + 1, !.target = t, !.tframe = cur]
  BY DEF CallByName, Running
<1>2. /\ op'.kind = "byname" /\ op'.asked = n /\ op'.word = t /\ op'.name = n
      /\ op'.origin = Len(frames) + 1 /\ op'.target = t /\ op'.tframe = cur
      /\ op'.val = Nil /\ op'.was = 0
  BY <1>1 DEF Idle
<1>3. /\ Inv /\ cur \in 1 .. Len(frames) /\ Current = cur /\ Request = Promise!NoRequest
      /\ Len(frames) \in Nat
  BY <1>1, RefGives, InvGives
<1>4. /\ Scopes' = Append(Scopes, Promise!NewScope(Current, Scopes[Current].level + 1, FALSE))
      /\ StaticValues' = StaticValues /\ Len(Scopes) = Len(frames)
      /\ stack' = Append(stack, [kind |-> "call", saved |-> 0])
      /\ Returns(frames', stack', Len(frames) + 1)
  BY <1>1, <1>2, EnterSeen
<1>5. Current' = Len(frames) + 1
  <2>1. op' # Idle
    BY <1>2 DEF Idle
  <2> QED
    BY <2>1, <1>2, NextState
<1>6. Request' = [kind |-> "byname", node |-> <<Len(Scopes) + 1, NameOf[n]>>, val |-> Nil,
                  target |-> Node(t, cur)]
  <2>1. Request' = RequestOf(op')
    BY NextState
  <2>2. n # Nil /\ t # Nil
    BY SortAssumption
  <2>3. Node(n, Len(frames) + 1) = <<Len(frames) + 1, NameOf[n]>>
    BY <1>1 DEF Node, FrameOf
  <2> QED
    BY <2>1, <2>2, <2>3, <1>2, <1>4 DEF RequestOf
<1>7. Promise!CallByName(NameOf[n], Node(t, cur))
  <2>1. Promise!Enter(FALSE)
    BY <1>3, <1>4, <1>5, EnterAllowed
  <2> QED
    BY <2>1, <1>1, <1>4, <1>6, CallByNameAllowed
<1>8. Node(t, cur) \in NodesOf(Scopes) /\ Node(t, cur)[1] \in {1, cur} /\ NameOf[n] \in Bases
  BY <1>3, NodeOf
<1>9. Node(t, cur) \in Promise!Visible
  BY <1>1, <1>8, PromiseIs DEF Promise!Visible
<1>10. Asks(frames', var', op')
  BY <1>2 DEF Asks, LinkKinds
<1>11. Answers(Scopes', cur', op')
  <2>1. Node(t, cur) \in NodesOf(Scopes')
    <3>1. frames' \in Seq(FrameType) /\ Len(frames') = Len(frames) + 1
      BY <1>1, <1>3, EnterStep, InvGives
    <3>2. DOMAIN Scopes' = 1 .. Len(frames) + 1
      BY <3>1, ScopesIs, ScopeAt
    <3>3. DOMAIN Scopes = 1 .. Len(frames)
      BY <1>3, NodeOf
    <3> QED
      BY <3>2, <3>3, <1>3, <1>8 DEF NodesOf
  <2>2. Node(t, cur) \in ChainOf(Scopes', Node(t, cur))
    BY <2>1, ChainStart
  <2> QED
    BY <2>2, <1>1, <1>2 DEF Answers
<1> QED
  BY <1>4, <1>5, <1>7, <1>8, <1>9, <1>10, <1>11 DEF RefRest

\* The last frame and its scope are popped.
LEMMA LeaveSeen ==
    ASSUME RefInv, Ends(stack, "call"), Leave, op.was = 0, op'.was = 0,
           Current' = frames[Len(frames)].parent
    PROVE  Promise!Leave /\ Returns(frames', stack', Current')
<1> DEFINE n == Len(frames)
<1>1. /\ Inv /\ frames \in Seq(FrameType) /\ stack \in Seq(Entry) /\ n \in Nat
      /\ var \in [VarIds -> Var] /\ Parents(frames) /\ Stacked(frames, stack)
      /\ Identified(frames, callFrameEpoch) /\ callFrameEpoch \in Nat
      /\ Returns(frames, stack, Current)
  BY RefGives, InvGives
<1>2. frames' = Pop(frames) /\ stack' = Pop(stack) /\ var' = Freed(frames, var)
  BY DEF Leave, LastFrame, Freed
<1>3. stack # <<>> /\ stack[Len(stack)].kind = "call" /\ Current = n
  BY <1>1 DEF Ends, Returns
<1>4. n >= 2
  <2> DEFINE gr == SubSeq(frames, 1, n - 1)
  <2>1. n >= 1
    BY <1>1 DEF Parents
  <2>2. Len(gr) = n - 1
    BY <2>1, <1>1, FrontProperties
  <2> HIDE DEF gr, n
  <2> QED
    BY <2>2, <1>1, <1>3, StackedPop DEF n
<1>5. /\ frames' \in Seq(FrameType) /\ Len(frames') = n - 1
      /\ \A f \in 1 .. n - 1 : frames'[f] = frames[f]
  BY <1>1, <1>2, <1>4, FramesPop
<1>6. ASSUME NEW x \in VarIds, \A b \in DOMAIN frames[n].vars : frames[n].vars[b] # x
      PROVE  var'[x] = var[x]
  BY <1>2, <1>6 DEF Freed
<1>7. ASSUME NEW f \in 1 .. n - 1
      PROVE  ScopeIn(frames', var', op', f) = ScopeIn(frames, var, op, f)
  <2>1. f \in 1 .. n /\ n \in 1 .. n /\ f # n /\ frames'[f] = frames[f]
    BY <1>4, <1>5
  <2>2. ASSUME NEW b \in DOMAIN frames[f].vars
        PROVE  var'[frames[f].vars[b]] = var[frames[f].vars[b]]
    <3>1. /\ frames[f].vars[b] \in VarIds
          /\ \A a \in DOMAIN frames[n].vars : frames[n].vars[a] # frames[f].vars[b]
      BY <2>1, <1>1, EntryApart
    <3> QED
      BY <3>1, <1>6
  <2>3. \A b \in DOMAIN frames[f].vars :
           SeenIn(frames', var', op', f, b) = SeenIn(frames, var, op, f, b)
    BY <2>1, <2>2 DEF SeenIn
  <2> QED
    BY <2>1, <2>3, ScopeSame
<1>8. Scopes' = SubSeq(Scopes, 1, Len(Scopes) - 1)
  <2>1. n = Len(frames') + 1 /\ \A f \in 1 .. Len(frames') :
           ScopeIn(frames', var', op', f) = ScopeIn(frames, var, op, f)
    BY <1>4, <1>5, <1>7
  <2>2. ScopesIn(frames', var', op')
          = SubSeq(ScopesIn(frames, var, op), 1, Len(ScopesIn(frames, var, op)) - 1)
    BY <2>1, <1>1, <1>5, ScopesShrink
  <2> QED
    BY <2>2, ScopesIs
<1>9. Len(Scopes) = n /\ Scopes[n].parent = frames[n].parent
  <2>1. Len(ScopesIn(frames, var, op)) = n
    BY <1>1, ScopesAre
  <2>2. ScopesIn(frames, var, op)[n] = ScopeIn(frames, var, op, n)
    BY <1>1, <1>4, ScopeAt
  <2> QED
    BY <2>1, <2>2, ScopesIs DEF ScopeIn
<1>10. StaticValues' = StaticValues
  <2>1. \A a \in DOMAIN Statics : var'[Statics[a]] = var[Statics[a]]
    <3>1. \A a \in DOMAIN Statics : \A b \in DOMAIN frames[n].vars : frames[n].vars[b] # Statics[a]
      BY <1>1, <1>4 DEF Heap, Owned, InTable, Inv
    <3> QED
      BY <3>1, <1>6, StaticsAssumption
  <2> QED
    BY <2>1, NextState DEF StaticValues
<1>11. Promise!Leave
  BY <1>2, <1>3, <1>8, <1>9, <1>10, LeaveAllowed
<1>12. Returns(frames', stack', Current')
  <2>1. /\ Len(frames') = n - 1 /\ \A f \in 1 .. Len(frames') : frames'[f].parent = frames[f].parent
    BY <1>5
  <2> HIDE DEF n
  <2> QED
    BY <2>1, <1>1, <1>2, <1>3, ReturnsPop DEF n
<1> QED
  BY <1>11, <1>12

\* A call ends.
LEMMA EndCallRef ==
    ASSUME RefInv, EndCall
    PROVE  RefRest' /\ Promise!EndCall
<1>1. /\ op = Idle /\ op' = op /\ result' = result /\ Leave /\ Ends(stack, "call")
      /\ cur' = frames[Len(frames)].parent
  BY Bridges DEF EndCall, Running, Leave, LastFrame
<1>2. op.was = 0 /\ op'.was = 0 /\ Request = Promise!NoRequest
  BY <1>1, RefGives DEF Idle
<1>3. Current' = frames[Len(frames)].parent /\ Request' = Request
  BY <1>1, NextState
<1>4. Promise!Leave /\ Returns(frames', stack', Current')
  BY <1>1, <1>2, <1>3, LeaveSeen
<1>5. Asks(frames', var', op') /\ Answers(Scopes', cur', op')
  BY <1>1 DEF Asks, Answers, Idle, LinkKinds
<1> QED
  BY <1>1, <1>2, <1>3, <1>4, <1>5, EndCallAllowed DEF RefRest

\* The variable of a by-name argument does not exist, and the call ends.
LEMMA ByNameMissingRef ==
    ASSUME RefInv, ByNameMissing
    PROVE  RefRest' /\ Promise!ByNameMissing
<1> DEFINE end == Node(op.word, cur)
<1>1. /\ op.kind = "byname" /\ Found(op.word) = Nil /\ Leave /\ op' = Idle /\ result' = Fail
      /\ cur' = frames[Len(frames)].parent
  BY DEF ByNameMissing, Accessing, Leave, LastFrame
<1>2. /\ Inv /\ op.word \in Words /\ op.was = 0 /\ Request.kind = "byname"
      /\ end \in ChainOf(Scopes, Request.target)
  BY <1>1, ComeTo
<1>3. Ends(stack, "call")
  BY <1>1, <1>2, InvGives DEF Busy
<1>4. op'.was = 0 /\ Current' = frames[Len(frames)].parent /\ Request' = Promise!NoRequest
  BY <1>1, NextState DEF Idle
<1>5. Promise!Leave /\ Returns(frames', stack', Current')
  BY <1>1, <1>2, <1>3, <1>4, LeaveSeen
<1>6. ~Linked(Scopes, end) /\ ~Tabled(Scopes, end) /\ ~StaticIn(Scopes, end)
  BY <1>1, <1>2, WordIs
<1>7. Spelt(result') = Fail
  BY <1>1, SortAssumption DEF Spelt
<1>8. Asks(frames', var', op') /\ Answers(Scopes', cur', op')
  BY <1>1 DEF Asks, Answers, Idle, LinkKinds
<1> HIDE DEF end
<1> QED
  BY <1>2, <1>4, <1>5, <1>6, <1>7, <1>8, ByNameMissingAllowed DEF RefRest

\* [uplevel] begins.
LEMMA UplevelRef ==
    ASSUME RefInv, NEW g, Uplevel(g)
    PROVE  RefRest' /\ Promise!Uplevel(g) /\ g \in DOMAIN Scopes
<1> DEFINE en == [kind |-> "uplevel", saved |-> cur]
<1>1. /\ op = Idle /\ g \in Callers(cur) /\ cur' = g /\ stack' = Append(stack, en)
      /\ UNCHANGED <<frames, var, callFrameEpoch, cache, op, result>>
  BY DEF Uplevel, Running
<1>2. /\ Inv /\ Current = cur /\ Request = Promise!NoRequest /\ op.was = 0 /\ op'.was = 0
      /\ Returns(frames, stack, Current) /\ Stacked(frames, stack) /\ stack \in Seq(Entry)
      /\ cur \in 1 .. Len(frames) /\ Len(frames) \in Nat
  BY <1>1, RefGives, InvGives DEF Idle
<1>3. g \in CallersIn(Scopes, Current)
  BY <1>1, <1>2, CallersSeen, Bridges
<1>4. Scopes' = Scopes /\ StaticValues' = StaticValues
  BY <1>1, <1>2, ScopesKept
<1>5. Current' = g /\ Request' = Request
  BY <1>1, NextState
<1>6. Promise!Uplevel(g)
  BY <1>1, <1>2, <1>3, <1>4, <1>5, UplevelAllowed
<1>7. en \in Entry /\ en.kind = "uplevel" /\ en.saved = cur
  BY <1>2 DEF Entry
<1> HIDE DEF en
<1>8. Returns(frames', stack', Current')
  <2>1. \A f \in 1 .. Len(frames) : frames'[f].parent = frames[f].parent
    BY <1>1
  <2> QED
    BY <2>1, <1>1, <1>2, <1>5, <1>7, ReturnsAppend
<1>9. Asks(frames', var', op') /\ Answers(Scopes', cur', op')
  BY <1>1 DEF Asks, Answers, Idle, LinkKinds
<1>10. g \in DOMAIN Scopes
  BY <1>3 DEF CallersIn
<1> QED
  BY <1>6, <1>8, <1>9, <1>10 DEF RefRest

\* [uplevel] ends.
LEMMA EndUplevelRef ==
    ASSUME RefInv, EndUplevel
    PROVE  RefRest' /\ Promise!EndUplevel
<1>1. /\ op = Idle /\ Ends(stack, "uplevel") /\ cur' = stack[Len(stack)].saved /\ stack' = Pop(stack)
      /\ UNCHANGED <<frames, var, callFrameEpoch, cache, op, result>>
  BY Bridges DEF EndUplevel, Running
<1>2. /\ Inv /\ Current = cur /\ Request = Promise!NoRequest /\ op.was = 0 /\ op'.was = 0
      /\ Returns(frames, stack, Current) /\ Stacked(frames, stack) /\ stack \in Seq(Entry)
      /\ Len(frames) \in Nat
  BY <1>1, RefGives, InvGives DEF Idle
<1>3. Scopes' = Scopes /\ StaticValues' = StaticValues
  BY <1>1, <1>2, ScopesKept
<1>4. Current' = stack[Len(stack)].saved /\ Request' = Request
  BY <1>1, NextState
<1>5. Promise!EndUplevel
  BY <1>1, <1>2, <1>3, <1>4, EndUplevelAllowed
<1>6. Returns(frames', stack', Current')
  <2>1. stack # <<>> /\ stack[Len(stack)].kind = "uplevel"
    BY <1>1 DEF Ends
  <2>2. Len(frames') = Len(frames) - IF stack[Len(stack)].kind = "call" THEN 1 ELSE 0
    BY <2>1, <1>1, <1>2
  <2>3. \A f \in 1 .. Len(frames') : frames'[f].parent = frames[f].parent
    BY <1>1
  <2> QED
    BY <2>1, <2>2, <2>3, <1>1, <1>2, <1>4, ReturnsPop
<1>7. Asks(frames', var', op') /\ Answers(Scopes', cur', op')
  BY <1>1 DEF Asks, Answers, Idle, LinkKinds
<1> QED
  BY <1>5, <1>6, <1>7 DEF RefRest
---------------------------------------------------------------------------
(* Links *)

\* What is being linked to what.
LEMMA Linking ==
    ASSUME RefInv, op.kind \in {"upvar", "argument", "probe", "bind"}
    PROVE  /\ Inv /\ op.kind # "idle" /\ op.origin = cur /\ Current = cur
           /\ op.name \in Words /\ ~IsGlobal[op.name] /\ op.asked = op.name
           /\ FrameOf(op.name, cur) = cur /\ Node(op.name, cur) = <<cur, NameOf[op.name]>>
           /\ cur \in 1 .. Len(frames)
           /\ op.target \in Words /\ op.tframe \in 1 .. Len(frames)
           /\ FrameOf(op.target, op.tframe) \in 1 .. Len(frames)
           /\ Request.kind = "upvar" /\ Request.node = Node(op.name, cur)
           /\ Request.target = Node(op.target, op.tframe)
           /\ Scopes[Request.node[1]].level = frames[cur].level
           /\ Scopes[Request.target[1]].level = frames[FrameOf(op.target, op.tframe)].level
<1>1. /\ Inv /\ Avoids(frames, var, cur, op) /\ Asks(frames, var, op)
      /\ cur \in 1 .. Len(frames) /\ frames \in Seq(FrameType)
      /\ Current = op.origin
  BY RefGives, InvGives DEF CycleInv
<1>2. /\ op.name \in Words /\ op.target \in Words /\ op.tframe \in 1 .. Len(frames)
      /\ op.origin = cur /\ op.kind # "idle"
  BY <1>1, LinkEnds
<1>3. ~IsGlobal[op.name] /\ op.asked = op.name
  BY <1>1 DEF Avoids, Asks, LinkKinds
<1>4. /\ FrameOf(op.name, cur) = cur /\ Node(op.name, cur) = <<cur, NameOf[op.name]>>
      /\ FrameOf(op.target, op.tframe) \in 1 .. Len(frames)
      /\ Node(op.target, op.tframe)[1] = FrameOf(op.target, op.tframe)
      /\ Node(op.name, cur)[1] = cur
  <2>1. FrameOf(op.name, cur) = cur
    BY <1>3 DEF FrameOf
  <2>2. /\ FrameOf(op.target, op.tframe) \in 1 .. Len(frames)
        /\ Node(op.target, op.tframe)[1] = FrameOf(op.target, op.tframe)
    BY <1>1, <1>2, NodeOf
  <2> QED
    BY <2>1, <2>2 DEF Node
<1>5. /\ Request.kind = "upvar" /\ Request.node = Node(op.name, cur)
      /\ Request.target = Node(op.target, op.tframe)
  <2>1. op.name # Nil /\ op.target # Nil
    BY <1>2, SortAssumption
  <2>2. Request = RequestOf(op)
    BY NextState
  <2> QED
    BY <2>1, <2>2, <1>2, <1>3 DEF RequestOf
<1>6. \A f \in 1 .. Len(frames) : Scopes[f].level = frames[f].level
  <2> SUFFICES ASSUME NEW f \in 1 .. Len(frames) PROVE Scopes[f].level = frames[f].level
    OBVIOUS
  <2>1. ScopesIn(frames, var, op)[f] = ScopeIn(frames, var, op, f)
    BY <1>1, ScopeAt
  <2>2. ScopeIn(frames, var, op, f).level = frames[f].level
    BY DEF ScopeIn
  <2> QED
    BY <2>1, <2>2, ScopesIs
<1> QED
  BY <1>1, <1>2, <1>3, <1>4, <1>5, <1>6

\* A link is asked for.
LEMMA UpvarRef ==
    ASSUME RefInv, NEW n \in Words, NEW t \in Words, NEW tf, Upvar(n, t, tf)
    PROVE  /\ RefRest' /\ Promise!Ask("upvar", Node(n, cur), Nil, Node(t, tf))
           /\ Node(n, cur) \in Promise!Visible
           /\ Node(t, tf) \in Promise!Nodes /\ Node(t, tf)[1] \in Promise!Callers(Current)
<1>1. /\ op = Idle /\ frames' = frames /\ cur' = cur /\ stack' = stack /\ var' = var
      /\ result' = result /\ tf \in Callers(cur)
      /\ op' = [Idle EXCEPT !.kind = "upvar", !.asked = n, !.name = n, !.origin = cur,
                            !.target = t, !.tframe = tf]
  BY DEF Upvar, Running, scripts
<1>2. /\ op'.kind = "upvar" /\ op'.asked = n /\ op'.name = n /\ op'.origin = cur /\ op'.val = Nil
      /\ op'.target = t /\ op'.tframe = tf /\ op'.was = 0 /\ op.was = 0 /\ op' # Idle
  BY <1>1 DEF Idle
<1>3. /\ Inv /\ cur \in 1 .. Len(frames) /\ Current = cur /\ Request = Promise!NoRequest
      /\ Returns(frames, stack, Current) /\ frames \in Seq(FrameType) /\ Parents(frames)
  BY <1>1, RefGives, InvGives
<1>4. Scopes' = Scopes /\ StaticValues' = StaticValues
  BY <1>1, <1>2, <1>3, ScopesKept
<1>5. Current' = Current
  BY <1>2, <1>3, NextState
<1>6. tf \in CallersIn(frames, cur) /\ 1 \in CallersIn(frames, cur) /\ tf \in 1 .. Len(frames)
  BY <1>1, <1>3, Bridges, CallersAre, TopIsCaller
<1>7. /\ Node(n, cur) \in NodesOf(Scopes) /\ Node(n, cur)[1] \in {1, cur}
      /\ Node(t, tf) \in NodesOf(Scopes) /\ Node(t, tf)[1] \in {1, tf}
  <2>1. Node(n, cur) \in NodesOf(Scopes) /\ Node(n, cur)[1] \in {1, cur}
    BY <1>3, NodeOf
  <2>2. Node(t, tf) \in NodesOf(Scopes) /\ Node(t, tf)[1] \in {1, tf}
    BY <1>3, <1>6, NodeOf
  <2> QED
    BY <2>1, <2>2
<1>8. Request' = [kind |-> "upvar", node |-> Node(n, cur), val |-> Nil, target |-> Node(t, tf)]
  <2>1. Request' = RequestOf(op')
    BY NextState
  <2>2. n # Nil /\ t # Nil
    BY SortAssumption
  <2> QED
    BY <2>1, <2>2, <1>2 DEF RequestOf
<1>9. Node(n, cur) \in Promise!Visible /\ Node(t, tf) \in Promise!Nodes
  BY <1>1, <1>7, PromiseIs DEF Promise!Visible
<1>10. Node(t, tf)[1] \in Promise!Callers(Current)
  <2>1. Node(t, tf)[1] \in CallersIn(Scopes, cur)
    BY <1>3, <1>6, <1>7, CallersSeen
  <2> QED
    BY <2>1, <1>3 DEF Promise!Callers, CallersIn
<1>11. Promise!Ask("upvar", Node(n, cur), Nil, Node(t, tf))
  BY <1>1, <1>3, <1>4, <1>5, <1>8, AskAllowed DEF Scripts
<1>12. Asks(frames', var', op') /\ Answers(Scopes', cur', op')
  BY <1>2 DEF Asks, Answers, LinkKinds
<1> QED
  BY <1>1, <1>3, <1>5, <1>9, <1>10, <1>11, <1>12 DEF RefRest

\* The name is a variable already: it is not linked.
LEMMA LinkRefused ==
    ASSUME RefInv, op.kind \in {"upvar", "argument"}, Found(op.name) # Nil, ~IsLink(Found(op.name)),
           UNCHANGED <<frames, stack, var>>, Finish(Fail)
    PROVE  RefRest' /\ Promise!Upvar
<1> DEFINE n == Node(op.name, cur)
<1>1. /\ Inv /\ op.kind # "idle" /\ op.name \in Words /\ Request.kind = "upvar" /\ Request.node = n
      /\ op.was = 0
  BY Linking, RefGives DEF Asks
<1>2. /\ RefRest' /\ Request' = Promise!NoRequest /\ Current' = Current /\ op'.was = 0
      /\ result' = Fail
  BY <1>1, Finishing DEF SameShape
<1>3. Scopes' = Scopes /\ StaticValues' = StaticValues
  BY <1>1, <1>2, ScopesKept
<1>4. (Tabled(Scopes, n) \/ StaticIn(Scopes, n)) /\ ~Linked(Scopes, n)
  BY <1>1, WordIs
<1>5. Spelt(Fail) = Fail
  BY SortAssumption DEF Spelt
<1> HIDE DEF n
<1> QED
  BY <1>1, <1>2, <1>3, <1>4, <1>5, UpvarAllowed

\* The name that is being linked, before a link that it is has been cut.
LEMMA Relinked ==
    ASSUME RefInv, op.kind \in {"upvar", "argument"},
           Found(op.name) = Nil \/ IsLink(Found(op.name)),
           frames' = frames,
           var' = IF Found(op.name) = Nil THEN var ELSE [var EXCEPT ![Found(op.name)].link = 0]
    PROVE  LET x == Found(op.name)
               n == Node(op.name, cur)
               table == frames[cur].vars
           IN  /\ op.was = 0
               /\ x = Nil => NameOf[op.name] \notin DOMAIN table /\ var' = var
               /\ x = Nil => ~Tabled(Scopes, n) /\ ~StaticIn(Scopes, n) /\ ~Linked(Scopes, n)
               /\ x # Nil =>
                     /\ NameOf[op.name] \in DOMAIN table /\ x = table[NameOf[op.name]] /\ x \in VarIds
                     /\ Linked(Scopes, n) /\ Entered(Scopes, n).obj = Spelt(var[x].obj)
                     /\ var[x].link \in Nat /\ var[x].link # 0 /\ var[x].obj \in Words
                     /\ var'[x].link = 0 /\ var'[x].obj = var[x].obj
                     /\ \A y \in VarIds : y # x => var'[y] = var[y]
<1> DEFINE x == Found(op.name)
           n == Node(op.name, cur)
           table == frames[cur].vars
<1>1. /\ Inv /\ op.name \in Words /\ FrameOf(op.name, cur) = cur /\ op.was = 0
      /\ var \in [VarIds -> Var]
  BY Linking, RefGives, InvGives DEF Asks
<1>2. CASE x = Nil
  BY <1>1, <1>2, WordIs
<1>3. CASE x # Nil
  <2>1. /\ x \in VarIds /\ var[x] \in Var /\ NameOf[op.name] \in DOMAIN table
        /\ var[x].obj \in Words /\ x = table[NameOf[op.name]]
    BY <1>1, <1>3, FoundIs
  <2>2. Linked(Scopes, n) /\ Entered(Scopes, n).obj = Spelt(var[x].obj)
    <3>1. /\ Tabled(Scopes, n) <=> NameOf[op.name] \in DOMAIN frames[FrameOf(op.name, cur)].vars
          /\ NameOf[op.name] \in DOMAIN frames[FrameOf(op.name, cur)].vars =>
                Entered(Scopes, n) = [obj |-> Spelt(var[x].obj), link |-> var[x].link]
      BY <1>1, WordIs
    <3>2. Tabled(Scopes, n) /\ Entered(Scopes, n) = [obj |-> Spelt(var[x].obj), link |-> var[x].link]
      BY <3>1, <2>1, <1>1
    <3>3. var[x].link # 0
      BY <1>3 DEF IsLink
    <3> HIDE DEF n, x
    <3> QED
      BY <3>2, <3>3 DEF Linked
  <2>3. var[x].link # 0
    BY <1>3 DEF IsLink
  <2>4. /\ var'[x].link = 0 /\ var'[x].obj = var[x].obj /\ var[x].link \in Nat
        /\ \A y \in VarIds : y # x => var'[y] = var[y]
    BY <2>1, <1>1, <1>3 DEF Var
  <2> QED
    BY <2>1, <2>2, <2>3, <2>4, <1>1, <1>3
<1> QED
  BY <1>2, <1>3

\* The target is further from the top than the name: a link that the name is has
\* been cut all the same.
LEMMA LinkTooHigh ==
    ASSUME RefInv, op.kind \in {"upvar", "argument"},
           Found(op.name) = Nil \/ IsLink(Found(op.name)),
           UNCHANGED <<frames, stack>>,
           var' = IF Found(op.name) = Nil THEN var ELSE [var EXCEPT ![Found(op.name)].link = 0],
           TooHigh(cur, FrameOf(op.target, op.tframe)), Finish(Fail)
    PROVE  RefRest' /\ Promise!Upvar
<1> DEFINE n == Node(op.name, cur)
           x == Found(op.name)
           b == NameOf[op.name]
<1>1. /\ Inv /\ op.kind # "idle" /\ op.name \in Words /\ Request.kind = "upvar" /\ Request.node = n
      /\ cur \in 1 .. Len(frames) /\ n = <<cur, b>>
      /\ Scopes[Request.node[1]].level = frames[cur].level
      /\ Scopes[Request.target[1]].level = frames[FrameOf(op.target, op.tframe)].level
  BY Linking
<1>2. /\ RefRest' /\ Request' = Promise!NoRequest /\ Current' = Current /\ op'.was = 0
      /\ result' = Fail
  BY <1>1, Finishing DEF SameShape
<1>3. /\ op.was = 0
      /\ x = Nil => /\ var' = var
                    /\ ~Tabled(Scopes, n) /\ ~StaticIn(Scopes, n) /\ ~Linked(Scopes, n)
      /\ x # Nil => /\ b \in DOMAIN frames[cur].vars /\ x = frames[cur].vars[b]
                    /\ Linked(Scopes, n) /\ Entered(Scopes, n).obj = Spelt(var[x].obj)
                    /\ var'[x].link = 0 /\ var'[x].obj = var[x].obj
                    /\ \A y \in VarIds : y # x => var'[y] = var[y]
  BY Relinked
<1>4. Scopes[Request.node[1]].level < Scopes[Request.target[1]].level
  BY <1>1 DEF TooHigh
<1>5. Spelt(Fail) = Fail
  BY SortAssumption DEF Spelt
<1> HIDE DEF n, x, b
<1>6. CASE x = Nil
  <2>1. Scopes' = Scopes /\ StaticValues' = StaticValues
    BY <1>1, <1>2, <1>3, <1>6, ScopesKept
  <2> QED
    BY <2>1, <1>1, <1>2, <1>3, <1>4, <1>5, <1>6, UpvarAllowed
<1>7. CASE x # Nil
  <2>1. /\ Scopes' = Put(Scopes, n, [obj |-> Entered(Scopes, n).obj, link |-> 0])
        /\ StaticValues' = StaticValues
    <3> DEFINE ob == Spelt(var[x].obj)
    <3>1. Spelt(var'[x].obj) = ob
      BY <1>3, <1>7
    <3> HIDE DEF ob
    <3>2. StoredIn(x, cur, b)
      BY <1>1, <1>2, <1>3, <1>7 DEF StoredIn
    <3>3. Stores(x, ob, 0)
      BY <3>1, <1>1, <1>2, <1>3, <1>7 DEF Stores
    <3>4. /\ Scopes' = Put(Scopes, <<cur, b>>, [obj |-> ob, link |-> 0])
          /\ StaticValues' = StaticValues
      BY <3>2, <3>3, <1>1, <1>2, StoreSeen
    <3> QED
      BY <3>4, <1>1, <1>3, <1>7 DEF ob
  <2> QED
    BY <2>1, <1>1, <1>2, <1>3, <1>4, <1>5, <1>7, UpvarAllowed
<1> QED
  BY <1>6, <1>7

\* The link in frame g under the name b, which the operation p has cut.
CutAt(fr, va, vb, o, p, g, b) ==
    /\ fr \in Seq(FrameType) /\ o.was = 0 /\ p.was # 0 /\ Node(p.name, p.origin) = <<g, b>>
    /\ p.was = va[fr[g].vars[b]].link /\ vb[fr[g].vars[b]].obj = va[fr[g].vars[b]].obj
    /\ \A f \in 1 .. Len(fr) : \A a \in DOMAIN fr[f].vars :
          ~(f = g /\ a = b) => vb[fr[f].vars[a]] = va[fr[f].vars[a]]

\* It is still seen.
LEMMA CutUnseen ==
    ASSUME NEW fr, NEW va, NEW vb, NEW o, NEW p, NEW g, NEW b, CutAt(fr, va, vb, o, p, g, b)
    PROVE  ScopesIn(fr, vb, p) = ScopesIn(fr, va, o)
<1>0. /\ fr \in Seq(FrameType) /\ o.was = 0 /\ p.was # 0 /\ Node(p.name, p.origin) = <<g, b>>
      /\ p.was = va[fr[g].vars[b]].link /\ vb[fr[g].vars[b]].obj = va[fr[g].vars[b]].obj
      /\ \A f \in 1 .. Len(fr) : \A a \in DOMAIN fr[f].vars :
            ~(f = g /\ a = b) => vb[fr[f].vars[a]] = va[fr[f].vars[a]]
  BY DEF CutAt
<1>1. ASSUME NEW f \in 1 .. Len(fr), NEW a \in DOMAIN fr[f].vars
      PROVE  SeenIn(fr, vb, p, f, a) = SeenIn(fr, va, o, f, a)
  <2>1. CASE f = g /\ a = b
    BY <2>1, <1>0 DEF SeenIn
  <2>2. CASE ~(f = g /\ a = b)
    <3>1. <<f, a>> # Node(p.name, p.origin)
      BY <2>2, <1>0
    <3> QED
      BY <2>2, <3>1, <1>0 DEF SeenIn
  <2> QED
    BY <2>1, <2>2
<1>2. SameShape(fr, fr)
  BY DEF SameShape
<1> QED
  BY <1>0, <1>1, <1>2, ScopesSame

\* The search for a cycle begins, or the binding: a link that has been cut is still
\* there for a script.
LEMMA LinkGoesOn ==
    ASSUME RefInv, op.kind \in {"upvar", "argument"},
           Found(op.name) = Nil \/ IsLink(Found(op.name)),
           UNCHANGED <<frames, cur, stack, result>>,
           var' = IF Found(op.name) = Nil THEN var ELSE [var EXCEPT ![Found(op.name)].link = 0],
           NEW target, target = FrameOf(op.target, op.tframe), ~TooHigh(cur, target), NEW s \in Words,
           IF IsGlobal[op.target] THEN ~IsGlobal[s] /\ NameOf[s] = NameOf[op.target] ELSE s = op.target,
           op' = [op EXCEPT !.kind = IF cur = target THEN "probe" ELSE "bind",
                            !.word = s, !.target = s, !.tframe = target,
                            !.was = IF Found(op.name) = Nil THEN 0 ELSE var[Found(op.name)].link]
    PROVE  RefRest' /\ UNCHANGED Promise!scopeVars
<1> DEFINE n == Node(op.name, cur)
           x == Found(op.name)
           b == NameOf[op.name]
<1>1. /\ Inv /\ op.kind # "idle" /\ op.name \in Words /\ op.asked = op.name /\ op.origin = cur
      /\ cur \in 1 .. Len(frames) /\ n = <<cur, b>> /\ Request.kind = "upvar"
      /\ target \in 1 .. Len(frames) /\ frames \in Seq(FrameType) /\ op \in OpType
      /\ Asks(frames, var, op)
  BY Linking, RefGives, InvGives
<1>2. /\ op'.kind \in {"probe", "bind"} /\ (op'.kind = "probe" => cur = target)
      /\ op'.word = s /\ op'.target = s /\ op'.tframe = target
      /\ op'.was = IF x = Nil THEN 0 ELSE var[x].link
      /\ op'.name = op.name /\ op'.asked = op.asked /\ op'.origin = op.origin /\ op'.val = op.val
  BY <1>1 DEF OpType
<1>3. /\ op.was = 0
      /\ x = Nil => b \notin DOMAIN frames[cur].vars /\ var' = var
      /\ x # Nil => /\ b \in DOMAIN frames[cur].vars /\ x = frames[cur].vars[b] /\ x \in VarIds
                    /\ var[x].link # 0 /\ var[x].obj \in Words
                    /\ var'[x].link = 0 /\ var'[x].obj = var[x].obj
                    /\ \A y \in VarIds : y # x => var'[y] = var[y]
  BY Relinked
<1>4. Node(s, target) = Node(op.target, op.tframe)
  BY <1>1 DEF Node, FrameOf
<1> HIDE DEF x, b
<1>5. Scopes' = Scopes /\ StaticValues' = StaticValues
  <2>1. CASE x = Nil
    BY <2>1, <1>1, <1>2, <1>3, ScopesKept
  <2>2. CASE x # Nil
    <3>1. /\ \A f \in 1 .. Len(frames) : \A a \in DOMAIN frames[f].vars :
                /\ frames[f].vars[a] \in VarIds
                /\ ~(f = cur /\ a = b) => frames[f].vars[a] # x
          /\ \A a \in DOMAIN Statics : Statics[a] # x
      BY <2>2, <1>1, <1>3, EntryApart
    <3>2. Node(op'.name, op'.origin) = <<cur, b>>
      BY <1>1, <1>2
    <3>3. \A f \in 1 .. Len(frames) : \A a \in DOMAIN frames[f].vars :
             ~(f = cur /\ a = b) => var'[frames[f].vars[a]] = var[frames[f].vars[a]]
      BY <3>1, <2>2, <1>3
    <3>4. /\ op'.was = var[frames[cur].vars[b]].link
          /\ var'[frames[cur].vars[b]].obj = var[frames[cur].vars[b]].obj
      BY <2>2, <1>2, <1>3
    <3>5. ScopesIn(frames, var', op') = ScopesIn(frames, var, op)
      <4>1. frames \in Seq(FrameType) /\ op.was = 0 /\ op'.was # 0
        BY <2>2, <1>1, <1>2, <1>3
      <4>2. CutAt(frames, var, var', op, op', cur, b)
        BY <4>1, <3>2, <3>3, <3>4 DEF CutAt
      <4> QED
        BY <4>2, CutUnseen
    <3>6. Scopes' = Scopes
      BY <3>5, ScopesIs
    <3>7. \A a \in DOMAIN Statics : var'[Statics[a]] = var[Statics[a]]
      BY <3>1, <2>2, <1>3, StaticsAssumption
    <3> QED
      BY <3>6, <3>7, NextState DEF StaticValues
  <2> QED
    BY <2>1, <2>2
<1>6. Asks(frames, var', op')
  <2>1. frames[cur].level >= frames[target].level
    <3>1. frames[cur].level \in Nat /\ frames[target].level \in Nat
      BY <1>1, FramesAre
    <3> QED
      BY <3>1 DEF TooHigh
  <2>2. Cut(frames, var', op')
    <3>1. CASE x = Nil
      BY <3>1, <1>1, <1>2, <1>3 DEF Cut, b
    <3>2. CASE x # Nil
      <4>1. op'.was # 0 /\ op'.origin = cur /\ NameOf[op'.name] = b
        BY <3>2, <1>1, <1>2, <1>3 DEF b
      <4>2. /\ b \in DOMAIN frames[cur].vars /\ var'[frames[cur].vars[b]].link = 0
            /\ var'[frames[cur].vars[b]].obj \in Words
        BY <3>2, <1>3
      <4> QED
        BY <4>1, <4>2 DEF Cut
    <3> QED
      BY <3>1, <3>2
  <2> QED
    BY <2>1, <2>2, <1>1, <1>2 DEF Asks
<1>7. Answers(Scopes', cur', op')
  <2>1. Node(s, target) \in NodesOf(Scopes)
    BY <1>1, NodeOf
  <2>2. Node(s, target) \in ChainOf(Scopes, Node(s, target))
    BY <2>1, ChainStart
  <2> QED
    BY <2>2, <1>2, <1>5 DEF Answers
<1>8. RefRest' /\ Current' = Current
  BY <1>1, <1>2, <1>6, <1>7, GoingOn
<1>9. Request' = Request
  <2>1. Request = RequestOf(op) /\ Request' = RequestOf(op')
    BY NextState
  <2>2. s # Nil /\ op.target # Nil
    BY Linking, SortAssumption
  <2> QED
    BY <2>1, <2>2, <1>1, <1>2, <1>4 DEF RequestOf
<1> QED
  BY <1>5, <1>8, <1>9, SilentAllowed DEF Scripts

\* Jim_SetVariableLink up to the search for a cycle.
LEMMA LinkRef ==
    ASSUME RefInv, Link
    PROVE  RefRest' /\ (Promise!Upvar \/ UNCHANGED Promise!scopeVars)
<1> DEFINE x == Found(op.name)
           target == IF IsGlobal[op.target] THEN 1 ELSE op.tframe
<1>1. op.kind \in {"upvar", "argument"} /\ UNCHANGED <<frames, stack>>
  BY DEF Link, Accessing
<1>2. FrameOf(op.name, cur) = cur
  BY <1>1, Linking
<1>3. target = FrameOf(op.target, op.tframe)
  BY DEF FrameOf
<1>4. CASE x # Nil /\ ~IsLink(x)
  <2>1. Finish(Fail) /\ var' = var
    BY <1>4 DEF Link
  <2> QED
    BY <2>1, <1>1, <1>4, LinkRefused
<1>5. CASE ~(x # Nil /\ ~IsLink(x))
  <2>1. var' = IF x = Nil THEN var ELSE [var EXCEPT ![x].link = 0]
    BY <1>5 DEF Link
  <2>2. CASE TooHigh(cur, target)
    <3>1. Finish(Fail)
      BY <2>2, <1>2, <1>5 DEF Link
    <3> QED
      BY <3>1, <2>1, <2>2, <1>1, <1>3, <1>5, LinkTooHigh
  <2>3. CASE ~TooHigh(cur, target)
    <3>1. PICK s \in Words :
            /\ IF IsGlobal[op.target]
               THEN ~IsGlobal[s] /\ NameOf[s] = NameOf[op.target] /\ s # op.name ELSE s = op.target
            /\ op' = [op EXCEPT !.kind = IF cur = target THEN "probe" ELSE "bind",
                                !.word = s, !.target = s, !.tframe = target,
                                !.was = IF x = Nil THEN 0 ELSE var[x].link]
            /\ UNCHANGED <<cur, result>>
      BY <2>3, <1>2, <1>5 DEF Link
    <3> QED
      BY <3>1, <2>1, <2>3, <1>1, <1>3, <1>5, LinkGoesOn
  <2> QED
    BY <2>2, <2>3
<1> QED
  BY <1>4, <1>5

\* What the search for a cycle and the binding know of their ends.
LEMMA LinkSeen ==
    ASSUME RefInv, op.kind \in {"probe", "bind"}
    PROVE  LET n == Node(op.name, cur)
               x == Found(op.name)
               table == frames[cur].vars
           IN  /\ FrameOf(op.target, op.tframe) = op.tframe /\ ~IsGlobal[op.target]
               /\ ~(Scopes[Request.node[1]].level < Scopes[Request.target[1]].level)
               /\ op.was = 0 =>
                     x = Nil /\ ~Tabled(Scopes, n) /\ ~StaticIn(Scopes, n) /\ ~Linked(Scopes, n)
               /\ op.was # 0 =>
                     /\ x # Nil /\ x \in VarIds
                     /\ NameOf[op.name] \in DOMAIN table /\ x = table[NameOf[op.name]]
                     /\ var[x].link = 0 /\ Linked(Scopes, n)
                     /\ Entered(Scopes, n).obj = Spelt(var[x].obj)
<1> DEFINE n == Node(op.name, cur)
           x == Found(op.name)
           b == NameOf[op.name]
           table == frames[cur].vars
<1>1. /\ Inv /\ op.name \in Words /\ op.origin = cur /\ cur \in 1 .. Len(frames)
      /\ FrameOf(op.name, cur) = cur /\ n = <<cur, b>> /\ op.tframe \in 1 .. Len(frames)
      /\ Scopes[Request.node[1]].level = frames[cur].level
      /\ Scopes[Request.target[1]].level = frames[FrameOf(op.target, op.tframe)].level
  BY Linking
<1>2. /\ frames \in Seq(FrameType) /\ Asks(frames, var, op)
      /\ ~IsGlobal[op.target] /\ NotStatic(frames, op.name, cur)
  BY RefGives, InvGives, LinkEnds
<1>3. /\ frames[cur].level >= frames[op.tframe].level /\ Cut(frames, var, op)
      /\ frames[cur].level \in Nat /\ frames[op.tframe].level \in Nat
  BY <1>1, <1>2, FramesAre DEF Asks
<1>4. FrameOf(op.target, op.tframe) = op.tframe
  BY <1>2 DEF FrameOf
<1>5. ~(Scopes[Request.node[1]].level < Scopes[Request.target[1]].level)
  <2>1. /\ Scopes[Request.node[1]].level = frames[cur].level
        /\ Scopes[Request.target[1]].level = frames[op.tframe].level
    BY <1>1, <1>4
  <2> QED
    BY <2>1, <1>3
<1>6. x = LookupIn(frames, op.name, cur)
  BY <1>1, Resolves
<1>7. CASE op.was = 0
  <2>1. b \notin DOMAIN table
    BY <1>1, <1>3, <1>7 DEF Cut
  <2>2. x = Nil
    BY <2>1, <1>1, <1>2, <1>6 DEF NotStatic
  <2>3. ~Tabled(Scopes, n) /\ ~StaticIn(Scopes, n) /\ ~Linked(Scopes, n)
    BY <2>2, <1>1, <1>7, WordIs
  <2> QED
    BY <2>2, <2>3, <1>2, <1>4, <1>5, <1>7
<1>8. CASE op.was # 0
  <2>1. b \in DOMAIN table /\ var[table[b]].link = 0
    BY <1>1, <1>3, <1>8 DEF Cut
  <2>2. x = table[b] /\ x \in VarIds /\ x # Nil
    <3>1. x = table[b]
      BY <2>1, <1>1, <1>6 DEF LookupIn
    <3>2. table[b] \in VarIds
      BY <2>1, <1>1, EntryApart
    <3> QED
      BY <3>1, <3>2, SortAssumption
  <2>3. Tabled(Scopes, n) /\ Entered(Scopes, n) = SeenIn(frames, var, op, cur, b)
    <3>1. ScopesIn(frames, var, op)[cur] = ScopeIn(frames, var, op, cur)
      BY <1>1, <1>2, ScopeAt
    <3>2. Scopes[cur] = ScopeIn(frames, var, op, cur)
      BY <3>1, ScopesIs
    <3> QED
      BY <3>2, <2>1, <1>1 DEF Tabled, Entered, ScopeIn
  <2>4. SeenIn(frames, var, op, cur, b) = [obj |-> Spelt(var[x].obj), link |-> op.was]
    BY <2>2, <1>1, <1>8 DEF SeenIn
  <2>5. Linked(Scopes, n) /\ Entered(Scopes, n).obj = Spelt(var[x].obj)
    BY <2>3, <2>4, <1>8 DEF Linked
  <2> QED
    BY <2>1, <2>2, <2>5, <1>2, <1>4, <1>5, <1>8
<1> QED
  BY <1>7, <1>8

\* The search finds the name that is being linked.
LEMMA ProbeCycleRef ==
    ASSUME RefInv, ProbeCycle
    PROVE  RefRest' /\ Promise!Upvar
<1> DEFINE n == Node(op.name, cur)
           x == Found(op.name)
           b == NameOf[op.name]
<1>1. /\ op.kind = "probe" /\ NameOf[op.word] = NameOf[op.name] /\ Finish(Fail)
      /\ frames' = frames /\ stack' = stack /\ var' = var
  BY DEF ProbeCycle, Accessing, SameName
<1>2. /\ Inv /\ op.kind # "idle" /\ op.name \in Words /\ Request.kind = "upvar" /\ Request.node = n
      /\ op.origin = cur /\ cur \in 1 .. Len(frames) /\ n = <<cur, b>>
      /\ Request.target = Node(op.target, op.tframe)
  BY <1>1, Linking
<1>3. /\ RefRest' /\ Request' = Promise!NoRequest /\ Current' = Current /\ op'.was = 0
      /\ result' = Fail
  BY <1>1, <1>2, Finishing DEF SameShape
<1>4. n \in ChainOf(Scopes, Request.target)
  <2>1. Node(op.word, cur) \in ChainOf(Scopes, Node(op.target, op.tframe))
    BY <1>1, RefGives DEF Answers
  <2>2. ~IsGlobal[op.word]
    BY <1>1, RefGives DEF CycleInv, Avoids
  <2>3. Node(op.word, cur) = <<cur, b>>
    BY <2>2, <1>1 DEF Node, FrameOf
  <2> QED
    BY <2>1, <2>3, <1>2
<1>5. /\ op.was = 0 => ~Tabled(Scopes, n) /\ ~StaticIn(Scopes, n) /\ ~Linked(Scopes, n)
      /\ op.was # 0 =>
            /\ b \in DOMAIN frames[cur].vars /\ x = frames[cur].vars[b]
            /\ var[x].link = 0 /\ Linked(Scopes, n)
            /\ Entered(Scopes, n).obj = Spelt(var[x].obj)
  BY <1>1, LinkSeen
<1>6. Spelt(Fail) = Fail
  BY SortAssumption DEF Spelt
<1>7. <<cur, b>> = Node(op.name, op.origin)
  BY <1>2
<1> HIDE DEF n, x, b
<1>8. CASE op.was = 0
  <2>1. Scopes' = Scopes /\ StaticValues' = StaticValues
    BY <1>1, <1>2, <1>3, <1>8, ScopesKept
  <2> QED
    BY <2>1, <1>1, <1>2, <1>3, <1>4, <1>5, <1>6, <1>8, UpvarAllowed
<1>9. CASE op.was # 0
  <2>1. /\ Scopes' = Put(Scopes, n, [obj |-> Entered(Scopes, n).obj, link |-> 0])
        /\ StaticValues' = StaticValues
    <3> DEFINE ob == Spelt(var[x].obj)
    <3>1. Spelt(var'[x].obj) = ob /\ var'[x].link = 0
      BY <1>1, <1>5, <1>9
    <3> HIDE DEF ob
    <3>2. StoredIn(x, cur, b)
      BY <1>1, <1>2, <1>3, <1>5, <1>7, <1>9 DEF StoredIn
    <3>3. Stores(x, ob, 0)
      BY <3>1, <1>1, <1>2, <1>3, <1>5, <1>9 DEF Stores
    <3>4. /\ Scopes' = Put(Scopes, <<cur, b>>, [obj |-> ob, link |-> 0])
          /\ StaticValues' = StaticValues
      BY <3>2, <3>3, <1>1, <1>2, StoreSeen
    <3> QED
      BY <3>4, <1>2, <1>5, <1>9 DEF ob
  <2> QED
    BY <2>1, <1>1, <1>2, <1>3, <1>4, <1>5, <1>6, <1>9, UpvarAllowed
<1> QED
  BY <1>8, <1>9

\* It goes on from another name.
LEMMA ProbeRef ==
    ASSUME RefInv, Probe
    PROVE  RefRest' /\ UNCHANGED Promise!scopeVars
<1> DEFINE x == Found(op.word)
           m == Node(op.word, cur)
<1>1. /\ op.kind = "probe" /\ NameOf[op.word] # NameOf[op.name]
      /\ op' = IF LeadsOn(op.word) THEN [op EXCEPT !.word = var[x].obj] ELSE [op EXCEPT !.kind = "bind"]
      /\ frames' = frames /\ cur' = cur /\ stack' = stack /\ var' = var /\ result' = result
  BY DEF Probe, Accessing, SameName, scripts
<1>2. /\ Inv /\ op.kind # "idle" /\ op.name \in Words /\ op.origin = cur /\ cur \in 1 .. Len(frames)
      /\ op \in OpType /\ Asks(frames, var, op) /\ Answers(Scopes, cur, op) /\ op.word \in Words
      /\ op.tframe = cur /\ op.tframe \in 1 .. Len(frames)
  BY <1>1, Linking, RefGives, InvGives, WordOf DEF WordKinds, CycleInv, Avoids
<1>3. /\ op'.kind \in {"probe", "bind"} /\ op'.asked = op.asked /\ op'.origin = op.origin
      /\ op'.val = op.val /\ op'.name = op.name /\ op'.target = op.target
      /\ op'.tframe = op.tframe /\ op'.was = op.was
      /\ op'.kind = "probe" => LeadsOn(op.word) /\ op'.word = var[x].obj
  BY <1>1, <1>2 DEF OpType
<1>4. Scopes' = Scopes /\ StaticValues' = StaticValues
  BY <1>1, <1>2, <1>3, ScopesKept
<1>5. Asks(frames, var', op')
  BY <1>1, <1>2, <1>3 DEF Asks, Cut, LinkKinds
<1>6. Answers(Scopes', cur', op')
  <2>1. SUFFICES ASSUME op'.kind = "probe"
                 PROVE  Node(op'.word, cur') \in ChainOf(Scopes', Node(op'.target, op'.tframe))
    BY <1>3 DEF Answers
  <2>2. x # Nil /\ var[x].link = cur /\ op'.word = var[x].obj
    BY <2>1, <1>2, <1>3 DEF LeadsOn
  <2>3. IsLink(x)
    BY <2>2, <1>2 DEF IsLink
  <2>4. m # Node(op.name, op.origin)
    BY <1>1 DEF Node
  <2>5. /\ Linked(Scopes, m) /\ LinkEnd(Scopes, m) = Node(var[x].obj, var[x].link)
        /\ LinkEnd(Scopes, m) \in NodesOf(Scopes)
    BY <2>2, <2>3, <2>4, <1>2, WordIs
  <2>6. m \in ChainOf(Scopes, Node(op.target, op.tframe))
    BY <1>1, <1>2 DEF Answers
  <2>7. LinkEnd(Scopes, m) \in ChainOf(Scopes, Node(op.target, op.tframe))
    BY <2>5, <2>6, ChainFollow
  <2> QED
    BY <2>2, <2>5, <2>7, <1>1, <1>3, <1>4
<1>7. RefRest' /\ Current' = Current
  BY <1>1, <1>2, <1>3, <1>5, <1>6, GoingOn
<1>8. Request' = Request
  <2>1. Request = RequestOf(op) /\ Request' = RequestOf(op')
    BY NextState
  <2> QED
    BY <2>1, <1>1, <1>3 DEF RequestOf
<1> QED
  BY <1>1, <1>4, <1>7, <1>8, SilentAllowed DEF Scripts

\* The chain from the target does not lead to the name that is bound.
LEMMA BindOutside ==
    ASSUME RefInv, op.kind = "bind"
    PROVE  Node(op.name, cur) \notin ChainOf(Scopes, Node(op.target, op.tframe))
<1> DEFINE n == Node(op.name, cur)
           t == Node(op.target, op.tframe)
<1>1. /\ Inv /\ op.origin = cur /\ n = <<cur, NameOf[op.name]>> /\ ~IsGlobal[op.target]
      /\ frames \in Seq(FrameType) /\ Parents(frames) /\ var \in [VarIds -> Var] /\ Heap(frames, var)
      /\ DOMAIN frames = 1 .. Len(frames)
  BY Linking, LinkSeen, InvGives
<1>2. PICK P \in SUBSET Nodes(frames) : Avoiding(frames, var, cur, op, P)
  BY RefGives DEF CycleInv, Avoids
<1>3. /\ n \notin P /\ t \in P /\ LeadsInto(frames, var, P, P)
  BY <1>1, <1>2 DEF Avoiding, Here, Node, FrameOf
<1>4. \A f \in 1 .. Len(frames) : Scopes[f] = ScopeIn(frames, var, op, f)
  BY <1>1, ScopeAt, ScopesIs
<1>5. P \in SUBSET NodesOf(Scopes)
  <2>1. DOMAIN Scopes = DOMAIN frames
    BY <1>1, ScopeAt, ScopesIs
  <2> QED
    BY <2>1 DEF Nodes, NodesOf
<1>6. ASSUME NEW m \in P, Linked(Scopes, m)
      PROVE  LinkEnd(Scopes, m) \in P
  <2> DEFINE x == frames[m[1]].vars[m[2]]
  <2>1. m = <<m[1], m[2]>> /\ m[1] \in 1 .. Len(frames) /\ m # n
    BY <1>1, <1>3 DEF Nodes
  <2>2. m[2] \in DOMAIN frames[m[1]].vars /\ Entered(Scopes, m) = SeenIn(frames, var, op, m[1], m[2])
    <3>1. Scopes[m[1]] = ScopeIn(frames, var, op, m[1])
      BY <2>1, <1>4
    <3>2. m[2] \in DOMAIN Scopes[m[1]].vars
      BY <1>6 DEF Linked, Tabled
    <3>3. DOMAIN Scopes[m[1]].vars = DOMAIN frames[m[1]].vars
      BY <3>1 DEF ScopeIn
    <3>4. \A a \in DOMAIN frames[m[1]].vars :
             Scopes[m[1]].vars[a] = SeenIn(frames, var, op, m[1], a)
      BY <3>1 DEF ScopeIn
    <3> QED
      BY <3>2, <3>3, <3>4 DEF Entered
  <2>3. SeenIn(frames, var, op, m[1], m[2]) = [obj |-> Spelt(var[x].obj), link |-> var[x].link]
    <3>1. <<m[1], m[2]>> # Node(op.name, op.origin)
      BY <2>1, <1>1
    <3> QED
      BY <3>1 DEF SeenIn
  <2>4. m \in LinksIn(frames, var)
    <3>1. Entered(Scopes, m).link # 0
      BY <1>6 DEF Linked
    <3>2. var[x].link # 0
      <4> DEFINE y == var[x]
      <4>1. Entered(Scopes, m) = [obj |-> Spelt(y.obj), link |-> y.link]
        BY <2>2, <2>3
      <4> HIDE DEF y
      <4> QED
        BY <3>1, <4>1 DEF y
    <3>3. m \in Nodes(frames)
      OBVIOUS
    <3> QED
      BY <3>2, <3>3, <2>2 DEF LinksIn
  <2>5. /\ var[x].obj \in Words
        /\ TargetIn(frames, var, m) = <<var[x].link, NameOf[var[x].obj]>>
    BY <2>4, <1>1, NodeIs
  <2>6. LinkEnd(Scopes, m) = TargetIn(frames, var, m)
    <3>1. Entered(Scopes, m).link = var[x].link /\ Entered(Scopes, m).obj = Spelt(var[x].obj)
      BY <2>2, <2>3
    <3>2. Spelt(var[x].obj) = NameOf[var[x].obj]
      BY <2>5 DEF Spelt
    <3> HIDE DEF x
    <3> QED
      BY <3>1, <3>2, <2>5 DEF LinkEnd
  <2> QED
    BY <2>4, <2>6, <1>3 DEF LeadsInto
<1>7. ChainOf(Scopes, t) \subseteq P
  BY <1>3, <1>5, <1>6, ChainWithin
<1> QED
  BY <1>3, <1>7

\* The name is bound to its target.
LEMMA BindRef ==
    ASSUME RefInv, Bind
    PROVE  RefRest' /\ Promise!Upvar
<1> DEFINE n == Node(op.name, cur)
           t == Node(op.target, op.tframe)
           x == Found(op.name)
           b == NameOf[op.name]
<1>1. op.kind = "bind" /\ Finish(Done) /\ stack' = stack
  BY DEF Bind, Accessing
<1>2. /\ Inv /\ op.kind # "idle" /\ op.name \in Words /\ Request.kind = "upvar" /\ Request.node = n
      /\ op.origin = cur /\ cur \in 1 .. Len(frames) /\ n = <<cur, b>> /\ Request.target = t
      /\ op.target \in Words
  BY <1>1, Linking
<1>3. /\ FrameOf(op.target, op.tframe) = op.tframe /\ ~IsGlobal[op.target]
      /\ ~(Scopes[Request.node[1]].level < Scopes[Request.target[1]].level)
      /\ op.was = 0 =>
            x = Nil /\ ~Tabled(Scopes, n) /\ ~StaticIn(Scopes, n) /\ ~Linked(Scopes, n)
      /\ op.was # 0 =>
            /\ x # Nil /\ x \in VarIds /\ b \in DOMAIN frames[cur].vars /\ x = frames[cur].vars[b]
            /\ Linked(Scopes, n)
  BY <1>1, LinkSeen
<1>4. n \notin ChainOf(Scopes, t)
  BY <1>1, BindOutside
<1>5. op'.was = 0
  BY <1>1 DEF Finish, Idle
<1>6. t[1] = op.tframe /\ t[2] = NameOf[op.target] /\ Spelt(op.target) = t[2]
  BY <1>2, <1>3 DEF Node, Spelt
<1>7. Spelt(Done) = Done
  BY SortAssumption DEF Spelt
<1>8. <<cur, b>> = Node(op.name, op.origin)
  BY <1>2
<1>9. /\ Scopes' = Put(Scopes, n, [obj |-> t[2], link |-> t[1]])
      /\ StaticValues' = StaticValues /\ SameShape(frames, frames')
  <2>1. CASE x = Nil
    <3>1. op.was = 0
      BY <2>1, <1>3
    <3>2. PICK y \in VarIds : AddVar(op.name, y, op.target, op.tframe)
      BY <2>1 DEF Bind
    <3>3. /\ Scopes' = Put(Scopes, n, [obj |-> Spelt(op.target), link |-> op.tframe])
          /\ StaticValues' = StaticValues /\ SameShape(frames, frames')
      BY <3>1, <3>2, <2>1, <1>2, <1>5, AddSeen
    <3> HIDE DEF n, t
    <3> QED
      BY <3>3, <1>6
  <2>2. CASE x # Nil
    <3>1. frames' = frames /\ var' = [var EXCEPT ![x] = NewVar(op.target, op.tframe)]
      BY <2>2 DEF Bind
    <3>2. /\ x \in VarIds /\ b \in DOMAIN frames[cur].vars /\ x = frames[cur].vars[b]
          /\ var \in [VarIds -> Var]
      BY <2>2, <1>2, <1>3, InvGives
    <3>3. /\ var'[x].obj = op.target /\ var'[x].link = op.tframe
          /\ \A y \in VarIds : y # x => var'[y] = var[y]
      BY <3>1, <3>2 DEF NewVar
    <3> HIDE DEF n, t, x, b
    <3>4. Spelt(var'[x].obj) = t[2] /\ var'[x].link = t[1]
      BY <3>3, <1>6
    <3>5. StoredIn(x, cur, b)
      BY <3>2, <1>2, <1>8 DEF StoredIn
    <3>6. Stores(x, t[2], t[1])
      BY <3>1, <3>3, <3>4, <1>5 DEF Stores
    <3>7. /\ Scopes' = Put(Scopes, <<cur, b>>, [obj |-> t[2], link |-> t[1]])
          /\ StaticValues' = StaticValues
      BY <3>5, <3>6, <1>2, StoreSeen
    <3>8. SameShape(frames, frames')
      BY <3>1 DEF SameShape
    <3> QED
      BY <3>7, <3>8, <1>2
  <2> QED
    BY <2>1, <2>2
<1>10. /\ RefRest' /\ Request' = Promise!NoRequest /\ Current' = Current /\ result' = Done
  BY <1>1, <1>2, <1>9, Finishing
<1>11. Linked(Scopes, n) \/ ~(Tabled(Scopes, n) \/ StaticIn(Scopes, n))
  BY <1>3
<1> HIDE DEF n, t, x, b
<1> QED
  BY <1>1, <1>2, <1>3, <1>4, <1>7, <1>9, <1>10, <1>11, UpvarAllowed
---------------------------------------------------------------------------
(* The refinement *)

\* The steps of JimScopes.
LEMMA PromiseSteps ==
    /\ \A statics \in BOOLEAN : Promise!Call(statics) => Promise!Next
    /\ Promise!EndCall \/ Promise!EndUplevel => Promise!Next
    /\ \A g \in DOMAIN Scopes : Promise!Uplevel(g) => Promise!Next
    /\ \A b \in Bases, t \in Promise!Visible : Promise!CallByName(b, t) => Promise!Next
    /\ \A n \in Promise!Visible :
          Promise!Ask("get", n, Nil, <<>>) \/ Promise!Ask("unset", n, Nil, <<>>) => Promise!Next
    /\ \A n \in Promise!Visible, v \in Vals : Promise!Ask("set", n, v, <<>>) => Promise!Next
    /\ \A n \in Promise!Visible, t \in Promise!Nodes :
          t[1] \in Promise!Callers(Current) /\ Promise!Ask("upvar", n, Nil, t) => Promise!Next
    /\ Promise!Get \/ Promise!Set \/ Promise!Unset \/ Promise!Upvar => Promise!Next
    /\ Promise!ByName \/ Promise!ByNameMissing => Promise!Next
BY Zenon DEF Promise!Next, Promise!Nil, Nil, Current

\* What JimScopes sees of the global frame as it starts: a scope without variables.
LEMMA TopScopeIs ==
    ASSUME NEW gr, NEW vb, NEW p, gr[1] = Frame(0, 0, 0, FALSE)
    PROVE  ScopeIn(gr, vb, p, 1) = Promise!NewScope(0, 0, FALSE)
<1>1. /\ gr[1].parent = 0 /\ gr[1].level = 0 /\ gr[1].hasStatics = FALSE
      /\ DOMAIN gr[1].vars = {}
  BY DEF Frame, NoVars
<1>2. [b \in DOMAIN gr[1].vars |-> SeenIn(gr, vb, p, 1, b)] = [b \in {} |-> Promise!Plain(b)]
  BY <1>1
<1> QED
  BY <1>1, <1>2 DEF ScopeIn, Promise!NewScope

\* The first state: one scope without variables, nothing asked.
LEMMA InitRef == Init => RefInv /\ Promise!Init
<1> SUFFICES ASSUME Init PROVE RefInv /\ Promise!Init
  OBVIOUS
<1> DEFINE e == Promise!NewScope(0, 0, FALSE)
<1>1. /\ frames = <<Frame(0, 0, 0, FALSE)>> /\ cur = 1 /\ stack = <<>> /\ op = Idle /\ result = Done
  BY DEF Init
<1>2. CycleInv /\ Inv
  BY InitCycle DEF CycleInv
<1>3. Current = 1 /\ Request = Promise!NoRequest
  BY <1>1, NextState DEF Current
<1>4. Returns(frames, stack, Current)
  BY <1>1 DEF Returns, Ends
<1>5. Asks(frames, var, op) /\ Answers(Scopes, cur, op)
  BY <1>1 DEF Asks, Answers, Idle, LinkKinds
<1>6. Scopes = <<e>>
  <2>1. frames \in Seq(FrameType) /\ Len(frames) = 1 /\ frames[1] = Frame(0, 0, 0, FALSE)
    BY <1>1, <1>2, InvGives
  <2>2. ScopeIn(frames, var, op, 1) = e
    BY <2>1, TopScopeIs
  <2>3. /\ DOMAIN ScopesIn(frames, var, op) = 1 .. 1
        /\ ScopesIn(frames, var, op)[1] = ScopeIn(frames, var, op, 1)
    BY <2>1, ScopeAt
  <2>4. ScopesIn(frames, var, op) = [f \in 1 .. 1 |-> e]
    <3>1. ScopesIn(frames, var, op) = [f \in DOMAIN frames |-> ScopeIn(frames, var, op, f)]
      BY DEF ScopesIn
    <3>2. DOMAIN frames = 1 .. 1
      BY <2>1
    <3> HIDE DEF e
    <3> QED
      BY <3>1, <3>2, <2>2
  <2> HIDE DEF e
  <2>5. <<e>> = [f \in 1 .. 1 |-> e]
    OBVIOUS
  <2> QED
    BY <2>4, <2>5, ScopesIs
<1>7. PICK v \in Vals : var = [x \in VarIds |-> IF \E b \in DOMAIN Statics : Statics[b] = x
                                               THEN NewVar(v, 0) ELSE NoVar]
  BY DEF Init
<1>8. StaticValues = [b \in DOMAIN Statics |-> v]
  <2>1. \A b \in DOMAIN Statics : var[Statics[b]].obj = v
    BY <1>7, StaticsAssumption DEF NewVar
  <2>2. Spelt(v) = v
    BY SortAssumption DEF Spelt
  <2> QED
    BY <2>1, <2>2 DEF StaticValues
<1>9. Spelt(result) = Done
  BY <1>1, SortAssumption DEF Spelt
<1>10. Promise!Init
  BY <1>1, <1>3, <1>6, <1>8, <1>9 DEF Promise!Init, Promise!Done, Done, StaticValues, Current
<1> QED
  BY <1>2, <1>4, <1>5, <1>10 DEF RefInv

\* A step is a step of JimScopes or cannot be seen.
LEMMA NextRef ==
    ASSUME RefInv, [Next]_vars
    PROVE  RefRest' /\ (Promise!Next \/ UNCHANGED Promise!scopeVars)
<1>1. CASE UNCHANGED vars
  <2>1. /\ frames' = frames /\ cur' = cur /\ stack' = stack /\ var' = var /\ op' = op
        /\ result' = result
    BY <1>1 DEF vars
  <2>2. Scopes' = Scopes /\ StaticValues' = StaticValues
    BY <2>1, RefGives, ScopesKept
  <2>3. Current' = Current /\ Request' = Request
    BY <2>1, NextState DEF Current
  <2>4. RefRest'
    BY <2>1, <2>2, <2>3, RefGives DEF RefRest
  <2> QED
    BY <2>1, <2>2, <2>3, <2>4, SilentAllowed DEF Scripts
<1>2. CASE \E statics \in BOOLEAN : Call(statics)
  BY <1>2, CallRef, PromiseSteps
<1>3. CASE EndCall
  BY <1>3, EndCallRef, PromiseSteps
<1>4. CASE EndUplevel
  BY <1>4, EndUplevelRef, PromiseSteps
<1>5. CASE \E g \in DOMAIN frames : Uplevel(g)
  BY <1>5, UplevelRef, PromiseSteps
<1>6. CASE \E w \in Words : Get(w) \/ Unset(w)
  <2>1. PICK w \in Words : Begin("get", w, Nil) \/ Begin("unset", w, Nil)
    BY <1>6 DEF Get, Unset
  <2>2. /\ RefRest' /\ Node(w, cur) \in Promise!Visible
        /\ \/ Promise!Ask("get", Node(w, cur), Nil, <<>>)
           \/ Promise!Ask("unset", Node(w, cur), Nil, <<>>)
    BY <2>1, BeginRef
  <2> QED
    BY <2>2, PromiseSteps
<1>7. CASE \E w \in Words, v \in Vals : Set(w, v)
  <2>1. PICK w \in Words, v \in Vals : Begin("set", w, v)
    BY <1>7 DEF Set
  <2>2. /\ RefRest' /\ Node(w, cur) \in Promise!Visible
        /\ Promise!Ask("set", Node(w, cur), v, <<>>)
    BY <2>1, BeginRef
  <2> QED
    BY <2>2, PromiseSteps
<1>8. CASE \E n, t \in Words : CallByName(n, t)
  BY <1>8, CallByNameRef, PromiseSteps
<1>9. CASE \E n \in LinkWords, t \in Words, tf \in DOMAIN frames : Upvar(n, t, tf)
  <2>1. PICK n \in Words, t \in Words, tf \in DOMAIN frames : Upvar(n, t, tf)
    BY <1>9, NameAssumption
  <2>2. /\ RefRest' /\ Promise!Ask("upvar", Node(n, cur), Nil, Node(t, tf))
        /\ Node(n, cur) \in Promise!Visible
        /\ Node(t, tf) \in Promise!Nodes /\ Node(t, tf)[1] \in Promise!Callers(Current)
    BY <2>1, UpvarRef
  <2> QED
    BY <2>2, PromiseSteps
<1>10. CASE Continue
  <2>1. CASE Follow \/ Probe
    BY <2>1, FollowRef, ProbeRef
  <2>2. CASE GetFound \/ Missing
    BY <2>2, GetFoundRef, MissingRef, PromiseSteps
  <2>3. CASE SetFound \/ SetMissing
    BY <2>3, SetFoundRef, SetMissingRef, PromiseSteps
  <2>4. CASE UnsetFound \/ UnsetStatic
    BY <2>4, UnsetFoundRef, UnsetStaticRef, PromiseSteps
  <2>5. CASE ByNameFound \/ ByNameMissing
    BY <2>5, ByNameFoundRef, ByNameMissingRef, PromiseSteps
  <2>6. CASE Link \/ ProbeCycle \/ Bind
    BY <2>6, LinkRef, ProbeCycleRef, BindRef, PromiseSteps
  <2> QED
    BY <1>10, <2>1, <2>2, <2>3, <2>4, <2>5, <2>6 DEF Continue
<1> QED
  BY <1>1, <1>2, <1>3, <1>4, <1>5, <1>6, <1>7, <1>8, <1>9, <1>10 DEF Next

\* The property Implements: the caches, the reuse of structures and frames and the
\* recursion through links cannot be observed.  The names that are made links are
\* written without a leading "::", as for NoLinkCycle.
THEOREM ImplementsScopes ==
    ASSUME \A n \in LinkWords : ~IsGlobal[n]
    PROVE  Spec => Implements
<1>1. Init => RefInv /\ Promise!Init
  BY InitRef
<1>2. RefInv /\ [Next]_vars => RefInv' /\ [Promise!Next]_(Promise!scopeVars)
  <2> SUFFICES ASSUME RefInv, [Next]_vars
               PROVE  RefInv' /\ [Promise!Next]_(Promise!scopeVars)
    OBVIOUS
  <2>1. CycleInv'
    BY RefGives, NextCycle
  <2>2. RefRest' /\ (Promise!Next \/ UNCHANGED Promise!scopeVars)
    BY NextRef
  <2> QED
    BY <2>1, <2>2 DEF RefInv, RefRest
<1> QED
  BY <1>1, <1>2, PTL DEF Spec, Implements, Promise!Spec
=============================================================================
