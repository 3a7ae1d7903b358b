------------------------ MODULE JimListStrings_proofs ------------------------
(***************************************************************************)
(* Proofs about JimListStrings: a list of any texts, written as a string,  *)
(* is read back as it was.                                                 *)
(***************************************************************************)
EXTENDS JimListStrings, JimLemmas

\* The characters.  Those that the quoting writes are named: the provers do not
\* know that a string is in STRING.
Alphabet == STRING \cup Special \cup Braces \cup DOMAIN Escapes
Text == Seq(Alphabet)

---------------------------------------------------------------------------
(* Runs of the parser *)

\* The value at i of a run of the parser that begins in state s.
NextIn(f, i, s, t) == IF i = 0 THEN s ELSE JimParseListStep(f[i - 1], t[i])
RunOn(f, s, t) == f = [i \in 0 .. Len(t) |-> NextIn(f, i, s, t)]

\* The text t takes the parser from state s to state u.
Reads(s, t, u) == \E f : RunOn(f, s, t) /\ f[Len(t)] = u

\* What a run is at each place.
LEMMA RunAt ==
    ASSUME NEW t \in Text, NEW s, NEW f, RunOn(f, s, t)
    PROVE  /\ Len(t) \in Nat /\ f[0] = s
           /\ \A i \in 1 .. Len(t) : f[i] = JimParseListStep(f[i - 1], t[i])
<1>1. PICK n \in Nat : n = Len(t)
  BY LenProperties DEF Text
<1>2. \A i \in 0 .. n : f[i] = NextIn(f, i, s, t)
  BY <1>1 DEF RunOn
<1>3. f[0] = s
  BY <1>2 DEF NextIn
<1>4. ASSUME NEW i \in 1 .. n PROVE f[i] = JimParseListStep(f[i - 1], t[i])
  <2>1. i \in 0 .. n /\ i # 0
    OBVIOUS
  <2> QED BY <1>2, <2>1 DEF NextIn
<1> QED BY <1>1, <1>3, <1>4

\* The parser has one run on a text from a state.
LEMMA OneRun ==
    ASSUME NEW t \in Text, NEW s, NEW f, NEW g, RunOn(f, s, t), RunOn(g, s, t)
    PROVE  f[Len(t)] = g[Len(t)]
<1>1. PICK n \in Nat : n = Len(t)
  BY LenProperties DEF Text
<1>2. /\ f[0] = s /\ \A i \in 1 .. n : f[i] = JimParseListStep(f[i - 1], t[i])
      /\ g[0] = s /\ \A i \in 1 .. n : g[i] = JimParseListStep(g[i - 1], t[i])
  BY <1>1, RunAt
<1> DEFINE T == {i \in Nat : i <= n => f[i] = g[i]}
<1>3. 0 \in T
  BY <1>2
<1>4. ASSUME NEW i \in Nat, i \in T PROVE i + 1 \in T
  <2> SUFFICES ASSUME i + 1 <= n PROVE f[i + 1] = g[i + 1]
    OBVIOUS
  <2>1. i + 1 \in 1 .. n /\ i + 1 - 1 = i /\ f[i] = g[i]
    BY <1>4
  <2> QED BY <1>2, <2>1
<1>5. n \in T
  <2> HIDE DEF T
  <2> QED BY <1>3, <1>4, SetInduction
<1> QED BY <1>1, <1>5

\* What the parser's scan of a text comes to.
LEMMA ScanReads ==
    ASSUME NEW t \in Text, NEW s, NEW u, Reads(s, t, u)
    PROVE  Scan(JimParseListStep, s, t) = u
<1>1. PICK f : RunOn(f, s, t) /\ f[Len(t)] = u
  BY DEF Reads
<1> DEFINE g == CHOOSE g : g = [i \in 0 .. Len(t) |-> NextIn(g, i, s, t)]
<1>2. Scan(JimParseListStep, s, t) = g[Len(t)]
  BY Zenon DEF Scan, NextIn
<1>3. RunOn(g, s, t)
  BY <1>1 DEF RunOn
<1> HIDE DEF g
<1> QED BY <1>1, <1>2, <1>3, OneRun

\* An empty text leaves the parser where it is.
LEMMA ReadsNothing == ASSUME NEW s PROVE Reads(s, <<>>, s)
<1> DEFINE f == [i \in 0 .. 0 |-> s]
<1>1. \A i \in 0 .. 0 : f[i] = NextIn(f, i, s, <<>>)
  BY DEF NextIn
<1>2. Len(<<>>) = 0
  OBVIOUS
<1>3. f = [i \in 0 .. 0 |-> f[i]] /\ f[0] = s
  OBVIOUS
<1> HIDE DEF f
<1>4. f = [i \in 0 .. 0 |-> NextIn(f, i, s, <<>>)]
  BY <1>1, <1>3
<1> QED BY <1>2, <1>3, <1>4 DEF Reads, RunOn

\* One character takes it one step.
LEMMA ReadsOne == ASSUME NEW s, NEW c PROVE Reads(s, <<c>>, JimParseListStep(s, c))
<1> DEFINE u == JimParseListStep(s, c)
           f == [i \in 0 .. 1 |-> IF i = 0 THEN s ELSE u]
<1>1. Len(<<c>>) = 1 /\ <<c>>[1] = c
  OBVIOUS
<1> HIDE DEF u
<1>2. f[0] = s /\ f[1] = u /\ f = [i \in 0 .. 1 |-> f[i]]
  OBVIOUS
<1> HIDE DEF f
<1>3. \A i \in 0 .. 1 : i = 0 \/ i = 1
  OBVIOUS
<1>4. \A i \in 0 .. 1 : f[i] = NextIn(f, i, s, <<c>>)
  <2>1. f[0] = NextIn(f, 0, s, <<c>>)
    BY <1>2 DEF NextIn
  <2>2. 1 # 0 /\ 1 - 1 = 0
    OBVIOUS
  <2>3. f[1] = NextIn(f, 1, s, <<c>>)
    BY <1>1, <1>2, <2>2 DEF NextIn, u
  <2> QED BY <1>3, <2>1, <2>3
<1>5. f = [i \in 0 .. 1 |-> NextIn(f, i, s, <<c>>)]
  BY <1>2, <1>4
<1> QED BY <1>1, <1>2, <1>5 DEF Reads, RunOn, u

\* Two texts one after the other.
LEMMA ReadsConcat ==
    ASSUME NEW t \in Text, NEW v \in Text, NEW s, NEW u, NEW w, Reads(s, t, u), Reads(u, v, w)
    PROVE  Reads(s, t \o v, w)
<1>1. PICK f : RunOn(f, s, t) /\ f[Len(t)] = u
  BY DEF Reads
<1>2. PICK g : RunOn(g, u, v) /\ g[Len(v)] = w
  BY DEF Reads
<1>3. PICK n \in Nat : n = Len(t)
  BY LenProperties DEF Text
<1>4. PICK m \in Nat : m = Len(v)
  BY LenProperties DEF Text
<1>5. /\ f[0] = s /\ \A i \in 1 .. n : f[i] = JimParseListStep(f[i - 1], t[i])
      /\ g[0] = u /\ \A i \in 1 .. m : g[i] = JimParseListStep(g[i - 1], v[i])
  <2>1. f[0] = s /\ \A i \in 1 .. n : f[i] = JimParseListStep(f[i - 1], t[i])
    BY <1>1, <1>3, RunAt
  <2>2. g[0] = u /\ \A i \in 1 .. m : g[i] = JimParseListStep(g[i - 1], v[i])
    BY <1>2, <1>4, RunAt
  <2> QED BY <2>1, <2>2
<1> DEFINE tv == t \o v
           h == [i \in 0 .. n + m |-> IF i <= n THEN f[i] ELSE g[i - n]]
<1>6. /\ Len(tv) = n + m
      /\ \A i \in 1 .. n + m : tv[i] = IF i <= n THEN t[i] ELSE v[i - n]
  BY <1>3, <1>4, ConcatProperties DEF Text
<1> HIDE DEF tv
<1>7. \A i \in 0 .. n + m : h[i] = IF i <= n THEN f[i] ELSE g[i - n]
  OBVIOUS
<1>8. h = [i \in 0 .. n + m |-> h[i]]
  OBVIOUS
<1> HIDE DEF h
<1>9. ASSUME NEW i \in 0 .. n + m PROVE h[i] = NextIn(h, i, s, tv)
  <2>1. CASE i = 0
    BY <1>5, <1>7, <2>1 DEF NextIn
  <2>2. CASE i # 0 /\ i <= n
    <3>1. i \in 1 .. n /\ i - 1 \in 0 .. n + m /\ i - 1 <= n /\ i \in 1 .. n + m
      BY <2>2
    <3>2. h[i] = f[i] /\ h[i - 1] = f[i - 1] /\ tv[i] = t[i]
      BY <1>6, <1>7, <2>2, <3>1
    <3> QED BY <1>5, <2>2, <3>1, <3>2 DEF NextIn
  <2>3. CASE i > n
    <3>1. i - n \in 1 .. m /\ i - 1 \in 0 .. n + m /\ i \in 1 .. n + m /\ i # 0 /\ ~(i <= n)
      BY <2>3
    <3>2. h[i] = g[i - n] /\ tv[i] = v[i - n]
      BY <1>6, <1>7, <3>1
    <3>3. h[i - 1] = g[i - n - 1]
      <4>1. CASE i = n + 1
        <5>1. i - 1 = n /\ i - n - 1 = 0 /\ n <= n
          BY <4>1
        <5>2. h[i - 1] = f[n]
          BY <1>7, <3>1, <5>1
        <5> QED BY <1>1, <1>3, <1>5, <5>1, <5>2
      <4>2. CASE i # n + 1
        <5>1. ~(i - 1 <= n) /\ i - 1 - n = i - n - 1
          BY <2>3, <4>2
        <5> QED BY <1>7, <3>1, <5>1
      <4> QED BY <4>1, <4>2
    <3>4. g[i - n] = JimParseListStep(g[i - n - 1], v[i - n])
      BY <1>5, <3>1
    <3> QED BY <3>1, <3>2, <3>3, <3>4 DEF NextIn
  <2> QED BY <2>1, <2>2, <2>3
<1>10. RunOn(h, s, tv)
  BY <1>6, <1>8, <1>9 DEF RunOn
<1>11. h[Len(tv)] = w
  <2>1. n + m \in 0 .. n + m
    OBVIOUS
  <2>2. CASE m = 0
    <3>1. n + m = n /\ n + m <= n
      BY <2>2
    <3>2. h[n + m] = f[n]
      BY <1>7, <2>1, <3>1
    <3> QED BY <1>1, <1>2, <1>3, <1>4, <1>5, <1>6, <2>2, <3>2
  <2>3. CASE m # 0
    <3>1. ~(n + m <= n) /\ n + m - n = m
      BY <2>3
    <3> QED BY <1>2, <1>4, <1>6, <1>7, <2>1, <3>1
  <2> QED BY <2>2, <2>3
<1> QED BY <1>10, <1>11 DEF Reads, tv

\* A text of one character.
LEMMA OneCharacter == ASSUME NEW c \in Alphabet PROVE <<c>> \in Text
<1>1. <<>> \in Seq(Alphabet) /\ <<c>> = <<c>> \o <<>>
  OBVIOUS
<1> QED BY <1>1, PushedElement DEF Text

\* A text with one character more.
LEMMA ReadsMore ==
    ASSUME NEW t \in Text, NEW c \in Alphabet, NEW s, NEW u, Reads(s, t, u)
    PROVE  Reads(s, Append(t, c), JimParseListStep(u, c))
<1>1. Append(t, c) = t \o <<c>>
  BY AppendIsConcat DEF Text
<1> QED BY <1>1, OneCharacter, ReadsOne, ReadsConcat
---------------------------------------------------------------------------
(* Steps of the parser *)

\* The states of the parser; in such a state, what it has of the element it is
\* in and the elements before it.
States ==
    [in : {"sep", "bare", "brace", "quote"}, level : Int, escaped : BOOLEAN,
     token : Text, found : Seq(Text)]
In(s, kind, t, p) == s \in States /\ s.in = kind /\ s.token = t /\ s.found = p
Between(s, p) == s \in States /\ s.in = "sep" /\ ~s.escaped /\ s.found = p

\* What the state of an element has with one character more.
LEMMA MoreIs ==
    ASSUME NEW kind, NEW t \in Text, NEW p, NEW s, In(s, kind, t, p), NEW c \in Alphabet
    PROVE  /\ In(More(s, c), kind, Append(t, c), p)
           /\ More(s, c).level = s.level /\ More(s, c).escaped = s.escaped
<1>1. Append(t, c) \in Text
  BY AppendProperties DEF Text
<1> QED BY <1>1 DEF More, In, States

\* The end of an element.
LEMMA EndIs ==
    ASSUME NEW kind, NEW t \in Text, NEW p \in Seq(Text), NEW s, In(s, kind, t, p), ~s.escaped
    PROVE  Between(End(s), Append(p, t))
<1>1. Append(p, t) \in Seq(Text)
  BY AppendProperties
<1> QED BY <1>1 DEF End, In, Between, States

\* The escapes and the characters that they stand for.
LEMMA EscapesAre ==
    /\ DOMAIN Escapes = {"n", "t", "r", "f"}
    /\ \A e \in DOMAIN Escapes : Escapes[e] \in {"\n", "\t", "\r", "\f"}
<1>1. DOMAIN Escapes = {"n", "t", "r", "f"}
  BY DEF Escapes
<1>2. \A e \in {"n", "t", "r", "f"} : Escapes[e] \in {"\n", "\t", "\r", "\f"}
  BY DEF Escapes
<1> QED BY <1>1, <1>2

\* What a character after a backslash stands for is a character.
LEMMA UnescapeType == \A c \in Alphabet : Unescape(c) \in Alphabet
<1>1. {"\n", "\t", "\r", "\f", " "} \subseteq Alphabet
  BY DEF Alphabet, Special, Space
<1> QED BY <1>1, EscapesAre DEF Unescape

\* Between elements a blank is skipped.
LEMMA SkipStep ==
    ASSUME NEW p, NEW s, Between(s, p), NEW c \in Space
    PROVE  Between(JimParseListStep(s, c), p)
<1>1. JimParseListStep(s, c) = Start(s, c)
  BY DEF JimParseListStep, Between
<1>2. Start(s, c) = s
  BY DEF Start, Space
<1> QED BY <1>1, <1>2

\* A brace begins an element in braces, with one of them open.
LEMMA OpenBraceStep ==
    ASSUME NEW p, NEW s, Between(s, p)
    PROVE  LET u == JimParseListStep(s, "{")
           IN  In(u, "brace", <<>>, p) /\ u.level = 1 /\ ~u.escaped
<1>1. JimParseListStep(s, "{") = Start(s, "{")
  BY DEF JimParseListStep, Between
<1>2. Start(s, "{") = [s EXCEPT !.in = "brace", !.level = 1, !.token = <<>>]
  BY DEF Start, Space
<1>3. <<>> \in Text
  BY DEF Text
<1> DEFINE u == [s EXCEPT !.in = "brace", !.level = 1, !.token = <<>>]
<1>4. u \in [in : {"brace"}, level : {1}, escaped : {s.escaped}, token : {<<>>}, found : {p}]
  BY DEF Between, States
<1>5. s.escaped \in BOOLEAN /\ ~s.escaped /\ p \in Seq(Text)
  BY DEF Between, States
<1> HIDE DEF u
<1>6. In(u, "brace", <<>>, p) /\ u.level = 1 /\ ~u.escaped
  BY <1>3, <1>4, <1>5 DEF In, States
<1> QED BY <1>1, <1>2, <1>6 DEF u

\* A backslash begins a bare element and hides its first character.
LEMMA OpenHiddenStep ==
    ASSUME NEW p, NEW s, Between(s, p)
    PROVE  LET u == JimParseListStep(s, "\\") IN In(u, "bare", <<>>, p) /\ u.escaped
<1>1. JimParseListStep(s, "\\") = Start(s, "\\")
  BY DEF JimParseListStep, Between
<1>2. Start(s, "\\") = [s EXCEPT !.in = "bare", !.escaped = TRUE, !.token = <<>>]
  BY DEF Start, Space
<1>3. <<>> \in Text
  BY DEF Text
<1> DEFINE u == [s EXCEPT !.in = "bare", !.escaped = TRUE, !.token = <<>>]
<1>4. In(u, "bare", <<>>, p) /\ u.escaped
  BY <1>3 DEF In, Between, States
<1> QED BY <1>1, <1>2, <1>4

\* Another character begins a bare element.
LEMMA OpenBareStep ==
    ASSUME NEW p, NEW s, Between(s, p), NEW c \in Alphabet, c \notin Space \cup {"{", "\"", "\\"}
    PROVE  LET u == JimParseListStep(s, c) IN In(u, "bare", <<c>>, p) /\ ~u.escaped
<1>1. JimParseListStep(s, c) = Start(s, c)
  BY DEF JimParseListStep, Between
<1>2. Start(s, c) = [s EXCEPT !.in = "bare", !.token = <<c>>]
  BY DEF Start
<1>3. <<c>> \in Text
  BY OneCharacter
<1> DEFINE u == [s EXCEPT !.in = "bare", !.token = <<c>>]
<1>4. In(u, "bare", <<c>>, p) /\ ~u.escaped
  BY <1>3 DEF In, Between, States
<1> QED BY <1>1, <1>2, <1>4

\* A character that a backslash hides becomes part of a bare element as what it
\* stands for.
LEMMA HiddenStep ==
    ASSUME NEW t \in Text, NEW p, NEW s, In(s, "bare", t, p), s.escaped, NEW c \in Alphabet
    PROVE  LET u == JimParseListStep(s, c)
           IN  In(u, "bare", Append(t, Unescape(c)), p) /\ ~u.escaped
<1> DEFINE m == More(s, Unescape(c))
<1>1. JimParseListStep(s, c) = [m EXCEPT !.escaped = FALSE]
  BY DEF JimParseListStep, In
<1>2. In(m, "bare", Append(t, Unescape(c)), p)
  BY UnescapeType, MoreIs
<1> HIDE DEF m
<1>3. In([m EXCEPT !.escaped = FALSE], "bare", Append(t, Unescape(c)), p)
  BY <1>2 DEF In, States
<1>4. ~[m EXCEPT !.escaped = FALSE].escaped
  BY <1>2 DEF In, States
<1> QED BY <1>1, <1>3, <1>4

\* In a bare element a backslash hides the next character.
LEMMA BackslashStep ==
    ASSUME NEW t \in Text, NEW p, NEW s, In(s, "bare", t, p), ~s.escaped
    PROVE  LET u == JimParseListStep(s, "\\") IN In(u, "bare", t, p) /\ u.escaped
<1>1. JimParseListStep(s, "\\") = [s EXCEPT !.escaped = TRUE]
  BY DEF JimParseListStep, In
<1>2. In([s EXCEPT !.escaped = TRUE], "bare", t, p) /\ [s EXCEPT !.escaped = TRUE].escaped
  BY DEF In, States
<1> QED BY <1>1, <1>2

\* A blank ends a bare element.
LEMMA CloseBareStep ==
    ASSUME NEW t \in Text, NEW p \in Seq(Text), NEW s, In(s, "bare", t, p), ~s.escaped, NEW c \in Space
    PROVE  Between(JimParseListStep(s, c), Append(p, t))
<1>1. c # "\\"
  BY DEF Space
<1>2. JimParseListStep(s, c) = End(s)
  BY <1>1 DEF JimParseListStep, In
<1> QED BY <1>2, EndIs

\* Another character becomes part of a bare element.
LEMMA BareStep ==
    ASSUME NEW t \in Text, NEW p, NEW s, In(s, "bare", t, p), ~s.escaped,
           NEW c \in Alphabet, c \notin Space \cup {"\\"}
    PROVE  LET u == JimParseListStep(s, c) IN In(u, "bare", Append(t, c), p) /\ ~u.escaped
<1>1. JimParseListStep(s, c) = More(s, c)
  BY DEF JimParseListStep, In
<1> QED BY <1>1, MoreIs

\* In braces a character that a backslash hides becomes part of the element.
LEMMA HiddenInBraceStep ==
    ASSUME NEW t \in Text, NEW p, NEW s, In(s, "brace", t, p), s.escaped, NEW c \in Alphabet
    PROVE  LET u == JimParseListStep(s, c)
           IN  In(u, "brace", Append(t, c), p) /\ ~u.escaped /\ u.level = s.level
<1> DEFINE m == More(s, c)
<1>1. JimParseListStep(s, c) = [m EXCEPT !.escaped = FALSE]
  BY DEF JimParseListStep, In
<1>2. In(m, "brace", Append(t, c), p) /\ m.level = s.level
  BY MoreIs
<1> HIDE DEF m
<1>3. In([m EXCEPT !.escaped = FALSE], "brace", Append(t, c), p)
  BY <1>2 DEF In, States
<1>4. ~[m EXCEPT !.escaped = FALSE].escaped /\ [m EXCEPT !.escaped = FALSE].level = s.level
  BY <1>2 DEF In, States
<1> QED BY <1>1, <1>3, <1>4

\* The closing brace ends an element in braces.
LEMMA CloseBraceStep ==
    ASSUME NEW t \in Text, NEW p \in Seq(Text), NEW s, In(s, "brace", t, p), ~s.escaped, s.level = 1
    PROVE  Between(JimParseListStep(s, "}"), Append(p, t))
<1>1. JimParseListStep(s, "}") = End(s)
  BY DEF JimParseListStep, In
<1> QED BY <1>1, EndIs

\* By how much a character changes the number of open braces.
Deeper(c) == IF c = "{" THEN 1 ELSE IF c = "}" THEN -1 ELSE 0

\* The state with the character c more, d more braces open, and the next character
\* hidden or not.
Levelled(s, c, d, b) == [More(s, c) EXCEPT !.level = @ + d, !.escaped = b]

\* What such a state has of the element.
LEMMA LevelledIs ==
    ASSUME NEW t \in Text, NEW p, NEW s, In(s, "brace", t, p), NEW c \in Alphabet,
           NEW d \in Int, NEW b \in BOOLEAN
    PROVE  /\ In(Levelled(s, c, d, b), "brace", Append(t, c), p)
           /\ Levelled(s, c, d, b).level = s.level + d /\ Levelled(s, c, d, b).escaped = b
<1> DEFINE m == More(s, c)
           u == [m EXCEPT !.level = @ + d, !.escaped = b]
<1>1. In(m, "brace", Append(t, c), p) /\ m.level = s.level
  BY MoreIs
<1> HIDE DEF m
<1>2. u \in [in : {"brace"}, level : {s.level + d}, escaped : {b}, token : {Append(t, c)},
             found : {p}]
  BY <1>1 DEF In, States
<1>3. s.level + d \in Int /\ p \in Seq(Text) /\ Append(t, c) \in Text
  <2>1. s.level \in Int /\ p \in Seq(Text)
    BY DEF In, States
  <2>2. Append(t, c) \in Text
    BY AppendProperties DEF Text
  <2> QED BY <2>1, <2>2
<1> HIDE DEF u
<1>4. In(u, "brace", Append(t, c), p) /\ u.level = s.level + d /\ u.escaped = b
  BY <1>2, <1>3 DEF In, States
<1> QED BY <1>4 DEF u, m, Levelled

\* The change is a number.
LEMMA DeeperType == \A c : Deeper(c) \in Int
BY DEF Deeper

\* The character is not the closing brace of the element.
Inside(s, c) == c # "}" \/ s.level # 1

\* Another character becomes part of an element in braces; a backslash hides the
\* next one.
LEMMA BraceStep ==
    ASSUME NEW t \in Text, NEW p, NEW s, In(s, "brace", t, p), ~s.escaped,
           NEW c \in Alphabet, Inside(s, c)
    PROVE  LET u == JimParseListStep(s, c)
           IN  /\ In(u, "brace", Append(t, c), p)
               /\ u.level = s.level + Deeper(c) /\ (u.escaped <=> c = "\\")
<1>1. PICK b \in BOOLEAN : b = (c = "\\")
  OBVIOUS
<1>2. JimParseListStep(s, c) = Levelled(s, c, Deeper(c), b)
  BY <1>1 DEF JimParseListStep, In, Deeper, Inside, Levelled
<1>3. Deeper(c) \in Int
  BY DeeperType
<1>4. LET u == Levelled(s, c, Deeper(c), b)
      IN  In(u, "brace", Append(t, c), p) /\ u.level = s.level + Deeper(c) /\ u.escaped = b
  BY <1>3, LevelledIs
<1> QED BY <1>1, <1>2, <1>4
---------------------------------------------------------------------------
(* Texts *)

\* A text is read from its beginnings.
LEMMA Beginnings ==
    ASSUME NEW S, NEW t \in Seq(S)
    PROVE  /\ Len(t) \in Nat /\ SubSeq(t, 1, 0) = <<>> /\ SubSeq(t, 1, Len(t)) = t
           /\ \A i \in 0 .. Len(t) : SubSeq(t, 1, i) \in Seq(S)
           /\ \A i \in Nat : i + 1 <= Len(t) =>
                 /\ t[i + 1] \in S /\ SubSeq(t, 1, i + 1) = Append(SubSeq(t, 1, i), t[i + 1])
<1>1. PICK n \in Nat : n = Len(t)
  BY LenProperties
<1>2. \A i \in 0 .. n : /\ SubSeq(t, 1, i) \in Seq(S) /\ Len(SubSeq(t, 1, i)) = i
                        /\ \A j \in 1 .. i : SubSeq(t, 1, i)[j] = t[j]
  BY <1>1, PrefixProperties
<1>3. SubSeq(t, 1, 0) = <<>>
  <2>1. 0 \in 0 .. n
    OBVIOUS
  <2>2. SubSeq(t, 1, 0) \in Seq(S) /\ Len(SubSeq(t, 1, 0)) = 0
    BY <1>2, <2>1
  <2> QED BY <2>2, EmptySeq
<1>4. SubSeq(t, 1, n) = t
  <2>1. n \in 0 .. n
    OBVIOUS
  <2> QED BY <1>1, <1>2, <2>1, SeqEqual
<1>5. ASSUME NEW i \in Nat, i + 1 <= n
      PROVE  t[i + 1] \in S /\ SubSeq(t, 1, i + 1) = Append(SubSeq(t, 1, i), t[i + 1])
  <2>1. i \in 0 .. n /\ i + 1 \in 0 .. n /\ i + 1 \in 1 .. n
    BY <1>5
  <2>2. t[i + 1] \in S
    BY <1>1, <2>1, ElementOfSeq
  <2> DEFINE f == SubSeq(t, 1, i)
             g == SubSeq(t, 1, i + 1)
  <2>3. f \in Seq(S) /\ Len(f) = i /\ \A j \in 1 .. i : f[j] = t[j]
    BY <1>2, <2>1
  <2>4. g \in Seq(S) /\ Len(g) = i + 1 /\ \A j \in 1 .. i + 1 : g[j] = t[j]
    BY <1>2, <2>1
  <2> HIDE DEF f, g
  <2> DEFINE h == Append(f, t[i + 1])
  <2>5. h \in Seq(S) /\ Len(h) = i + 1
        /\ \A j \in 1 .. i + 1 : h[j] = IF j <= i THEN f[j] ELSE t[i + 1]
    <3>1. /\ h \in Seq(S) /\ Len(h) = Len(f) + 1
          /\ \A j \in 1 .. Len(f) + 1 : h[j] = IF j <= Len(f) THEN f[j] ELSE t[i + 1]
      BY <2>2, <2>3, AppendAt
    <3> QED BY <2>3, <3>1
  <2> HIDE DEF h
  <2>6. ASSUME NEW j \in 1 .. i + 1 PROVE g[j] = h[j]
    <3>1. CASE j <= i
      <4>1. j \in 1 .. i
        BY <3>1
      <4> QED BY <2>3, <2>4, <2>5, <3>1, <4>1
    <3>2. CASE ~(j <= i)
      <4>1. j = i + 1
        BY <3>2
      <4> QED BY <2>4, <2>5, <3>2, <4>1
    <3> QED BY <3>1, <3>2
  <2>7. g = h
    BY <2>4, <2>5, <2>6, SeqEqual
  <2> QED BY <2>2, <2>7 DEF f, g, h
<1> QED BY <1>1, <1>2, <1>3, <1>4, <1>5

\* An element after two sequences.
LEMMA MoreElements ==
    ASSUME NEW S, NEW p \in Seq(S), NEW q \in Seq(S), NEW e \in S
    PROVE  p \o Append(q, e) = Append(p \o q, e)
<1>1. <<e>> \in Seq(S) /\ Append(q, e) = q \o <<e>>
  BY AppendIsConcat
<1>2. p \o q \in Seq(S)
  BY ConcatProperties
<1>3. Append(p \o q, e) = (p \o q) \o <<e>>
  BY <1>2, AppendIsConcat
<1> QED BY <1>1, <1>3, ConcatAssociative

\* Three texts one after the other, in either grouping.
LEMMA ConcatRegroup ==
    ASSUME NEW t \in Text, NEW v \in Text, NEW w \in Text
    PROVE  (t \o v) \o w = t \o (v \o w)
BY ConcatAssociative DEF Text

\* Two texts one after the other are a text.
LEMMA ConcatType ==
    ASSUME NEW t \in Text, NEW v \in Text
    PROVE  t \o v \in Text
BY ConcatProperties DEF Text

---------------------------------------------------------------------------
(* An element in braces *)

\* The scan for matching braces.
BraceStates == [level : Int, blevel : Int, hidden : BOOLEAN, ok : BOOLEAN]

\* What it keeps about the braces, from one character to the next.
Matched(st, c, u) ==
    /\ st.hidden => u.level = st.level
    /\ ~st.hidden => u.level = st.level + Deeper(c)
    /\ u.hidden <=> ~st.hidden /\ c = "\\"
    /\ u.ok => st.ok /\ (st.hidden \/ c # "}" \/ st.level > 0)

\* Adding a change that is nothing changes nothing.
LEMMA AddNothing == \A n \in Int : \A m : m = 0 => n + m = n
OBVIOUS

\* Every character keeps that, whatever the scan has seen.
LEMMA MatchStep ==
    ASSUME NEW st \in BraceStates, NEW c
    PROVE  Match(st, c) \in BraceStates /\ Matched(st, c, Match(st, c))
<1> DEFINE u == Match(st, c)
<1>1. CASE st.hidden
  <2>1. u = [st EXCEPT !.hidden = FALSE, !.ok = @ /\ c # "\n"]
    BY <1>1 DEF Match
  <2>2. u \in BraceStates
    BY <2>1 DEF BraceStates
  <2>3. u.level = st.level /\ ~u.hidden /\ (u.ok => st.ok)
    BY <2>1 DEF BraceStates
  <2>4. st.level \in Int
    BY DEF BraceStates
  <2> HIDE DEF u
  <2> QED BY <1>1, <2>2, <2>3, <2>4 DEF Matched, u
<1>2. CASE ~st.hidden /\ c = "\\"
  <2>0. c \notin Braces /\ c \notin {"[", "]"}
    BY <1>2 DEF Braces
  <2>1. u = [st EXCEPT !.hidden = TRUE]
    BY <1>2, <2>0 DEF Match
  <2>2. u \in BraceStates
    BY <2>1 DEF BraceStates
  <2>3. u.level = st.level /\ u.hidden /\ u.ok = st.ok
    BY <2>1 DEF BraceStates
  <2>4. st.level \in Int /\ Deeper(c) = 0 /\ c # "}"
    BY <1>2 DEF BraceStates, Deeper
  <2>5. u.level = st.level + Deeper(c)
    BY <2>3, <2>4, AddNothing
  <2> HIDE DEF u
  <2>6. Matched(st, c, u)
    BY <1>2, <2>3, <2>4, <2>5 DEF Matched
  <2> QED BY <2>2, <2>6 DEF u
<1>3. CASE ~st.hidden /\ c \in Braces
  <2>1. c # "\\" /\ c \in {"{", "}"}
    BY <1>3 DEF Braces
  <2>2. u = [st EXCEPT !.level = @ + (IF c = "{" THEN 1 ELSE -1),
                       !.ok = @ /\ (c = "{" \/ st.level > 0)]
    BY <1>3, <2>1 DEF Match
  <2>3. st.level \in Int
    BY DEF BraceStates
  <2>4. Deeper(c) = IF c = "{" THEN 1 ELSE -1
    BY <2>1 DEF Deeper
  <2>5. u \in BraceStates
    <3>1. PICK b \in BOOLEAN : b = (st.ok /\ (c = "{" \/ st.level > 0))
      OBVIOUS
    <3>2. PICK d \in Int : d = st.level + (IF c = "{" THEN 1 ELSE -1)
      <4>1. PICK n \in Int : n = st.level
        BY <2>3
      <4>2. \A m \in Int : n + m \in Int
        OBVIOUS
      <4>3. (IF c = "{" THEN 1 ELSE -1) \in Int
        OBVIOUS
      <4>4. n + (IF c = "{" THEN 1 ELSE -1) \in Int
        BY Zenon, <4>2, <4>3
      <4> QED BY Zenon, <4>1, <4>4
    <3>3. u = [st EXCEPT !.level = d, !.ok = b]
      BY <2>2, <3>1, <3>2
    <3>4. [st EXCEPT !.level = d, !.ok = b]
            \in [level : {d}, blevel : {st.blevel}, hidden : {st.hidden}, ok : {b}]
      BY DEF BraceStates
    <3>5. st.blevel \in Int /\ st.hidden \in BOOLEAN
      BY DEF BraceStates
    <3> HIDE DEF u
    <3> QED BY <3>3, <3>4, <3>5 DEF BraceStates
  <2>6. u.level = st.level + (IF c = "{" THEN 1 ELSE -1)
    BY <2>2, <2>3 DEF BraceStates
  <2>7. u.hidden = st.hidden
    BY <2>2 DEF BraceStates
  <2>8. u.ok => st.ok /\ (c = "{" \/ st.level > 0)
    BY <2>2 DEF BraceStates
  <2> HIDE DEF u
  <2> QED BY <1>3, <2>1, <2>4, <2>5, <2>6, <2>7, <2>8 DEF Matched, u
<1>4. CASE ~st.hidden /\ c \in {"[", "]"}
  <2>1. c # "\\" /\ c \notin Braces
    BY <1>4 DEF Braces
  <2>2. u = [st EXCEPT !.blevel = @ + (IF c = "[" THEN 1 ELSE -1)]
    BY <1>4, <2>1 DEF Match
  <2>3. st.level \in Int /\ Deeper(c) = 0 /\ c # "}"
    BY <2>1 DEF BraceStates, Deeper, Braces
  <2>4. u \in BraceStates
    BY <2>2 DEF BraceStates
  <2>5. u.level = st.level
    BY <2>2 DEF BraceStates
  <2>6. (u.hidden <=> st.hidden) /\ (u.ok <=> st.ok)
    BY <2>2 DEF BraceStates
  <2> HIDE DEF u
  <2>7. u.level = st.level + Deeper(c)
    BY <2>3, <2>5, AddNothing
  <2>8. Matched(st, c, u)
    BY <1>4, <2>1, <2>3, <2>6, <2>7 DEF Matched
  <2> QED BY <2>4, <2>8 DEF u
<1>5. CASE ~st.hidden /\ c \notin Braces \cup {"[", "]", "\\"}
  <2>1. u = st
    BY <1>5 DEF Match
  <2>2. st.level \in Int /\ Deeper(c) = 0 /\ c # "}" /\ c # "\\"
    BY <1>5 DEF BraceStates, Deeper, Braces
  <2>3. st.level = st.level + Deeper(c)
    BY <2>2, AddNothing
  <2>4. Matched(st, c, st)
    BY <1>5, <2>2, <2>3 DEF Matched
  <2> HIDE DEF u
  <2> QED BY <2>1, <2>4 DEF u
<1> QED BY <1>1, <1>2, <1>3, <1>4, <1>5

\* Scans of a text that find its braces matching.
FitsBraces(t, g) ==
    /\ g[0] \in BraceStates /\ g[0].level = 0 /\ ~g[0].hidden
    /\ \A i \in 1 .. Len(t) : g[i] \in BraceStates /\ Matched(g[i - 1], t[i], g[i])
    /\ g[Len(t)].ok /\ g[Len(t)].level = 0 /\ ~g[Len(t)].hidden

\* In such a scan nothing has ruled braces out at any place.
LEMMA FitsOk ==
    ASSUME NEW t \in Text, NEW g, FitsBraces(t, g)
    PROVE  \A i \in 0 .. Len(t) : g[i] \in BraceStates /\ g[i].ok
<1>1. PICK n \in Nat : n = Len(t)
  BY LenProperties DEF Text
<1>2. /\ g[0] \in BraceStates /\ g[n].ok
      /\ \A i \in 1 .. n : g[i] \in BraceStates /\ Matched(g[i - 1], t[i], g[i])
  BY <1>1 DEF FitsBraces
<1> DEFINE T == {k \in Nat : k <= n => g[n - k].ok}
<1>3. 0 \in T
  <2>1. n - 0 = n
    OBVIOUS
  <2> QED BY <1>2, <2>1
<1>4. ASSUME NEW k \in Nat, k \in T PROVE k + 1 \in T
  <2> SUFFICES ASSUME k + 1 <= n PROVE g[n - (k + 1)].ok
    OBVIOUS
  <2>1. k <= n /\ n - k \in 1 .. n /\ n - k - 1 = n - (k + 1)
    OBVIOUS
  <2>2. g[n - k].ok
    BY <1>4, <2>1
  <2>3. Matched(g[n - k - 1], t[n - k], g[n - k])
    BY <1>2, <2>1
  <2>4. g[n - k - 1].ok
    BY <2>2, <2>3 DEF Matched
  <2> QED BY <2>1, <2>4
<1>5. Nat \subseteq T
  <2> HIDE DEF T
  <2> QED BY <1>3, <1>4, SetInduction
<1>6. ASSUME NEW i \in 0 .. n PROVE g[i] \in BraceStates /\ g[i].ok
  <2>1. n - i \in Nat /\ n - i <= n /\ n - (n - i) = i
    OBVIOUS
  <2>2. g[i].ok
    BY <1>5, <2>1
  <2>3. i = 0 \/ i \in 1 .. n
    OBVIOUS
  <2> QED BY <1>2, <2>2, <2>3
<1> QED BY <1>1, <1>6

\* The parser inside braces: it has the text t and as many open braces more as
\* the scan found, which is in state st.
Follows(u, t, p, st) ==
    In(u, "brace", t, p) /\ u.level = 1 + st.level /\ (u.escaped <=> st.hidden)

\* One character further in both.
LEMMA FollowsStep ==
    ASSUME NEW t \in Text, NEW p, NEW u, NEW st \in BraceStates, Follows(u, t, p, st),
           NEW c \in Alphabet, NEW v \in BraceStates, Matched(st, c, v), v.ok
    PROVE  Follows(JimParseListStep(u, c), Append(t, c), p, v)
<1>1. st.level \in Int /\ v.level \in Int
  BY DEF BraceStates
<1>2. CASE st.hidden
  <2>1. u.escaped
    BY <1>2 DEF Follows
  <2>2. LET w == JimParseListStep(u, c)
        IN  In(w, "brace", Append(t, c), p) /\ ~w.escaped /\ w.level = u.level
    BY <2>1, HiddenInBraceStep DEF Follows
  <2>3. v.level = st.level /\ ~v.hidden
    BY <1>2 DEF Matched
  <2> QED BY <2>2, <2>3 DEF Follows
<1>3. CASE ~st.hidden
  <2>1. ~u.escaped
    BY <1>3 DEF Follows
  <2>2. c # "}" \/ st.level > 0
    BY <1>3 DEF Matched
  <2>3. u.level = 1 + st.level
    BY DEF Follows
  <2>4. Inside(u, c)
    <3>1. PICK n \in Int : n = st.level
      BY <1>1
    <3>2. n > 0 => 1 + n # 1
      OBVIOUS
    <3>3. CASE c # "}"
      BY <3>3 DEF Inside
    <3>4. CASE st.level > 0
      <4>1. u.level # 1
        BY <2>3, <3>1, <3>2, <3>4
      <4> QED BY <4>1 DEF Inside
    <3> QED BY <2>2, <3>3, <3>4
  <2>5. LET w == JimParseListStep(u, c)
        IN  /\ In(w, "brace", Append(t, c), p)
            /\ w.level = u.level + Deeper(c) /\ (w.escaped <=> c = "\\")
    BY <2>1, <2>4, BraceStep DEF Follows
  <2>6. v.level = st.level + Deeper(c)
    BY <1>3 DEF Matched
  <2>7. v.hidden <=> c = "\\"
    BY <1>3 DEF Matched
  <2>8. u.level + Deeper(c) = 1 + v.level
    <3>1. PICK n \in Int : n = st.level
      BY <1>1
    <3>2. PICK m \in Int : m = Deeper(c)
      BY DeeperType
    <3>3. 1 + n + m = 1 + (n + m)
      OBVIOUS
    <3> QED BY <2>3, <2>6, <3>1, <3>2, <3>3
  <2> QED BY <2>5, <2>7, <2>8 DEF Follows
<1> QED BY <1>2, <1>3

\* A text in which braces match is read from its braces.
LEMMA ReadsBraces ==
    ASSUME NEW p \in Seq(Text), NEW s, Between(s, p), NEW t \in Text, NEW g, FitsBraces(t, g)
    PROVE  \E u : Reads(s, <<"{">> \o t \o <<"}">>, u) /\ Between(u, Append(p, t))
<1> DEFINE open == <<"{">>
           Upto(i) == SubSeq(t, 1, i)
<1>1. PICK n \in Nat : n = Len(t)
  BY LenProperties DEF Text
<1>2. \A i \in 0 .. n : g[i] \in BraceStates /\ g[i].ok
  BY <1>1, FitsOk
<1>3. /\ g[0].level = 0 /\ ~g[0].hidden /\ g[n].level = 0 /\ ~g[n].hidden
      /\ \A i \in 1 .. n : Matched(g[i - 1], t[i], g[i])
  BY <1>1 DEF FitsBraces
<1>4. "{" \in Alphabet /\ "}" \in Alphabet
  BY DEF Alphabet, Braces
<1>5. open \in Text /\ <<"}">> \in Text
  BY <1>4, OneCharacter
<1>6. /\ Upto(0) = <<>> /\ Upto(n) = t
      /\ \A i \in 0 .. n : Upto(i) \in Text
      /\ \A i \in Nat : i + 1 <= n => t[i + 1] \in Alphabet /\ Upto(i + 1) = Append(Upto(i), t[i + 1])
  BY <1>1, Beginnings DEF Text
<1> HIDE DEF Upto
<1> DEFINE After(i) == \E u : Reads(s, open \o Upto(i), u) /\ Follows(u, Upto(i), p, g[i])
           T == {i \in Nat : i <= n => After(i)}
<1>7. After(0)
  <2> DEFINE u == JimParseListStep(s, "{")
  <2>1. Reads(s, open, u)
    BY ReadsOne
  <2>2. In(u, "brace", <<>>, p) /\ u.level = 1 /\ ~u.escaped
    BY OpenBraceStep
  <2>3. open \o Upto(0) = open
    BY <1>5, <1>6, ConcatEmptySeq DEF Text
  <2> HIDE DEF u, open
  <2>4. Follows(u, <<>>, p, g[0])
    BY <1>3, <2>2 DEF Follows
  <2> QED BY <1>6, <2>1, <2>3, <2>4
<1> HIDE DEF open
<1>8. 0 \in T
  BY <1>7
<1>9. ASSUME NEW i \in Nat, i \in T PROVE i + 1 \in T
  <2> SUFFICES ASSUME i + 1 <= n PROVE After(i + 1)
    OBVIOUS
  <2>1. i \in 0 .. n /\ i + 1 \in 0 .. n /\ i + 1 \in 1 .. n /\ i + 1 - 1 = i
    OBVIOUS
  <2>2. After(i)
    BY <1>9, <2>1
  <2>3. PICK u : Reads(s, open \o Upto(i), u) /\ Follows(u, Upto(i), p, g[i])
    BY <2>2
  <2> DEFINE c == t[i + 1]
             w == JimParseListStep(u, c)
  <2>4. c \in Alphabet /\ Upto(i + 1) = Append(Upto(i), c) /\ Upto(i) \in Text
    BY <1>6, <2>1
  <2>5. Matched(g[i], c, g[i + 1]) /\ g[i] \in BraceStates /\ g[i + 1] \in BraceStates /\ g[i + 1].ok
    BY <1>2, <1>3, <2>1
  <2> HIDE DEF c
  <2>6. Follows(w, Append(Upto(i), c), p, g[i + 1])
    BY <2>3, <2>4, <2>5, FollowsStep
  <2>7. open \o Upto(i) \in Text
    BY <1>5, <2>4, ConcatProperties DEF Text
  <2>8. Reads(s, Append(open \o Upto(i), c), w)
    BY <2>3, <2>4, <2>7, ReadsMore
  <2>9. open \o Append(Upto(i), c) = Append(open \o Upto(i), c)
    <3>1. open \in Seq(Alphabet) /\ Upto(i) \in Seq(Alphabet) /\ c \in Alphabet
      BY <1>5, <2>4 DEF Text
    <3> HIDE DEF open
    <3> QED BY <3>1, MoreElements
  <2> HIDE DEF w
  <2> QED BY <2>4, <2>6, <2>8, <2>9
<1>10. After(n)
  <2>1. n \in T
    <3> HIDE DEF T
    <3> QED BY <1>8, <1>9, SetInduction
  <2> QED BY <2>1
<1>11. PICK u : Reads(s, open \o t, u) /\ Follows(u, t, p, g[n])
  BY <1>6, <1>10
<1>12. In(u, "brace", t, p) /\ ~u.escaped /\ u.level = 1
  <2>1. u.level = 1 + g[n].level /\ 1 + 0 = 1
    BY <1>11 DEF Follows
  <2> QED BY <1>3, <1>11, <2>1 DEF Follows
<1>13. Between(JimParseListStep(u, "}"), Append(p, t))
  BY <1>12, CloseBraceStep
<1>14. open \o t \in Text
  BY <1>5, ConcatProperties DEF Text
<1>15. Reads(s, open \o t \o <<"}">>, JimParseListStep(u, "}"))
  BY <1>5, <1>11, <1>14, ReadsOne, ReadsConcat
<1> QED BY <1>13, <1>15 DEF open

\* The scan for matching braces, character by character.
LEMMA MatchScan ==
    ASSUME NEW t \in Text
    PROVE  \E g : /\ g[0] = Unmatched /\ \A i \in 1 .. Len(t) : g[i] = Match(g[i - 1], t[i])
                  /\ \A i \in 0 .. Len(t) : g[i] \in BraceStates
                  /\ Scan(Match, Unmatched, t) = g[Len(t)]
<1> DEFINE n == Len(t)
           E(c, i) == IF i = 0 THEN Unmatched ELSE Match(c[i - 1], t[i])
           F == [i \in 1 .. n |-> [f \in BraceStates |-> Match(f, t[i])]]
           c == CHOOSE c : c = [i \in 0 .. n |-> E(c, i)]
<1>1. Scan(Match, Unmatched, t) = c[n]
  BY Zenon DEF Scan
<1>2. n \in Nat /\ \A i \in 1 .. n : t[i] \in Alphabet
  BY LenProperties, ElementOfSeq DEF Text
<1>3. Unmatched \in BraceStates
  BY DEF Unmatched, BraceStates
<1>4. ASSUME NEW f \in BraceStates, NEW i \in 1 .. n PROVE Match(f, t[i]) \in BraceStates
  BY MatchStep
<1> HIDE DEF n
<1>5. F \in Steps(n, BraceStates)
  BY <1>4 DEF Steps
<1>6. PICK g : Recursive(g, n, BraceStates, Unmatched, F)
  <2> HIDE DEF F, E, c
  <2> QED BY <1>2, <1>3, <1>5, RecursionExists
<1>7. g \in [0 .. n -> BraceStates] /\ g[0] = Unmatched /\ \A i \in 1 .. n : g[i] = F[i][g[i - 1]]
  BY <1>6 DEF Recursive
<1>8. ASSUME NEW i \in 0 .. n PROVE g[i] = E(g, i)
  <2>1. CASE i = 0
    BY <1>7, <2>1
  <2>2. CASE i # 0
    <3>1. i \in 1 .. n /\ i - 1 \in 0 .. n
      BY <1>2, <2>2
    <3>2. g[i - 1] \in BraceStates
      BY <1>7, <3>1
    <3>3. F[i][g[i - 1]] = Match(g[i - 1], t[i])
      BY <3>1, <3>2
    <3> HIDE DEF F
    <3> QED BY <1>7, <2>2, <3>1, <3>3
  <2> QED BY <2>1, <2>2
<1> HIDE DEF F
<1>9. g = [i \in 0 .. n |-> E(g, i)]
  <2> HIDE DEF E
  <2> QED BY <1>7, <1>8
<1>10. c = [i \in 0 .. n |-> E(c, i)]
  <2> HIDE DEF E
  <2> QED BY <1>9, Zenon
<1> HIDE DEF c
<1>11. \A i \in 0 .. n : c[i] = E(c, i)
  <2> HIDE DEF E
  <2> QED BY <1>10
<1>12. c[0] = Unmatched /\ \A i \in 1 .. n : c[i] = Match(c[i - 1], t[i])
  <2>1. 0 \in 0 .. n /\ \A i \in 1 .. n : i \in 0 .. n /\ i # 0
    BY <1>2
  <2> QED BY <1>11, <2>1
<1> HIDE DEF E
<1> DEFINE T == {i \in Nat : i <= n => c[i] \in BraceStates}
<1>13. 0 \in T
  BY <1>3, <1>12
<1>14. ASSUME NEW i \in Nat, i \in T PROVE i + 1 \in T
  <2> SUFFICES ASSUME i + 1 <= n PROVE c[i + 1] \in BraceStates
    OBVIOUS
  <2>1. i <= n /\ i + 1 \in 1 .. n /\ i + 1 - 1 = i
    BY <1>2
  <2>2. c[i] \in BraceStates
    BY <1>14, <2>1
  <2>3. Match(c[i], t[i + 1]) \in BraceStates
    BY <1>4, <2>1, <2>2
  <2> QED BY <1>12, <2>1, <2>3
<1>15. \A i \in 0 .. n : c[i] \in BraceStates
  <2>1. Nat \subseteq T
    <3> HIDE DEF T
    <3> QED BY <1>13, <1>14, SetInduction
  <2>2. \A i \in 0 .. n : i \in Nat /\ i <= n
    BY <1>2
  <2> QED BY <2>1, <2>2
<1> QED BY <1>1, <1>12, <1>15 DEF n

\* Where braces can be put around a text they match.
LEMMA CanBraceFits ==
    ASSUME NEW t \in Text, t # <<>>, CanBrace(t)
    PROVE  \E g : FitsBraces(t, g)
<1>1. PICK g : /\ g[0] = Unmatched /\ \A i \in 1 .. Len(t) : g[i] = Match(g[i - 1], t[i])
               /\ \A i \in 0 .. Len(t) : g[i] \in BraceStates
               /\ Scan(Match, Unmatched, t) = g[Len(t)]
  BY MatchScan
<1>2. PICK n \in Nat : n = Len(t)
  BY LenProperties DEF Text
<1>3. n # 0
  BY <1>2, EmptySeq DEF Text
<1>4. ASSUME NEW i \in 1 .. n PROVE g[i] \in BraceStates /\ Matched(g[i - 1], t[i], g[i])
  <2>1. i - 1 \in 0 .. n /\ i \in 0 .. n
    OBVIOUS
  <2> QED BY <1>1, <1>2, <2>1, MatchStep
<1>5. g[0] \in BraceStates /\ g[0].level = 0 /\ ~g[0].hidden
  <2>1. Unmatched \in BraceStates /\ Unmatched.level = 0 /\ ~Unmatched.hidden
    BY DEF Unmatched, BraceStates
  <2> QED BY <1>1, <2>1
<1>6. t[n] # "\\" /\ g[n].ok /\ g[n].level = 0
  BY <1>1, <1>2 DEF CanBrace
<1>7. ~g[n].hidden
  <2>1. n \in 1 .. n
    BY <1>3
  <2>2. Matched(g[n - 1], t[n], g[n])
    BY <1>4, <2>1
  <2> QED BY <1>6, <2>2 DEF Matched
<1> QED BY <1>2, <1>4, <1>5, <1>6, <1>7 DEF FitsBraces

\* In a text without special characters they match as well.
LEMMA PlainFits ==
    ASSUME NEW t \in Text, CharsOf(t) \cap (Special \cup Braces) = {}
    PROVE  \E g : FitsBraces(t, g)
<1>1. PICK n \in Nat : n = Len(t) /\ DOMAIN t = 1 .. n
  BY LenProperties DEF Text
<1> DEFINE g == [i \in 0 .. n |-> Unmatched]
<1>2. /\ Unmatched \in BraceStates /\ Unmatched.level = 0
      /\ ~Unmatched.hidden /\ Unmatched.ok
  BY DEF Unmatched, BraceStates
<1>3. ASSUME NEW i \in 1 .. n PROVE Matched(Unmatched, t[i], Unmatched)
  <2>1. t[i] \in CharsOf(t)
    BY <1>1 DEF CharsOf
  <2>2. t[i] \notin {"{", "}", "\\"}
    BY <2>1 DEF Special, Braces
  <2>3. Deeper(t[i]) = 0
    BY <2>2 DEF Deeper
  <2>4. Unmatched.level = Unmatched.level + Deeper(t[i])
    BY <1>2, <2>3
  <2> QED BY <1>2, <2>2, <2>4 DEF Matched
<1>4. g[0] = Unmatched /\ g[n] = Unmatched
      /\ \A i \in 1 .. n : g[i] = Unmatched /\ g[i - 1] = Unmatched
  OBVIOUS
<1> HIDE DEF g
<1>5. FitsBraces(t, g)
  BY <1>1, <1>2, <1>3, <1>4 DEF FitsBraces
<1> QED BY <1>5
---------------------------------------------------------------------------
(* A bare element *)

\* A text that needs no quoting.
Simple(t) == t # <<>> /\ CharsOf(t) \cap Special = {} /\ t[1] \notin {"\"", "{"}

\* A text that needs no quoting is read as it is.
LEMMA ReadsSimple ==
    ASSUME NEW p \in Seq(Text), NEW s, Between(s, p), NEW t \in Text, Simple(t)
    PROVE  \E u : Reads(s, t, u) /\ In(u, "bare", t, p) /\ ~u.escaped
<1> DEFINE Upto(i) == SubSeq(t, 1, i)
<1>1. PICK n \in Nat : n = Len(t) /\ DOMAIN t = 1 .. n
  BY LenProperties DEF Text
<1>2. n # 0
  BY <1>1, EmptySeq DEF Text, Simple
<1>3. /\ Upto(0) = <<>> /\ Upto(n) = t
      /\ \A i \in 0 .. n : Upto(i) \in Text
      /\ \A i \in Nat : i + 1 <= n => t[i + 1] \in Alphabet /\ Upto(i + 1) = Append(Upto(i), t[i + 1])
  BY <1>1, Beginnings DEF Text
<1>4. \A i \in 1 .. n : t[i] \notin Space \cup {"\\", "\""}
  <2>1. \A i \in 1 .. n : t[i] \in CharsOf(t)
    BY <1>1 DEF CharsOf
  <2>2. CharsOf(t) \cap Special = {}
    BY DEF Simple
  <2> QED BY <2>1, <2>2 DEF Special
<1> HIDE DEF Upto
<1> DEFINE After(i) == \E u : Reads(s, Upto(i), u) /\ In(u, "bare", Upto(i), p) /\ ~u.escaped
           T == {i \in Nat : i + 1 <= n => After(i + 1)}
<1>5. 0 \in T
  <2> DEFINE c == t[1]
             u == JimParseListStep(s, c)
  <2>1. 1 \in 1 .. n /\ 0 + 1 <= n /\ 0 + 1 = 1
    BY <1>2
  <2>2. c \in Alphabet /\ Upto(1) = Append(<<>>, c)
    BY <1>3, <2>1
  <2>3. Append(<<>>, c) = <<c>>
    BY SMT
  <2>4. c \notin Space \cup {"{", "\"", "\\"}
    BY <1>4, <2>1 DEF Simple
  <2> HIDE DEF c
  <2>5. Reads(s, <<c>>, u) /\ In(u, "bare", <<c>>, p) /\ ~u.escaped
    BY <2>2, <2>4, ReadsOne, OpenBareStep
  <2> HIDE DEF u
  <2>6. After(1)
    BY <2>2, <2>3, <2>5
  <2> HIDE DEF After
  <2> QED BY <2>1, <2>6
<1>6. ASSUME NEW i \in Nat, i \in T PROVE i + 1 \in T
  <2> SUFFICES ASSUME i + 1 + 1 <= n PROVE After(i + 1 + 1)
    OBVIOUS
  <2>1. i + 1 <= n /\ i + 1 \in Nat /\ i + 1 \in 0 .. n /\ i + 1 + 1 \in 1 .. n
    OBVIOUS
  <2>2. PICK u : Reads(s, Upto(i + 1), u) /\ In(u, "bare", Upto(i + 1), p) /\ ~u.escaped
    BY <1>6, <2>1
  <2> DEFINE c == t[i + 1 + 1]
             w == JimParseListStep(u, c)
  <2>3. c \in Alphabet /\ Upto(i + 1 + 1) = Append(Upto(i + 1), c) /\ Upto(i + 1) \in Text
    BY <1>3, <2>1
  <2>4. c \notin Space \cup {"\\"}
    BY <1>4, <2>1
  <2> HIDE DEF c
  <2>5. In(w, "bare", Append(Upto(i + 1), c), p) /\ ~w.escaped
    BY <2>2, <2>3, <2>4, BareStep
  <2>6. Reads(s, Append(Upto(i + 1), c), w)
    BY <2>2, <2>3, ReadsMore
  <2> HIDE DEF w
  <2> QED BY <2>3, <2>5, <2>6
<1>7. After(n)
  <2>1. n - 1 \in Nat /\ n - 1 + 1 = n /\ n <= n
    BY <1>2
  <2>2. n - 1 \in T
    <3> HIDE DEF T
    <3> QED BY <1>5, <1>6, <2>1, SetInduction
  <2> QED BY <2>1, <2>2
<1> QED BY <1>3, <1>7
---------------------------------------------------------------------------
(* An element quoted with backslashes *)

\* What the quoting writes for a character.
Piece(c) == IF c \in Special \cup Braces THEN <<"\\", EscapeOf(c)>> ELSE <<c>>

\* The letter that the quoting writes for a character stands for that character.
LEMMA EscapeBack ==
    /\ \A c \in Alphabet : EscapeOf(c) \in Alphabet
    /\ \A c \in Special \cup Braces : Unescape(EscapeOf(c)) = c
<1>1. \A c : (\E e \in DOMAIN Escapes : Escapes[e] = c)
                => EscapeOf(c) \in DOMAIN Escapes /\ Escapes[EscapeOf(c)] = c
  BY DEF EscapeOf
<1>2. \A c : ~(\E e \in DOMAIN Escapes : Escapes[e] = c) => EscapeOf(c) = c
  BY DEF EscapeOf
<1>3. \A c \in Alphabet : EscapeOf(c) \in Alphabet
  BY <1>1, <1>2 DEF Alphabet
<1>4. ASSUME NEW c \in Special \cup Braces PROVE Unescape(EscapeOf(c)) = c
  <2>1. CASE \E e \in DOMAIN Escapes : Escapes[e] = c
    BY <1>1, <2>1 DEF Unescape
  <2>2. CASE ~\E e \in DOMAIN Escapes : Escapes[e] = c
    <3>1. c \notin DOMAIN Escapes
      BY EscapesAre DEF Special, Space, Braces
    <3>2. c # "\n"
      <4>1. Escapes["n"] = "\n" /\ "n" \in DOMAIN Escapes
        BY DEF Escapes
      <4> QED BY <2>2, <4>1
    <3> QED BY <1>2, <2>2, <3>1, <3>2 DEF Unescape
  <2> QED BY <2>1, <2>2
<1> QED BY <1>3, <1>4

\* What the quoting writes for a character is a text.
LEMMA PieceType == \A c \in Alphabet : Piece(c) \in Text
<1> SUFFICES ASSUME NEW c \in Alphabet PROVE Piece(c) \in Text
  OBVIOUS
<1>1. EscapeOf(c) \in Alphabet /\ "\\" \in Alphabet
  BY EscapeBack DEF Alphabet, Special
<1>2. <<"\\">> \in Text /\ <<EscapeOf(c)>> \in Text /\ <<c>> \in Text
  BY <1>1, OneCharacter
<1>3. <<"\\", EscapeOf(c)>> = <<"\\">> \o <<EscapeOf(c)>>
  OBVIOUS
<1>4. <<"\\">> \o <<EscapeOf(c)>> \in Text
  BY <1>2, ConcatProperties DEF Text
<1> QED BY <1>2, <1>3, <1>4 DEF Piece

\* It is read as the character, where the backslash takes the parser to state h.
LEMMA ReadsHidden ==
    ASSUME NEW t \in Text, NEW p, NEW s, NEW c \in Special \cup Braces,
           In(JimParseListStep(s, "\\"), "bare", t, p), JimParseListStep(s, "\\").escaped
    PROVE  \E w : Reads(s, Piece(c), w) /\ In(w, "bare", Append(t, c), p) /\ ~w.escaped
<1> DEFINE h == JimParseListStep(s, "\\")
           e == EscapeOf(c)
           w == JimParseListStep(h, e)
<1>1. c \in Alphabet /\ "\\" \in Alphabet
  BY DEF Alphabet, Special
<1>2. e \in Alphabet /\ Unescape(e) = c
  BY <1>1, EscapeBack
<1>3. Piece(c) = <<"\\">> \o <<e>>
  <2>1. Piece(c) = <<"\\", e>>
    BY DEF Piece
  <2> HIDE DEF e
  <2> QED BY <2>1
<1> HIDE DEF e
<1>4. <<"\\">> \in Text /\ <<e>> \in Text
  BY <1>1, <1>2, OneCharacter
<1>5. Reads(s, <<"\\">>, h) /\ Reads(h, <<e>>, w)
  BY ReadsOne
<1>6. In(w, "bare", Append(t, c), p) /\ ~w.escaped
  BY <1>2, HiddenStep
<1> HIDE DEF h, w
<1>7. Reads(s, Piece(c), w)
  BY <1>3, <1>4, <1>5, ReadsConcat
<1> QED BY <1>6, <1>7

\* At the beginning of an element.
LEMMA ReadsFirstPiece ==
    ASSUME NEW p, NEW s, Between(s, p), NEW c \in Alphabet
    PROVE  \E w : Reads(s, Piece(c), w) /\ In(w, "bare", <<c>>, p) /\ ~w.escaped
<1>1. CASE c \in Special \cup Braces
  <2>1. LET u == JimParseListStep(s, "\\") IN In(u, "bare", <<>>, p) /\ u.escaped
    BY OpenHiddenStep
  <2>2. <<>> \in Text /\ Append(<<>>, c) = <<c>>
    BY DEF Text
  <2> QED BY <1>1, <2>1, <2>2, ReadsHidden
<1>2. CASE c \notin Special \cup Braces
  <2> DEFINE w == JimParseListStep(s, c)
  <2>1. c \notin Space \cup {"{", "\"", "\\"}
    BY <1>2 DEF Special, Braces
  <2>2. In(w, "bare", <<c>>, p) /\ ~w.escaped
    BY <2>1, OpenBareStep
  <2>3. Reads(s, <<c>>, w) /\ Piece(c) = <<c>>
    BY <1>2, ReadsOne DEF Piece
  <2> QED BY <2>2, <2>3
<1> QED BY <1>1, <1>2

\* What the quoting writes for a character is read as the character inside a bare
\* element.
LEMMA ReadsPiece ==
    ASSUME NEW t \in Text, NEW p, NEW s, In(s, "bare", t, p), ~s.escaped, NEW c \in Alphabet
    PROVE  \E w : Reads(s, Piece(c), w) /\ In(w, "bare", Append(t, c), p) /\ ~w.escaped
<1>1. CASE c \in Special \cup Braces
  <2>1. LET u == JimParseListStep(s, "\\") IN In(u, "bare", t, p) /\ u.escaped
    BY BackslashStep
  <2> QED BY <1>1, <2>1, ReadsHidden
<1>2. CASE c \notin Special \cup Braces
  <2> DEFINE w == JimParseListStep(s, c)
  <2>1. c \notin Space \cup {"\\"}
    BY <1>2 DEF Special, Braces
  <2>2. In(w, "bare", Append(t, c), p) /\ ~w.escaped
    BY <2>1, BareStep
  <2>3. Reads(s, <<c>>, w) /\ Piece(c) = <<c>>
    BY <1>2, ReadsOne DEF Piece
  <2> QED BY <2>2, <2>3
<1> QED BY <1>1, <1>2

\* The quoting of one character more.
LEMMA QuotedType ==
    ASSUME NEW t \in Text, NEW c \in Alphabet
    PROVE  Quoted(t, c) = t \o Piece(c) /\ Quoted(t, c) \in Text
<1>1. Quoted(t, c) = t \o Piece(c)
  BY Zenon DEF Quoted, Piece
<1>2. t \o Piece(c) \in Text
  BY PieceType, ConcatProperties DEF Text
<1> QED BY <1>1, <1>2

\* The quoting, character by character.
LEMMA QuoteScan ==
    ASSUME NEW t \in Text
    PROVE  \E g : /\ g[0] = <<>> /\ \A i \in 1 .. Len(t) : g[i] = Quoted(g[i - 1], t[i])
                  /\ \A i \in 0 .. Len(t) : g[i] \in Text
                  /\ BackslashQuoteString(t) = g[Len(t)]
<1> DEFINE n == Len(t)
           E(c, i) == IF i = 0 THEN <<>> ELSE Quoted(c[i - 1], t[i])
           F == [i \in 1 .. n |-> [f \in Text |-> Quoted(f, t[i])]]
           c == CHOOSE c : c = [i \in 0 .. n |-> E(c, i)]
<1>1. BackslashQuoteString(t) = c[n]
  BY Zenon DEF BackslashQuoteString, Scan
<1>2. n \in Nat /\ \A i \in 1 .. n : t[i] \in Alphabet
  BY LenProperties, ElementOfSeq DEF Text
<1>3. <<>> \in Text
  BY DEF Text
<1>4. ASSUME NEW f \in Text, NEW i \in 1 .. n PROVE Quoted(f, t[i]) \in Text
  BY <1>2, QuotedType
<1> HIDE DEF n
<1>5. F \in Steps(n, Text)
  BY <1>4 DEF Steps
<1>6. PICK g : Recursive(g, n, Text, <<>>, F)
  <2> HIDE DEF F, E, c
  <2> QED BY <1>2, <1>3, <1>5, RecursionExists
<1>7. g \in [0 .. n -> Text] /\ g[0] = <<>> /\ \A i \in 1 .. n : g[i] = F[i][g[i - 1]]
  BY <1>6 DEF Recursive
<1>8. ASSUME NEW i \in 0 .. n PROVE g[i] = E(g, i)
  <2>1. CASE i = 0
    BY <1>7, <2>1
  <2>2. CASE i # 0
    <3>1. i \in 1 .. n /\ i - 1 \in 0 .. n
      BY <1>2, <2>2
    <3>2. g[i - 1] \in Text
      BY <1>7, <3>1
    <3>3. F[i][g[i - 1]] = Quoted(g[i - 1], t[i])
      BY <3>1, <3>2
    <3> HIDE DEF F
    <3> QED BY <1>7, <2>2, <3>1, <3>3
  <2> QED BY <2>1, <2>2
<1> HIDE DEF F
<1>9. g = [i \in 0 .. n |-> E(g, i)]
  <2> HIDE DEF E
  <2> QED BY <1>7, <1>8
<1>10. c = [i \in 0 .. n |-> E(c, i)]
  <2> HIDE DEF E
  <2> QED BY <1>9, Zenon
<1> HIDE DEF c
<1>11. \A i \in 0 .. n : c[i] = E(c, i)
  <2> HIDE DEF E
  <2> QED BY <1>10
<1>12. c[0] = <<>> /\ \A i \in 1 .. n : c[i] = Quoted(c[i - 1], t[i])
  <2>1. 0 \in 0 .. n /\ \A i \in 1 .. n : i \in 0 .. n /\ i # 0
    BY <1>2
  <2> QED BY <1>11, <2>1
<1> HIDE DEF E
<1> DEFINE T == {i \in Nat : i <= n => c[i] \in Text}
<1>13. 0 \in T
  BY <1>3, <1>12
<1>14. ASSUME NEW i \in Nat, i \in T PROVE i + 1 \in T
  <2> SUFFICES ASSUME i + 1 <= n PROVE c[i + 1] \in Text
    OBVIOUS
  <2>1. i <= n /\ i + 1 \in 1 .. n /\ i + 1 - 1 = i
    BY <1>2
  <2>2. c[i] \in Text
    BY <1>14, <2>1
  <2>3. Quoted(c[i], t[i + 1]) \in Text
    BY <1>4, <2>1, <2>2
  <2> QED BY <1>12, <2>1, <2>3
<1>15. \A i \in 0 .. n : c[i] \in Text
  <2>1. Nat \subseteq T
    <3> HIDE DEF T
    <3> QED BY <1>13, <1>14, SetInduction
  <2>2. \A i \in 0 .. n : i \in Nat /\ i <= n
    BY <1>2
  <2> QED BY <2>1, <2>2
<1> QED BY <1>1, <1>12, <1>15 DEF n

\* A quoted text is read as it is, when its first character is, after a text v.
LEMMA ReadsQuoted ==
    ASSUME NEW p \in Seq(Text), NEW s, NEW t \in Text, t # <<>>, NEW v \in Text, NEW u,
           Reads(s, v \o Piece(t[1]), u), In(u, "bare", <<t[1]>>, p), ~u.escaped
    PROVE  \E w : Reads(s, v \o BackslashQuoteString(t), w) /\ In(w, "bare", t, p) /\ ~w.escaped
<1> DEFINE Upto(i) == SubSeq(t, 1, i)
<1>1. PICK n \in Nat : n = Len(t) /\ DOMAIN t = 1 .. n
  BY LenProperties DEF Text
<1>2. n # 0
  BY <1>1, EmptySeq DEF Text
<1>3. /\ Upto(0) = <<>> /\ Upto(n) = t
      /\ \A i \in 0 .. n : Upto(i) \in Text
      /\ \A i \in Nat : i + 1 <= n => t[i + 1] \in Alphabet /\ Upto(i + 1) = Append(Upto(i), t[i + 1])
  BY <1>1, Beginnings DEF Text
<1>4. PICK g : /\ g[0] = <<>> /\ \A i \in 1 .. n : g[i] = Quoted(g[i - 1], t[i])
               /\ \A i \in 0 .. n : g[i] \in Text
               /\ BackslashQuoteString(t) = g[n]
  BY <1>1, QuoteScan
<1> HIDE DEF Upto
<1> DEFINE After(i) == \E w : Reads(s, v \o g[i], w) /\ In(w, "bare", Upto(i), p) /\ ~w.escaped
           T == {i \in Nat : i + 1 <= n => After(i + 1)}
<1>5. 0 \in T
  <2> DEFINE c == t[1]
  <2>1. 1 \in 1 .. n /\ 0 + 1 <= n /\ 0 + 1 = 1 /\ 1 - 1 = 0 /\ 0 \in 0 .. n
    BY <1>2
  <2>2. c \in Alphabet /\ Upto(1) = Append(<<>>, c)
    BY <1>3, <2>1
  <2>3. Append(<<>>, c) = <<c>>
    BY SMT
  <2>4. g[1] = Piece(c)
    <3>1. g[1] = Quoted(<<>>, c) /\ <<>> \in Text
      BY <1>4, <2>1
    <3>2. g[1] = <<>> \o Piece(c) /\ Piece(c) \in Text
      BY <2>2, <3>1, QuotedType, PieceType
    <3> QED BY <3>2, ConcatEmptySeq DEF Text
  <2>5. Reads(s, v \o g[1], u) /\ In(u, "bare", Upto(1), p) /\ ~u.escaped
    BY <2>2, <2>3, <2>4
  <2>6. After(1)
    BY <2>5
  <2> HIDE DEF After
  <2> QED BY <2>1, <2>6
<1>6. ASSUME NEW i \in Nat, i \in T PROVE i + 1 \in T
  <2> SUFFICES ASSUME i + 1 + 1 <= n PROVE After(i + 1 + 1)
    OBVIOUS
  <2> DEFINE k == i + 1
  <2>1. k <= n /\ k \in Nat /\ k \in 0 .. n /\ k + 1 \in 1 .. n /\ k + 1 - 1 = k /\ k + 1 <= n
    OBVIOUS
  <2>2. PICK x : Reads(s, v \o g[k], x) /\ In(x, "bare", Upto(k), p) /\ ~x.escaped
    BY <1>6, <2>1
  <2> HIDE DEF k
  <2> DEFINE c == t[k + 1]
  <2>3. c \in Alphabet /\ Upto(k + 1) = Append(Upto(k), c) /\ Upto(k) \in Text /\ g[k] \in Text
    BY <1>3, <1>4, <2>1
  <2>4. g[k + 1] = Quoted(g[k], c)
    BY <1>4, <2>1
  <2> HIDE DEF c
  <2>5. g[k + 1] = g[k] \o Piece(c) /\ Piece(c) \in Text
    BY <2>3, <2>4, QuotedType, PieceType
  <2>6. PICK w : Reads(x, Piece(c), w) /\ In(w, "bare", Append(Upto(k), c), p) /\ ~w.escaped
    BY <2>2, <2>3, ReadsPiece
  <2>7. v \o g[k] \in Text
    BY <2>3, ConcatProperties DEF Text
  <2>8. Reads(s, (v \o g[k]) \o Piece(c), w)
    BY <2>2, <2>5, <2>6, <2>7, ReadsConcat
  <2>9. (v \o g[k]) \o Piece(c) = v \o g[k + 1]
    <3> DEFINE y == g[k]
               z == Piece(c)
    <3>1. y \in Text /\ z \in Text /\ g[k + 1] = y \o z
      BY <2>3, <2>5
    <3> HIDE DEF y, z
    <3>2. (v \o y) \o z = v \o (y \o z)
      BY <3>1, ConcatRegroup
    <3> QED BY <3>1, <3>2 DEF y, z
  <2>10. After(k + 1)
    BY <2>3, <2>6, <2>8, <2>9
  <2> HIDE DEF After
  <2> QED BY <2>10 DEF k
<1>7. After(n)
  <2>1. n - 1 \in Nat /\ n - 1 + 1 = n /\ n <= n
    BY <1>2
  <2>2. n - 1 \in T
    <3> HIDE DEF T
    <3> QED BY <1>5, <1>6, <2>1, SetInduction
  <2> QED BY <2>1, <2>2
<1> QED BY <1>3, <1>4, <1>7

\* A quoted text is a text.
LEMMA BackslashType == ASSUME NEW t \in Text PROVE BackslashQuoteString(t) \in Text
<1>1. Len(t) \in Nat
  BY LenProperties DEF Text
<1>2. Len(t) \in 0 .. Len(t)
  BY <1>1
<1> QED BY <1>2, QuoteScan

\* A text that is not empty begins with one of its characters.
LEMMA FirstCharacter ==
    ASSUME NEW t \in Text, t # <<>>
    PROVE  t[1] \in Alphabet /\ t[1] \in CharsOf(t)
<1>1. PICK n \in Nat : n = Len(t) /\ DOMAIN t = 1 .. n
  BY LenProperties DEF Text
<1>2. n # 0
  BY <1>1, EmptySeq DEF Text
<1>3. 1 \in 1 .. n
  BY <1>2
<1> QED BY <1>1, <1>3, ElementOfSeq DEF Text, CharsOf

---------------------------------------------------------------------------
(* An element *)

\* The element t is read, or will be at the next blank.
Taken(u, p, t) == Between(u, Append(p, t)) \/ (In(u, "bare", t, p) /\ ~u.escaped)

\* The first element with a # that must not look like a comment.
Hash(t, first) == first /\ t # <<>> /\ t[1] = "#"

\* The cases of the quoting.
LEMMA QuotedElementCases ==
    ASSUME NEW t \in Text, NEW first \in BOOLEAN
    PROVE  \/ /\ QuotedElement(t, first) = t
              /\ Simple(t)
           \/ /\ QuotedElement(t, first) = <<"{">> \o t \o <<"}">>
              /\ \E g : FitsBraces(t, g)
           \/ /\ QuotedElement(t, first) = BackslashQuoteString(t)
              /\ t # <<>> /\ ~Hash(t, first)
           \/ /\ QuotedElement(t, first) = <<"\\">> \o BackslashQuoteString(t)
              /\ t # <<>> /\ Hash(t, first)
<1> DEFINE kind == ListElementQuotingType(t)
           odd == CharsOf(t) \cap (Special \cup Braces)
<1>1. CASE t = <<>>
  <2>1. kind = "brace"
    BY <1>1 DEF ListElementQuotingType
  <2>2. QuotedElement(t, first) = <<"{">> \o t \o <<"}">>
    BY <2>1 DEF QuotedElement
  <2>3. odd = {}
    BY <1>1 DEF CharsOf
  <2>4. \E g : FitsBraces(t, g)
    BY <2>3, PlainFits
  <2> QED BY <2>2, <2>4
<1>2. CASE t # <<>> /\ odd = {}
  <2>1. kind = "simple"
    BY <1>2 DEF ListElementQuotingType
  <2>2. QuotedElement(t, first) = IF Hash(t, first) THEN <<"{">> \o t \o <<"}">> ELSE t
    BY <2>1 DEF QuotedElement, Hash
  <2>3. \E g : FitsBraces(t, g)
    BY <1>2, PlainFits
  <2>4. Simple(t)
    <3>1. CharsOf(t) \cap Special = {}
      BY <1>2
    <3>2. t[1] \in CharsOf(t)
      BY <1>2, FirstCharacter
    <3>3. t[1] \notin {"\"", "{"}
      BY <1>2, <3>2 DEF Special, Braces
    <3> QED BY <1>2, <3>1, <3>3 DEF Simple
  <2> QED BY <2>2, <2>3, <2>4
<1>3. CASE t # <<>> /\ odd # {} /\ ~CanBrace(t)
  <2>1. kind = "quote"
    BY <1>3 DEF ListElementQuotingType
  <2>2. QuotedElement(t, first)
          = (IF Hash(t, first) THEN <<"\\">> ELSE <<>>) \o BackslashQuoteString(t)
    BY <2>1 DEF QuotedElement, Hash
  <2>3. BackslashQuoteString(t) \in Text
    BY BackslashType
  <2>4. <<>> \o BackslashQuoteString(t) = BackslashQuoteString(t)
    BY <2>3, ConcatEmptySeq DEF Text
  <2> QED BY <1>3, <2>2, <2>4
<1>4. CASE t # <<>> /\ odd # {} /\ CanBrace(t)
           /\ (t[1] \in {"\"", "{"} \/ CharsOf(t) \cap Special # {})
  <2>1. kind = "brace"
    BY <1>4 DEF ListElementQuotingType
  <2>2. QuotedElement(t, first) = <<"{">> \o t \o <<"}">>
    BY <2>1 DEF QuotedElement
  <2> QED BY <1>4, <2>2, CanBraceFits
<1>5. CASE t # <<>> /\ odd # {} /\ CanBrace(t)
           /\ ~(t[1] \in {"\"", "{"} \/ CharsOf(t) \cap Special # {})
  <2>1. kind = "simple"
    BY <1>5 DEF ListElementQuotingType
  <2>2. QuotedElement(t, first) = IF Hash(t, first) THEN <<"{">> \o t \o <<"}">> ELSE t
    BY <2>1 DEF QuotedElement, Hash
  <2>3. Simple(t)
    BY <1>5 DEF Simple
  <2>4. \E g : FitsBraces(t, g)
    BY <1>5, CanBraceFits
  <2> QED BY <2>2, <2>3, <2>4
<1> QED BY <1>1, <1>2, <1>3, <1>4, <1>5

\* Every element is read as it was, first or not.
LEMMA ReadsElement ==
    ASSUME NEW p \in Seq(Text), NEW s, Between(s, p), NEW t \in Text, NEW first \in BOOLEAN
    PROVE  /\ QuotedElement(t, first) \in Text
           /\ \E u : Reads(s, QuotedElement(t, first), u) /\ Taken(u, p, t)
<1> DEFINE q == QuotedElement(t, first)
           b == BackslashQuoteString(t)
<1>1. "{" \in Alphabet /\ "}" \in Alphabet /\ "\\" \in Alphabet
  BY DEF Alphabet, Braces, Special
<1>2. <<"{">> \in Text /\ <<"}">> \in Text /\ <<"\\">> \in Text
  BY <1>1, OneCharacter
<1>3. b \in Text
  BY BackslashType
<1>4. CASE q = t /\ Simple(t)
  BY <1>4, ReadsSimple DEF Taken
<1>5. CASE q = <<"{">> \o t \o <<"}">> /\ \E g : FitsBraces(t, g)
  <2>1. t \o <<"}">> \in Text
    BY <1>2, ConcatType
  <2>2. <<"{">> \o t \o <<"}">> \in Text
    BY <1>2, <2>1, ConcatType, ConcatRegroup
  <2>3. \E u : Reads(s, <<"{">> \o t \o <<"}">>, u) /\ Between(u, Append(p, t))
    BY <1>5, ReadsBraces
  <2> QED BY <1>5, <2>2, <2>3 DEF Taken
<1>6. CASE q = b /\ t # <<>> /\ ~Hash(t, first)
  <2>1. t[1] \in Alphabet
    BY <1>6, FirstCharacter
  <2>2. PICK u : Reads(s, Piece(t[1]), u) /\ In(u, "bare", <<t[1]>>, p) /\ ~u.escaped
    BY <2>1, ReadsFirstPiece
  <2>3. <<>> \in Text /\ <<>> \o Piece(t[1]) = Piece(t[1]) /\ <<>> \o b = b
    <3>1. <<>> \in Text /\ Piece(t[1]) \in Text
      BY <2>1, PieceType DEF Text
    <3> QED BY <1>3, <3>1, ConcatEmptySeq DEF Text
  <2>4. \E w : Reads(s, <<>> \o b, w) /\ In(w, "bare", t, p) /\ ~w.escaped
    BY <1>6, <2>2, <2>3, ReadsQuoted
  <2> QED BY <1>3, <1>6, <2>3, <2>4 DEF Taken
<1>7. CASE q = <<"\\">> \o b /\ t # <<>> /\ Hash(t, first)
  <2>1. t[1] = "#"
    BY <1>7 DEF Hash
  <2>2. t[1] \in Alphabet /\ t[1] \notin Special \cup Braces /\ Unescape(t[1]) = t[1]
    <3>1. t[1] \in Alphabet
      BY <1>7, FirstCharacter
    <3>2. "#" \notin Special \cup Braces
      BY DEF Special, Space, Braces
    <3>3. Unescape("#") = "#"
      BY EscapesAre DEF Unescape
    <3> QED BY <2>1, <3>1, <3>2, <3>3
  <2> DEFINE h == JimParseListStep(s, "\\")
             u == JimParseListStep(h, t[1])
  <2>3. In(h, "bare", <<>>, p) /\ h.escaped
    BY OpenHiddenStep
  <2>4. <<>> \in Text /\ Append(<<>>, t[1]) = <<t[1]>>
    BY DEF Text
  <2>5. In(u, "bare", <<t[1]>>, p) /\ ~u.escaped
    BY <2>2, <2>3, <2>4, HiddenStep
  <2>6. Reads(s, <<"\\">>, h) /\ Reads(h, <<t[1]>>, u)
    BY ReadsOne
  <2> HIDE DEF h, u
  <2>7. Piece(t[1]) = <<t[1]>> /\ <<t[1]>> \in Text
    BY <2>2, OneCharacter DEF Piece
  <2>8. Reads(s, <<"\\">> \o Piece(t[1]), u)
    BY <1>2, <2>6, <2>7, ReadsConcat
  <2>9. \E w : Reads(s, <<"\\">> \o b, w) /\ In(w, "bare", t, p) /\ ~w.escaped
    BY <1>2, <1>7, <2>5, <2>8, ReadsQuoted
  <2> QED BY <1>2, <1>3, <1>7, <2>9, ConcatType DEF Taken
<1> QED BY <1>4, <1>5, <1>6, <1>7, QuotedElementCases

\* An element, quoted as it needs, is a text.
LEMMA ElementType ==
    ASSUME NEW t \in Text, NEW first \in BOOLEAN
    PROVE  QuotedElement(t, first) \in Text
<1>1. Between(ListStart, <<>>) /\ <<>> \in Seq(Text)
  BY DEF ListStart, Between, States, Text
<1> QED BY <1>1, ReadsElement

---------------------------------------------------------------------------
(* A list *)

\* The elements p have been read, the last perhaps only at the next blank.
Read(u, p) ==
    \/ Between(u, p)
    \/ \E k \in Text : \E q \in Seq(Text) : In(u, "bare", k, q) /\ ~u.escaped /\ p = Append(q, k)

\* A blank ends the element.
LEMMA ReadsBlank ==
    ASSUME NEW p, NEW u, Read(u, p)
    PROVE  Between(JimParseListStep(u, " "), p)
<1>1. " " \in Space
  BY DEF Space
<1>2. CASE Between(u, p)
  BY <1>1, <1>2, SkipStep
<1>3. CASE \E k \in Text : \E q \in Seq(Text) : In(u, "bare", k, q) /\ ~u.escaped /\ p = Append(q, k)
  <2>1. PICK k \in Text : \E q \in Seq(Text) : In(u, "bare", k, q) /\ ~u.escaped /\ p = Append(q, k)
    BY <1>3
  <2>2. PICK q \in Seq(Text) : In(u, "bare", k, q) /\ ~u.escaped /\ p = Append(q, k)
    BY <2>1
  <2> QED BY <1>1, <2>2, CloseBareStep
<1> QED BY <1>2, <1>3 DEF Read

\* The string f with the element t at place i.
Joined(f, t, i) == f \o (IF i = 1 THEN <<>> ELSE <<" ">>) \o QuotedElement(t, i = 1)

\* That string is f, a blank unless t is the first, and t quoted.
LEMMA JoinedIs ==
    ASSUME NEW f \in Text, NEW t \in Text, NEW i
    PROVE  \E first \in BOOLEAN :
              /\ i = 1 => Joined(f, t, i) = f \o QuotedElement(t, first)
              /\ i # 1 => Joined(f, t, i) = (f \o <<" ">>) \o QuotedElement(t, first)
              /\ QuotedElement(t, first) \in Text
              /\ Joined(f, t, i) \in Text
<1>1. PICK first \in BOOLEAN : first = (i = 1)
  OBVIOUS
<1> DEFINE q == QuotedElement(t, first)
<1>2. q \in Text
  BY ElementType
<1>3. Joined(f, t, i) = f \o (IF i = 1 THEN <<>> ELSE <<" ">>) \o q
  BY Zenon, <1>1 DEF Joined
<1>4. " " \in Alphabet
  BY DEF Alphabet, Special, Space
<1>5. <<" ">> \in Text /\ <<>> \in Text /\ f \o <<>> = f
  <2>1. <<" ">> \in Text
    BY <1>4, OneCharacter
  <2>2. <<>> \in Text /\ f \o <<>> = f
    BY ConcatEmptySeq DEF Text
  <2> QED BY <2>1, <2>2
<1> HIDE DEF q
<1>6. /\ i = 1 => Joined(f, t, i) = f \o q
      /\ i # 1 => Joined(f, t, i) = (f \o <<" ">>) \o q
  BY <1>3, <1>5
<1>7. f \o q \in Text /\ f \o <<" ">> \in Text
  BY <1>2, <1>5, ConcatType
<1>8. (f \o <<" ">>) \o q \in Text
  BY <1>2, <1>7, ConcatType
<1> QED BY <1>2, <1>6, <1>7, <1>8 DEF q

\* With the element more the elements are read and the element after them.
LEMMA ReadsJoined ==
    ASSUME NEW p \in Seq(Text), NEW f \in Text, NEW t \in Text, NEW i, NEW b, NEW u,
           Reads(b, f, u), Read(u, p), i = 1 => Between(u, p)
    PROVE  \E w : Reads(b, Joined(f, t, i), w) /\ Read(w, Append(p, t))
<1>1. PICK first \in BOOLEAN :
          /\ i = 1 => Joined(f, t, i) = f \o QuotedElement(t, first)
          /\ i # 1 => Joined(f, t, i) = (f \o <<" ">>) \o QuotedElement(t, first)
          /\ QuotedElement(t, first) \in Text
          /\ Joined(f, t, i) \in Text
  BY JoinedIs
<1> DEFINE q == QuotedElement(t, first)
<1>2. " " \in Alphabet
  BY DEF Alphabet, Special, Space
<1>3. \E v : \E r \in Text : /\ Reads(b, r, v) /\ Between(v, p)
                             /\ Joined(f, t, i) = r \o q
  <2>1. CASE i = 1
    BY <1>1, <2>1
  <2>2. CASE i # 1
    <3> DEFINE v == JimParseListStep(u, " ")
               r == f \o <<" ">>
    <3>1. Between(v, p)
      BY ReadsBlank
    <3>2. <<" ">> \in Text
      BY <1>2, OneCharacter
    <3>3. r \in Text /\ Reads(b, r, v)
      BY <3>2, ConcatType, ReadsOne, ReadsConcat
    <3>4. Joined(f, t, i) = r \o q
      BY <1>1, <2>2
    <3> HIDE DEF v, r, q
    <3> QED BY <3>1, <3>3, <3>4
  <2> QED BY <2>1, <2>2
<1>4. PICK v : \E r \in Text : /\ Reads(b, r, v) /\ Between(v, p)
                               /\ Joined(f, t, i) = r \o q
  BY <1>3
<1>5. PICK r \in Text : /\ Reads(b, r, v) /\ Between(v, p)
                        /\ Joined(f, t, i) = r \o q
  BY <1>4
<1>6. PICK w : Reads(v, q, w) /\ Taken(w, p, t)
  BY <1>5, ReadsElement
<1>7. Reads(b, Joined(f, t, i), w)
  BY <1>1, <1>5, <1>6, ReadsConcat
<1>8. Read(w, Append(p, t))
  BY <1>6 DEF Taken, Read
<1> QED BY <1>7, <1>8

\* A list of strings is a list of texts.
LEMMA TextsOfStrings == ASSUME NEW texts \in Seq(Seq(STRING)) PROVE texts \in Seq(Text)
<1>1. PICK n \in Nat : n = Len(texts) /\ texts \in [1 .. n -> Seq(STRING)]
  BY LenProperties
<1>2. ASSUME NEW s \in Seq(STRING) PROVE s \in Text
  <2>1. PICK m \in Nat : m = Len(s) /\ s \in [1 .. m -> STRING]
    BY LenProperties
  <2>2. s \in [1 .. m -> Alphabet]
    BY <2>1 DEF Alphabet
  <2> QED BY <2>2, FunctionIsSeq DEF Text
<1>3. texts \in [1 .. n -> Text]
  BY <1>1, <1>2
<1> QED BY <1>3, FunctionIsSeq

\* The string of a list, element by element.
LEMMA ListScan ==
    ASSUME NEW texts \in Seq(Seq(STRING))
    PROVE  \E g : /\ g[0] = <<>> /\ \A i \in 1 .. Len(texts) : g[i] = Joined(g[i - 1], texts[i], i)
                  /\ \A i \in 0 .. Len(texts) : g[i] \in Text
                  /\ JimMakeListStringRep[texts] = g[Len(texts)]
<1> DEFINE n == Len(texts)
           E(c, i) == IF i = 0 THEN <<>> ELSE Joined(c[i - 1], texts[i], i)
           F == [i \in 1 .. n |-> [f \in Text |-> Joined(f, texts[i], i)]]
           c == CHOOSE c : c = [i \in 0 .. n |-> E(c, i)]
<1>1. JimMakeListStringRep[texts] = c[n]
  BY Zenon DEF JimMakeListStringRep, Joined
<1>2. n \in Nat /\ \A i \in 1 .. n : texts[i] \in Text
  BY LenProperties, ElementOfSeq, TextsOfStrings
<1>3. <<>> \in Text
  BY DEF Text
<1>4. ASSUME NEW f \in Text, NEW i \in 1 .. n PROVE Joined(f, texts[i], i) \in Text
  BY <1>2, JoinedIs
<1> HIDE DEF n
<1>5. F \in Steps(n, Text)
  BY <1>4 DEF Steps
<1>6. PICK g : Recursive(g, n, Text, <<>>, F)
  <2> HIDE DEF F, E, c
  <2> QED BY <1>2, <1>3, <1>5, RecursionExists
<1>7. g \in [0 .. n -> Text] /\ g[0] = <<>> /\ \A i \in 1 .. n : g[i] = F[i][g[i - 1]]
  BY <1>6 DEF Recursive
<1>8. ASSUME NEW i \in 0 .. n PROVE g[i] = E(g, i)
  <2>1. CASE i = 0
    BY <1>7, <2>1
  <2>2. CASE i # 0
    <3>1. i \in 1 .. n /\ i - 1 \in 0 .. n
      BY <1>2, <2>2
    <3>2. g[i - 1] \in Text
      BY <1>7, <3>1
    <3>3. F[i][g[i - 1]] = Joined(g[i - 1], texts[i], i)
      BY <3>1, <3>2
    <3> HIDE DEF F
    <3> QED BY <1>7, <2>2, <3>1, <3>3
  <2> QED BY <2>1, <2>2
<1> HIDE DEF F
<1>9. g = [i \in 0 .. n |-> E(g, i)]
  <2> HIDE DEF E
  <2> QED BY <1>7, <1>8
<1>10. c = [i \in 0 .. n |-> E(c, i)]
  <2> HIDE DEF E
  <2> QED BY <1>9, Zenon
<1> HIDE DEF c
<1>11. \A i \in 0 .. n : c[i] = E(c, i)
  <2> HIDE DEF E
  <2> QED BY <1>10
<1>12. c[0] = <<>> /\ \A i \in 1 .. n : c[i] = Joined(c[i - 1], texts[i], i)
  <2>1. 0 \in 0 .. n /\ \A i \in 1 .. n : i \in 0 .. n /\ i # 0
    BY <1>2
  <2> QED BY <1>11, <2>1
<1> HIDE DEF E
<1> DEFINE T == {i \in Nat : i <= n => c[i] \in Text}
<1>13. 0 \in T
  BY <1>3, <1>12
<1>14. ASSUME NEW i \in Nat, i \in T PROVE i + 1 \in T
  <2> SUFFICES ASSUME i + 1 <= n PROVE c[i + 1] \in Text
    OBVIOUS
  <2>1. i <= n /\ i + 1 \in 1 .. n /\ i + 1 - 1 = i
    BY <1>2
  <2>2. c[i] \in Text
    BY <1>14, <2>1
  <2>3. Joined(c[i], texts[i + 1], i + 1) \in Text
    BY <1>4, <2>1, <2>2
  <2> QED BY <1>12, <2>1, <2>3
<1>15. \A i \in 0 .. n : c[i] \in Text
  <2>1. Nat \subseteq T
    <3> HIDE DEF T
    <3> QED BY <1>13, <1>14, SetInduction
  <2>2. \A i \in 0 .. n : i \in Nat /\ i <= n
    BY <1>2
  <2> QED BY <2>1, <2>2
<1> QED BY <1>1, <1>12, <1>15 DEF n

\* Where an element may begin, after the elements p, the string of a list is read.
LEMMA ListReads ==
    ASSUME NEW texts \in Seq(Seq(STRING)), NEW p \in Seq(Text), NEW b, Between(b, p)
    PROVE  /\ JimMakeListStringRep[texts] \in Text
           /\ \E u : Reads(b, JimMakeListStringRep[texts], u) /\ Read(u, p \o texts)
<1> DEFINE Upto(i) == p \o SubSeq(texts, 1, i)
<1>1. PICK n \in Nat : n = Len(texts)
  BY LenProperties
<1>2. /\ Upto(0) = p /\ Upto(n) = p \o texts
      /\ \A i \in 0 .. n : Upto(i) \in Seq(Text)
      /\ \A i \in Nat : i + 1 <= n => texts[i + 1] \in Text /\ Upto(i + 1) = Append(Upto(i), texts[i + 1])
  <2>1. /\ SubSeq(texts, 1, 0) = <<>> /\ SubSeq(texts, 1, n) = texts
        /\ \A i \in 0 .. n : SubSeq(texts, 1, i) \in Seq(Text)
        /\ \A i \in Nat : i + 1 <= n =>
              /\ texts[i + 1] \in Text
              /\ SubSeq(texts, 1, i + 1) = Append(SubSeq(texts, 1, i), texts[i + 1])
    BY <1>1, TextsOfStrings, Beginnings
  <2>2. p \o <<>> = p
    BY ConcatEmptySeq
  <2>3. ASSUME NEW i \in 0 .. n PROVE Upto(i) \in Seq(Text)
    BY <2>1, ConcatProperties
  <2>4. ASSUME NEW i \in Nat, i + 1 <= n
        PROVE  texts[i + 1] \in Text /\ Upto(i + 1) = Append(Upto(i), texts[i + 1])
    <3>1. i \in 0 .. n
      BY <2>4
    <3> DEFINE q == SubSeq(texts, 1, i)
    <3>2. q \in Seq(Text) /\ texts[i + 1] \in Text /\ SubSeq(texts, 1, i + 1) = Append(q, texts[i + 1])
      BY <2>1, <2>4, <3>1
    <3> HIDE DEF q
    <3>3. p \o Append(q, texts[i + 1]) = Append(p \o q, texts[i + 1])
      BY <3>2, MoreElements
    <3> QED BY <3>2, <3>3 DEF q
  <2> QED BY <2>1, <2>2, <2>3, <2>4
<1>3. PICK g : /\ g[0] = <<>> /\ \A i \in 1 .. n : g[i] = Joined(g[i - 1], texts[i], i)
               /\ \A i \in 0 .. n : g[i] \in Text
               /\ JimMakeListStringRep[texts] = g[n]
  BY <1>1, ListScan
<1> HIDE DEF Upto
<1> DEFINE After(i) == \E u : /\ Reads(b, g[i], u) /\ Read(u, Upto(i))
                              /\ i = 0 => Between(u, p)
           T == {i \in Nat : i <= n => After(i)}
<1>4. 0 \in T
  <2>1. Reads(b, <<>>, b)
    BY ReadsNothing
  <2> QED BY <1>2, <1>3, <2>1 DEF Read
<1>5. ASSUME NEW i \in Nat, i \in T PROVE i + 1 \in T
  <2> SUFFICES ASSUME i + 1 <= n PROVE After(i + 1)
    OBVIOUS
  <2>1. i <= n /\ i \in 0 .. n /\ i + 1 \in 1 .. n /\ i + 1 - 1 = i /\ i + 1 # 0
        /\ (i + 1 = 1 => i = 0)
    OBVIOUS
  <2>2. PICK u : /\ Reads(b, g[i], u) /\ Read(u, Upto(i))
                 /\ i = 0 => Between(u, p)
    BY <1>5, <2>1
  <2>3. i + 1 = 1 => Between(u, Upto(i))
    BY <1>2, <2>1, <2>2
  <2> DEFINE t == texts[i + 1]
             f == g[i]
             q == Upto(i)
  <2>4. t \in Text /\ f \in Text /\ q \in Seq(Text) /\ Upto(i + 1) = Append(q, t)
        /\ g[i + 1] = Joined(f, t, i + 1)
    BY <1>2, <1>3, <2>1
  <2>5. Reads(b, f, u) /\ Read(u, q) /\ (i + 1 = 1 => Between(u, q))
    BY <2>2, <2>3
  <2> HIDE DEF t, f, q
  <2>6. \E w : Reads(b, Joined(f, t, i + 1), w) /\ Read(w, Append(q, t))
    BY <2>4, <2>5, ReadsJoined
  <2> QED BY <2>1, <2>4, <2>6
<1>6. After(n)
  <2>1. n \in T
    <3> HIDE DEF T
    <3> QED BY <1>4, <1>5, SetInduction
  <2> QED BY <2>1
<1>7. n \in 0 .. n
  OBVIOUS
<1> QED BY <1>2, <1>3, <1>6, <1>7

\* A text that takes the parser from its start to the elements p is the list p.
LEMMA ReadIs ==
    ASSUME NEW t \in Text, NEW u, NEW p, Reads(ListStart, t, u), Read(u, p)
    PROVE  JimParseList(t) = p
<1>1. Scan(JimParseListStep, ListStart, t) = u
  BY ScanReads
<1>2. CASE Between(u, p)
  BY <1>1, <1>2 DEF JimParseList, Between
<1>3. CASE \E k \in Text : \E q \in Seq(Text) : In(u, "bare", k, q) /\ ~u.escaped /\ p = Append(q, k)
  BY <1>1, <1>3 DEF JimParseList, In
<1> QED BY <1>2, <1>3 DEF Read

\* The parser begins between elements.
LEMMA StartsBetween == Between(ListStart, <<>>) /\ <<>> \in Seq(Text)
BY DEF ListStart, Between, States, Text

\* Any list of any texts, written as a string (JimMakeListStringRep) and read back
\* (JimParseList), is the same: no text is lost, split, joined or changed by the
\* quoting, whatever braces, backslashes, quotes, blanks or # it holds.
THEOREM ListsReadBack == \A texts \in Seq(Seq(STRING)) : ReadsBack(texts)
<1> SUFFICES ASSUME NEW texts \in Seq(Seq(STRING)) PROVE ReadsBack(texts)
  OBVIOUS
<1>1. texts \in Seq(Text) /\ <<>> \o texts = texts
  BY TextsOfStrings, ConcatEmptySeq
<1>2. PICK t \in Text : t = JimMakeListStringRep[texts]
  BY StartsBetween, ListReads
<1>3. \E u : Reads(ListStart, t, u) /\ Read(u, texts)
  BY <1>1, <1>2, StartsBetween, ListReads
<1>4. JimParseList(t) = texts
  BY <1>3, ReadIs
<1> QED BY <1>2, <1>4 DEF ReadsBack

\* Two lists that differ have different strings (JimMakeListStringRep): nothing
\* that is told apart by its elements is lost when only the string is kept.
COROLLARY StringsDiffer ==
    \A texts, others \in Seq(Seq(STRING)) :
        JimMakeListStringRep[texts] = JimMakeListStringRep[others] => texts = others
BY ListsReadBack DEF ReadsBack

---------------------------------------------------------------------------
(* Two lists one after the other *)

\* A text that begins with a character that is not a blank, one that ends with such
\* a character or with a blank behind a backslash, and one that does both.
Leads(t) == t # <<>> /\ t[1] \notin Space
Ends(t) == t # <<>> /\ (t[Len(t)] \notin Space \/ (Len(t) > 1 /\ t[Len(t) - 1] = "\\"))
Solid(t) == Leads(t) /\ Ends(t)

\* The length of a text that is not empty.
LEMMA SomeLength ==
    ASSUME NEW t \in Text, t # <<>>
    PROVE  \E n \in Nat : n = Len(t) /\ n >= 1 /\ DOMAIN t = 1 .. n
<1>1. PICK n \in Nat : n = Len(t) /\ DOMAIN t = 1 .. n
  BY LenProperties DEF Text
<1>2. n # 0
  BY <1>1, EmptySeq DEF Text
<1> QED BY <1>1, <1>2

\* Two texts one after the other, where the first is not empty, and where the second
\* is not.
LEMMA ConcatEnds ==
    ASSUME NEW t \in Text, NEW v \in Text
    PROVE  /\ Leads(t) => Leads(t \o v)
           /\ Ends(v) => Ends(t \o v)
<1>1. PICK n \in Nat : n = Len(t)
  BY LenProperties DEF Text
<1>2. PICK m \in Nat : m = Len(v)
  BY LenProperties DEF Text
<1> DEFINE w == t \o v
<1>3. w \in Text /\ Len(w) = n + m
      /\ \A i \in 1 .. n + m : w[i] = IF i <= n THEN t[i] ELSE v[i - n]
  BY <1>1, <1>2, ConcatProperties DEF Text
<1> HIDE DEF w
<1>4. Len(<<>>) = 0
  OBVIOUS
<1>5. ASSUME Leads(t) PROVE Leads(w)
  <2>1. n >= 1
    BY <1>1, <1>5, SomeLength DEF Leads
  <2>2. 1 \in 1 .. n + m /\ n + m # 0
    BY <2>1
  <2>3. w[1] = t[1]
    BY <1>3, <2>1, <2>2
  <2>4. w # <<>>
    BY <1>3, <1>4, <2>2
  <2> QED BY <1>5, <2>3, <2>4 DEF Leads
<1>6. ASSUME Ends(v) PROVE Ends(w)
  <2>1. m >= 1
    BY <1>2, <1>6, SomeLength DEF Ends
  <2>2. n + m \in 1 .. n + m /\ n + m # 0 /\ ~(n + m <= n) /\ n + m - n = m
    BY <2>1
  <2>3. w[n + m] = v[m]
    BY <1>3, <2>2
  <2>4. w # <<>>
    BY <1>3, <1>4, <2>2
  <2>5. CASE v[m] \notin Space
    BY <1>3, <2>3, <2>4, <2>5 DEF Ends
  <2>6. CASE m > 1 /\ v[m - 1] = "\\"
    <3>1. n + m - 1 \in 1 .. n + m /\ ~(n + m - 1 <= n) /\ n + m - 1 - n = m - 1 /\ n + m > 1
      BY <2>6
    <3>2. w[n + m - 1] = "\\"
      BY <1>3, <2>6, <3>1
    <3> QED BY <1>3, <2>4, <3>1, <3>2 DEF Ends
  <2> QED BY <1>2, <1>6, <2>5, <2>6 DEF Ends
<1> QED BY <1>5, <1>6 DEF w

\* A text of one character that is not a blank.
LEMMA OneSolid == ASSUME NEW c, c \notin Space PROVE Solid(<<c>>)
<1>1. Len(<<c>>) = 1 /\ <<c>>[1] = c /\ <<c>> # <<>>
  OBVIOUS
<1> QED BY <1>1 DEF Solid, Leads, Ends

\* What the quoting writes for a character.
LEMMA PieceSolid == \A c \in Alphabet : Solid(Piece(c))
<1> SUFFICES ASSUME NEW c \in Alphabet PROVE Solid(Piece(c))
  OBVIOUS
<1>1. CASE c \in Special \cup Braces
  <2> DEFINE e == EscapeOf(c)
  <2>1. Piece(c) = <<"\\", e>>
    BY <1>1 DEF Piece
  <2> HIDE DEF e
  <2>2. /\ Len(<<"\\", e>>) = 2 /\ <<"\\", e>>[1] = "\\" /\ <<"\\", e>> # <<>>
    OBVIOUS
  <2>3. "\\" \notin Space
    BY DEF Space
  <2>4. Leads(<<"\\", e>>)
    BY <2>2, <2>3 DEF Leads
  <2>5. Ends(<<"\\", e>>)
    BY <2>2 DEF Ends
  <2> QED BY <2>1, <2>4, <2>5 DEF Solid
<1>2. CASE c \notin Special \cup Braces
  <2>1. c \notin Space
    BY <1>2 DEF Special
  <2> QED BY <1>2, <2>1, OneSolid DEF Piece
<1> QED BY <1>1, <1>2

\* A quoted text.
LEMMA QuotedSolid ==
    ASSUME NEW t \in Text, t # <<>>
    PROVE  Solid(BackslashQuoteString(t))
<1>1. PICK n \in Nat : n = Len(t) /\ n >= 1
  BY SomeLength
<1>2. PICK g : /\ g[0] = <<>> /\ \A i \in 1 .. n : g[i] = Quoted(g[i - 1], t[i])
               /\ \A i \in 0 .. n : g[i] \in Text
               /\ BackslashQuoteString(t) = g[n]
  BY <1>1, QuoteScan
<1>3. ASSUME NEW i \in Nat, i + 1 <= n
      PROVE  /\ g[i] \in Text /\ Piece(t[i + 1]) \in Text /\ Solid(Piece(t[i + 1]))
             /\ g[i + 1] = g[i] \o Piece(t[i + 1])
  <2>1. i \in 0 .. n /\ i + 1 \in 1 .. n /\ i + 1 - 1 = i
    BY <1>3
  <2>2. t[i + 1] \in Alphabet
    BY <1>1, <2>1, ElementOfSeq DEF Text
  <2>3. g[i] \in Text /\ g[i + 1] = Quoted(g[i], t[i + 1])
    BY <1>2, <2>1
  <2> QED BY <2>2, <2>3, QuotedType, PieceType, PieceSolid
<1> DEFINE T == {i \in Nat : i + 1 <= n => Solid(g[i + 1])}
<1>4. 0 \in T
  <2>1. 0 + 1 <= n
    BY <1>1
  <2>2. g[0 + 1] = <<>> \o Piece(t[0 + 1]) /\ Piece(t[0 + 1]) \in Text /\ Solid(Piece(t[0 + 1]))
    BY <1>2, <1>3, <2>1
  <2>3. <<>> \o Piece(t[0 + 1]) = Piece(t[0 + 1])
    BY <2>2, ConcatEmptySeq DEF Text
  <2>4. Solid(g[0 + 1])
    BY <2>2, <2>3
  <2> QED BY <2>4
<1>5. ASSUME NEW i \in Nat, i \in T PROVE i + 1 \in T
  <2> SUFFICES ASSUME i + 1 + 1 <= n PROVE Solid(g[i + 1 + 1])
    OBVIOUS
  <2>1. i + 1 \in Nat /\ i + 1 <= n
    OBVIOUS
  <2>2. Solid(g[i + 1])
    BY <1>5, <2>1
  <2> DEFINE f == g[i + 1]
             q == Piece(t[i + 1 + 1])
  <2>3. f \in Text /\ q \in Text /\ Solid(q) /\ g[i + 1 + 1] = f \o q
    BY <1>3, <2>1
  <2> HIDE DEF q
  <2> QED BY <2>2, <2>3, ConcatEnds DEF Solid
<1>6. n - 1 \in Nat /\ n - 1 + 1 = n
  BY <1>1
<1>7. n - 1 \in T
  <2> HIDE DEF T
  <2> QED BY <1>4, <1>5, <1>6, SetInduction
<1> QED BY <1>2, <1>6, <1>7

\* An element, quoted as it needs.
LEMMA ElementSolid ==
    ASSUME NEW t \in Text, NEW first \in BOOLEAN
    PROVE  Solid(QuotedElement(t, first))
<1> DEFINE q == QuotedElement(t, first)
           b == BackslashQuoteString(t)
<1>1. /\ "{" \in Alphabet /\ "}" \in Alphabet /\ "\\" \in Alphabet
      /\ "{" \notin Space /\ "}" \notin Space /\ "\\" \notin Space
  BY DEF Alphabet, Braces, Special, Space
<1>2. /\ <<"{">> \in Text /\ <<"}">> \in Text /\ <<"\\">> \in Text
      /\ Solid(<<"{">>) /\ Solid(<<"}">>) /\ Solid(<<"\\">>)
  BY <1>1, OneCharacter, OneSolid
<1>3. CASE q = t /\ Simple(t)
  <2>1. t # <<>> /\ CharsOf(t) \cap Space = {}
    BY <1>3 DEF Simple, Special
  <2>2. PICK n \in Nat : n = Len(t) /\ n >= 1 /\ DOMAIN t = 1 .. n
    BY <2>1, SomeLength
  <2>3. t[1] \notin Space /\ t[n] \notin Space
    <3>1. 1 \in DOMAIN t /\ n \in DOMAIN t
      BY <2>2
    <3> QED BY <2>1, <3>1 DEF CharsOf
  <2> QED BY <1>3, <2>1, <2>2, <2>3 DEF Solid, Leads, Ends
<1>4. CASE q = <<"{">> \o t \o <<"}">>
  <2>1. <<"{">> \o t \in Text /\ Leads(<<"{">> \o t)
    BY <1>2, ConcatType, ConcatEnds DEF Solid
  <2>2. Solid((<<"{">> \o t) \o <<"}">>)
    BY <1>2, <2>1, ConcatEnds DEF Solid
  <2> QED BY <1>4, <2>2
<1>5. CASE q = b /\ t # <<>>
  BY <1>5, QuotedSolid
<1>6. CASE q = <<"\\">> \o b /\ t # <<>>
  <2>1. b \in Text /\ Solid(b)
    BY <1>6, BackslashType, QuotedSolid
  <2> HIDE DEF b
  <2>2. Solid(<<"\\">> \o b)
    BY <1>2, <2>1, ConcatEnds DEF Solid
  <2> QED BY <1>6, <2>2
<1> QED BY <1>3, <1>4, <1>5, <1>6, QuotedElementCases

\* The string of a list that is not empty.
LEMMA ListSolid ==
    ASSUME NEW texts \in Seq(Seq(STRING)), texts # <<>>
    PROVE  Solid(JimMakeListStringRep[texts])
<1>1. PICK n \in Nat : n = Len(texts)
  BY LenProperties
<1>2. n # 0
  BY <1>1, EmptySeq
<1>3. PICK g : /\ g[0] = <<>> /\ \A i \in 1 .. n : g[i] = Joined(g[i - 1], texts[i], i)
               /\ \A i \in 0 .. n : g[i] \in Text
               /\ JimMakeListStringRep[texts] = g[n]
  BY <1>1, ListScan
<1>4. ASSUME NEW i \in Nat, i + 1 <= n
      PROVE  g[i] \in Text /\ texts[i + 1] \in Text /\ g[i + 1] = Joined(g[i], texts[i + 1], i + 1)
  <2>1. i \in 0 .. n /\ i + 1 \in 1 .. n /\ i + 1 - 1 = i
    BY <1>4
  <2>2. texts[i + 1] \in Text
    BY <1>1, <2>1, TextsOfStrings, ElementOfSeq
  <2> QED BY <1>3, <2>1, <2>2
<1> DEFINE T == {i \in Nat : i + 1 <= n => Solid(g[i + 1])}
<1>5. 0 \in T
  <2>1. 0 + 1 <= n
    BY <1>2
  <2> DEFINE t == texts[0 + 1]
  <2>2. <<>> \in Text /\ t \in Text /\ g[0 + 1] = Joined(<<>>, t, 1)
    BY <1>3, <1>4, <2>1
  <2> HIDE DEF t
  <2>3. PICK first \in BOOLEAN : /\ Joined(<<>>, t, 1) = <<>> \o QuotedElement(t, first)
                                 /\ QuotedElement(t, first) \in Text
    BY <2>2, JoinedIs
  <2>4. Joined(<<>>, t, 1) = QuotedElement(t, first)
    BY <2>3, ConcatEmptySeq DEF Text
  <2>5. Solid(g[0 + 1])
    BY <2>2, <2>4, ElementSolid
  <2> QED BY <2>5
<1>6. ASSUME NEW i \in Nat, i \in T PROVE i + 1 \in T
  <2> SUFFICES ASSUME i + 1 + 1 <= n PROVE Solid(g[i + 1 + 1])
    OBVIOUS
  <2>1. i + 1 \in Nat /\ i + 1 <= n /\ i + 1 + 1 # 1
    OBVIOUS
  <2> DEFINE f == g[i + 1]
             t == texts[i + 1 + 1]
  <2>2. f \in Text /\ t \in Text /\ g[i + 1 + 1] = Joined(f, t, i + 1 + 1)
    BY <1>4, <2>1
  <2>3. Solid(f)
    BY <1>6, <2>1
  <2> HIDE DEF f, t
  <2>4. PICK first \in BOOLEAN :
            /\ Joined(f, t, i + 1 + 1) = (f \o <<" ">>) \o QuotedElement(t, first)
            /\ QuotedElement(t, first) \in Text
    BY <2>1, <2>2, JoinedIs
  <2>5. <<" ">> \in Text
    <3>1. " " \in Alphabet
      BY DEF Alphabet, Special, Space
    <3> QED BY <3>1, OneCharacter
  <2>6. f \o <<" ">> \in Text /\ Leads(f \o <<" ">>)
    BY <2>2, <2>3, <2>5, ConcatType, ConcatEnds DEF Solid
  <2>7. Solid((f \o <<" ">>) \o QuotedElement(t, first))
    BY <2>2, <2>4, <2>6, ElementSolid, ConcatEnds DEF Solid
  <2> QED BY <2>2, <2>4, <2>7
<1>7. n - 1 \in Nat /\ n - 1 + 1 = n
  BY <1>2
<1>8. n - 1 \in T
  <2> HIDE DEF T
  <2> QED BY <1>5, <1>6, <1>7, SetInduction
<1> QED BY <1>3, <1>7, <1>8

\* Such a text is not trimmed.
LEMMA TrimSolid == ASSUME NEW t \in Text, Solid(t) PROVE Trim(t) = t
<1>1. PICK n \in Nat : n = Len(t) /\ n >= 1 /\ DOMAIN t = 1 .. n
  BY SomeLength DEF Solid, Leads
<1> DEFINE solid == {i \in DOMAIN t : t[i] \notin Space}
           first == CHOOSE i \in solid : \A j \in solid : i <= j
           last == CHOOSE i \in solid : \A j \in solid : i >= j
<1>2. Trim(t) = IF solid = {} THEN <<>>
                ELSE SubSeq(t, first, IF t[last] = "\\" /\ last < Len(t) THEN last + 1 ELSE last)
  BY Zenon DEF Trim
<1>3. solid \subseteq 1 .. n /\ 1 \in solid
  BY <1>1 DEF Solid, Leads
<1>4. first = 1
  <2>1. \A j \in solid : 1 <= j
    BY <1>3
  <2>2. first \in solid /\ \A j \in solid : first <= j
    <3> HIDE DEF solid
    <3> QED BY <1>3, <2>1
  <2> HIDE DEF first, solid
  <2> QED BY <1>3, <2>1, <2>2
<1>5. \/ last = n /\ ~(last < n)
      \/ last = n - 1 /\ last < n /\ t[last] = "\\"
  <2>1. n \in solid \/ (n \notin solid /\ n > 1 /\ t[n - 1] = "\\" /\ n - 1 \in solid)
    <3>1. CASE t[n] \notin Space
      BY <1>1, <3>1
    <3>2. CASE t[n] \in Space
      <4>1. n > 1 /\ t[n - 1] = "\\"
        BY <1>1, <3>2 DEF Solid, Ends
      <4>2. "\\" \notin Space
        BY DEF Space
      <4>3. n - 1 \in DOMAIN t
        BY <1>1, <4>1
      <4> QED BY <3>2, <4>1, <4>2, <4>3
    <3> QED BY <3>1, <3>2
  <2>2. ASSUME NEW k \in solid, \A j \in solid : k >= j PROVE last = k
    <3> HIDE DEF solid
    <3>1. last \in solid /\ \A j \in solid : last >= j
      BY <2>2
    <3> HIDE DEF last
    <3>2. last >= k /\ k >= last
      BY <2>2, <3>1
    <3> QED BY <1>1, <1>3, <3>1, <3>2
  <2> HIDE DEF last
  <2>3. CASE n \in solid
    <3>1. \A j \in solid : n >= j
      BY <1>3
    <3> QED BY <1>1, <2>2, <2>3, <3>1
  <2>4. CASE n \notin solid /\ n > 1 /\ t[n - 1] = "\\" /\ n - 1 \in solid
    <3>1. \A j \in solid : n - 1 >= j
      BY <1>1, <1>3, <2>4
    <3>2. last = n - 1
      BY <2>2, <2>4, <3>1
    <3> QED BY <1>1, <2>4, <3>2
  <2> QED BY <2>1, <2>3, <2>4
<1>6. solid # {}
  BY <1>3
<1> HIDE DEF solid, first, last
<1>7. Trim(t) = SubSeq(t, 1, n)
  BY <1>1, <1>2, <1>4, <1>5, <1>6
<1> QED BY <1>1, <1>7, Beginnings DEF Text

\* The string of a list is not trimmed.
LEMMA TrimList ==
    ASSUME NEW texts \in Seq(Seq(STRING))
    PROVE  Trim(JimMakeListStringRep[texts]) = JimMakeListStringRep[texts]
<1>1. CASE texts = <<>>
  <2>1. JimMakeListStringRep[texts] = <<>>
    <3>1. Len(texts) = 0
      BY <1>1
    <3> QED BY <3>1, ListScan
  <2>2. Trim(<<>>) = <<>>
    <3>1. {i \in DOMAIN <<>> : <<>>[i] \notin Space} = {}
      OBVIOUS
    <3> QED BY <3>1 DEF Trim
  <2> QED BY <2>1, <2>2
<1>2. CASE texts # <<>>
  BY <1>2, StartsBetween, ListReads, ListSolid, TrimSolid
<1> QED BY <1>1, <1>2

\* [concat] of two lists (Jim_ConcatObj) is the same list on both of its ways: it joins
\* values that are lists as lists, and the trimmed texts of other values. What the
\* second makes of the strings of two lists is read as the one list after the other.
THEOREM ConcatAgrees ==
    \A texts, others \in Seq(Seq(STRING)) :
        JimParseList(JoinTexts(Trim(JimMakeListStringRep[texts]), Trim(JimMakeListStringRep[others])))
            = texts \o others
<1> SUFFICES ASSUME NEW texts \in Seq(Seq(STRING)), NEW others \in Seq(Seq(STRING))
             PROVE  JimParseList(JoinTexts(Trim(JimMakeListStringRep[texts]),
                                           Trim(JimMakeListStringRep[others]))) = texts \o others
  OBVIOUS
<1>1. PICK t \in Text : t = JimMakeListStringRep[texts]
  BY StartsBetween, ListReads
<1>2. PICK v \in Text : v = JimMakeListStringRep[others]
  BY StartsBetween, ListReads
<1>3. Trim(JimMakeListStringRep[texts]) = t /\ Trim(JimMakeListStringRep[others]) = v
  BY <1>1, <1>2, TrimList
<1>4. JimParseList(JoinTexts(t, v)) = texts \o others
  <2>1. CASE texts = <<>>
    <3>1. t = <<>>
      <4>1. Len(texts) = 0
        BY <2>1
      <4> QED BY <1>1, <4>1, ListScan
    <3>2. JoinTexts(t, v) = v
      BY <3>1 DEF JoinTexts
    <3>3. texts \o others = others
      BY <2>1, ConcatEmptySeq
    <3>4. JimParseList(v) = others
      BY <1>2, ListsReadBack DEF ReadsBack
    <3> QED BY <3>2, <3>3, <3>4
  <2>2. CASE texts # <<>>
    <3>1. t # <<>>
      BY <1>1, <2>2, ListSolid DEF Solid, Leads
    <3>2. JoinTexts(t, v) = t \o <<" ">> \o v
      BY <3>1 DEF JoinTexts
    <3>3. texts \in Seq(Text) /\ <<>> \o texts = texts
      BY TextsOfStrings, ConcatEmptySeq
    <3>4. PICK u : Reads(ListStart, t, u) /\ Read(u, texts)
      BY <1>1, <3>3, StartsBetween, ListReads
    <3> DEFINE w == JimParseListStep(u, " ")
    <3>5. Between(w, texts) /\ Reads(u, <<" ">>, w)
      BY <3>4, ReadsBlank, ReadsOne
    <3> HIDE DEF w
    <3>6. <<" ">> \in Text
      <4>1. " " \in Alphabet
        BY DEF Alphabet, Special, Space
      <4> QED BY <4>1, OneCharacter
    <3>7. t \o <<" ">> \in Text /\ Reads(ListStart, t \o <<" ">>, w)
      BY <3>4, <3>5, <3>6, ConcatType, ReadsConcat
    <3>8. PICK x : Reads(w, v, x) /\ Read(x, texts \o others)
      BY <1>2, <3>3, <3>5, ListReads
    <3>9. (t \o <<" ">>) \o v \in Text /\ Reads(ListStart, (t \o <<" ">>) \o v, x)
      BY <3>7, <3>8, ConcatType, ReadsConcat
    <3>10. JimParseList((t \o <<" ">>) \o v) = texts \o others
      BY <3>8, <3>9, ReadIs
    <3> QED BY <3>2, <3>10
  <2> QED BY <2>1, <2>2
<1> QED BY <1>3, <1>4
=============================================================================
