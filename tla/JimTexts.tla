------------------------------ MODULE JimTexts ------------------------------
(***************************************************************************)
(* What the list and dict commands of the Jim interpreter promise a        *)
(* script: every value is a text, a command computes texts from texts and  *)
(* changes the one variable it names.  No objects, no sharing.             *)
(*                                                                         *)
(* A dict may be written in any order of its keys.  The promise is weaker  *)
(* in three places: a dict that has never been written may turn round when *)
(* a list command changes it; a command that fails below the top of a      *)
(* value may write the value anew; a nested [dict get] may make lists into *)
(* dicts anywhere below the top of a value: duplicate keys disappear.      *)
(***************************************************************************)
EXTENDS JimListStrings, FiniteSets

CONSTANTS Vars, Words, WordText, SetVars

VARIABLES
    str,        \* the text of each variable and word, as <<text>>, or <<>>
    request     \* the last command and whether it succeeded

---------------------------------------------------------------------------
(* Dicts *)

IsDictText(text) == Len(JimParseList(text)) % 2 = 0
DictOf(text) ==
    LET e == JimParseList(text)
        keys == {i \in DOMAIN e : i % 2 = 1}
    IN [k \in {e[i] : i \in keys} |->
           e[1 + CHOOSE i \in keys : e[i] = k /\ \A j \in keys : e[j] = k => j <= i]]

Orders(S) == {f \in [1..Cardinality(S) -> S] : \A s \in S : \E i \in DOMAIN f : f[i] = s}
DictTexts(d) ==
    {JimMakeListStringRep[[i \in 1..(2 * Cardinality(DOMAIN d)) |->
                 IF i % 2 = 1 THEN f[(i + 1) \div 2] ELSE d[f[i \div 2]]]] :
        f \in Orders(DOMAIN d)}

Put(d, k, t) == [j \in DOMAIN d \cup {k} |-> IF j = k THEN t ELSE d[j]]
Without(d, k) == [j \in DOMAIN d \ {k} |-> d[j]]

\* What a dict text may become when the value of a path of keys is set to a
\* text (<<text>>) or removed (<<>>); nothing if that is an error.
RECURSIVE KeysSet(_, _, _)
KeysSet(text, keys, val) ==
    LET d == DictOf(text)
        k == Head(keys)
    IN CASE ~IsDictText(text) -> {}
         [] IsDictText(text) /\ Len(keys) = 1 ->
               DictTexts(IF val = <<>> THEN Without(d, k) ELSE Put(d, k, val[1]))
         [] IsDictText(text) /\ Len(keys) > 1 ->
               IF k \notin DOMAIN d /\ val = <<>> THEN {}
               ELSE UNION {DictTexts(Put(d, k, t)) :
                              t \in KeysSet(IF k \in DOMAIN d THEN d[k] ELSE <<>>, Tail(keys), val)}

\* The value at a path of keys, as <<text>>; <<>> if that is an error.
RECURSIVE KeysGet(_, _)
KeysGet(text, keys) ==
    IF keys = <<>> THEN <<text>>
    ELSE IF ~IsDictText(text) \/ Head(keys) \notin DOMAIN DictOf(text) THEN <<>>
    ELSE KeysGet(DictOf(text)[Head(keys)], Tail(keys))

---------------------------------------------------------------------------
(* Lists *)

\* Where an index points, from 1: -1 is the last element.
Place(len, idx) == IF idx < 0 THEN len + idx + 1 ELSE idx + 1
Clip(lo, hi, i) == IF i < lo THEN lo ELSE IF i > hi THEN hi ELSE i

RECURSIVE IndexGet(_, _)
IndexGet(text, path) ==
    LET e == JimParseList(text)
    IN IF path = <<>> THEN <<text>>
       ELSE IF Place(Len(e), Head(path)) \notin DOMAIN e THEN <<>>
       ELSE IndexGet(e[Place(Len(e), Head(path))], Tail(path))

\* What the changed value may look like to a list command.
Copies(r, text) ==
    {text} \cup (IF r.dict /\ IsDictText(text) THEN DictTexts(DictOf(text)) ELSE {})

\* What text may become, as <<text>>, when the element at path is set to val;
\* <<>> is an error.
RECURSIVE IndexSet(_, _, _, _)
IndexSet(r, text, path, val) ==
    LET At(e) == Place(Len(e), Head(path))
        With(e, inner) == JimMakeListStringRep[[e EXCEPT ![At(e)] = inner[1]]]
        InList(e) == IF At(e) \notin DOMAIN e THEN {<<>>}
                     ELSE {IF inner = <<>> THEN <<>> ELSE <<With(e, inner)>> :
                              inner \in IndexSet(r, e[At(e)], Tail(path), val)}
    IN IF path = <<>> THEN {<<val>>}
       ELSE UNION {InList(JimParseList(copy)) : copy \in Copies(r, text)}

Between(e, first, last) == SubSeq(e, Clip(1, Len(e) + 1, first), Clip(0, Len(e), last))

Distinct(e) == {e[i] : i \in DOMAIN e}
Sorted(S) ==
    CHOOSE f \in Orders(S) : \A i, j \in DOMAIN f : i < j => JimStringCompare(f[i], f[j]) < 0

---------------------------------------------------------------------------
(* Weaker promises *)

\* u is text written anew; with dicts, lists inside may have become dicts.
RECURSIVE Rewritten(_, _, _)
Rewritten(text, u, dicts) ==
    LET e == JimParseList(text)
        f == JimParseList(u)
    IN \/ u = text
       \/ dicts /\ IsDictText(text) /\ u \in DictTexts(DictOf(text))
       \/ /\ e # <<text>> /\ u = JimMakeListStringRep[f] /\ Len(e) = Len(f)
          /\ \A i \in DOMAIN e : Rewritten(e[i], f[i], dicts)

---------------------------------------------------------------------------
(* The effect of a command r: old and new are the texts before and after *)

Keys(r) == [i \in DOMAIN r.path |-> WordText[r.path[i]]]
Text(old, n) == IF old[n] = <<>> THEN <<>> ELSE old[n][1]

\* What the variable r.to may be afterwards, as <<text>>; <<>> is an error.
Results(r, old) ==
    LET own == Text(old, r.to)
        t == Text(old, r.from)
        u == Text(old, r.arg)
        e == JimParseList(t)
        n == Len(e)
        first == Place(n, r.path[1])
        last == Place(n, r.path[2])
        ListText(texts) == <<JimMakeListStringRep[texts]>>
        OrError(texts) == IF texts = {} THEN {<<>>} ELSE {<<text>> : text \in texts}
    IN CASE r.cmd \in {"set", "puts", "llength"} -> {<<t>>}
         [] r.cmd = "append" -> {<<copy \o t>> : copy \in Copies(r, own)}
         [] r.cmd = "lappend" ->
               {ListText(Append(JimParseList(copy), t)) : copy \in Copies(r, own)}
         [] r.cmd = "list" -> {ListText(<<t, u>>)}
         [] r.cmd = "concat" -> {ListText(e \o JimParseList(u)), <<JoinTexts(Trim(t), Trim(u))>>}
         [] r.cmd = "lset" -> IndexSet(r, own, r.path, u)
         [] r.cmd = "lindex" ->
               {IF IndexGet(t, r.path) = <<>> THEN <<<<>>>> ELSE IndexGet(t, r.path)}
         [] r.cmd = "lrange" -> {ListText(Between(e, first, last))}
         [] r.cmd = "lreplace" ->
               {ListText(Between(e, 1, first - 1) \o <<u>>
                           \o Between(e, IF last < first THEN first ELSE last + 1, n))}
         [] r.cmd = "linsert" ->
               LET at == IF r.path[1] < 0 THEN first + 1 ELSE first
                   Inserted(f) == ListText(Between(f, 1, at - 1) \o <<u>> \o Between(f, at, n))
               IN {Inserted(JimParseList(copy)) : copy \in Copies(r, t)}
         [] r.cmd = "lsort" -> {ListText(Sorted(Distinct(e)))}
         [] r.cmd = "dict set" -> OrError(KeysSet(own, Keys(r), <<u>>))
         [] r.cmd = "dict unset" -> OrError(KeysSet(own, Keys(r), <<>>))
         [] r.cmd = "dict get" -> {KeysGet(t, Keys(r))}

\* Nothing but v changes, and what the others lose in a nested [dict get].
OnlyTo(v, old, new) == \A n \in DOMAIN old \ {v} : new[n] = old[n]
OnlyDuplicates(v, old, new) ==
    \A n \in DOMAIN old \ {v} :
        IF old[n] = <<>> THEN new[n] = <<>> ELSE Rewritten(old[n][1], Text(new, n), TRUE)

Effect(r, old, new) ==
    LET deep == r.cmd = "dict get" /\ Len(r.path) > 1
        Others == IF deep THEN OnlyDuplicates(r.to, old, new) ELSE OnlyTo(r.to, old, new)
        Again(dicts) == Rewritten(Text(old, r.to), Text(new, r.to), dicts)
        Failed == CASE r.cmd = "dict get" -> deep \/ new = old
                    [] r.cmd = "lset" -> Again(FALSE)
                    [] r.cmd = "dict set" -> Again(TRUE)
                    [] r.cmd = "dict unset" -> new[r.to] # <<>> /\ Again(TRUE)
    IN IF r.cmd = "unset" THEN new = [old EXCEPT ![r.to] = <<>>]
       ELSE /\ Others
            /\ \E result \in Results(r, old) :
                  /\ r.ok <=> result # <<>>
                  /\ IF r.ok THEN new[r.to] = result ELSE Failed

Init ==
    /\ str = [n \in Vars \cup Words |-> CASE n \in Words -> <<WordText[n]>>
                                          [] n \in DOMAIN SetVars -> <<WordText[SetVars[n]]>>
                                          [] OTHER -> <<>>]
    /\ request.cmd = "none"

Next == \E old \in {str}, new \in {str'} : Effect(request', old, new)

Spec == Init /\ [][Next]_<<str, request>>
=============================================================================
