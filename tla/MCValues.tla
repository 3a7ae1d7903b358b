------------------------------ MODULE MCValues ------------------------------
(* An instance of JimValues for TLC, with the checks of JimScripts and       *)
(* JimExpr, which have no state of their own: the first state is enough.     *)
EXTENDS JimValues, JimScripts, JimExpr

CONSTANTS x, y, a, twice, none

\* Words: an atom; a list with an odd spelling, an element that needs quoting
\* and a duplicate key; the empty text.
McTexts ==
    (a :> <<"a">>) @@ (none :> <<>>)
    @@ (twice :> <<"a", " ", " ", "\\", "{", " ", "a", " ", "{", "a", " ", "{", "}", "}">>)
McSetVars == x :> twice
McObjs == 1..24
McPaths == {<<0>>, <<-1, 0>>}
McRanges == {<<1, -1>>, <<-2, 1>>}
McKeyPaths == {<<a>>, <<a, a>>}

\* All texts of up to three characters, all of four of the harder ones, and
\* pairs of short ones.
McChars == {"a", "n", " ", "\n", "{", "}", "\\", "#", "[", "]", "\"", ";", "$", "("}
TextsOf(n, chars) == [1..n -> chars]
McLists ==
    {<<>>} \cup {<<t>> : t \in UNION {TextsOf(n, McChars) : n \in 0..3}}
    \cup {<<t>> : t \in TextsOf(4, McChars \ {"a", ";", "$", "("})}
    \cup (LET short == UNION {TextsOf(n, McChars) : n \in 0..1} IN short \X short)

\* Any list of texts survives being written as a string: read back as a list it
\* is the same (SetListFromAny), run as a script it is one command with these
\* words, as [eval] without the string runs it (Jim_EvalObj), and in brackets it
\* is one command substitution.
ListsSurvive ==
    count = 0 => \A list \in McLists : ReadsBack(list) /\ RunsAsCommand(list) /\ RunsInBrackets(list)

\* Expressions mean what the operator table says: all trees of up to three
\* operators, those of up to two with any parentheses added (ExprTreeBuildTree),
\* and Jim_EvalExpression's short way on all trees small enough to take it.
ExpressionsRight == count = 0 => TreesReadBack(3, 2) /\ ShortcutsAgree

\* The objects in the order in which the names lead to them: where an object
\* lies in memory makes no difference.
RECURSIVE Reach(_, _)
Reach(found, todo) ==
    IF todo = <<>> THEN found
    ELSE IF Head(todo) \in {found[i] : i \in DOMAIN found} THEN Reach(found, Tail(todo))
    ELSE Reach(Append(found, Head(todo)), heap[Head(todo)].elems \o Tail(todo))
Canon(names) ==
    LET order == Reach(<<>>, SelectSeq([i \in DOMAIN names |-> bind[names[i]]], LAMBDA o : o # 0))
        Rank(o) == CHOOSE i \in DOMAIN order : order[i] = o
    IN [bind |-> [i \in DOMAIN names |-> IF bind[names[i]] = 0 THEN 0 ELSE Rank(bind[names[i]])],
        heap |-> [i \in DOMAIN order |->
                     [heap[order[i]] EXCEPT !.elems = [j \in DOMAIN @ |-> Rank(@[j])]]]]

\* x and y are alike.
View == <<{Canon(<<x, y, a, twice, none>>), Canon(<<y, x, a, twice, none>>)}, count>>
=============================================================================
