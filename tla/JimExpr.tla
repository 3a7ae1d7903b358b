------------------------------ MODULE JimExpr ------------------------------
(***************************************************************************)
(* Expressions: how ExprTreeBuildTree makes a tree of the tokens of an     *)
(* expression, and how Jim_EvalExpression computes its value, with the     *)
(* short way it takes for the smallest trees.                              *)
(*                                                                         *)
(* A token is a string: an operator, punctuation, or else a term.  The     *)
(* operators are some of g_Jim_ExprOperators, of every kind: left and      *)
(* right associative, unary, ternary, functions of no, one, two arguments. *)
(***************************************************************************)
EXTENDS Integers, Sequences, FiniteSets

Binary == {"*", "-", "<", "&&", "**"}
Unary == {"!", "neg"}
Functions == {"rand", "abs", "pow"}
Operators == Binary \cup Unary \cup Functions \cup {"?", ":"}
Punctuation == {"(", ")", ",", "end"}

Precedence(op) ==
    CASE op \in Functions -> 200 [] op \in Unary -> 150 [] op = "**" -> 120 [] op = "*" -> 110
      [] op = "-" -> 100 [] op = "<" -> 80 [] op = "&&" -> 10 [] op \in {"?", ":"} -> 5
Arity(op) ==
    CASE op = "rand" -> 0 [] op \in Unary \cup {"abs"} -> 1 [] op \in Binary \cup {"pow"} -> 2
      [] op \in {"?", ":"} -> 3
RightAssoc == Unary \cup {"**", "?", ":"}

\* A node of the tree; a term has no operands.
Node(op, args) == [op |-> op, args |-> args]

---------------------------------------------------------------------------
(* From tokens to a tree *)

IsOperator(tok) == tok \in Operators
IsStart(tok) == tok \in {"none", "(", ","}

MaxLevel == 200

\* tokens end with "end"; next is the place of the token to be looked at.
Builder(tokens) ==
    [tokens |-> tokens, next |-> 1, stack |-> <<>>, paren |-> 0, level |-> 0, ok |-> TRUE]
Fail(b) == [b EXCEPT !.ok = FALSE]
Advance(b) == [b EXCEPT !.next = @ + 1]
\* The token is left to the level above.
Leave(b) == [b EXCEPT !.level = @ - 1]
EndLevel(b, terms) == IF Len(b.stack) = terms THEN Leave(b) ELSE Fail(b)
Push(b, node) == [b EXCEPT !.stack = Append(@, node)]

\* The operands are popped without a look at where this level began.
Reduce(b, op) ==
    LET rest == Len(b.stack) - Arity(op)
    IN IF ~b.ok \/ rest < 0 THEN Fail(b)
       ELSE Push([b EXCEPT !.stack = SubSeq(@, 1, rest)],
                 Node(op, SubSeq(b.stack, rest + 1, Len(b.stack))))

\* A minus without a term before it is unary.
OperatorAt(b, before) ==
    IF b.tokens[b.next] = "-" /\ (IsOperator(before) \/ IsStart(before)) THEN "neg"
    ELSE b.tokens[b.next]

\* Ends a level at an operator that binds less.
MissesAssociativity(op, prec) == Precedence(op) < prec \* mutant: all are right associative
Weaker(op, prec) == Precedence(op) < prec \/ (op \notin RightAssoc /\ Precedence(op) = prec)

\* flags: "close", "args", "ternary"; the level has its terms when the stack
\* has the height terms.
RECURSIVE ExprTreeBuildTree(_, _, _, _)
RECURSIVE BuildOn(_, _, _, _)

Operands(b, op) ==
    CASE op \in Functions /\ b.tokens[b.next] # "(" -> Fail(b)
      [] op = "rand" /\ b.tokens[b.next] = "(" ->
            IF b.tokens[b.next + 1] = ")" THEN Advance(Advance(b)) ELSE Fail(b)
      [] op \in Functions \ {"rand"} /\ b.tokens[b.next] = "(" ->
            ExprTreeBuildTree(Advance([b EXCEPT !.paren = @ + 1]), 0, {"args", "close"}, Arity(op))
      [] op = "?" -> ExprTreeBuildTree(b, Precedence(op), {"ternary"}, 2)
      [] op \notin Functions \cup {"?"} -> ExprTreeBuildTree(b, Precedence(op), {}, 1)

Close(b, flags, terms, prec) ==
    CASE "close" \notin flags -> IF Len(b.stack) = terms /\ b.level > 1 THEN Leave(b) ELSE Fail(b)
      [] "close" \in flags ->
            LET closed == Advance([b EXCEPT !.paren = @ - 1])
            IN IF Len(b.stack) = terms THEN Leave(closed) ELSE BuildOn(closed, prec, flags, terms)
Comma(b, flags, terms, prec) ==
    CASE "args" \notin flags -> EndLevel(b, terms)
      [] "args" \in flags ->
            IF Len(b.stack) > terms THEN Fail(b) ELSE BuildOn(Advance(b), prec, flags, terms)
Colon(b, flags, terms, prec) ==
    CASE "ternary" \notin flags -> IF b.level # 1 THEN Leave(b) ELSE Fail(b)
      [] "ternary" \in flags ->
            IF Len(b.stack) = terms THEN Leave(b) ELSE BuildOn(Advance(b), prec, flags, terms)
Operator(b, op, flags, terms, prec) ==
    IF Weaker(op, prec) THEN EndLevel(b, terms)
    ELSE BuildOn(Reduce(Operands(Advance(b), op), op), prec, flags, terms)
Term(b, before, flags, terms, prec) ==
    IF IsStart(before) \/ IsOperator(before)
    THEN BuildOn(Advance(Push(b, Node(b.tokens[b.next], <<>>))), prec, flags, terms)
    ELSE Fail(b)
Open(b, flags, terms, prec) ==
    IF Len(b.stack) = terms THEN Fail(b)
    ELSE BuildOn(ExprTreeBuildTree(Advance([b EXCEPT !.paren = @ + 1]), 0, {"close"}, 1),
                 prec, flags, terms)

\* One level of the recursion, from the token at b.next on.
BuildOn(b, prec, flags, terms) ==
    LET tok == b.tokens[b.next]
        before == IF b.next = 1 THEN "none" ELSE b.tokens[b.next - 1]
    IN CASE ~b.ok -> b
         [] b.ok /\ tok = "end" -> EndLevel(b, terms)
         [] b.ok /\ tok = "(" -> Open(b, flags, terms, prec)
         [] b.ok /\ tok = ")" -> Close(b, flags, terms, prec)
         [] b.ok /\ tok = "," -> Comma(b, flags, terms, prec)
         [] b.ok /\ tok = ":" -> Colon(b, flags, terms, prec)
         [] b.ok /\ tok \in Operators \ {":"} ->
               Operator(b, OperatorAt(b, before), flags, terms, prec)
         [] b.ok /\ tok \notin Operators \cup Punctuation -> Term(b, before, flags, terms, prec)
ExprTreeBuildTree(b, prec, flags, count) ==
    IF b.level > MaxLevel THEN Fail(b)
    ELSE BuildOn([b EXCEPT !.level = @ + 1], prec, flags, Len(b.stack) + count)

\* The tree as <<tree>>, or <<>> for a syntax error.
ExprTreeCreateTree(tokens) ==
    LET b == ExprTreeBuildTree(Builder(Append(tokens, "end")), 0, {}, 1)
    IN IF b.ok /\ b.paren = 0 THEN <<b.stack[Len(b.stack)]>> ELSE <<>>

---------------------------------------------------------------------------
(* The value of a tree *)

\* A value is a number or a word; a term has a kind: an integer literal, a
\* variable or something else (a string, a [cmd]).  env gives a term its kind
\* and, if it has one, its value: an unset variable has none.
Number(n) == [number |-> TRUE, val |-> n]
Word == [number |-> FALSE, val |-> 0]
Truth(cond) == <<Number(IF cond THEN 1 ELSE 0)>>
IsTrue(v) == v # <<>> /\ v[1].number /\ v[1].val # 0
IsFalse(v) == v # <<>> /\ v[1].number /\ v[1].val = 0

\* Numbers are compared as such, and as texts with a word, which is greater.
LessThan(v, w) == IF v.number /\ w.number THEN v.val < w.val ELSE v.number /\ ~w.number

\* The operators, on operands that are <<value>>, or <<>> for an error.  They
\* look at an operand they do not need neither for its value nor for an error.
JimExprOpNumUnary(v) == IF IsTrue(v) \/ IsFalse(v) THEN Truth(IsFalse(v)) ELSE <<>>
JimExprOpBin(op, v, w) ==
    LET both == v # <<>> /\ w # <<>>
        numbers == both /\ v[1].number /\ w[1].number
    IN CASE op = "<" /\ both -> Truth(LessThan(v[1], w[1]))
         [] op = "-" /\ numbers -> <<Number(v[1].val - w[1].val)>>
         [] OTHER -> <<>>
JimExprOpAnd(v, w) ==
    CASE IsFalse(v) -> Truth(FALSE)
      [] IsTrue(v) /\ (IsTrue(w) \/ IsFalse(w)) -> Truth(IsTrue(w))
      [] OTHER -> <<>>
JimExprOpTernary(v, w, z) == IF IsTrue(v) THEN w ELSE IF IsFalse(v) THEN z ELSE <<>>

RECURSIVE JimExprEvalTermNode(_, _)
JimExprEvalTermNode(node, env) ==
    LET arg(i) == JimExprEvalTermNode(node.args[i], env)
    IN CASE node.args = <<>> -> env[node.op].val
         [] node.op = "!" -> JimExprOpNumUnary(arg(1))
         [] node.op \in {"<", "-"} -> JimExprOpBin(node.op, arg(1), arg(2))
         [] node.op = "&&" -> JimExprOpAnd(arg(1), arg(2))
         [] node.op = "?" -> JimExprOpTernary(arg(1), arg(2), arg(3))

RECURSIVE Size(_)
Size(node) ==
    LET upTo[i \in 0..Len(node.args)] == IF i = 0 THEN 1 ELSE upTo[i - 1] + Size(node.args[i])
    IN upTo[Len(node.args)]

\* <<value>> of a literal or a variable that is set.
JimExprIntValOrVar(node, env) ==
    IF node.args = <<>> /\ env[node.op].kind \in {"int", "var"} THEN env[node.op].val ELSE <<>>
IsWide(v) == v # <<>> /\ v[1].number

\* The short way, <<value>>, or <<>> if it is not taken.
Shortcut(tree, env) ==
    LET operand(i) == JimExprIntValOrVar(tree.args[i], env)
    IN CASE Size(tree) = 1 -> JimExprIntValOrVar(tree, env)
         [] Size(tree) = 2 ->
               IF tree.op = "!" /\ IsWide(operand(1)) THEN Truth(operand(1)[1].val = 0) ELSE <<>>
         [] Size(tree) = 3 ->
               IF IsWide(operand(1)) /\ IsWide(operand(2)) /\ tree.op = "<"
               THEN Truth(operand(1)[1].val < operand(2)[1].val) ELSE <<>>
         [] Size(tree) > 3 -> <<>>
Jim_EvalExpression(tree, env) ==
    IF Shortcut(tree, env) # <<>> THEN Shortcut(tree, env) ELSE JimExprEvalTermNode(tree, env)
---------------------------------------------------------------------------
(* Properties *)

\* The trees of n operators with the terms termNames[k], termNames[k + 1] ... in order.
termNames == <<"a", "b", "c", "d", "e", "f", "g">>
RECURSIVE Terms(_)
Terms(node) ==
    IF node.op \in Operators
    THEN LET upTo[i \in 0..Len(node.args)] == IF i = 0 THEN 0 ELSE upTo[i - 1] + Terms(node.args[i])
         IN upTo[Len(node.args)]
    ELSE 1
RECURSIVE Trees(_, _, _)
RECURSIVE Forests(_, _, _, _)
Forests(ops, m, n, k) ==
    IF m = 0 THEN IF n = 0 THEN {<<>>} ELSE {}
    ELSE UNION {{<<tree>> \o rest : rest \in Forests(ops, m - 1, n - i, k + Terms(tree))} :
                   <<i, tree>> \in UNION {{i} \X Trees(ops, i, k) : i \in 0..n}}
Trees(ops, n, k) ==
    IF n = 0 THEN {Node(termNames[k], <<>>)}
    ELSE UNION {{Node(op, args) : args \in Forests(ops, Arity(op), n - 1, k)} : op \in ops}

\* The ways to write a tree: parentheses around an operand that binds less than
\* its operator, or as much on the side where the operator does not associate,
\* and, with extra, around any other.
Weak(node, prec) == node.op \in Operators /\ Precedence(node.op) < prec
Loose(node, op, assoc) ==
    Weak(node, Precedence(op)) \/ (~assoc /\ Weak(node, Precedence(op) + 1))
RECURSIVE Written(_, _)
Operand(node, parens, extra) ==
    LET plain == Written(node, extra)
        wrapped == {<<"(">> \o text \o <<")">> : text \in plain}
    IN IF parens THEN wrapped ELSE IF extra THEN plain \cup wrapped ELSE plain
Written(node, extra) ==
    LET op == node.op
        right == op \in RightAssoc
        side(i, assoc) == Operand(node.args[i], Loose(node.args[i], op, assoc), extra)
        any(i) == Operand(node.args[i], FALSE, extra)
    IN CASE op \in Binary -> {l \o <<op>> \o r : l \in side(1, ~right), r \in side(2, right)}
         [] op \in Unary -> {<<IF op = "neg" THEN "-" ELSE op>> \o r : r \in side(1, right)}
         [] op = "?" -> {c \o <<"?">> \o l \o <<":">> \o r :
                            c \in side(1, FALSE), l \in any(2), r \in side(3, TRUE)}
         [] op = "rand" -> {<<op, "(", ")">>}
         [] op = "abs" -> {<<op, "(">> \o l \o <<")">> : l \in any(1)}
         [] op = "pow" -> {<<op, "(">> \o l \o <<",">> \o r \o <<")">> : l \in any(1), r \in any(2)}
         [] op \notin Operators -> {<<op>>}

\* An expression of up to n operators is read as its operators' precedence and
\* associativity say, with all parentheses that are needed and, up to m
\* operators, with any others.
TreesReadBack(n, m) ==
    \A i \in 0..n : \A tree \in Trees(Operators \ {":"}, i, 1) :
        \A text \in Written(tree, i <= m) : ExprTreeCreateTree(text) = <<tree>>

\* The short way of Jim_EvalExpression has the value of the long way, or fails
\* with it, for every small tree and all its terms may be.
Evaluated == {"!", "<", "-", "&&", "?"}
TermKinds ==
    [kind : {"int"}, val : {<<Number(0)>>, <<Number(1)>>}]
    \cup [kind : {"var"}, val : {<<>>, <<Word>>, <<Number(0)>>, <<Number(2)>>}]
    \cup [kind : {"other"}, val : {<<>>, <<Word>>, <<Number(1)>>}]
ShortcutsAgree ==
    \A tree \in UNION {Trees(Evaluated, i, 1) : i \in 0..2} : Size(tree) <= 4 =>
        \A env \in [{termNames[i] : i \in 1..Terms(tree)} -> TermKinds] :
            Jim_EvalExpression(tree, env) = JimExprEvalTermNode(tree, env)
=============================================================================
