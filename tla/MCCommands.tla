----------------------------- MODULE MCCommands -----------------------------
(* Instances of JimCommands for TLC. *)
EXTENDS JimCommands, TLC

CONSTANTS c1, c2, c3

Rel(path) == [abs |-> FALSE, path |-> path]

McIds3 == {c1, c2, c3}
FreshIds == Permutations({c2, c3})

\* Only the global namespace.
GlobalWords == {Rel(<<"p">>), Rel(<<"q">>)}
GlobalOnly == {<<>>}
OneNative == <<"p">> :> c1

\* The global namespace and a namespace a; one word reaches both.
NsWords == {Rel(<<"p">>), Rel(<<"a", "p">>)}
NsBoth == {<<>>, <<"a">>}
=============================================================================
