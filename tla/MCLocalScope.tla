---------------------------- MODULE MCLocalScope ----------------------------
(* Instances of JimLocalScope for TLC. *)
EXTENDS JimLocalScope, TLC

CONSTANTS c1, c2, c3

Rel(path) == [abs |-> FALSE, path |-> path]

McIds == {c1, c2, c3}
FreshIds == Permutations({c2, c3})

GlobalWords == {Rel(<<"p">>), Rel(<<"q">>)}
GlobalOnly == {<<>>}
OneNative == <<"p">> :> c1
=============================================================================
