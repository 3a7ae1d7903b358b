---------------------------- MODULE MCVariables ----------------------------
(* Instances of JimVariables for TLC. *)
EXTENDS JimVariables, TLC

CONSTANTS x1, x2, y1, gx, gy, v1, i1, i2, i3

\* x1, x2 and gx are spelt "x", the others "y"; gx and gy begin with "::".
McNames == [w \in Words |-> IF w \in {x1, x2, gx} THEN "x" ELSE "y"]
McGlobals == [w \in Words |-> w \in {gx, gy}]

NoStatics == [b \in {} |-> i1]
StaticX == "x" :> i1

FreshVars == Permutations(VarIds \ {Statics[b] : b \in DOMAIN Statics})
=============================================================================
