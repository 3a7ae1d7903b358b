---------------------------- MODULE MCReferences ----------------------------
(***************************************************************************)
(* References on a small table whose keys collide.                         *)
(***************************************************************************)
EXTENDS JimReferences, TLC

\* Keys 0, 4 and 8 share a bucket of the table after its first growth.
Colliding == (0 :> 0) @@ (2 :> 1) @@ (4 :> 4) @@ (6 :> 2) @@ (8 :> 8)
=============================================================================
