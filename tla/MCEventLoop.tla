---------------------------- MODULE MCEventLoop ----------------------------
(* Instances of JimEventLoop for TLC. *)
EXTENDS JimEventLoop

CONSTANT v1
=============================================================================
