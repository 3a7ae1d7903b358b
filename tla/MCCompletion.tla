---------------------------- MODULE MCCompletion ----------------------------
(***************************************************************************)
(* Completion codes on a small interpreter: three nested commands, two of  *)
(* them other than procedures, and every command a script can use.         *)
(***************************************************************************)
EXTENDS JimCompletion

\* What scripts use: everything that is modelled.
AllScripts == Names
=============================================================================
