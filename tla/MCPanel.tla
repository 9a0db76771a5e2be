------------------------------ MODULE MCPanel ------------------------------
(* Panel with values small enough for every order of the answers.            *)
EXTENDS Panel
=============================================================================
