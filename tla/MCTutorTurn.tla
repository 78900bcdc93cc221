----------------------------- MODULE MCTutorTurn -----------------------------
(* Finite instances of TutorTurn for TLC. *)
EXTENDS TutorTurn
=============================================================================
