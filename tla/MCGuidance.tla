----------------------------- MODULE MCGuidance -----------------------------
(* Small instances of Guidance. *)
EXTENDS Guidance, TLC

\* Workers and quizzes are interchangeable.
Symmetry == Permutations(Workers) \cup Permutations(Quizzes)
=============================================================================
