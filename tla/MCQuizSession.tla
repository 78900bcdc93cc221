--------------------------- MODULE MCQuizSession ---------------------------
(* Finite instances of QuizSession for TLC: one quiz of two questions, one of
   each kind, about two concepts. *)
EXTENDS QuizSession, TLC

CONSTANTS z1, q1, q2, c1, c2

OneQuiz == q1 :> z1 @@ q2 :> z1
TwoConcepts == q1 :> c1 @@ q2 :> c2
OneConcept == q1 :> c1 @@ q2 :> c1

Symmetry == Permutations(Requests)
=============================================================================
