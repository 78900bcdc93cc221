----------------------------- MODULE MCJobQueue -----------------------------
(* Finite instances of JobQueue for TLC. *)
EXTENDS JobQueue, TLC

\* Jobs are interchangeable, and so are worker processes (safety runs only).
Symmetry == Permutations(Jobs) \cup Permutations(Workers)
=============================================================================
