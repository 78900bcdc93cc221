------------------------ MODULE MCMaterialPipeline ------------------------
(* Finite instances of MaterialPipeline for TLC. *)
EXTENDS MaterialPipeline, TLC

\* Worker processes are interchangeable, and so are requests (safety runs only).
Symmetry == Permutations(Workers) \cup Permutations(Requests)
=============================================================================
