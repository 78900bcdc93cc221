------------------------------- MODULE MCPages -------------------------------
(* A small instance of Pages. *)
EXTENDS Pages

MCMaxCalls == [quiz |-> 3, materials |-> 2]
=============================================================================
