--------------------------- MODULE MCAppOperations ---------------------------
(* A small instance of AppOperations for TLC. *)
EXTENDS AppOperations, TLC

(* Commands are interchangeable. *)
Symmetry == Permutations(Workers)
=============================================================================
