----------------------------- MODULE MCExecutor -----------------------------
(* Small instances of Executor for TLC. *)
EXTENDS Executor, TLC

(* Apps and commits are interchangeable.  Used only by runs without        *)
(* liveness properties.                                                     *)
Symmetry == Permutations(Apps) \cup Permutations(Commits)
=============================================================================
