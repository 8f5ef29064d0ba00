------------------------------ MODULE MCRouting ------------------------------
(* Small instances of Routing for TLC. *)
EXTENDS Routing, TLC

(* Workers, apps and ports are interchangeable; each app is an endpoint    *)
(* too.  Used only by runs without liveness properties and legacy rows.     *)
Symmetry == Permutations(Apps) \cup Permutations(Workers) \cup Permutations(Ports)
SymmetryWorkers == Permutations(Workers)
=============================================================================
