---------------------------- MODULE MCDashboard ----------------------------
(* A small instance of Dashboard for TLC. *)
EXTENDS Dashboard

MCViews == {[status |-> "up", choices |-> <<"x", "y">>], [status |-> "down", choices |-> <<"y">>]}
Symmetry == Permutations(Names)
=============================================================================
