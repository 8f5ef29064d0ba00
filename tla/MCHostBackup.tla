---------------------------- MODULE MCHostBackup ----------------------------
(* A small instance of HostBackup for TLC. *)
EXTENDS HostBackup, TLC

(* Commands, config names and SSH keys are interchangeable. *)
Symmetry == Permutations(Workers) \cup Permutations(Names) \cup Permutations(KeyNames)
=============================================================================
