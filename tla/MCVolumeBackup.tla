--------------------------- MODULE MCVolumeBackup ---------------------------
(* A small instance of VolumeBackup for TLC. *)
EXTENDS VolumeBackup, TLC

(* Operations, volumes and paths are interchangeable. *)
Symmetry == Permutations(Ops) \cup Permutations(Names) \cup Permutations(Paths)
=============================================================================
