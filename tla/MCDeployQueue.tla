--------------------------- MODULE MCDeployQueue ---------------------------
(* Small instances of DeployQueue for TLC. *)
EXTENDS DeployQueue, TLC

(* Sessions, redeployers and commits are interchangeable.  Used only by    *)
(* runs without liveness properties.                                        *)
Symmetry ==
  Permutations(Sessions) \cup Permutations(Commits) \cup Permutations(Redeployers)

SymmetryApps == Symmetry \cup Permutations(Apps)
=============================================================================
