-------------------------- MODULE MCDeploymentLog --------------------------
(* A small instance of DeploymentLog for TLC. *)
EXTENDS DeploymentLog
=============================================================================
