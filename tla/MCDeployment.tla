---------------------------- MODULE MCDeployment ----------------------------
(* The script with its own steps. *)
EXTENDS Deployment, DeploymentSteps
=============================================================================
