---------------------------- MODULE MCDeployModes ----------------------------
(* Tags for the TLC runs of DeployModes. *)
EXTENDS DeployModes

CONSTANTS v0, v1, flaky, broken

===============================================================================
