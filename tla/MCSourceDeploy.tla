---------------------------- MODULE MCSourceDeploy ----------------------------
(* Values for the TLC run of SourceDeploy. *)
EXTENDS SourceDeploy

CONSTANTS n1, n2

===============================================================================
