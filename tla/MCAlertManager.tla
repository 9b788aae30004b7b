---------------------------- MODULE MCAlertManager ----------------------------
(* Alerts for the TLC runs of AlertManager. *)
EXTENDS AlertManager

CONSTANTS pod, job

===============================================================================
