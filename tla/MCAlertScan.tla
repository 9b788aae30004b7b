------------------------------ MODULE MCAlertScan ------------------------------
(* An instance of AlertScan for TLC: the interval is one unit, a cursor is stale after three. *)
EXTENDS AlertScan

===============================================================================
