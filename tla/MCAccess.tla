------------------------------- MODULE MCAccess --------------------------------
(* The instance of Access for TLC: two tabs, one machine token, two services  *)
(* in two clusters, pages of one row, a trail of two.                         *)
EXTENDS Access, TLC

Symm == Permutations(Tabs)

MCWhere == [s \in {"api", "web"} |-> IF s = "api" THEN "c1" ELSE "c2"]

MCGrants == {[role |-> "operator", service |-> "api", cluster |-> "c1"],
             [role |-> "viewer", service |-> "none", cluster |-> "c2"]}
===============================================================================
