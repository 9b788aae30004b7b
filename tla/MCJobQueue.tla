------------------------------ MODULE MCJobQueue ------------------------------
(* A small instance of JobQueue for TLC.  One time unit is ten seconds.     *)
EXTENDS JobQueue

CONSTANT a

\* Every job belongs to the one service.
SingleService == [j \in Job |-> a]
===============================================================================
