------------------------------ MODULE MCConsole -------------------------------
(* The instance of Console for TLC: two rows, two log streams, two shells    *)
(* under a cap of one, two polls that may cross.                             *)
EXTENDS Console
===============================================================================
