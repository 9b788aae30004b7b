----------------------------- MODULE MCRelease -----------------------------
(* Two processes, two versions with two migrations between them. *)
EXTENDS Release
MCSchema == <<1, 3>>
=============================================================================
