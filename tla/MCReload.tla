------------------------------- MODULE MCReload -------------------------------
(* Instances of Reload for TLC; the .cfg files give every constant. *)
EXTENDS Reload
=============================================================================
