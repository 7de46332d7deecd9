------------------------------ MODULE MCZapper -------------------------------
(* One Zapper and its source; the values of the constants are in the .cfg. *)
EXTENDS Zapper
==============================================================================
