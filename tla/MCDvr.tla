-------------------------------- MODULE MCDvr ---------------------------------
(* One Dvr, its record session and the buffers; the values of the constants *)
(* are in the .cfg.                                                         *)
EXTENDS Dvr
==============================================================================
