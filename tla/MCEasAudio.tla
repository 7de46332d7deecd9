----------------------------- MODULE MCEasAudio ------------------------------
(* Two sessions: a main picture and a picture in picture. *)
EXTENDS EasAudio

CONSTANTS s1, s2
==============================================================================
