----------------------------- MODULE MCMrdvrServer ----------------------------
(* Two clients of the home network and one tuner. *)
EXTENDS MrdvrServer

MCClients == {"den", "attic"}
MCAsks == {<<"den", "live">>, <<"attic", "vod">>, <<"attic", "file">>}

==============================================================================
