------------------------------ MODULE MCPlayers ------------------------------
(***************************************************************************)
(* The player of the gateway (MCMediaPlayer); or the controller of an IP   *)
(* client.  A behaviour is of the one or of the other.                     *)
(***************************************************************************)
EXTENDS MCMediaPlayer, IpZapper

VARIABLE part           \* which of the two

PlayersInit ==
    /\ part \in {"player", "ip"}
    /\ Init
    /\ IpInit
    /\ part = "player" => ~ip.isMrdvr

PlayersNext ==
    /\ UNCHANGED part
    /\ \/ part = "player" /\ Next /\ UNCHANGED ipVars
       \/ part = "ip" /\ IpNext /\ UNCHANGED vars

PlayersSpec == PlayersInit /\ [][PlayersNext]_<<part, vars, ipVars>>

==============================================================================
