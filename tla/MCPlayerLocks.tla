---------------------------- MODULE MCPlayerLocks ----------------------------
(* Two client threads and the player's own, two sessions. *)
EXTENDS PlayerLocks, TLC

CONSTANTS c1, c2, s1, s2

Symmetric == Permutations(Clients) \cup Permutations(Sessions)
==============================================================================
