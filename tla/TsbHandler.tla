----------------------------- MODULE TsbHandler ------------------------------
(***************************************************************************)
(* TsbHandler (TsbHandler.cpp): the time shift buffers of the box.  The    *)
(* controllers of live channels and the streamers of the MRDVR server take *)
(* theirs from the same few; the handler itself does not know whose a      *)
(* buffer is, the model does.                                              *)
(***************************************************************************)
EXTENDS Naturals

CONSTANT NumTsbs      \* mTsbCount: as many buffers as there are tuners

ASSUME NumTsbsAssumption == NumTsbs \in Nat

Tsbs == 1..NumTsbs
NoTsb == 0                            \* 0xffff
Users == {"free", "dvr", "streamer"}

AllAvailable == [n \in Tsbs |-> "free"]

Available(tsbs) == {n \in Tsbs : tsbs[n] = "free"}

\* The first buffer that is available, NoTsb when there is none.
get_tsb(tsbs) ==
    IF Available(tsbs) = {} THEN NoTsb
    ELSE CHOOSE n \in Available(tsbs) : \A m \in Available(tsbs) : n <= m

TakenBy(user, tsbs, n) == [tsbs EXCEPT ![n] = user]

\* Whoever has it.
release_tsb(tsbs, n) == IF n \in Tsbs THEN [tsbs EXCEPT ![n] = "free"] ELSE tsbs

==============================================================================
