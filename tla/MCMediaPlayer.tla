---------------------------- MODULE MCMediaPlayer ----------------------------
(* Two sessions; a live service and a recording for Dvr, one each for the   *)
(* EAS player and a mrdvr client, and a URL of no known scheme.             *)
EXTENDS MediaPlayer

CONSTANTS s1, s2, rf, avfs, mrdvr, audio, junk

MCControllerType ==
    [u \in Urls |-> CASE u \in {rf, avfs} -> "Dvr"
                      [] u = mrdvr -> "Mrdvr"
                      [] u = audio -> "Audio"
                      [] OTHER -> "Unknown"]

Symmetric == Permutations(Sessions)

Having(Test(_)) ==
    {s \in Sessions : mController[s] # None /\ Test(mController[s])}

AtMostOne(S) == \A s, t \in S : s = t

\* One EAS player and one Dvr that records or has recorded, at a time.
OneOfAKind ==
    /\ AtMostOne(Having(LAMBDA c : c.type = "Audio"))
    /\ AtMostOne(Having(LAMBDA c : c.recording \/ c.background))
==============================================================================
