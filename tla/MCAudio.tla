------------------------------- MODULE MCAudio -------------------------------
(***************************************************************************)
(* EAS audio with two sessions, a main picture and a picture in picture,   *)
(* and the two screens with two displays, one of them of a film.  They     *)
(* share no state as they are modelled: a behaviour is of one of them.     *)
(***************************************************************************)
EXTENDS EasAudio, Presentation

CONSTANTS s1, s2, h1, h2

VARIABLE part           \* which of the two

AudioInit ==
    /\ part \in {"eas", "screens"}
    /\ Init
    /\ PresentationInit

AudioNext ==
    /\ UNCHANGED part
    /\ \/ part = "eas" /\ Next /\ UNCHANGED screenVars
       \/ part = "screens" /\ PresentationNext /\ UNCHANGED vars

\* No thread of EasAudio has anything to do in its initial state.
AudioSpec ==
    /\ AudioInit /\ [][AudioNext]_<<part, vars, screenVars>>
    /\ WF_vars(threadFunction)
    /\ WF_vars(eventThreadFunc)
    /\ WF_vars(audioCallback)

\* The types of both.
AudioTypeOK == TypeOK /\ PresentationTypeOK
==============================================================================
