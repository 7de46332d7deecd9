----------------------------- MODULE MCOnDemand -----------------------------
(***************************************************************************)
(* Two movies, one after the other, wound back and paused; the messages of *)
(* a session of each kind; a film of the gateway for an IP client; and the *)
(* stream of a recording in the network.  The first takes messages as      *)
(* whole, the second is of what is in them, the third takes a request and  *)
(* its answer as one, and the fourth has a protocol of its own: they share *)
(* no state as they are modelled, and a behaviour is of one of them.       *)
(***************************************************************************)
EXTENDS OnDemand, Dsmcc, HnOnDemand, CloudStream

MCSpeeds == {Rewind, 0}

\* A film with two languages, and a music channel.
MCPmts == {[audio |-> {1, 2}, video |-> {1, 2}, music |-> FALSE],
           [audio |-> {1}, video |-> {}, music |-> TRUE]}

\* Pause, the slow speed, one that RTSP does not know, and back.
MCCloudSpeeds == {0, 1, 6, -4}

VARIABLE part           \* which of the four

MovieInit ==
    /\ part \in {"movies", "messages", "film", "cloud"}
    /\ Init
    /\ DsmInit
    /\ HnInit
    /\ CloudInit
    /\ part # "messages" => dsm.kind = "SeaChange" /\ dsm.own

MovieNext ==
    /\ UNCHANGED part
    /\ \/ part = "movies" /\ Next /\ UNCHANGED <<dsmVars, hnVars, cloudVars>>
       \/ part = "messages" /\ DsmNext /\ UNCHANGED <<vars, hnVars, cloudVars>>
       \/ part = "film" /\ HnNext /\ UNCHANGED <<vars, dsmVars, cloudVars>>
       \/ part = "cloud" /\ CloudNext /\ UNCHANGED <<vars, dsmVars, hnVars>>

\* Nothing of the movies has anything to do in their initial state.
MovieSpec ==
    MovieInit /\ [][MovieNext]_<<part, vars, dsmVars, hnVars, cloudVars>> /\ Fairness

\* The speed a client set last is the one that was sent last, whatever was
\* asked while a reply was due.
SpeedsAreSent == SpeedIsSent /\ CloudSpeedIsSent

\* A session that was set up is released when the loop is done with it; a film
\* that is gone has left no tuner, stream or session behind, and the stream of
\* a recording no timer.
EverythingIsGivenBack == SessionsAreReleased /\ FilmLeavesNothing /\ NoTimerIsLeft

\* What is sent is what the other end reads, an answer ends the request it
\* answers, and the position told between answers is the server's.
MessagesAreRight == MessagesAreUnderstood /\ AnswerIsOurs /\ PositionIsTold

\* What an IP client is shown is protected as the CAM said last, and a film
\* that was played streams whole or its client knows that it does not.
FilmIsServed == FilmIsProtected /\ FilmIsAnswered

==============================================================================
