------------------------------ MODULE OnDemand ------------------------------
(***************************************************************************)
(* The controller of a movie (ondemand.cpp) with its session control, its  *)
(* stream control and its tuner.  The client loads movies one after the    *)
(* other, each with a controller and a session number of its own, so that  *)
(* what is late for one movie meets the next.                              *)
(*                                                                         *)
(* The client's calls hold the controller's mutex, and so does the loop    *)
(* when it handles an event; reading the sockets and the timers take no    *)
(* mutex of the controller.  Play sends the set-up request and lists it in *)
(* two steps, as the answer may be read in between; Stop gives up the      *)
(* mutex and waits until the loop has handled StopController.              *)
(* Bounds: those of the modules it extends.                                *)
(***************************************************************************)
EXTENDS VodSession, VodStream

CONSTANTS maxForwardCount,  \* how often a failed set-up is tried again
          Speeds            \* the numerators the client asks for

ASSUME OnDemandAssumption ==
    /\ messageRetryCount \in Nat /\ maxForwardCount \in Nat /\ StreamFailLimit \in Nat
    /\ MaxSessions \in Nat /\ Budget \in Nat
    /\ Speeds \subseteq Int

VARIABLES ctl,    \* the controller
          call,   \* the client's call in progress: none, Play, Stop, Stopping
          tuner,  \* tunerController: idle, playing, rendering
          log     \* for the properties: what became of the session

vars == <<queue, spent, sessionVars, streamVars, ctl, call, tuner, log>>

OnDemandStates == {"None", "WaitForLoad", "PreparingToView", "SessionPending", "ServerReady",
                   "ControlServerPending", "ControlServerReady", "TunerPending", "Streaming",
                   "StopPending", "Stopped"}

\* Mutant: the first of these states is missed.
SessionIsServed == {"ControlServerPending", "ControlServerReady", "TunerPending",
                    "Streaming", "StopPending"}

\* The states from kOnDemandSessionServerReady on.
SessionIsUp == {"ServerReady", "ControlServerPending", "ControlServerReady", "TunerPending",
                "Streaming", "StopPending"}

NoController == [state |-> "None", active |-> FALSE, numerator |-> SpeedUnit,
                 pendingPlay |-> FALSE, pendingSpeed |-> FALSE, pendingPosition |-> FALSE,
                 retries |-> 0, streamEvent |-> FALSE, problem |-> FALSE,
                 unreported |-> FALSE]

NoLog == [served |-> FALSE, released |-> FALSE, upset |-> FALSE]

\* active: in mActiveControllerList; problem: the client has been told of a
\* problem; unreported: a step failed of which the code only logs.
TypeOK ==
    /\ queue \in Seq(OnDemandEvents) /\ spent \in 0..Budget
    /\ SessionTypeOK
    /\ StreamTypeOK
    /\ ctl.state \in OnDemandStates
    /\ ctl.numerator \in Speeds \cup {SpeedUnit}
    /\ ctl.retries \in 0..maxForwardCount
    /\ \A f \in {"active", "pendingPlay", "pendingSpeed", "pendingPosition", "streamEvent",
                 "problem", "unreported"} : ctl[f] \in BOOLEAN
    /\ call \in {"none", "Play", "Stop", "Stopping"}
    /\ tuner \in {"idle", "playing", "rendering"}
    /\ log \in [served : BOOLEAN, released : BOOLEAN, upset : BOOLEAN]

Init ==
    /\ queue = <<>> /\ spent = 0
    /\ SessionInit
    /\ StreamInit
    /\ ctl = NoController
    /\ call = "none" /\ tuner = "idle"
    /\ log = NoLog

------------------------------------------------------------------------------
(* The client's calls *)

\* The controller is created and loaded; setupSessionAndStreamControllers
\* creates its controls and startEventThread lists it as active.
Load ==
    /\ ctl.state = "None" /\ mPrevVodSessionId < MaxSessions
    /\ mPrevVodSessionId' = mPrevVodSessionId + 1
    /\ ses' = NewSession(mPrevVodSessionId')
    /\ strm' = NewStream
    /\ ctl' = [ctl EXCEPT !.state = "PreparingToView", !.active = TRUE]
    /\ Cost(mPrevVodSessionId > 0)
    /\ UNCHANGED <<queue, net, toStream, fromStream, streamer, call, tuner, log>>

\* Without a service group no request goes out: the client is told of a
\* problem and may play again.
PlayFails ==
    /\ ctl.state = "PreparingToView" /\ call = "none"
    /\ ctl' = [ctl EXCEPT !.problem = TRUE]
    /\ UNCHANGED <<queue, spent, sessionVars, streamVars, call, tuner, log>>

Play ==
    /\ ctl.state = "PreparingToView" /\ call = "none"
    /\ ses' = NextTransaction(ses)
    /\ SendSetUpRequest(ses'.trans, FALSE)
    /\ call' = "Play"
    /\ ctl' = [ctl EXCEPT !.problem = FALSE]
    /\ UNCHANGED <<queue, mPrevVodSessionId, streamVars, tuner, log>>

PlayReturns ==
    /\ call = "Play"
    /\ ses' = AddMessageToSendList(ses)
    /\ ctl' = [ctl EXCEPT !.state = "SessionPending"]
    /\ call' = "none"
    /\ UNCHANGED <<queue, spent, mPrevVodSessionId, net, streamVars, tuner, log>>

\* The controller, the stream control and its requests, as SetSpeed and
\* SetPosition change them for the client and for the loop.
Box == [ctl |-> ctl, strm |-> strm, out |-> toStream]

\* Mutant: a speed that must wait for a reply is held but not sent after it.
SetSpeedWithoutPending(b, num) ==
    CASE \/ b.ctl.state # "Streaming"
         \/ ~b.ctl.pendingSpeed /\ num = b.ctl.numerator -> b
      [] b.ctl.state = "Streaming" /\ b.ctl.pendingPlay
         /\ (b.ctl.pendingSpeed \/ num # b.ctl.numerator) ->
            [b EXCEPT !.ctl.numerator = num]
      [] OTHER ->
            LET c == [b EXCEPT !.ctl.numerator = num, !.ctl.pendingPlay = TRUE]
            IN  IF num = 0 THEN StreamPause(c) ELSE StreamSetSpeed(c, num)

SetSpeedOf(b, num) ==
    CASE \/ b.ctl.state # "Streaming"
         \/ ~b.ctl.pendingSpeed /\ num = b.ctl.numerator -> b
      [] b.ctl.state = "Streaming" /\ b.ctl.pendingPlay
         /\ (b.ctl.pendingSpeed \/ num # b.ctl.numerator) ->
            [b EXCEPT !.ctl.numerator = num, !.ctl.pendingSpeed = TRUE]
      [] OTHER ->
            LET c == [b EXCEPT !.ctl.numerator = num, !.ctl.pendingPlay = TRUE]
            IN  IF num = 0 THEN StreamPause(c) ELSE StreamSetSpeed(c, num)

SetPositionOf(b) ==
    CASE b.ctl.state # "Streaming" -> b
      [] b.ctl.state = "Streaming" /\ b.ctl.pendingPlay ->
            [b EXCEPT !.ctl.pendingPosition = TRUE]
      [] OTHER -> StreamSetNPT([b EXCEPT !.ctl.pendingPlay = TRUE], TRUE)

BoxIs(b) == ctl' = b.ctl /\ strm' = b.strm /\ toStream' = b.out

Trick(b) ==
    /\ call = "none" /\ ctl.state = "Streaming"
    /\ BoxIs(b) /\ Cost(TRUE)
    /\ UNCHANGED <<queue, sessionVars, fromStream, streamer, call, tuner, log>>

SetSpeed == \E num \in Speeds : Trick(SetSpeedOf(Box, num))

SetPosition == Trick(SetPositionOf(Box))

\* The session is released only in the states that follow its set-up, and the
\* release is sent once; the stream is closed without a message.
Stop ==
    /\ ctl.active /\ call = "none"
    /\ tuner' = "idle"
    /\ StreamTearDown
    /\ IF ctl.state \in SessionIsUp
       THEN /\ SendReleaseRequest
            /\ log' = [log EXCEPT !.released = TRUE]
       ELSE UNCHANGED <<net, log>>
    /\ ctl' = [ctl EXCEPT !.state = "StopPending"]
    /\ call' = "Stop"
    /\ UNCHANGED <<queue, spent, ses, mPrevVodSessionId>>

stopEventThread ==
    /\ call = "Stop"
    /\ queueEvent("StopController")
    /\ call' = "Stopping"
    /\ UNCHANGED <<spent, sessionVars, streamVars, ctl, tuner, log>>

\* Stop returns; the tuner is ejected and the controller is deleted.
Eject ==
    /\ call = "Stopping" /\ ~ctl.active
    /\ ctl' = NoController
    /\ call' = "none" /\ tuner' = "idle"
    /\ log' = NoLog
    /\ UNCHANGED <<queue, spent, sessionVars, streamVars>>

Client == Load \/ PlayFails \/ Play \/ PlayReturns \/ SetSpeed \/ SetPosition \/ Stop
          \/ stopEventThread \/ Eject

------------------------------------------------------------------------------
(* The loop handles an event, with the controller's mutex *)

Handles(e) ==
    /\ queue # <<>> /\ Head(queue) = e
    /\ call # "Play"
    /\ queue' = Tail(queue)

\* An event whose controller is no longer active is dropped.
DropEvent ==
    /\ \E e \in OnDemandEvents : Handles(e)
    /\ ~ctl.active
    /\ UNCHANGED <<spent, sessionVars, streamVars, ctl, call, tuner, log>>

\* That the tuner does not load, or the stream server is not reached, is only
\* logged; without the tuner nothing else is done.
loadTuningParamsAndPlay(connects) ==
    [StreamSetNPT(Box, connects) EXCEPT !.ctl.streamEvent = TRUE,
                                        !.ctl.unreported = @ \/ ~connects]

SetupResp ==
    /\ Handles("SetupResp") /\ ctl.active
    /\ \/ /\ ctl.state # "SessionPending"
          /\ UNCHANGED <<spent, streamVars, ctl, log>>
       \/ /\ ctl.state = "SessionPending"
          /\ ctl' = [ctl EXCEPT !.state = "ServerReady", !.unreported = TRUE]
          /\ log' = [log EXCEPT !.served = TRUE]
          /\ Cost(TRUE)
          /\ UNCHANGED streamVars
       \/ /\ ctl.state = "SessionPending"
          /\ \E connects \in BOOLEAN :
                /\ BoxIs([loadTuningParamsAndPlay(connects)
                             EXCEPT !.ctl.state = "ControlServerPending"])
                /\ Cost(~connects)
                /\ connects \/ ~strm.set
          /\ log' = [log EXCEPT !.served = TRUE]
          /\ UNCHANGED <<fromStream, streamer>>
    /\ UNCHANGED <<sessionVars, call, tuner>>

\* What waited for the reply is sent: first the position, then the speed.
AfterReply(b) ==
    LET p == [b EXCEPT !.ctl.pendingPlay = FALSE]
        q == IF p.ctl.pendingPosition
             THEN SetPositionOf([p EXCEPT !.ctl.pendingPosition = FALSE]) ELSE p
    IN  IF q.ctl.pendingSpeed
        THEN [SetSpeedOf(q, q.ctl.numerator) EXCEPT !.ctl.pendingSpeed = FALSE]
        ELSE q

\* The status is the one the stream control holds by now.  That the tuner does
\* not play is only logged.
PlayResp ==
    /\ Handles("PlayResp") /\ ctl.active
    /\ LET told == [Box EXCEPT !.ctl.problem = @ \/ strm.retstatus = "LSC_SERVER_ERROR"]
       IN  IF ctl.state = "ControlServerPending"
           THEN \E plays \in BOOLEAN :
                   /\ tuner' = IF plays THEN "playing" ELSE tuner
                   /\ Cost(~plays)
                   /\ BoxIs(AfterReply([told EXCEPT !.ctl.state = "TunerPending",
                                                    !.ctl.unreported = @ \/ ~plays]))
           ELSE /\ BoxIs(AfterReply(told))
                /\ UNCHANGED <<tuner, spent>>
    /\ UNCHANGED <<sessionVars, fromStream, streamer, call, log>>

\* The client is told that the stream is at its beginning or its end.
PlayEnds ==
    /\ Handles("PlayBOF") \/ Handles("PlayEOF")
    /\ ctl.active
    /\ UNCHANGED <<spent, sessionVars, streamVars, ctl, call, tuner, log>>

ReleaseResp ==
    /\ Handles("ReleaseResp") /\ ctl.active
    /\ ctl' = IF ctl.state = "StopPending" THEN [ctl EXCEPT !.state = "Stopped"] ELSE ctl
    /\ UNCHANGED <<spent, sessionVars, streamVars, call, tuner, log>>

DisplayRendering ==
    /\ Handles("DisplayRendering") /\ ctl.active
    /\ ctl' = IF ctl.state = "TunerPending" THEN [ctl EXCEPT !.state = "Streaming"] ELSE ctl
    /\ UNCHANGED <<spent, sessionVars, streamVars, call, tuner, log>>

\* The state is not looked at; the request is sent and listed by the thread
\* that reads the answers.  That it cannot be sent is only logged.
SessionError ==
    /\ Handles("SessionError") /\ ctl.active
    /\ \/ /\ ctl.retries < maxForwardCount
          /\ ses' = AddMessageToSendList(NextTransaction(ses))
          /\ SendSetUpRequest(ses'.trans, FALSE)
          /\ ctl' = [ctl EXCEPT !.state = "SessionPending", !.retries = @ + 1]
       \/ /\ ctl.retries < maxForwardCount
          /\ ctl' = [ctl EXCEPT !.retries = @ + 1, !.unreported = TRUE]
          /\ Cost(TRUE)
          /\ UNCHANGED <<ses, net>>
       \/ /\ ctl.retries >= maxForwardCount
          /\ ctl' = [ctl EXCEPT !.problem = TRUE]
          /\ UNCHANGED <<ses, net, spent>>
    /\ log' = IF ctl.state = "SessionPending" THEN log
              ELSE [log EXCEPT !.upset = TRUE]
    /\ UNCHANGED <<mPrevVodSessionId, streamVars, call, tuner>>

StreamError ==
    /\ Handles("StreamError") /\ ctl.active
    /\ ctl' = [ctl EXCEPT !.state = "Stopped", !.problem = TRUE, !.streamEvent = FALSE]
    /\ log' = [log EXCEPT !.upset = TRUE]
    /\ UNCHANGED <<spent, sessionVars, streamVars, call, tuner>>

\* The controller leaves the list, its socket event, timer and controls go,
\* and the thread that stops it is woken.
StopController ==
    /\ Handles("StopController") /\ ctl.active
    /\ ctl' = [ctl EXCEPT !.active = FALSE, !.streamEvent = FALSE]
    /\ DeleteSessionControl
    /\ strm' = NoStream
    /\ UNCHANGED <<spent, toStream, fromStream, streamer, call, tuner, log>>

HandleCallback == DropEvent \/ SetupResp \/ PlayResp \/ PlayEnds \/ ReleaseResp
                  \/ DisplayRendering \/ SessionError \/ StreamError \/ StopController

------------------------------------------------------------------------------
(* The loop reads the sockets and runs the timers; the tuner renders *)

ReadSession ==
    /\ ReadSessionSocketCallback
    /\ UNCHANGED <<streamVars, ctl, call, tuner, log>>

ReadStream ==
    /\ ctl.active /\ ctl.streamEvent
    /\ ReadStreamSocketData
    /\ UNCHANGED <<sessionVars, ctl, call, tuner, log>>

ProcessTimeout ==
    /\ \E m \in ses.sends :
          \/ Resend(m) /\ UNCHANGED ctl
          \/ \E kept \in BOOLEAN :
                /\ GiveUp(m, kept)
                /\ ctl' = [ctl EXCEPT !.unreported = @ \/ ~kept]
    /\ UNCHANGED <<mPrevVodSessionId, streamVars, call, tuner, log>>

TunerRenders ==
    /\ tuner = "playing"
    /\ tuner' = "rendering"
    /\ queueEvent("DisplayRendering")
    /\ UNCHANGED <<spent, sessionVars, streamVars, ctl, call, log>>

StreamServer == Streamer /\ UNCHANGED <<sessionVars, ctl, call, tuner, log>>

Next == Client \/ HandleCallback \/ ReadSession \/ ReadStream \/ ProcessTimeout
        \/ TunerRenders \/ StreamServer

\* The loop's thread handles its events, reads both sockets and runs the
\* timers; a call that has begun returns.  The tuner, the client and the
\* stream server owe nothing.
Fairness ==
    /\ WF_vars(HandleCallback)
    /\ WF_vars(ReadSession)
    /\ WF_vars(ReadStream)
    /\ WF_vars(ProcessTimeout)
    /\ WF_vars(PlayReturns)
    /\ WF_vars(stopEventThread)

Spec == Init /\ [][Next]_vars /\ Fairness

------------------------------------------------------------------------------
(* Properties *)

\* The speed the controller holds for the current one, and refuses to set
\* again, is the one that was sent last, unless it waits for a reply or a
\* position, which resets the speed, was sent after it (ondemand.cpp:717).
SpeedIsSent ==
    ctl.state = "Streaming" /\ strm.exists /\ ~ctl.pendingSpeed =>
        \/ strm.moved
        \/ strm.sent = IF ctl.numerator = 0 THEN 0 ELSE Scale(ctl.numerator)

\* The end of the stream is told as its end, and its beginning as its
\* beginning, when no request of the client is on its way: the stream control
\* tells them apart by the sign of the speed it holds, which a request sets
\* and every reply corrects (SeaChange_StreamControl.cpp:195).  A session that
\* was set up a second time has had two requests out at once, and the reply to
\* the first passes for one to the second.  An end of which part was read with
\* the message before it is not told.
EndsAreTold ==
    [][LET m == Head(fromStream)
       IN  (/\ ctl.state = "Streaming" /\ ~ctl.pendingPlay /\ ~log.upset
            /\ fromStream # <<>> /\ fromStream' = Tail(fromStream) /\ ctl' = ctl
            /\ m.type = "LSC_DONE" /\ strm.cut = 0)
           => Last(queue') = IF m.num < 0 THEN "PlayBOF" ELSE "PlayEOF"]_vars

\* A movie that streams goes back to setting up its session only when the box
\* has mistaken something for the answer to its request: a confirm for a
\* message that was not in the send list, as a timer or the listing itself
\* was overtaken, or an event that an earlier movie left behind.  The timer of
\* an answered request does not (ondemand.cpp:1445, VOD_SessionControl.cpp:356).
StreamIsNotRestarted ==
    [][ctl.state = "Streaming" /\ ctl'.state = "SessionPending" => ses.mistaken]_vars

\* The session of a movie that was served is released at the manager before
\* its control is gone, though the tuner or the stream server may not have
\* come up.  Two things lose the release: a stream error, and a session error
\* that is handled when the session is up or is being stopped, which sets it
\* up once more (ondemand.cpp:691).
SessionsAreReleased ==
    log.served /\ ~ctl.active => log.released \/ log.upset

\* A movie that is played does not wait for the box: it streams, the client
\* has been told of a problem or has stopped it; or the stream server owes a
\* reply, the tuner a picture, a step failed of which the code only logs, or a
\* reply was read in part with the message before it (lscProtocolclass.cpp:557).
\* Lost, late and refused set-up requests do not hold it up.
Waiting == /\ ctl.active /\ call \notin {"Stop", "Stopping"}
           /\ ctl.state \in {"SessionPending", "ServerReady", "ControlServerPending",
                             "ControlServerReady", "TunerPending"}
OthersOwe == toStream # <<>> \/ tuner = "playing" \/ ctl.unreported \/ strm.lost

MovieIsAnswered == []<>(Waiting => ctl.problem \/ OthersOwe)

==============================================================================
