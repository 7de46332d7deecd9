----------------------------- MODULE CloudStream ------------------------------
(***************************************************************************)
(* CloudDvr_StreamControl: the stream of a recording that the network      *)
(* keeps, controlled with RTSP (live555), with the part of OnDemand that   *)
(* sends speeds and positions through it.  The parties are                 *)
(*   - the client, whose calls hold OnDemand's mutex; two of them poll for *)
(*     the answer to a request of their own;                               *)
(*   - the loop, which takes that mutex to handle an event;                *)
(*   - the scheduler thread of live555, which handles the answers with the *)
(*     mutex of the stream control only.                                   *)
(* The stream server answers over one connection and in order.  Speeds are *)
(* counted in halves of the normal one, a tick is a second.  The wait of   *)
(* StreamSetSpeed for the answer, 30 turns of a loop that does not sleep,  *)
(* decides nothing and is left out.                                        *)
(* Bounds: CloudBudget, of calls after the first and of what goes wrong;   *)
(* the polls look at the answer twice.                                     *)
(***************************************************************************)
EXTENDS Integers, Sequences, SequencesExt

CONSTANTS CloudSpeeds,      \* what the client sets, 0 to pause
          CloudPositions,   \* where it goes to
          CloudBudget

ASSUME CloudAssumption ==
    /\ CloudSpeeds \subseteq Int /\ CloudPositions \subseteq Nat /\ CloudBudget \in Nat

VARIABLES cs,       \* CloudDvr_StreamControl
          cc,       \* OnDemand
          asked,     \* the requests that are not answered
          cevents,  \* the events queued for the loop
          poll,     \* StreamGetPosition or StreamGetSpeed
          server,   \* the stream server
          cpast,    \* for the properties
          cloudSpent

cloudVars == <<cs, cc, asked, cevents, poll, server, cpast, cloudSpent>>

Normal == 2

\* The multiples of 1, and of the slow speed.
IsCurrentSpeedSupported(scale) ==
    scale \in {1, 2, 4, 8, 16, 32, 128, -4, -8, -16, -32, -128}

\* (int16_t)scale drops what follows the point.
Whole(scale) == IF scale < 0 THEN -((-scale) \div 2) ELSE scale \div 2

\* up: mRtspClient; num: numerator / denominator; temp: mTempNumerator; since: the
\* seconds since mLastGetPosAccessTime; known: mIsAssetUpdatedNPTset; timers: those
\* of the loop, timer: it is kept in mEventTimer.
NewCloudStream ==
    [up |-> FALSE, pause |-> FALSE, npt |-> 0, num |-> 1, temp |-> Normal, since |-> 0,
     known |-> TRUE, respPos |-> "none", respSpeed |-> "none", respOf |-> 0,
     threads |-> 0, timers |-> 0, timer |-> FALSE, shut |-> FALSE]

NewCloudCtl == [state |-> "SessionPending", speed |-> Normal, pendingPlay |-> FALSE,
                pendingSpeed |-> FALSE, pendingPosition |-> FALSE, position |-> 0]

NoPoll == [st |-> "none", of |-> 0, left |-> 0, npt |-> 0]

\* unsent, refused: a request that was not sent or answered, or was refused; moved:
\* one to go to a position set another speed than the client's; timedOut, foreign:
\* a poll was given up, was ended by an answer not its own; late: a second passed
\* within a call or before an answer; overtaken: a play was answered between the
\* two steps of an estimate; replayed: a timer was started with one running, or
\* at the end.
NewCloudPast == [unsent |-> FALSE, refused |-> FALSE, moved |-> FALSE, timedOut |-> FALSE,
                 foreign |-> FALSE, late |-> FALSE, overtaken |-> FALSE, replayed |-> FALSE,
                 polls |-> 0]

CloudInit ==
    /\ cs = NewCloudStream /\ cc = NewCloudCtl
    /\ asked = <<>> /\ cevents = <<>> /\ poll = NoPoll
    /\ server = [scale |-> 0, pos |-> 0]
    /\ cpast = NewCloudPast /\ cloudSpent = 0

CloudCost(bad) ==
    cloudSpent' = cloudSpent + (IF bad THEN 1 ELSE 0) /\ cloudSpent' <= CloudBudget

------------------------------------------------------------------------------
(* The requests, on the record of all that a call changes *)

Cloud == [cs |-> cs, cc |-> cc, asked |-> asked, past |-> cpast]
CloudIs(c) == cs' = c.cs /\ cc' = c.cc /\ asked' = c.asked /\ cpast' = c.past

Request(type, scale, from) == [type |-> type, scale |-> scale, from |-> from, of |-> 0]

\* What is sent, or not: that it is not is only logged.
Sent(c, r, goes) ==
    IF goes /\ c.cs.up THEN [c EXCEPT !.asked = Append(@, r)] ELSE [c EXCEPT !.past.unsent = TRUE]

\* From where the stream is, which is -1, or from nptPosition.
CloudStreamPlay(c, usingStartNPT, goes) ==
    LET p == Sent(c, Request("PLAY", c.cs.temp, IF usingStartNPT THEN -1 ELSE c.cs.npt), goes)
    IN  IF p.asked = c.asked THEN p ELSE [p EXCEPT !.cs.since = 0]

CloudStreamPause(c, goes) ==
    [Sent(c, Request("PAUSE", 0, -1), goes) EXCEPT !.past.moved = FALSE]

CloudStreamSetSpeed(c, scale, goes) ==
    IF IsCurrentSpeedSupported(scale)
    THEN CloudStreamPlay([c EXCEPT !.cs.temp = scale, !.past.moved = FALSE], TRUE, goes)
    ELSE [c EXCEPT !.past.unsent = TRUE]

CloudStreamSetNPT(c, pos, goes) ==
    CloudStreamPlay([c EXCEPT !.cs.npt = pos, !.past.moved = @ \/ c.cs.temp # c.cc.speed],
                    FALSE, goes)

\* Mutant: a speed that must wait is not marked as pending.
CloudSetSpeedLost(c, scale, goes) ==
    CASE ~c.cc.pendingSpeed /\ scale = c.cc.speed -> c
      [] c.cc.pendingPlay /\ (c.cc.pendingSpeed \/ scale # c.cc.speed) ->
           [c EXCEPT !.cc.speed = scale]
      [] OTHER ->
           LET p == [c EXCEPT !.cc.speed = scale, !.cc.pendingPlay = TRUE]
           IN  IF scale = 0 THEN CloudStreamPause(p, goes) ELSE CloudStreamSetSpeed(p, scale, goes)

\* OnDemand sends one request at a time and holds the last speed and position
\* that were asked for meanwhile.
CloudSetSpeed(c, scale, goes) ==
    CASE ~c.cc.pendingSpeed /\ scale = c.cc.speed -> c
      [] c.cc.pendingPlay /\ (c.cc.pendingSpeed \/ scale # c.cc.speed) ->
           [c EXCEPT !.cc.speed = scale, !.cc.pendingSpeed = TRUE]
      [] OTHER ->
           LET p == [c EXCEPT !.cc.speed = scale, !.cc.pendingPlay = TRUE]
           IN  IF scale = 0 THEN CloudStreamPause(p, goes) ELSE CloudStreamSetSpeed(p, scale, goes)

CloudSetPosition(c, pos, goes) ==
    IF c.cc.pendingPlay
    THEN [c EXCEPT !.cc.position = pos, !.cc.pendingPosition = TRUE]
    ELSE CloudStreamSetNPT([c EXCEPT !.cc.pendingPlay = TRUE], pos, goes)

\* First the position, then the speed; a speed behind a position is lost.
CloudAfterReply(c, goes) ==
    LET p == [c EXCEPT !.cc.pendingPlay = FALSE]
        q == IF p.cc.pendingPosition
             THEN CloudSetPosition([p EXCEPT !.cc.pendingPosition = FALSE], p.cc.position, goes)
             ELSE p
    IN  IF ~q.cc.pendingSpeed THEN q
        ELSE IF q.cc.pendingPlay
             THEN [q EXCEPT !.cc.pendingSpeed = FALSE, !.past.moved = TRUE]
             ELSE [CloudSetSpeed(q, q.cc.speed, goes) EXCEPT !.cc.pendingSpeed = FALSE]

------------------------------------------------------------------------------
(* The client's calls *)

CloudCall == poll.st = "none" /\ cc.state = "Streaming"

CloudTrick ==
    /\ CloudCall /\ CloudCost(TRUE)
    /\ \E goes \in BOOLEAN :
          \/ \E s \in CloudSpeeds : CloudIs(CloudSetSpeed(Cloud, s, goes))
          \/ \E p \in CloudPositions : CloudIs(CloudSetPosition(Cloud, p, goes))
    /\ UNCHANGED <<cevents, poll, server>>

\* StreamGetPosition estimates the position from a copy of what it knows, or
\* asks for it; StreamGetSpeed always asks.
ReadsEstimate == cs.npt + (IF cs.pause THEN 0 ELSE cs.num * cs.since)

CloudEstimates ==
    /\ CloudCall /\ cs.up /\ cs.known /\ CloudCost(TRUE)
    /\ poll' = [NoPoll EXCEPT !.st = "estimate", !.npt = ReadsEstimate]
    /\ UNCHANGED <<cs, cc, asked, cevents, server, cpast>>

\* Every 300 seconds the next call is to ask.
CloudEstimated ==
    /\ poll.st = "estimate" /\ poll' = NoPoll
    /\ \E known \in BOOLEAN : cs' = [cs EXCEPT !.npt = poll.npt, !.since = 0, !.known = known]
    /\ UNCHANGED <<cc, asked, cevents, server, cpast, cloudSpent>>

CloudAsks ==
    /\ CloudCall /\ cs.up /\ CloudCost(TRUE)
    /\ \E type \in {"GETPOS", "GETSPEED"} :
          /\ type = "GETPOS" => ~cs.known
          /\ poll' = [NoPoll EXCEPT !.st = type, !.of = cpast.polls + 1, !.left = 2]
          /\ asked' = Append(asked, [Request(type, 0, -1) EXCEPT !.of = cpast.polls + 1])
    /\ cpast' = [cpast EXCEPT !.polls = @ + 1]
    /\ UNCHANGED <<cs, cc, cevents, server>>

Response(type) == IF type = "GETPOS" THEN cs.respPos ELSE cs.respSpeed

\* A look at the answer.
CloudPolls ==
    /\ poll.st \in {"GETPOS", "GETSPEED"}
    /\ IF Response(poll.st) = "none" /\ poll.left > 0
       THEN poll' = [poll EXCEPT !.left = @ - 1] /\ UNCHANGED <<cs, cpast>>
       ELSE /\ poll' = [poll EXCEPT !.st = IF @ = "GETPOS" THEN "gotPos" ELSE "gotSpeed"]
            /\ cs' = IF poll.st = "GETPOS" /\ cs.respPos = "ok"
                     THEN [cs EXCEPT !.known = TRUE, !.since = 0] ELSE cs
            /\ cpast' = IF Response(poll.st) = "none"
                        THEN [cpast EXCEPT !.timedOut = TRUE]
                        ELSE [cpast EXCEPT !.foreign = @ \/ cs.respOf # poll.of]
    /\ UNCHANGED <<cc, asked, cevents, server, cloudSpent>>

\* Mutant: the answer stays for the next poll.
PollForgets(s, st) == s

\* The answer is reset, which may be one that has just come.
PollResets(s, st) ==
    IF st = "gotPos" THEN [s EXCEPT !.respPos = "none"] ELSE [s EXCEPT !.respSpeed = "none"]

CloudPolled ==
    /\ poll.st \in {"gotPos", "gotSpeed"}
    /\ cs' = PollResets(cs, poll.st) /\ poll' = NoPoll
    /\ UNCHANGED <<cc, asked, cevents, server, cpast, cloudSpent>>

\* StreamTearDown; its caller then waits for the loop.
CloudStop ==
    /\ poll.st = "none" /\ cc.state \notin {"StopPending", "gone"}
    /\ \E goes \in BOOLEAN :
          LET c == CloudStreamPause(Cloud, goes)
          IN  /\ asked' = c.asked /\ cpast' = c.past /\ CloudCost(~goes)
              /\ cs' = [cs EXCEPT !.shut = TRUE, !.timer = FALSE,
                                  !.timers = IF cs.timer THEN @ - 1 ELSE @]
    /\ cc' = [cc EXCEPT !.state = "StopPending"]
    /\ cevents' = Append(cevents, "StopController")
    /\ UNCHANGED <<poll, server>>

CloudClient == CloudTrick \/ CloudEstimates \/ CloudEstimated \/ CloudAsks \/ CloudPolls
               \/ CloudPolled \/ CloudStop

------------------------------------------------------------------------------
(* The loop *)

CloudHandles(e) ==
    /\ poll.st = "none" /\ cc.state # "gone"
    /\ cevents # <<>> /\ Head(cevents) = e /\ cevents' = Tail(cevents)

\* The session's confirm, which is read once more when it is sent once more:
\* StreamSetup makes the client and one more thread.  The requests of the client
\* before are not answered any more.
CloudConfirm ==
    /\ poll.st = "none" /\ cc.state \notin {"StopPending", "gone"} /\ cs.threads < 2
    /\ CloudCost(cs.up)
    /\ cs' = [cs EXCEPT !.up = TRUE, !.threads = @ + 1]
    /\ asked' = <<>> /\ cpast' = [cpast EXCEPT !.unsent = @ \/ asked # <<>>]
    /\ cevents' = Append(cevents, "SetupResp")
    /\ UNCHANGED <<cc, poll, server>>

CloudSetupResp ==
    /\ CloudHandles("SetupResp")
    /\ IF cc.state = "SessionPending"
       THEN \E goes \in BOOLEAN :
              LET c == CloudStreamSetNPT(Cloud, 0, goes)
              IN  CloudIs([c EXCEPT !.cc.state = "ControlServerPending"]) /\ CloudCost(~goes)
       ELSE UNCHANGED <<cs, cc, asked, cpast, cloudSpent>>
    /\ UNCHANGED <<poll, server>>

\* RTSPPlaySuccess, which every answer queues, and RTSPPlayFailed.
CloudReply ==
    /\ CloudHandles("RTSPPlaySuccess") \/ CloudHandles("RTSPPlayFailed")
    /\ LET c == IF cc.state = "ControlServerPending"
                THEN [Cloud EXCEPT !.cc.state = "TunerPending"] ELSE Cloud
       IN  IF c.cc.state = "Streaming"
           THEN \E goes \in BOOLEAN :
                   CloudIs(CloudAfterReply(c, goes)) /\ CloudCost(~goes)
           ELSE CloudIs([c EXCEPT !.cc.pendingPlay = FALSE]) /\ UNCHANGED cloudSpent
    /\ UNCHANGED <<poll, server>>

CloudRenders ==
    /\ poll.st = "none" /\ cc.state = "TunerPending"
    /\ cc' = [cc EXCEPT !.state = "Streaming"]
    /\ UNCHANGED <<cs, asked, cevents, poll, server, cpast, cloudSpent>>

CloudStreamError ==
    /\ CloudHandles("StreamError")
    /\ cc' = [cc EXCEPT !.state = IF @ = "StopPending" THEN @ ELSE "Stopped"]
    /\ UNCHANGED <<cs, asked, poll, server, cpast, cloudSpent>>

\* The destructor: the thread may still be there.
CloudStopController ==
    /\ CloudHandles("StopController")
    /\ cc' = [cc EXCEPT !.state = "gone"] /\ asked' = <<>>
    /\ cs' = [cs EXCEPT !.up = FALSE]
    /\ UNCHANGED <<poll, server, cpast, cloudSpent>>

\* The timer sends a request whose answer nobody reads.
CloudKeepAlive ==
    /\ cs.timers > 0 /\ cs.up /\ CloudCost(TRUE)
    /\ asked' = Append(asked, Request("KEEPALIVE", 0, -1))
    /\ UNCHANGED <<cs, cc, cevents, poll, server, cpast>>

CloudLoop == CloudConfirm \/ CloudSetupResp \/ CloudReply \/ CloudRenders \/ CloudStreamError
             \/ CloudStopController \/ CloudKeepAlive

------------------------------------------------------------------------------
(* The scheduler thread handles the answer to the first request *)

CloudAnswered(type) ==
    /\ cs.threads > 0 /\ cs.up
    /\ asked # <<>> /\ Head(asked).type = type /\ asked' = Tail(asked)
    /\ UNCHANGED <<cc, poll>>

\* Each success starts a timer, over the one before.
StartKeepAliveTimer(s) == [s EXCEPT !.timers = @ + 1, !.timer = TRUE]

processPLAYResponse(s, pos, scale) ==
    [s EXCEPT !.npt = pos, !.num = Whole(scale), !.pause = FALSE]

\* A refusal is taken for a play too: the position and the speed are those of
\* the play before.
ResponsePLAY ==
    /\ CloudAnswered("PLAY")
    /\ LET r == Head(asked)
           pos == IF r.from = -1 THEN server.pos ELSE r.from
       IN  \/ /\ server' = [scale |-> r.scale, pos |-> pos]
              /\ cs' = StartKeepAliveTimer(processPLAYResponse(cs, pos, r.scale))
              /\ cevents' = Append(cevents, "RTSPPlaySuccess")
              /\ cpast' = [cpast EXCEPT !.replayed = @ \/ cs.timers > 0 \/ cs.shut,
                                        !.overtaken = @ \/ poll.st = "estimate"]
              /\ UNCHANGED cloudSpent
           \/ /\ cs' = [cs EXCEPT !.pause = FALSE]
              /\ cevents' = Append(cevents, "RTSPPlayFailed")
              /\ cpast' = [cpast EXCEPT !.refused = TRUE] /\ CloudCost(TRUE)
              /\ UNCHANGED server

\* Told as the success of a play.
ResponsePAUSE ==
    /\ CloudAnswered("PAUSE")
    /\ \/ /\ server' = [server EXCEPT !.scale = 0]
          /\ cs' = [cs EXCEPT !.pause = TRUE]
          /\ cevents' = Append(cevents, "RTSPPlaySuccess")
          /\ UNCHANGED <<cpast, cloudSpent>>
       \/ /\ cevents' = Append(cevents, "StreamError")
          /\ cpast' = [cpast EXCEPT !.refused = TRUE] /\ CloudCost(TRUE)
          /\ UNCHANGED <<cs, server>>

processResponseGetPos ==
    /\ CloudAnswered("GETPOS")
    /\ \/ /\ cs' = [cs EXCEPT !.npt = server.pos, !.respPos = "ok", !.respOf = Head(asked).of]
          /\ cevents' = Append(cevents, "RTSPPlaySuccess") /\ UNCHANGED cloudSpent
       \/ /\ cs' = [cs EXCEPT !.respPos = "error", !.respOf = Head(asked).of]
          /\ cevents' = Append(cevents, "StreamError") /\ CloudCost(TRUE)
    /\ UNCHANGED <<server, cpast>>

processResponseGetSpeed ==
    /\ CloudAnswered("GETSPEED")
    /\ \/ /\ cs' = [cs EXCEPT !.num = Whole(server.scale), !.respSpeed = "ok",
                              !.respOf = Head(asked).of]
          /\ cevents' = Append(cevents, "RTSPPlaySuccess") /\ UNCHANGED cloudSpent
       \/ /\ cs' = [cs EXCEPT !.respSpeed = "error", !.respOf = Head(asked).of]
          /\ cevents' = Append(cevents, "StreamError") /\ CloudCost(TRUE)
    /\ UNCHANGED <<server, cpast>>

ResponseKEEPALIVE ==
    /\ CloudAnswered("KEEPALIVE")
    /\ UNCHANGED <<cs, cevents, server, cpast, cloudSpent>>

\* The event loop of live555 sees mShutDownFlag.
TaskSchedulerEnds ==
    /\ cs.shut /\ cs.threads > 0
    /\ cs' = [cs EXCEPT !.threads = @ - 1]
    /\ UNCHANGED <<cc, asked, cevents, poll, server, cpast, cloudSpent>>

CloudScheduler == ResponsePLAY \/ ResponsePAUSE \/ processResponseGetPos
                  \/ processResponseGetSpeed \/ ResponseKEEPALIVE \/ TaskSchedulerEnds

------------------------------------------------------------------------------

\* The server does not answer a request, and time goes by.
CloudServer ==
    /\ CloudCost(TRUE) /\ cc.state \notin {"StopPending", "gone"}
    /\ \/ /\ asked # <<>> /\ asked' = Tail(asked)
          /\ cpast' = [cpast EXCEPT !.unsent = TRUE]
          /\ UNCHANGED <<cs, server>>
       \/ /\ cs.up /\ cs' = [cs EXCEPT !.since = @ + 1]
          /\ server.scale % 2 = 0     \* a half second is not counted
          /\ server' = [server EXCEPT !.pos = @ + server.scale \div 2]
          /\ cpast' = [cpast EXCEPT !.late = @ \/ asked # <<>> \/ poll.st # "none"]
          /\ UNCHANGED asked
    /\ UNCHANGED <<cc, cevents, poll>>

CloudNext == CloudClient \/ CloudLoop \/ CloudScheduler \/ CloudServer

CloudSpec == CloudInit /\ [][CloudNext]_cloudVars

------------------------------------------------------------------------------
(* Properties *)

CloudAtRest == asked = <<>> /\ cevents = <<>> /\ poll.st = "none" /\ cc.state = "Streaming"

\* When all that was asked has been answered, nothing the client set is still
\* held back, and the server plays at the last speed the client set; though the
\* answer to a poll releases what a play holds back (CloudDvr_StreamControl.cpp:842)
\* and two plays are under way.  Excepted are a request that could not be sent,
\* was lost or was refused, and a position, which sets the speed of the last play
\* and makes OnDemand forget a speed that is held with it (ondemand.cpp:1217).
CloudSpeedIsSent ==
    CloudAtRest /\ ~cpast.unsent =>
        /\ ~cc.pendingPlay /\ ~cc.pendingSpeed /\ ~cc.pendingPosition
        /\ cpast.refused \/ cpast.moved \/ server.scale = cc.speed

\* A poll for the position or the speed is ended by the answer to its own
\* request, unless one before it was given up: the late answer then ends the
\* next (CloudDvr_StreamControl.cpp:594).
AnswerIsOurs == cpast.foreign => cpast.timedOut

\* Between two answers the position is estimated.  At a whole speed, and while
\* nothing is on its way, it is the server's, unless a play was refused or lost,
\* it or a call took a second, a play was answered between the two steps of an
\* estimate, which undoes it (CloudDvr_StreamControl.cpp:543, 580), or a poll was
\* given up, whose late answer sets the position and not its time (837).
PositionIsTold ==
    CloudAtRest /\ ~cs.pause /\ server.scale % 2 = 0
        /\ ~cpast.unsent /\ ~cpast.refused /\ ~cpast.late
        /\ ~cpast.overtaken /\ ~cpast.timedOut =>
        ReadsEstimate = server.pos

\* A stream control that is gone leaves no timer in the loop, but those of its
\* second and later plays (CloudDvr_StreamControl.cpp:920).
NoTimerIsLeft == cc.state = "gone" /\ ~cpast.replayed => cs.timers = 0

==============================================================================
