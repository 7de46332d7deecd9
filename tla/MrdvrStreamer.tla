---------------------------- MODULE MrdvrStreamer ----------------------------
(***************************************************************************)
(* The controllers of the MRDVR server's sessions: MrdvrTsbStreamer        *)
(* (MrdvrTsbStreamer.cpp) brings a channel into a time shift buffer and    *)
(* streams from there, or, of a channel that is published as on demand,    *)
(* from the tuner; MrdvrRecStreamer (MrdvrRecStreamer.cpp) streams a       *)
(* recording.  A streamer is the record x.  A method gives the set of what *)
(* may come of it: the streamer, the buffers, and what the client is told. *)
(* SDV, pay per view and the filters of applications are left out.         *)
(*                                                                         *)
(*   live    none, loaded, open (it waits for a tuner or its parameters),  *)
(*           started                                                       *)
(*   psi     none, new, started, ready                                     *)
(*   rec     the record session: none, new (it did not start), on,         *)
(*           reported (the platform has told that the buffer is filled)    *)
(*   source  the streaming source: none, closed, open (it has a program    *)
(*           handle), on                                                   *)
(***************************************************************************)
EXTENDS TsbHandler, Sequences

StreamerStates == {"Idle", "Stop", "WaitTuningParams", "WaitForTuner", "WaitSourceReady",
                   "SourceReady", "Streaming", "Suspended"}
HnSessionStates == {"Idle", "Auth", "DeAuth", "Unlocked", "Locked", "PsiTimeOut",
                    "TsbCreated", "TimedOut", "Started"}
StreamerEvents == {"Play", "RFCallback", "PSIReady", "TSBStart", "TimeOut", "PSIUpdate",
                   "TuningUpdate", "TunerLost", "TunerRestored", "Auth", "DeAuth",
                   "TunerUnlocked"}

NewStreamer(kind) ==
    [kind |-> kind, mState |-> "Idle", mReqState |-> "Idle", mTsbState |-> "NotCreated",
     live |-> "none", psi |-> "new", timer |-> FALSE, rec |-> "none",
     mTsbNumber |-> NoTsb, source |-> "none", queue |-> <<>>]

NoStreamer == [NewStreamer("none") EXCEPT !.psi = "none"]

\* What the streamer tells: none; failure, the serve request failed; signal, a
\* problem or a change of the session; retry, that the client shall ask again;
\* retryLater, that it shall do so when this session has been torn down.
Gives(x, tsbs, said) == {[x |-> x, tsbs |-> tsbs, said |-> said]}

IsInMemoryStreaming(x) == x.kind = "vod" /\ x.live # "none"

HasTuner(x) == x.live # "none"

getCpeProgHandle(x) == x.source \in {"open", "on"}

queueTo(x, e) == [x EXCEPT !.queue = Append(@, e)]

------------------------------------------------------------------------------
(* The streaming source *)

openSource(x) ==
    {[x |-> [x EXCEPT !.source = "open"], status |-> "Ok"],
     [x |-> [x EXCEPT !.source = "closed"], status |-> "TimeOut"],
     [x |-> [x EXCEPT !.source = "closed"], status |-> "Error"],
     [x |-> [x EXCEPT !.source = "open"], status |-> "Error"]}

startSource(x) ==
    {[x |-> [x EXCEPT !.source = "on"], status |-> "Ok"],
     [x |-> [x EXCEPT !.source = "closed"], status |-> "BadSource"]}

stopSource(x) == [x EXCEPT !.source = "none"]

\* The platform is asked to stop: a teardown will be required.
releaseSource(x) == IF getCpeProgHandle(x) THEN {"Ok", "Error"} ELSE {"Error"}

------------------------------------------------------------------------------
(* The buffer *)

\* A session that could not be opened or started is kept, and its buffer.
StartBuffer(x, tsbs) ==
    LET n == get_tsb(tsbs)
        taken == IF x.rec = "none" THEN TakenBy("streamer", tsbs, n) ELSE tsbs
        with == IF x.rec = "none" THEN [x EXCEPT !.mTsbNumber = n, !.rec = "new"] ELSE x
    IN  IF x.rec = "none" /\ n = NoTsb
          THEN {[x |-> x, tsbs |-> tsbs, status |-> "Error"]}
        ELSE {[x |-> [with EXCEPT !.rec = "on"], tsbs |-> taken, status |-> "Ok"],
              [x |-> with, tsbs |-> taken, status |-> "Error"],
              [x |-> with, tsbs |-> taken, status |-> "NotSupported"]}

StopBuffer(x, tsbs) ==
    LET released == [x |-> [x EXCEPT !.rec = "none", !.mTsbNumber = NoTsb,
                                     !.mTsbState = IF x.rec = "none" THEN @ ELSE "NotCreated"],
                     tsbs |-> release_tsb(tsbs, x.mTsbNumber)]
    IN  {released} \cup (IF x.rec = "none" THEN {} ELSE {[x |-> x, tsbs |-> tsbs]})

------------------------------------------------------------------------------
(* The methods of the controller *)

LoadStreamer(x) ==
    IF x.kind = "file" THEN [x EXCEPT !.source = "closed", !.psi = "none"]
    ELSE [x EXCEPT !.live = "loaded", !.mState = "Stop"]

PlayRecording(x) ==
    UNION {IF o.status = "Ok" THEN startSource(o.x) ELSE {o} : o \in openSource(x)}

PlayStreamer(x) ==
    IF x.kind = "file" THEN PlayRecording(x)
    ELSE {[x |-> queueTo(x, "Play"), status |-> "Ok"]}

stopped(x) ==
    [stopSource(x) EXCEPT !.mState = "Stop", !.psi = "none", !.timer = FALSE,
                          !.live = "none", !.queue = <<>>]

StopStreamer(x, tsbs) ==
    IF x.kind = "file" THEN {[x |-> stopSource(x), tsbs |-> tsbs]}
    ELSE StopBuffer(stopped(x), tsbs)

\* Mutants: a session whose buffer did not stop is kept; the buffer is left to
\* the record session.
EjectStoppedStreamer(x, tsbs) ==
    IF x.rec = "none" THEN [x |-> NoStreamer, tsbs |-> tsbs] ELSE [x |-> x, tsbs |-> tsbs]

EjectStreamerOnly(x, tsbs) == [x |-> NoStreamer, tsbs |-> tsbs]

\* Nothing is left, of the record session either that did not stop.
EjectStreamer(x, tsbs) == [x |-> NoStreamer, tsbs |-> release_tsb(tsbs, x.mTsbNumber)]

\* The events that wait are lost, whether there is a source or not.
StopStreaming(x) ==
    {[x |-> IF x.kind = "file" THEN x ELSE [x EXCEPT !.mState = "Suspended", !.queue = <<>>],
      status |-> status] : status \in releaseSource(x)}

ValidateSessionState(x) ==
    IF x.mReqState \in {"Auth", "Locked", "TimedOut", "PsiTimeOut"} /\ x.mTsbState = "Created"
      THEN queueTo([x EXCEPT !.mReqState = "TsbCreated"], "TSBStart") ELSE x

SetCpeStreamingSessionID(x) == IF x.kind = "file" THEN x ELSE ValidateSessionState(x)

\* With a source the platform is asked to stop, and the teardown cleans up.
tearDownClientSession(x, tsbs) ==
    LET unlocked(y) == [y EXCEPT !.psi = "none", !.mState = "Stop", !.timer = FALSE,
                                 !.live = IF @ = "none" THEN @ ELSE "loaded"]
    IN  IF x.source # "none" THEN {[x |-> x, tsbs |-> tsbs]}
        ELSE {[x |-> unlocked(o.x), tsbs |-> o.tsbs] : o \in StopBuffer(x, tsbs)}

------------------------------------------------------------------------------
(* The event thread *)

onPlay(x, tsbs) ==
    IF x.live = "none" THEN Gives(x, tsbs, "signal")
    ELSE LET open(state) == [x EXCEPT !.live = "open", !.mState = state]
         IN  Gives(open("WaitTuningParams"), tsbs, "none")
                 \cup Gives(open("WaitForTuner"), tsbs, "none")
                 \cup Gives(x, tsbs, "failure")
                 \cup {[x |-> [x EXCEPT !.live = "started", !.mState = "WaitSourceReady"],
                        tsbs |-> tsbs, said |-> said] : said \in {"none", "signal"}}

onRFCallback(x, tsbs) ==
    LET relocked == IF x.mReqState = "Unlocked" THEN [x EXCEPT !.mReqState = "Locked"] ELSE x
        said == IF x.mReqState = "Unlocked" THEN "signal" ELSE "none"
    IN  Gives(IF x.mState # "WaitSourceReady" THEN relocked
              ELSE [relocked EXCEPT !.mState = "SourceReady", !.psi = "started",
                                    !.timer = TRUE],
              tsbs, said)

\* From the tuner.  What goes wrong is not told, and a source that did not open
\* counts as streaming when its pids could be set.
StartTunerStreaming(x, tsbs) ==
    LET streaming(y) == [y EXCEPT !.mReqState = "Started", !.mState = "Streaming"]
        setStreamInfo(y) ==
            {y} \cup (IF getCpeProgHandle(y)
                        THEN {IF o.status = "Ok" THEN streaming(o.x) ELSE stopSource(o.x) :
                                 o \in startSource(y)}
                        ELSE {streaming(y)})
    IN  UNION {Gives(y, tsbs, "none") : y \in UNION {setStreamInfo(o.x) : o \in openSource(x)}}

onPSIReady(x, tsbs) ==
    LET y == [x EXCEPT !.timer = FALSE]
    IN  IF IsInMemoryStreaming(y) THEN StartTunerStreaming(y, tsbs)
        ELSE IF y.mState # "SourceReady" THEN Gives(y, tsbs, "none")
        ELSE UNION {CASE o.status = "Ok" -> Gives([o.x EXCEPT !.mTsbState = "Created"],
                                                  o.tsbs, "none")
                      [] o.status = "NotSupported" -> Gives(o.x, o.tsbs, "none")
                      [] OTHER -> Gives(o.x, o.tsbs, "signal") : o \in StartBuffer(y, tsbs)}

\* The buffer is filled.  When the first request has failed in the meantime,
\* the client is to ask again, which goes to SetCpeStreamingSessionID.
onTSBStart(x, tsbs) ==
    LET y == [x EXCEPT !.mTsbState = "Started"]
    IN  IF x.mReqState \in {"Auth", "Locked", "PsiTimeOut"} /\ x.mTsbState # "Started"
          THEN Gives([x EXCEPT !.mTsbState = "Created"], tsbs, "retry")
        ELSE IF x.mTsbState # "Created" \/ x.mState # "SourceReady"
          THEN Gives(x, tsbs, "none")
        ELSE UNION {CASE o.status = "Ok" ->
                           Gives([o.x EXCEPT !.mReqState = "Started", !.mState = "Streaming"],
                                 tsbs, "none")
                      [] o.status = "TimeOut" ->
                           Gives([o.x EXCEPT !.mReqState = "TimedOut", !.mTsbState = "Created"],
                                 tsbs, "retry")
                      [] OTHER -> Gives(o.x, tsbs, "signal") : o \in PlayRecording(y)}

onTimeOut(x, tsbs) ==
    IF x.live # "none" /\ x.mState = "SourceReady"
      THEN Gives([x EXCEPT !.mReqState = "PsiTimeOut"], tsbs, "failure")
      ELSE Gives(x, tsbs, "none")

onPSIUpdate(x, tsbs) ==
    IF x.mState = "Streaming"
      THEN UNION {Gives(o.x, tsbs, "retryLater") : o \in StopStreaming(x)}
      ELSE Gives(x, tsbs, "none")

onTuningUpdate(x, tsbs) ==
    Gives(x, tsbs, IF x.mState \in {"WaitSourceReady", "SourceReady"} \/ x.mTsbState = "Started"
                     THEN "retry" ELSE "none")

onTunerLost(x, tsbs) ==
    UNION {Gives(o.x, o.tsbs, "signal") : o \in tearDownClientSession(x, tsbs)}

onTunerRestored(x, tsbs) == Gives(queueTo(x, "Play"), tsbs, "signal")

onServiceAuthorized(x, tsbs) == Gives([x EXCEPT !.mReqState = "Auth"], tsbs, "signal")

\* Mutant: the state of the controller instead of that of the request.
onServiceLostState(x, tsbs, state) == Gives([x EXCEPT !.mState = state], tsbs, "signal")

\* Before the session has started the request has failed.
onServiceLost(x, tsbs, state) ==
    Gives([x EXCEPT !.mReqState = state], tsbs,
          IF x.mReqState = "Idle" THEN "failure" ELSE "signal")

streamerEvent(x, e, tsbs) ==
    CASE e = "Play" -> onPlay(x, tsbs)
      [] e = "RFCallback" -> onRFCallback(x, tsbs)
      [] e = "PSIReady" -> onPSIReady(x, tsbs)
      [] e = "TSBStart" -> onTSBStart(x, tsbs)
      [] e = "TimeOut" -> onTimeOut(x, tsbs)
      [] e = "PSIUpdate" -> onPSIUpdate(x, tsbs)
      [] e = "TuningUpdate" -> onTuningUpdate(x, tsbs)
      [] e = "TunerLost" -> onTunerLost(x, tsbs)
      [] e = "TunerRestored" -> onTunerRestored(x, tsbs)
      [] e = "Auth" -> onServiceAuthorized(x, tsbs)
      [] e = "DeAuth" -> onServiceLost(x, tsbs, "DeAuth")
      [] e = "TunerUnlocked" -> onServiceLost(x, tsbs, "Unlocked")

==============================================================================
