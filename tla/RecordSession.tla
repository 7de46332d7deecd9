---------------------------- MODULE RecordSession ----------------------------
(***************************************************************************)
(* MSPRecordSession (RecordSession.cpp): a time shift buffer that is being *)
(* filled, and the conversion of it to a recording.  A session is a        *)
(* record, the operators its methods; one that the platform or the tables  *)
(* can fail gives a set of outcomes.  Analog channels are left out, and    *)
(* what the metadata of a recording hold.                                  *)
(*                                                                         *)
(*   mState     eRecordSessionState                                        *)
(*   callbacks  the platform's callbacks are registered                    *)
(*   cam        the CAM session there is (mRecordSession)                  *)
(*   reported   the platform has told that the buffer is being filled      *)
(***************************************************************************)
EXTENDS TsbHandler

RecordStates == {"Idle", "Opened", "Configured", "Started", "ConversionStarted",
                 "Stopped", "Closed"}

RecordSession == [mState : RecordStates, callbacks : BOOLEAN, cam : BOOLEAN,
                  reported : BOOLEAN]

NewSession == [mState |-> "Idle", callbacks |-> FALSE, cam |-> FALSE,
               reported |-> FALSE]

NoSession == [NewSession EXCEPT !.mState = "Closed"]

Result(status, rec) == [status |-> status, rec |-> rec]

------------------------------------------------------------------------------
(* Opening and starting the buffer *)

createRecordSession(rec) == {Result("Ok", [rec EXCEPT !.cam = TRUE])} \cup
    (IF rec.cam THEN {} ELSE {Result("Error", rec)})

openTSB(rec) ==
    IF rec.mState \in {"Idle", "Closed"}
      THEN {Result("Ok", [rec EXCEPT !.mState = "Opened"]), Result("RecordError", rec)}
      ELSE {Result("StateError", rec)}

getAudioPid(rec) == {Result("Ok", rec)}

getClockPid(rec) == {Result("Ok", rec), Result("PsiError", rec)}

\* A channel of music has no video and is not recorded.  Of the section filter
\* for the CA pid stopCaFilter tells whether it could be opened.
getVideoPid(rec) ==
    {Result(status, rec) : status \in {"Ok", "NotSupported", "PsiError"}}

Then(results, Step(_)) ==
    UNION {IF r.status = "Ok" THEN Step(r.rec) ELSE {r} : r \in results}

\* A set of pids that the platform refuses leaves the session configured.
setTSB(rec) ==
    IF rec.mState = "Opened"
      THEN LET SetPids(r) == {Result(status, [r EXCEPT !.mState = "Configured"]) :
                                 status \in {"Ok", "RecordError"}}
           IN  Then(Then(Then(getAudioPid(rec), getClockPid), getVideoPid), SetPids)
      ELSE {Result("StateError", rec)}

\* That PAT and PMT could not be injected is not looked at.
register_callbacks(rec) ==
    {Result(status, [rec EXCEPT !.callbacks = TRUE]) : status \in {"Ok", "RecordError"}}

openSession(rec) ==
    Then(Then(Then(createRecordSession(rec), openTSB), setTSB), register_callbacks)

startTSB(rec) ==
    IF rec.mState = "Configured"
      THEN {Result("Ok", [rec EXCEPT !.mState = "Started"]), Result("RecordError", rec)}
      ELSE {Result("StateError", rec)}

startSession(rec) == {Result("RecordError", rec)} \cup startTSB(rec)

------------------------------------------------------------------------------
(* Stopping it *)

stopTSB(rec) ==
    IF rec.mState \in {"Started", "ConversionStarted"}
      THEN [rec EXCEPT !.mState = "Stopped"] ELSE rec

\* What is reported is the last error: of the callbacks, or of a CA filter
\* that is to be closed and was never opened.
stopCaFilter(rec) ==
    IF rec.cam /\ rec.mState \in {"Configured", "Started", "ConversionStarted", "Stopped"}
      THEN {Result("Ok", rec), Result("StateError", rec)} ELSE {Result("Ok", rec)}

stopSession(rec) ==
    {Result(r.status, [r.rec EXCEPT !.callbacks = FALSE, !.cam = FALSE]) :
        r \in stopCaFilter(stopTSB(rec))}

------------------------------------------------------------------------------
(* The conversion *)

\* The conversion waits five seconds for the CA metadata, that the CAM's
\* thread brings: they come in time or not.
startConvert(rec) ==
    IF rec.mState = "Started"
      THEN {Result("RecordError", rec),
            Result("Ok", [rec EXCEPT !.mState = "ConversionStarted"])}
      ELSE {Result("StateError", rec)}

stopConvert(rec) ==
    IF rec.mState = "ConversionStarted"
      THEN {Result("Ok", [rec EXCEPT !.mState = "Started"]),
            Result("RecordError", rec)}
      ELSE {Result("StateError", rec)}

==============================================================================
