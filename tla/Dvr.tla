---------------------------------- MODULE Dvr ---------------------------------
(***************************************************************************)
(* Dvr (dvr.cpp), the controller of a channel that is played, paused and   *)
(* recorded through a time shift buffer, and of recordings.  The Dvr is    *)
(* the record d; the operators give d after a method, or the set of what   *)
(* it may be.  The parties are those of a Zapper:                          *)
(*   - the player's calls and the event thread, each with the mutex;       *)
(*   - the source, Psi, the record session's platform callbacks and the    *)
(*     display, which post events, and the thread of the dwell timer;      *)
(*   - the MRDVR server's streamers, which take buffers from the same few. *)
(* The tuner source is reduced to what a Dvr sees of it (RFSource has the  *)
(* rest).  Analog channels, tuner priorities and signals that only report  *)
(* are left out.                                                           *)
(***************************************************************************)
EXTENDS RecordSession, Sequences, SequencesExt

CONSTANTS Services,         \* what is loaded: "live", a list of "files"
          MaxEvents,        \* bound: events on the queue
          MaxDisturbances   \* bound: changes of the channel, losses, faults

ASSUME ServicesAssumption == Services \subseteq {"live", "files"}
ASSUME BoundsAssumption == MaxEvents \in Nat /\ MaxDisturbances \in Nat

VARIABLES d,          \* the Dvr
          thread,     \* the event thread: none, running or exited
          inHand,     \* the event popped, the mutex not taken yet
          client,     \* what the client has done: it is ejecting until the
                      \* event thread has ended
          disturbed   \* disturbances so far

vars == <<d, thread, inHand, client, disturbed>>

Events == {"Exit", "Play", "RFCallback", "PlayBk", "PSIReady", "PSIUpdate", "SchedRec",
           "DwellExpired", "TSBStart", "RecordingAborted", "FirstFrame", "TuningUpdate",
           "PpvStop", "TunerLost", "TunerRestored", "NextFile", "SDVLoaded", "SDVUnavailable",
           "TimeOut"}

DvrStates == {"Idle", "WaitForTuner", "WaitTuningParams", "WaitSourceReady",
              "SourceReady", "Rendering", "Stop"}

\* live     none, loaded, loading (SDV), known, waiting (for a tuner), granted,
\*          started, locked
\* file     none, loaded, open, started
\* psi      none, new, starting, ready, failed (tables that do not come)
\* display  none, open (no frame yet), shown
\* dwell    the dwell timer's thread runs
\* interrupted  the recording goes on with another, whose first file is named
\* programme  what the client knows of it: none, asked for, shown, refused
\* wanted   the recording of the client: none, asked for, stopped by it,
\*          refused (it was told), or lost (a step failed, and it was not)
NewDvr == [mState |-> "Idle", mPersistentRecordState |-> "NotStarted",
           mTsbState |-> "NotCreated", mCurrentSourceType |-> "none",
           mPendingTrickPlay |-> FALSE, live |-> "none", file |-> "none",
           psi |-> "new", display |-> "none", rec |-> NoSession, hasRec |-> FALSE,
           mTsbNumber |-> NoTsb, mDestUrl |-> FALSE, dwell |-> FALSE,
           queue |-> <<>>, tsbs |-> AllAvailable,
           interrupted |-> FALSE, programme |-> "none", wanted |-> "none"]

Init ==
    /\ d = NewDvr
    /\ thread = "none"
    /\ inHand = "none"
    /\ client = "none"
    /\ disturbed = 0

refuse(x) == [x EXCEPT !.wanted = IF @ = "asked" THEN "refused" ELSE @]

lose(x) == [x EXCEPT !.wanted = IF @ = "asked" THEN "lost" ELSE @]

\* A signal of a problem: neither the programme nor its recording comes.
told(x) == refuse([x EXCEPT !.programme = IF @ = "none" THEN @ ELSE "refused"])

queueEvent(x, e) == [x EXCEPT !.queue = Append(@, e)]

Disturbance ==
    /\ disturbed < MaxDisturbances
    /\ disturbed' = disturbed + 1

Recording(x) == x.mPersistentRecordState # "NotStarted"

------------------------------------------------------------------------------
(* The display, the tables and the sources *)

CloseDisplaySession(x) == [x EXCEPT !.display = "none", !.mState = "SourceReady"]

SetDisplaySession(x) ==
    [(IF x.display # "none" THEN CloseDisplaySession(x) ELSE x) EXCEPT !.display = "open"]

StopDeletePSI(x) == [x EXCEPT !.psi = "none"]

psiStart(x) == IF x.psi = "none" THEN x ELSE [x EXCEPT !.psi = "starting"]

stopLive(x) ==
    [x EXCEPT !.live = IF @ \in {"known", "granted", "started", "locked"} THEN "loaded" ELSE @]

LiveOutcomes(live) ==
    CASE live = "loaded" -> {"Ok", "Loading", "WaitForTuner", "Error"}
      [] live = "loading" -> {"Loading"}
      [] live = "known" -> {"Ok", "WaitForTuner", "Error"}
      [] live = "waiting" -> {"WaitForTuner"}
      [] OTHER -> {"Ok", "Error"}

openFile(x) == [x EXCEPT !.file = "open"]

startFile(x) == [x EXCEPT !.file = "started"]

stopFile(x) == [x EXCEPT !.file = IF @ = "started" THEN "open" ELSE @]

deleteFile(x) == [x EXCEPT !.file = "none"]

joinDwellTimer(x) == [x EXCEPT !.dwell = FALSE]

------------------------------------------------------------------------------
(* The record session *)

StopRecordSessionKeepingTsb(x) ==
    LET releaseTsb(y) == [y EXCEPT !.tsbs = release_tsb(@, y.mTsbNumber)]
    IN  IF ~x.hasRec THEN {releaseTsb(x)}
        ELSE {IF r.status # "Ok" THEN [x EXCEPT !.rec = r.rec]
              ELSE releaseTsb([x EXCEPT !.rec = NoSession, !.hasRec = FALSE,
                                        !.mTsbState = "NotCreated"]) :
                 r \in stopSession(x.rec)}

\* A session that does not stop without an error is kept, and its buffer.
StopRecordSession(x) ==
    LET releaseTsb(y) == [y EXCEPT !.tsbs = release_tsb(@, y.mTsbNumber), !.mTsbNumber = NoTsb]
    IN  IF ~x.hasRec THEN {releaseTsb(x)}
        ELSE {IF r.status # "Ok" THEN [x EXCEPT !.rec = r.rec]
              ELSE releaseTsb([x EXCEPT !.rec = NoSession, !.hasRec = FALSE,
                                        !.mTsbState = "NotCreated"]) :
                 r \in stopSession(x.rec)}

Outcome(status, x) == [status |-> status, d |-> x]

\* A session that could not be opened or started is kept as well, and tried
\* again the next time.
StartTSBRecordSession(x) ==
    LET n == get_tsb(x.tsbs)
        new == [x EXCEPT !.mTsbNumber = n, !.tsbs = TakenBy("dvr", @, n),
                         !.rec = NewSession, !.hasRec = TRUE]
        opened(y) == IF y.live = "none" THEN {Outcome("Error", y)}
                     ELSE {Outcome(r.status, [y EXCEPT !.rec = r.rec]) :
                             r \in Then(openSession(y.rec), startSession)}
    IN  CASE x.hasRec -> opened(x)
          [] ~x.hasRec /\ n = NoTsb -> {Outcome("Error", x)}
          [] OTHER -> opened(new)

\* The points of the buffer that the client gives are taken as good.
StartPersistentRecording(x) ==
    IF x.hasRec
      THEN {Outcome(r.status, [x EXCEPT !.rec = r.rec]) : r \in startConvert(x.rec)}
      ELSE {Outcome("Error", x)}

\* A recording that was interrupted needs a buffer of its own.
NewTsb(x) ==
    LET start(y) == {IF o.status = "Ok"
                       THEN Outcome("Ok", [o.d EXCEPT !.mTsbState = "Created"])
                       ELSE o : o \in StartTSBRecordSession(y)}
    IN  CASE x.mTsbState = "NotCreated" -> start(x)
          [] x.mTsbState # "NotCreated" /\ ~x.interrupted -> {Outcome("Ok", x)}
          [] OTHER -> UNION {IF y.hasRec THEN {Outcome("Error", y)} ELSE start(y) :
                                y \in StopRecordSession(x)}

\* A channel without video goes on to wait for a buffer.
StartRecording(x) ==
    LET convert(y) == {IF o.status = "Ok"
                         THEN Outcome("Ok", [o.d EXCEPT !.mPersistentRecordState = "Started"])
                         ELSE Outcome("Error", [o.d EXCEPT !.mPersistentRecordState = "NotStarted"]) :
                            o \in StartPersistentRecording(y)}
        wait(y) == [y EXCEPT !.mPersistentRecordState = "WaitingTSB"]
    IN  UNION {CASE o.status \notin {"Ok", "NotSupported"} -> {Outcome("Error", o.d)}
                 [] o.status \in {"Ok", "NotSupported"} /\ o.d.mTsbState = "Started" -> convert(o.d)
                 [] OTHER -> {Outcome("Ok", IF o.status = "Ok" THEN wait(o.d) ELSE lose(wait(o.d)))} :
                  o \in {[p EXCEPT !.d.interrupted = FALSE] : p \in NewTsb(x)}}

\* For another frequency, or without a tuner: only the source stays.
tearDownToRetune(x) ==
    LET closed == CloseDisplaySession(stopFile(x))
        converted == IF closed.hasRec /\ closed.mPersistentRecordState = "Started"
                       THEN {[closed EXCEPT !.rec = r.rec, !.mPersistentRecordState = "NotStarted"] : r \in stopConvert(closed.rec)}
                       ELSE {closed}
        stopped == UNION {IF y.hasRec THEN StopRecordSession(y) ELSE {y} : y \in converted}
    IN  {joinDwellTimer(stopLive(StopDeletePSI(y))) : y \in stopped}

------------------------------------------------------------------------------
(* Calls of the player *)

\* A live source there was is deleted, a file source overwritten.  The client
\* loads no other service while it wants the recording of one.
Load(service) ==
    /\ client # "ejecting" /\ d.wanted # "asked"
    /\ d.mState \in {"Idle", "Stop", "WaitForTuner"}
    /\ IF client = "none" THEN UNCHANGED disturbed ELSE Disturbance
    /\ d' = [d EXCEPT !.live = IF service = "live" THEN "loaded" ELSE "none",
                      !.file = IF service = "files" THEN "loaded" ELSE @,
                      !.mCurrentSourceType = IF service = "live" THEN "live" ELSE "file",
                      !.mState = IF thread = "none" THEN "Stop" ELSE @,
                      !.programme = "none"]
    /\ thread' = IF thread = "none" THEN "running" ELSE thread
    /\ client' = "loaded"
    /\ UNCHANGED inHand

\* A session that is recorded is tuned already.
Play ==
    /\ client \notin {"none", "ejecting"}
    /\ Len(d.queue) < MaxEvents
    /\ IF client = "loaded" THEN UNCHANGED disturbed ELSE Disturbance
    /\ LET x == [d EXCEPT !.mDestUrl = TRUE, !.programme = "asked"]
       IN  d' = IF ~Recording(x) THEN queueEvent(x, "Play")
                ELSE IF x.live # "none" /\ x.psi # "none"
                  THEN psiStart([x EXCEPT !.mState = "SourceReady", !.mCurrentSourceType = "live"])
                  ELSE told([x EXCEPT !.mState = "SourceReady"])
    /\ client' = "playing"
    /\ UNCHANGED <<thread, inHand>>

\* A recording in the background is tuned for; one of what is played waits
\* for its first frame.  The client wants one recording at a time.
PersistentRecord(interrupted) ==
    /\ client \notin {"none", "ejecting"}
    /\ Len(d.queue) < MaxEvents
    /\ d.live # "none"
    /\ d.wanted \in {"none", "stopped"}
    /\ ~Recording(d) /\ d.rec.mState # "ConversionStarted"
    /\ IF d.wanted = "none" /\ ~interrupted THEN UNCHANGED disturbed ELSE Disturbance
    /\ LET x == [d EXCEPT !.mPersistentRecordState = "WaitingPMT", !.interrupted = interrupted,
                          !.wanted = "asked"]
       IN  CASE ~x.mDestUrl -> d' = queueEvent(x, "Play")
             [] x.mDestUrl /\ x.mState # "Rendering" -> d' = x
             [] OTHER -> d' \in {IF o.status = "Ok" THEN o.d ELSE refuse(o.d) : o \in StartRecording(x)}
    /\ UNCHANGED <<thread, inHand, client>>

\* The recording is stopped; one that is not converting yet gives an error,
\* and the rest is left as it is.
StopRecording(x) ==
    LET y == [x EXCEPT !.mPersistentRecordState = "NotStarted", !.wanted = "stopped"]
    IN  CASE y.hasRec -> {Outcome(r.status, [y EXCEPT !.rec = r.rec]) : r \in stopConvert(y.rec)}
          [] ~y.hasRec /\ ~y.mDestUrl -> {Outcome("Ok", z) : z \in StopRecordSession(y)}
          [] OTHER -> {Outcome("Ok", y)}

\* Mutant: the recording is not thought of.
StopPlayingAll(x) ==
    LET dark == [deleteFile(CloseDisplaySession(stopFile(x)))
                    EXCEPT !.mPendingTrickPlay = FALSE, !.mDestUrl = FALSE, !.programme = "none"]
    IN  {[joinDwellTimer(y) EXCEPT !.queue = <<>>] :
            y \in StopRecordSession(StopDeletePSI([dark EXCEPT !.mState = "Stop"]))}

\* While it is recorded only the display goes.
StopPlaying(x) ==
    LET dark == [deleteFile(CloseDisplaySession(stopFile(x)))
                    EXCEPT !.mPendingTrickPlay = FALSE, !.mDestUrl = FALSE, !.programme = "none"]
    IN  IF Recording(x) THEN {dark}
        ELSE {[joinDwellTimer(y) EXCEPT !.queue = <<>>] :
                 y \in StopRecordSession(StopDeletePSI([dark EXCEPT !.mState = "Stop"]))}

Stop(stopPlay, stopPersistentRecord) ==
    /\ client \notin {"none", "ejecting"}
    /\ stopPlay \/ stopPersistentRecord
    /\ stopPersistentRecord => d.wanted \notin {"none", "stopped"}
    /\ \E o \in IF stopPersistentRecord THEN StopRecording(d) ELSE {Outcome("Ok", d)} :
         IF stopPlay /\ o.status = "Ok"
           THEN d' \in StopPlaying(o.d) /\ client' = "stopped"
           ELSE d' = o.d /\ UNCHANGED client
    /\ UNCHANGED <<thread, inHand, disturbed>>

\* The buffer takes the place of the channel on the display.
PlayTsb(x) ==
    LET opened == openFile(x)
        shown == psiStart([opened EXCEPT !.psi = IF @ = "none" THEN "new" ELSE @, !.display = "open"])
    IN  {[x EXCEPT !.file = "loaded"], opened, shown,
         [startFile(shown) EXCEPT !.mCurrentSourceType = "file"]}

\* Pause or rewind: of a channel, once there is a buffer.
TrickPlay(x) ==
    LET pending(y) == [y EXCEPT !.mPendingTrickPlay = TRUE]
    IN  CASE x.mTsbState = "Created" -> {pending(x)}
          [] x.mTsbState = "NotCreated" ->
               UNION {CASE o.status = "Ok" -> {pending([o.d EXCEPT !.mTsbState = "Created"])}
                        [] o.status = "NotSupported" -> PlayTsb(o.d)
                        [] OTHER -> {o.d} : o \in StartTSBRecordSession(x)}
          [] x.mTsbState = "Started" /\ x.hasRec -> PlayTsb(x)
          [] OTHER -> {x}

CanTrickPlay(x) ==
    /\ x.mState = "Rendering" \/ x.file # "none"
    /\ x.display # "none"
    /\ x.mCurrentSourceType = "live" /\ x.live # "none"

SetSpeed ==
    /\ client \notin {"none", "ejecting"}
    /\ CanTrickPlay(d)
    /\ Disturbance
    /\ d' \in TrickPlay(d)
    /\ UNCHANGED <<thread, inHand, client>>

\* Back to the channel (MEDIA_PLAYER_NPT_END).
SetPosition ==
    /\ client \notin {"none", "ejecting"}
    /\ d.live # "none" /\ d.display # "none" /\ d.psi # "none"
    /\ d.file # "none"
    /\ d' = psiStart([deleteFile(CloseDisplaySession(d)) EXCEPT !.mCurrentSourceType = "live"])
    /\ UNCHANGED <<thread, inHand, client, disturbed>>

\* To a point of the buffer.  A buffer that cannot be played is stopped, with
\* the recording that may be made of it.
SeekTsb(x) ==
    LET shown == [startFile(psiStart(x)) EXCEPT !.display = "open", !.mCurrentSourceType = "file"]
        cut == IF Recording(x) THEN lose(x) ELSE x
    IN  CASE ~x.hasRec -> {x}
          [] x.hasRec /\ x.psi = "none" -> {[x EXCEPT !.file = "loaded"]}
          [] OTHER -> {shown} \cup StopRecordSession(cut)

Seek ==
    /\ client \notin {"none", "ejecting"}
    /\ d.file = "none" /\ d.display # "none" /\ d.live # "none"
    /\ Disturbance
    /\ d' \in IF d.mTsbState # "NotCreated" THEN SeekTsb(d)
              ELSE UNION {CASE o.status = "Ok" -> SeekTsb([o.d EXCEPT !.mTsbState = "Created"])
                            [] o.status = "NotSupported" -> SeekTsb(o.d)
                            [] OTHER -> {o.d} : o \in StartTSBRecordSession(d)}
    /\ UNCHANGED <<thread, inHand, client>>

\* The dwell timer is joined first; then the thread is told to exit.
Eject ==
    /\ client \notin {"none", "ejecting"}
    /\ client' = "ejecting"
    /\ d' = queueEvent(joinDwellTimer(d), "Exit")
    /\ UNCHANGED <<thread, inHand, disturbed>>

\* The rest of Eject, and the destructor: the session is closed whatever
\* its stop gives.
deleteDvr ==
    /\ client = "ejecting"
    /\ thread = "exited"
    /\ d' = [NewDvr EXCEPT !.tsbs = release_tsb(d.tsbs, d.mTsbNumber)]
    /\ thread' = "none"
    /\ client' = "none"
    /\ UNCHANGED <<inHand, disturbed>>

------------------------------------------------------------------------------
(* The event thread *)

\* Mutant: the thread goes on after Exit.
popEventQueueAlways ==
    /\ inHand = "none"
    /\ d.queue # <<>>
    /\ inHand' = Head(d.queue)
    /\ d' = [d EXCEPT !.queue = Tail(@)]
    /\ UNCHANGED <<thread, client, disturbed>>

popEventQueue ==
    /\ thread = "running"
    /\ inHand = "none"
    /\ d.queue # <<>>
    /\ inHand' = Head(d.queue)
    /\ d' = [d EXCEPT !.queue = Tail(@)]
    /\ UNCHANGED <<thread, client, disturbed>>

\* The event in hand is handled: it is one of the given ones.
Handling(events) ==
    /\ inHand \in events
    /\ inHand' = "none"
    /\ UNCHANGED <<client, disturbed>>

Handle(events, outcomes) ==
    /\ Handling(events)
    /\ d' \in outcomes
    /\ UNCHANGED thread

HandleExit ==
    /\ Handling({"Exit"})
    /\ thread' = "exited"
    /\ UNCHANGED d

\* Only for a channel of the SDV the client is told.
HandleTimeOut == Handle({"TimeOut"}, {d, IF d.live = "none" THEN d ELSE told(d)})

\* A tuner that does not start is waited for all the same.
PlayLive(x, status) ==
    CASE status = "Loading" -> {[x EXCEPT !.mState = "WaitTuningParams", !.live = "loading"]}
      [] status = "WaitForTuner" -> {[x EXCEPT !.mState = "WaitForTuner", !.live = "waiting"]}
      [] status = "Error" -> {told(x)}
      [] OTHER -> {[x EXCEPT !.mState = "WaitSourceReady", !.live = "started"],
                   told([x EXCEPT !.mState = "WaitSourceReady"])}

PlayFile(x) == {told(x), queueEvent(openFile(x), "PlayBk")}

HandlePlay ==
    Handle({"Play"},
        CASE d.mCurrentSourceType = "live" /\ d.live # "none" ->
               UNION {PlayLive(d, status) : status \in LiveOutcomes(d.live)}
          [] d.mCurrentSourceType = "file" /\ d.file # "none" -> PlayFile(d)
          [] OTHER -> {d})

startPsi(x) == psiStart([x EXCEPT !.psi = IF @ = "none" THEN "new" ELSE @, !.mState = "SourceReady"])

HandleRFCallback ==
    Handle({"RFCallback"},
        {IF d.mState # "WaitSourceReady" THEN d
         ELSE IF d.mCurrentSourceType = "live" /\ d.live # "none" THEN startPsi(d)
         ELSE [startPsi(d) EXCEPT !.psi = IF d.psi = "none" THEN "new" ELSE d.psi]})

HandlePlayBk == Handle({"PlayBk"}, {startPsi(d)})

HandlePSIReady ==
    LET shown == SetDisplaySession(d)
    IN  Handle({"PSIReady"},
            CASE d.mState # "SourceReady" -> {d}
              [] d.mState = "SourceReady" /\ d.mCurrentSourceType = "file" ->
                   {startFile(shown), told(shown)}
              [] OTHER -> {shown})

\* The recording that is played has another file.
HandleNextFile ==
    LET isFile == d.mCurrentSourceType = "file" /\ d.file # "none"
        dark == IF d.display = "none" THEN d ELSE CloseDisplaySession(d)
        stopped == StopDeletePSI(dark)
    IN  Handle({"NextFile"},
            {IF isFile THEN queueEvent([stopFile(stopped) EXCEPT !.mState = "Stop"], "Play")
             ELSE stopped})

HandleSchedRec ==
    Handle({"SchedRec"}, {IF o.status = "Ok" THEN o.d ELSE told(o.d) : o \in StartRecording(d)})

HandleDwellExpired ==
    Handle({"DwellExpired"},
        IF d.psi # "none" /\ d.live # "none" /\ d.mState = "Rendering" /\ d.mTsbState = "NotCreated"
          THEN {IF o.status = "Ok" THEN [o.d EXCEPT !.mTsbState = "Created"] ELSE o.d :
                   o \in StartTSBRecordSession(d)}
          ELSE {d})

\* Mutant: only trick play waits for the buffer.
TSBStartTrickPlay(x) ==
    LET started == [x EXCEPT !.mTsbState = "Started"]
    IN  CASE x.mState = "Stop" -> {Outcome("Ok", x)}
          [] x.mState # "Stop" /\ x.mPendingTrickPlay /\ CanTrickPlay(started) ->
               {Outcome("Ok", [y EXCEPT !.mPendingTrickPlay = FALSE]) : y \in TrickPlay(started)}
          [] OTHER -> {Outcome("Ok", started)}

\* The buffer is being filled: what waits for it goes on.  A conversion that
\* fails is given as the result, that for the thread means to exit.
TSBStart(x) ==
    LET started == [x EXCEPT !.mTsbState = "Started"]
        trickPlay(y) == IF y.mPendingTrickPlay
                          THEN {[z EXCEPT !.mPendingTrickPlay = FALSE] :
                                   z \in IF CanTrickPlay(y) THEN TrickPlay(y) ELSE {y}}
                          ELSE {y}
        converted(o) ==
            IF o.status = "Ok"
              THEN {Outcome("Ok", y) :
                      y \in trickPlay([o.d EXCEPT !.mPersistentRecordState = "Started"])}
              ELSE {Outcome("Exit", lose([o.d EXCEPT !.mPersistentRecordState = "NotStarted"]))}
    IN  CASE x.mState = "Stop" -> {Outcome("Ok", x)}
          [] x.mState # "Stop" /\ x.mPersistentRecordState = "WaitingTSB" ->
               UNION {converted(o) : o \in StartPersistentRecording(started)}
          [] OTHER -> {Outcome("Ok", y) : y \in trickPlay(started)}

HandleTSBStart ==
    /\ Handling({"TSBStart"})
    /\ \E o \in TSBStart(d) :
         /\ d' = o.d
         /\ thread' = IF o.status = "Exit" THEN "exited" ELSE thread

HandlePSIUpdate ==
    Handle({"PSIUpdate"},
        {IF d.mState # "Rendering" THEN d
         ELSE [SetDisplaySession(CloseDisplaySession(d)) EXCEPT !.mCurrentSourceType = "live",
                                                               !.mState = "SourceReady"]})

\* Mutant: it is not played again.
RetunedOnly(x) == {[y EXCEPT !.mState = "Stop", !.mCurrentSourceType = "live"] :
                      y \in tearDownToRetune(x)}

\* To be played again on another frequency.
\* The recording that was going on is not taken up again.
Retuned(x) ==
    LET y(z) == IF x.mPersistentRecordState = "Started" THEN lose(z) ELSE z
    IN  {queueEvent([y(z) EXCEPT !.mState = "Stop", !.mCurrentSourceType = "live"], "Play") :
            z \in tearDownToRetune(x)}

HandleTuningUpdate ==
    Handle({"TuningUpdate"},
        IF d.mState \in {"Rendering", "WaitSourceReady", "SourceReady"} THEN Retuned(d) ELSE {d})

\* The end of a programme that is paid for.
HandlePpvStop ==
    Handle({"PpvStop"},
        {told([y EXCEPT !.mState = "Stop", !.mCurrentSourceType = "live"]) :
            y \in tearDownToRetune(d)})

HandleTunerLost ==
    Handle({"TunerLost"}, {told([y EXCEPT !.mState = "Stop"]) : y \in tearDownToRetune(d)})

HandleTunerRestored == Handle({"TunerRestored"}, {queueEvent(d, "Play")})

HandleSDV ==
    Handle({"SDVLoaded", "SDVUnavailable"},
        {CASE d.mState = "Stop" -> d
           [] d.mState # "Stop" /\ inHand = "SDVLoaded" -> queueEvent(d, "Play")
           [] OTHER -> told(d)})

StartDwellTimerForTsb(x) ==
    IF x.live # "none" /\ x.mTsbState = "NotCreated" /\ x.mCurrentSourceType = "live"
      THEN [x EXCEPT !.dwell = TRUE] ELSE x

\* What StartRecording gives is not looked at.
HandleFirstFrame ==
    LET rendering == [d EXCEPT !.mState = "Rendering",
                              !.programme = IF @ = "none" THEN @ ELSE "shown"]
    IN  Handle({"FirstFrame"},
            IF d.mPersistentRecordState = "WaitingPMT" /\ d.mTsbState = "NotCreated" /\ d.live # "none"
              THEN {IF o.status = "Ok" THEN o.d ELSE lose(o.d) : o \in StartRecording(rendering)}
              ELSE {StartDwellTimerForTsb(rendering)})

HandleRecordingAborted ==
    LET aborted == refuse([d EXCEPT !.mPersistentRecordState = "NotStarted"])
    IN  Handle({"RecordingAborted"},
            CASE d.mPersistentRecordState # "Started" -> {refuse(d)}
              [] d.mPersistentRecordState = "Started" /\ d.hasRec ->
                   {[aborted EXCEPT !.rec = r.rec] : r \in stopConvert(d.rec)}
              [] OTHER -> {aborted})

dispatchEvent ==
    \/ HandleExit
    \/ HandleTimeOut
    \/ HandlePlay
    \/ HandleRFCallback
    \/ HandlePlayBk
    \/ HandlePSIReady
    \/ HandleNextFile
    \/ HandleSchedRec
    \/ HandleDwellExpired
    \/ HandleTSBStart
    \/ HandlePSIUpdate
    \/ HandleTuningUpdate
    \/ HandlePpvStop
    \/ HandleTunerLost
    \/ HandleTunerRestored
    \/ HandleSDV
    \/ HandleFirstFrame
    \/ HandleRecordingAborted

------------------------------------------------------------------------------
(* What the other threads post *)

Post(e, x) ==
    /\ client # "none"
    /\ Len(d.queue) < MaxEvents
    /\ d' = queueEvent(x, e)
    /\ UNCHANGED <<thread, inHand, client>>

TunerLocks ==
    /\ d.live = "started"
    /\ Post("RFCallback", [d EXCEPT !.live = "locked"])
    /\ UNCHANGED disturbed

TunerGranted ==
    /\ d.live = "waiting"
    /\ Post("TunerRestored", [d EXCEPT !.live = "granted"])
    /\ UNCHANGED disturbed

SDVAnswers ==
    /\ d.live = "loading"
    /\ \/ Post("SDVLoaded", [d EXCEPT !.live = "known"])
       \/ Post("SDVUnavailable", [d EXCEPT !.live = "loaded"])
    /\ UNCHANGED disturbed

ChannelChanges ==
    /\ d.live \in {"started", "locked"}
    /\ Disturbance
    /\ \/ Post("TunerLost", [d EXCEPT !.live = "waiting"])
       \/ Post("TuningUpdate", d)
       \/ Post("PpvStop", d)

psiCallback ==
    /\ d.psi = "starting"
    /\ \/ Post(IF d.mDestUrl THEN "PSIReady" ELSE "SchedRec", [d EXCEPT !.psi = "ready"])
          /\ UNCHANGED disturbed
       \/ Post("TimeOut", [d EXCEPT !.psi = "failed"])
          /\ Disturbance

psiCallbackUpdate ==
    /\ d.psi = "ready"
    /\ Disturbance
    /\ Post("PSIUpdate", d)

mediaCB ==
    /\ d.display = "open"
    /\ Post("FirstFrame", [d EXCEPT !.display = "shown"])
    /\ UNCHANGED disturbed

FileEnds ==
    /\ d.file = "started"
    /\ Disturbance
    /\ Post("NextFile", d)

\* The thread looks at the state without the mutex.
dwellTimerFun ==
    /\ d.dwell
    /\ \/ /\ d.mState = "Rendering"
          /\ Post("DwellExpired", [d EXCEPT !.dwell = FALSE])
       \/ /\ d.mState # "Rendering"
          /\ d' = [d EXCEPT !.dwell = FALSE]
          /\ UNCHANGED <<thread, inHand, client>>
    /\ UNCHANGED disturbed

recordSessionCallback ==
    /\ d.rec.callbacks
    /\ \/ /\ d.rec.mState = "Started" /\ ~d.rec.reported
          /\ Post("TSBStart", [d EXCEPT !.rec.reported = TRUE])
          /\ UNCHANGED disturbed
       \/ /\ d.rec.mState = "ConversionStarted"
          /\ Disturbance
          /\ Post("RecordingAborted", d)

\* A box that watches takes a buffer, and gives it back.
StreamerTakesTsb ==
    /\ Disturbance
    /\ get_tsb(d.tsbs) # NoTsb
    /\ d' = [d EXCEPT !.tsbs = TakenBy("streamer", @, get_tsb(@))]
    /\ UNCHANGED <<thread, inHand, client>>

StreamerReleasesTsb ==
    /\ \E n \in Tsbs : d.tsbs[n] = "streamer" /\ d' = [d EXCEPT !.tsbs = release_tsb(@, n)]
    /\ UNCHANGED <<thread, inHand, client, disturbed>>

Environment ==
    \/ TunerLocks \/ TunerGranted \/ SDVAnswers \/ ChannelChanges
    \/ psiCallback \/ psiCallbackUpdate \/ mediaCB \/ FileEnds
    \/ dwellTimerFun \/ recordSessionCallback
    \/ StreamerTakesTsb \/ StreamerReleasesTsb

EventThread == popEventQueue \/ dispatchEvent

Next ==
    \/ \E service \in Services : Load(service)
    \/ \E interrupted \in BOOLEAN : PersistentRecord(interrupted)
    \/ \E stopPlay, stopPersistentRecord \in BOOLEAN : Stop(stopPlay, stopPersistentRecord)
    \/ Play \/ SetSpeed \/ SetPosition \/ Seek \/ Eject \/ deleteDvr
    \/ EventThread
    \/ Environment

\* The event thread goes on; tuner, SDV, tables, buffer and display answer.
Fairness ==
    /\ WF_vars(EventThread)
    /\ WF_vars(deleteDvr)
    /\ WF_vars(TunerLocks)
    /\ WF_vars(TunerGranted)
    /\ WF_vars(SDVAnswers)
    /\ WF_vars(psiCallback)
    /\ WF_vars(mediaCB)
    /\ WF_vars(recordSessionCallback)
    /\ WF_vars(dwellTimerFun)

Spec == Init /\ [][Next]_vars /\ Fairness

------------------------------------------------------------------------------
(* Properties *)

\* The values of the variables.
TypeOK ==
    /\ d.mState \in DvrStates
    /\ d.mPersistentRecordState \in {"NotStarted", "WaitingPMT", "WaitingTSB", "Started"}
    /\ d.mTsbState \in {"NotCreated", "Created", "Started"}
    /\ d.rec \in RecordSession
    /\ d.mTsbNumber \in Tsbs \cup {NoTsb}
    /\ d.tsbs \in [Tsbs -> Users]
    /\ Range(d.queue) \subseteq Events
    /\ inHand \in Events \cup {"none"}
    /\ inHand # "none" => thread = "running"
    /\ thread \in {"none", "running", "exited"}
    /\ client \in {"none", "loaded", "playing", "stopped", "ejecting"}

\* The Dvr has exactly the buffer that is marked as its own: none is lost,
\* whatever fails between taking and giving back, and a streamer's is not
\* given away.
TsbIsOurs ==
    {n \in Tsbs : d.tsbs[n] = "dvr"} = {d.mTsbNumber} \ {NoTsb}

\* A recording that goes on is not cut by anything the Dvr does for the
\* programme (another channel, the buffer, a loss, an abort) unless the client
\* stopped it or was told; that a retune and a seek that fails end it silently
\* is known (lost).
RecordingIsNotCut ==
    [][d.wanted = "asked" /\ d'.wanted = "asked" /\ d.rec.mState = "ConversionStarted"
         => d'.rec.mState = "ConversionStarted"]_vars

\* What the code leaves without an answer: no thread, tables that do not come
\* for a channel that is not the SDV's, a file whose source Stop has deleted,
\* a record session that failed and is kept.
SilentFailure ==
    \/ thread # "running"
    \/ d.psi = "failed"
    \/ d.mCurrentSourceType = "file" /\ d.file = "none"
    \/ d.hasRec /\ d.rec.mState \notin {"Started", "ConversionStarted"}

\* A programme comes to the screen, or the client is told that it does not,
\* or stops it: through tuners lost and given again, new tables, recordings
\* and the buffer taking the place of the channel.
PlayIsAnswered == (d.programme = "asked") ~> (d.programme # "asked" \/ SilentFailure)

\* Stop of the programme while its recording has no buffer yet: what
\* comes next finds the state changed, and is dropped.  Load of another before
\* Play is handled: the recording waits for a frame nobody plays.  The first
\* frame after the tables changed, with a buffer there already.
\* The report that the buffer is being filled, ignored while stopped.
Forgotten ==
    \/ client = "stopped" /\ (d.mPersistentRecordState = "WaitingPMT" \/ ~d.hasRec)
    \/ client = "loaded" /\ d.mDestUrl /\ d.mPersistentRecordState = "WaitingPMT"
    \/ d.mTsbState # "NotCreated" /\ d.mPersistentRecordState = "WaitingPMT"
    \/ d.mTsbState = "Created" /\ d.rec.reported /\ "TSBStart" \notin Range(d.queue) \cup {inHand}

\* A recording that was asked for is being converted in the end, or the client
\* is told that it is not, or of a programme that does not come; unless a step
\* that failed was not looked at.
RecordingIsAnswered ==
    (d.wanted = "asked") ~>
        \/ d.rec.mState = "ConversionStarted"
        \/ d.wanted # "asked"
        \/ d.programme = "refused"
        \/ SilentFailure
        \/ Forgotten

\* What the client asks for, a programme or its recording, happens in the end
\* or is refused.
AskedIsAnswered == PlayIsAnswered /\ RecordingIsAnswered

==============================================================================
