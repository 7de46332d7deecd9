----------------------------- MODULE HnOnDemand ------------------------------
(***************************************************************************)
(* HnOnDemandStreamer: a film that the gateway streams to an IP client.    *)
(* It derives from OnDemand and takes its session, its stream control and  *)
(* its loop from it, but tunes the film itself, with a thread and a queue  *)
(* of its own, and hands it to the home network server                     *)
(* (MSPHnOnDemandStreamerSource).  The parties are                         *)
(*   - MRDvrServer, whose calls hold the streamer's and the film's mutex;  *)
(*   - the loop and the film's event thread, which take the film's;        *)
(*   - ResMon, the tuner and Psi, which queue events for the thread;       *)
(*   - the CAM, whose copy control bytes IMediaStreamer's event thread     *)
(*     gives to the film with the streamer's mutex only.                   *)
(* The session and stream controls are those of OnDemand: here each of     *)
(* their requests is answered, refused or times out once.  Speed and       *)
(* position, the SDV and analog branches are left out.                     *)
(* Bound: HnBudget, of what fails, is refused, lost or changed.            *)
(***************************************************************************)
EXTENDS RFSource, Sequences, FiniteSets

CONSTANTS hnForwardCount,   \* how often a failed set-up is tried again
          HnPmts,           \* what the PMT of a film may list
          HnBudget

ASSUME HnAssumption ==
    /\ hnForwardCount \in Nat /\ HnBudget \in Nat
    /\ HnPmts \subseteq [audio : SUBSET Nat, video : SUBSET Nat, music : BOOLEAN]
    /\ \A pmt \in HnPmts : IsFiniteSet(pmt.audio) /\ IsFiniteSet(pmt.video)

VARIABLES hn,       \* the film
          rf,       \* mPtrHnOnDemandRFSource
          hnq,      \* the film's events that are queued for the loop
          threadq,  \* mThreadEventQueue
          cam,      \* IMediaStreamer's queue of copy control bytes
          owed,     \* the answers that are due
          past,     \* for the properties: what became of the film
          hnSpent

hnVars == <<hn, rf, hnq, threadq, cam, owed, past, hnSpent>>

\* "restrictive" is DEFAULT_RESTRICTIVE_CCI.
CCIBytes == {"restrictive", "free"}

------------------------------------------------------------------------------
(* MSPHnOnDemandStreamerSource *)

\* psi: the PAT and the PMT are injected; pmt: its handle has the PMT; cci: the
\* byte it carries.
NoServer == [st |-> "none", pids |-> {}, psi |-> FALSE, pmt |-> FALSE, cci |-> "nothing"]
OpenServer == [NoServer EXCEPT !.st = "open"]

Pid(type, n) == [type |-> type, n |-> n]
AudioPids(pmt) == {Pid("audio", n) : n \in pmt.audio}
ClockPid(pmt) == {Pid("clock", 0)}
MusicPid(pmt) == IF pmt.music THEN {Pid("music", 0)} ELSE {}

\* The first of the list, if there is one.
VideoPids(pmt) == {Pid("video", n) : n \in {m \in pmt.video : \A k \in pmt.video : m <= k}}

\* The room of the table that is filled.
NumOfPids(pmt) == (IF pmt.music THEN 1 ELSE 0) + Cardinality(pmt.audio)
                  + Cardinality(pmt.video) + 1

InjectStreamInfo(s) == [s EXCEPT !.psi = TRUE]

SetStreamInfo(s, pmt) ==
    InjectStreamInfo([s EXCEPT !.pids = AudioPids(pmt) \cup ClockPid(pmt) \cup MusicPid(pmt)
                                        \cup VideoPids(pmt)])

\* Nobody looks at whether the handle took the PMT.
SetPatPMT(s) == {[s EXCEPT !.pmt = TRUE], s}

InjectByte(s, b) == [s EXCEPT !.cci = b]
StartServer(s) == [s EXCEPT !.st = "started"]
ReleaseServer(s) == IF s.st = "none" THEN s ELSE [s EXCEPT !.st = "open"]

\* Stopped, closed and deleted.
DeleteServer(s) == NoServer

------------------------------------------------------------------------------

NoPmt == [audio |-> {}, video |-> {}, music |-> FALSE]

\* state: onDemandState; zst: mOndemandZapperState; srv: mPtrHnOnDemandStreamerSource;
\* ca: mptrcaStream; cci: m_CCIbyte, and given what the thread has read of it;
\* holds: what the thread does with the mutex.
NewFilm == [state |-> "WaitForLoad", zst |-> "Idle", psi |-> "none", pmt |-> NoPmt,
            srv |-> NoServer, ca |-> FALSE, cci |-> "restrictive", given |-> "restrictive",
            thread |-> "none", active |-> FALSE, retries |-> 0,
            holds |-> "nothing", phase |-> "up"]

\* served, released: the session is up, its release was sent; upset: it was set up
\* once more when it was up; revived: streamed after Stop; raced: two bytes at once.
NewPast == [told |-> "nothing", unreported |-> FALSE, served |-> FALSE, released |-> FALSE,
            upset |-> FALSE, revived |-> FALSE, raced |-> FALSE, tunerLeft |-> FALSE,
            byte |-> "restrictive"]

HnInit ==
    /\ hn = NewFilm /\ rf = NoSource
    /\ hnq = <<>> /\ threadq = <<>> /\ cam = <<>>
    /\ owed = {} /\ past = NewPast /\ hnSpent = 0

HnCosts(n) == hnSpent' = hnSpent + n /\ hnSpent' <= HnBudget
HnCost(bad) == HnCosts(IF bad THEN 1 ELSE 0)

Unreported == [past EXCEPT !.unreported = TRUE]
HnTold(what) == [past EXCEPT !.told = what]

\* The film without its tables, its sources and the RF source, which is deleted.
\* The stream of the CAM and the state of the session stay.
TornDown == [hn EXCEPT !.psi = "none", !.srv = DeleteServer(@), !.zst = "Stop"]

\* Mutant: the RF source is left as it is.
HnTearDownButTuner(p) == hn' = TornDown /\ rf' = NoSource
                         /\ past' = [p EXCEPT !.tunerLeft = @ \/ rf.tuner # "none"]

HnTearDown(p) == hn' = TornDown /\ rf' = NoSource
                 /\ past' = [p EXCEPT !.tunerLeft = @ \/ delete(rf).tuner # "none"]

------------------------------------------------------------------------------
(* The server's calls *)

HnFree == hn.holds = "nothing" /\ hn.phase \in {"up", "stopped"}
HnCall == HnFree /\ hn.phase = "up"

\* IMediaStreamer gives the default byte first.
HnLoad ==
    /\ HnCall /\ hn.state = "WaitForLoad"
    /\ hn' = [hn EXCEPT !.state = "PreparingToView", !.active = TRUE]
    /\ UNCHANGED <<rf, hnq, threadq, cam, owed, past, hnSpent>>

HnPlay ==
    /\ HnCall /\ hn.state = "PreparingToView"
    /\ \/ /\ hn' = [hn EXCEPT !.state = "SessionPending"]
          /\ owed' = owed \cup {"setup"}
          /\ UNCHANGED <<past, hnSpent>>
       \/ /\ past' = HnTold("problem") /\ HnCost(TRUE)
          /\ UNCHANGED <<hn, owed>>
    /\ UNCHANGED <<rf, hnq, threadq, cam>>

\* The states from kOnDemandSessionServerReady on.
HnSessionIsUp == {"ServerReady", "ControlServerPending", "TunerPending", "Streaming",
                  "StopPending", "Stopped"}

\* The sources stay until Eject.
HnStop ==
    /\ HnCall /\ hn.active
    /\ hn' = [hn EXCEPT !.psi = "none", !.ca = FALSE, !.zst = "Stop", !.state = "StopPending",
                        !.phase = "stopped"]
    /\ threadq' = <<>>
    /\ IF hn.state \in HnSessionIsUp
       THEN owed' = (owed \ {"play"}) \cup {"release"} /\ past' = [past EXCEPT !.released = TRUE]
       ELSE owed' = owed \ {"play"} /\ UNCHANGED past
    /\ UNCHANGED <<rf, hnq, cam, hnSpent>>

\* The server cuts a session off: the home network server stops it, and the
\* film waits for its Stop.
HnStopStreaming ==
    /\ HnCall /\ hn.active /\ hn.zst # "Suspended"
    /\ hn' = [hn EXCEPT !.zst = "Suspended", !.srv = ReleaseServer(@)]
    /\ threadq' = <<>>
    /\ HnCost(TRUE)
    /\ UNCHANGED <<rf, hnq, cam, owed, past>>

\* With a thread it is told to exit; without one the loop is asked to stop.
HnEject ==
    /\ HnFree /\ hn.phase = "stopped"
    /\ hn' = [hn EXCEPT !.phase = "ejecting"]
    /\ IF hn.thread = "none"
       THEN hnq' = Append(hnq, "StopController") /\ UNCHANGED threadq
       ELSE threadq' = Append(threadq, "Exit") /\ UNCHANGED hnq
    /\ UNCHANGED <<rf, cam, owed, past, hnSpent>>

\* The thread is detached: pthread_join returns at once, or when it has ended.
\* Then the film is torn down and deleted, but stays in the loop's list.
HnEjected ==
    /\ hn.phase = "ejecting" /\ hn.holds = "nothing"
    /\ IF hn.thread = "none"
       THEN /\ ~hn.active
            /\ hn' = [hn EXCEPT !.phase = "gone"]
            /\ UNCHANGED <<rf, past>>
       ELSE /\ hn' = [TornDown EXCEPT !.phase = "gone"]
            /\ rf' = NoSource
            /\ past' = [past EXCEPT !.tunerLeft = @ \/ delete(rf).tuner # "none"]
    /\ UNCHANGED <<hnq, threadq, cam, owed, hnSpent>>

------------------------------------------------------------------------------
(* The loop handles an event *)

HnHandles(e) ==
    /\ hnq # <<>> /\ Head(hnq) = e /\ hnq' = Tail(hnq)
    /\ hn.active /\ hn.holds = "nothing" /\ hn.phase # "gone"

HnIgnores(e, states) ==
    /\ HnHandles(e) /\ hn.state \notin states
    /\ UNCHANGED <<hn, rf, threadq, cam, owed, past, hnSpent>>

NewRFSource == load([NewSource("digital") EXCEPT !.mTuneParamSet = TRUE])

\* Load of the tuning parameters refuses a film that is being tuned.
HnSetupRefused ==
    /\ HnHandles("SetupResp") /\ hn.state = "SessionPending"
    /\ hn.zst \notin {"Idle", "Stop"}
    /\ hn' = [hn EXCEPT !.state = "ServerReady"]
    /\ past' = [Unreported EXCEPT !.served = TRUE]
    /\ UNCHANGED <<rf, threadq, cam, owed, hnSpent>>

\* The thread is created once, and may not be; the stream server may not be
\* reached: that is only logged.
HnSetupResp ==
    /\ HnHandles("SetupResp") /\ hn.state = "SessionPending"
    /\ hn.zst \in {"Idle", "Stop"}
    /\ rf' = NewRFSource
    /\ \E goes \in BOOLEAN :
          LET p == [past EXCEPT !.served = TRUE, !.unreported = @ \/ ~goes,
                                !.tunerLeft = @ \/ delete(rf).tuner # "none"]
          IN  /\ past' = p /\ HnCost(~goes)
              /\ \/ /\ hn.thread = "none" /\ ~goes
                    /\ hn' = [hn EXCEPT !.state = "ServerReady"]
                    /\ UNCHANGED owed
                 \/ /\ hn' = [hn EXCEPT !.thread = IF @ = "none" THEN "runs" ELSE @,
                                        !.zst = "Stop", !.state = "ControlServerPending"]
                    /\ owed' = IF goes THEN owed \cup {"play"} ELSE owed
    /\ UNCHANGED <<threadq, cam>>

\* The client is told of the status the stream server gave; a film that is
\* not at rest is not tuned.
HnPlayResp ==
    /\ HnHandles("PlayResp")
    /\ \E refused \in BOOLEAN :
          LET p == IF refused THEN HnTold("problem") ELSE past
              plays == hn.zst \in {"Idle", "Stop"}
          IN  /\ HnCost(refused)
              /\ IF hn.state = "ControlServerPending"
                 THEN /\ hn' = [hn EXCEPT !.state = "TunerPending"]
                      /\ threadq' = IF plays THEN Append(threadq, "Play") ELSE threadq
                      /\ past' = [p EXCEPT !.unreported = @ \/ ~plays]
                 ELSE past' = p /\ UNCHANGED <<hn, threadq>>
    /\ UNCHANGED <<rf, cam, owed>>

\* At its end the film may be asked to stop, but it streams until Stop.
HnPlayEnds ==
    /\ HnHandles("PlayDone")
    /\ hn' \in {hn, [hn EXCEPT !.state = "StopPending"]}
    /\ past' = HnTold("end")
    /\ UNCHANGED <<rf, threadq, cam, owed, hnSpent>>

HnReleaseResp ==
    /\ HnHandles("ReleaseResp") /\ hn.state = "StopPending"
    /\ hn' = [hn EXCEPT !.state = "Stopped"]
    /\ UNCHANGED <<rf, threadq, cam, owed, past, hnSpent>>

\* The state is not looked at.  That the request cannot be sent is told when
\* the service group is not known, and only logged otherwise.
HnSessionError ==
    /\ HnHandles("SessionError")
    /\ LET again == [hn EXCEPT !.retries = @ + 1]
           p == [past EXCEPT !.upset = @ \/ hn.state # "SessionPending"]
       IN  \/ /\ hn.retries < hnForwardCount
              /\ hn' = [again EXCEPT !.state = "SessionPending"]
              /\ owed' = owed \cup {"setup"} /\ past' = p
              /\ UNCHANGED hnSpent
           \/ /\ hn.retries < hnForwardCount
              /\ hn' = again /\ HnCost(TRUE)
              /\ \/ past' = [p EXCEPT !.told = "problem"]
                 \/ past' = [p EXCEPT !.unreported = TRUE]
              /\ UNCHANGED owed
           \/ /\ hn.retries >= hnForwardCount
              /\ past' = [p EXCEPT !.told = "problem"]
              /\ UNCHANGED <<hn, owed, hnSpent>>
    /\ UNCHANGED <<rf, threadq, cam>>

HnStreamError ==
    /\ HnHandles("StreamError")
    /\ hn' = [hn EXCEPT !.state = "Stopped"]
    /\ past' = HnTold("problem")
    /\ UNCHANGED <<rf, threadq, cam, owed, hnSpent>>

HnStopController ==
    /\ HnHandles("StopController")
    /\ hn' = [hn EXCEPT !.active = FALSE]
    /\ owed' = {}
    /\ UNCHANGED <<rf, threadq, cam, past, hnSpent>>

HnLoop ==
    \/ HnIgnores("SetupResp", {"SessionPending"}) \/ HnIgnores("ReleaseResp", {"StopPending"})
    \/ HnSetupRefused \/ HnSetupResp \/ HnPlayResp \/ HnPlayEnds \/ HnReleaseResp
    \/ HnSessionError \/ HnStreamError \/ HnStopController

------------------------------------------------------------------------------
(* The film's thread handles an event; it outlives a film it is not joined to *)

HnTakes(e) ==
    /\ hn.thread = "runs" /\ hn.holds = "nothing"
    /\ threadq # <<>> /\ Head(threadq) = e

HnTaken == threadq' = Tail(threadq)
HnTakenAndPlay == threadq' = Append(Tail(threadq), "Play")

HnExit ==
    /\ HnTakes("Exit") /\ HnTaken
    /\ hn' = [hn EXCEPT !.thread = "ended"]
    /\ UNCHANGED <<rf, hnq, cam, owed, past, hnSpent>>

\* That the source does not start is not looked at.
HnTunes ==
    /\ HnTakes("Play") /\ HnTaken
    /\ IF rf = NoSource
       THEN UNCHANGED <<hn, rf, past, hnSpent>>
       ELSE \E o \in open(rf) :
              CASE o.status = "Ok" ->
                     \E s \in start(o.src) :
                        /\ rf' = s /\ HnCost(~s.mStarted)
                        /\ hn' = [hn EXCEPT !.zst = "WaitSourceReady"]
                        /\ past' = IF s.mStarted THEN past ELSE Unreported
                [] o.status = "WaitForTuner" ->
                     /\ rf' = o.src
                     /\ hn' = [hn EXCEPT !.zst = "WaitForTuner"]
                     /\ UNCHANGED <<past, hnSpent>>
                [] OTHER ->
                     /\ rf' = o.src /\ HnCost(TRUE)
                     /\ past' = HnTold("problem")
                     /\ UNCHANGED hn
    /\ UNCHANGED <<hnq, cam, owed>>

HnTunerLocked ==
    /\ HnTakes("TunerLocked") /\ HnTaken
    /\ hn' = IF rf # NoSource /\ hn.zst = "WaitSourceReady"
             THEN [hn EXCEPT !.zst = "TunerLocked", !.psi = "reading"] ELSE hn
    /\ UNCHANGED <<rf, hnq, cam, owed, past, hnSpent>>

CanStream == rf # NoSource /\ hn.zst = "TunerLocked"

HnNotYet ==
    /\ HnTakes("PSIReady") /\ HnTaken
    /\ ~CanStream
    /\ UNCHANGED <<hn, rf, hnq, cam, owed, past, hnSpent>>

\* StartVodInMemoryStreaming: the server's source is opened and given the PIDs
\* and the tables, and the CAM is asked to descramble.  What fails is logged.
HnPSIReady ==
    /\ HnTakes("PSIReady") /\ HnTaken
    /\ CanStream
    /\ \/ \E s \in SetPatPMT(SetStreamInfo(OpenServer, hn.pmt)) :
             /\ hn' = [hn EXCEPT !.srv = s, !.ca = TRUE, !.holds = "starting"]
             /\ past' = IF s.pmt THEN past ELSE Unreported
             /\ HnCost(~s.pmt)
       \/ /\ hn' = [hn EXCEPT !.srv = NoServer]
          /\ past' = Unreported /\ HnCost(TRUE)
    /\ UNCHANGED <<rf, hnq, cam, owed>>

\* The byte is read, and then given to the source.
HnReadsCCI ==
    /\ hn.holds = "starting"
    /\ hn' = [hn EXCEPT !.given = hn.cci, !.holds = "injecting"]
    /\ UNCHANGED <<rf, hnq, threadq, cam, owed, past, hnSpent>>

\* The state becomes Streaming whatever it was.
HnStarts ==
    /\ hn.holds = "injecting"
    /\ \/ /\ hn' = [hn EXCEPT !.srv = StartServer(InjectByte(@, hn.given)),
                              !.state = "Streaming", !.holds = "nothing"]
          /\ past' = [past EXCEPT !.revived = @ \/ hn.phase # "up"]
          /\ UNCHANGED hnSpent
       \/ /\ hn' = [hn EXCEPT !.srv = NoServer, !.ca = FALSE, !.holds = "nothing"]
          /\ past' = Unreported /\ HnCost(TRUE)
    /\ UNCHANGED <<rf, hnq, threadq, cam, owed>>

\* A new Psi, which is not started; Play finds no source.
HnPSIUpdate ==
    /\ HnTakes("PSIUpdate")
    /\ IF hn.zst = "TunerLocked"
       THEN HnTakenAndPlay /\ HnTearDown(Unreported)
       ELSE HnTaken /\ UNCHANGED <<hn, rf, past>>
    /\ UNCHANGED <<hnq, cam, owed, hnSpent>>

HnTunerLost ==
    /\ HnTakes("TunerLost") /\ HnTaken
    /\ HnTearDown(HnTold("lost"))
    /\ UNCHANGED <<hnq, cam, owed, hnSpent>>

\* Told whether or not the source is still there.
HnTunerRestored ==
    /\ HnTakes("TunerRestored") /\ HnTakenAndPlay
    /\ past' = [HnTold("restored") EXCEPT !.unreported = @ \/ rf = NoSource]
    /\ UNCHANGED <<hn, rf, hnq, cam, owed, hnSpent>>

\* Nothing is done when the tables do not come.
HnTimeOut ==
    /\ HnTakes("TimeOut") /\ HnTaken
    /\ UNCHANGED <<hn, rf, hnq, cam, owed, past, hnSpent>>

HnThread ==
    \/ HnExit \/ HnTunes \/ HnTunerLocked \/ HnNotYet \/ HnPSIReady \/ HnReadsCCI
    \/ HnStarts \/ HnPSIUpdate \/ HnTunerLost \/ HnTunerRestored \/ HnTimeOut

------------------------------------------------------------------------------
(* The others *)

\* The manager answers a set-up or refuses it, or it times out; the stream
\* server plays or fails, then or later; a release is answered.
HnManager ==
    /\ \/ /\ "setup" \in owed /\ owed' = owed \ {"setup"}
          /\ \/ hnq' = Append(hnq, "SetupResp") /\ UNCHANGED hnSpent
             \/ hnq' = Append(hnq, "SessionError") /\ HnCost(TRUE)
       \/ /\ "release" \in owed /\ owed' = owed \ {"release"}
          /\ hnq' = Append(hnq, "ReleaseResp") /\ UNCHANGED hnSpent
    /\ UNCHANGED <<hn, rf, threadq, cam, past>>

HnStreamServer ==
    /\ \/ "play" \in owed /\ hnq' = Append(hnq, "PlayResp") /\ UNCHANGED hnSpent
       \/ /\ "play" \in owed \/ hn.state \in {"TunerPending", "Streaming"}
          /\ hnq' = Append(hnq, "StreamError") /\ HnCost(TRUE)
       \/ hn.state = "Streaming" /\ hnq' = Append(hnq, "PlayDone") /\ HnCost(TRUE)
    /\ owed' = owed \ {"play"}
    /\ UNCHANGED <<hn, rf, threadq, cam, past>>

HnResMon ==
    /\ \/ CanGrant(rf) /\ rf' = grant(rf) /\ UNCHANGED hnSpent
       \/ CanGrant(rf) /\ rf' = deny(rf) /\ HnCost(TRUE)
       \/ CanRevoke(rf) /\ rf' = revoke(rf) /\ HnCost(TRUE)
       \/ CanTellToRetry(rf) /\ rf' = tellToRetry(rf) /\ UNCHANGED hnSpent
    /\ UNCHANGED <<hn, hnq, threadq, cam, owed, past>>

\* hnOnDemandRFSourceCB.
HnSourceCB ==
    /\ \/ /\ rf.answer # "none" /\ rf' = resourceManagerCallback(rf)
          /\ threadq' = IF ~CallbackSet(rf) THEN threadq
                        ELSE Append(threadq, IF rf.answer = "Revoked" THEN "TunerLost"
                                             ELSE "TunerRestored")
       \/ /\ rf.mStarted /\ ~rf.locked /\ rf' = [rf EXCEPT !.locked = TRUE]
          /\ threadq' = Append(threadq, "TunerLocked")
    /\ UNCHANGED <<hn, hnq, cam, owed, past, hnSpent>>

\* The tables come, or do not; they change, or a change is refused and told
\* as if they had come.
HnPsiCallback ==
    /\ \/ /\ hn.psi = "reading"
          /\ \E pmt \in HnPmts : hn' = [hn EXCEPT !.psi = "read", !.pmt = pmt]
          /\ threadq' = Append(threadq, "PSIReady")
          /\ UNCHANGED <<past, hnSpent>>
       \/ /\ hn.psi = "reading"
          /\ hn' = [hn EXCEPT !.psi = "failed"]
          /\ threadq' = Append(threadq, "TimeOut")
          /\ past' = Unreported /\ HnCost(TRUE)
       \/ /\ hn.psi = "read" /\ HnCost(TRUE)
          /\ \E e \in {"PSIUpdate", "PSIReady"} : threadq' = Append(threadq, e)
          /\ UNCHANGED <<hn, past>>
    /\ UNCHANGED <<rf, hnq, cam, owed>>

\* StreamerCCIUpdated only queues the byte.
HnCam ==
    /\ hn.ca /\ HnCost(TRUE)
    /\ \E b \in CCIBytes : cam' = Append(cam, b) /\ past' = [past EXCEPT !.byte = b]
    /\ UNCHANGED <<hn, rf, hnq, threadq, owed>>

\* ProcessStreamerCCIUpdated: no byte for a session that is gone.
KeptCCI(f, b) == [f EXCEPT !.cci = b]      \* Mutant: not passed on.
InjectCCI(f, b) ==
    [f EXCEPT !.cci = b, !.srv = IF @.st = "none" THEN @ ELSE InjectByte(@, b)]

HnCCIUpdated ==
    /\ cam # <<>> /\ hn.phase # "ejecting"
    /\ cam' = Tail(cam)
    /\ hn' = IF hn.phase = "gone" THEN hn ELSE InjectCCI(hn, Head(cam))
    /\ past' = [past EXCEPT !.raced = @ \/ hn.holds = "injecting"]
    /\ UNCHANGED <<rf, hnq, threadq, owed, hnSpent>>

HnNext ==
    \/ HnLoad \/ HnPlay \/ HnStop \/ HnStopStreaming \/ HnEject \/ HnEjected
    \/ HnLoop \/ HnThread
    \/ HnManager \/ HnStreamServer \/ HnResMon \/ HnSourceCB \/ HnPsiCallback
    \/ HnCam \/ HnCCIUpdated

HnSpec == HnInit /\ [][HnNext]_hnVars

------------------------------------------------------------------------------
(* Properties *)

\* A film that streams carries the copy control byte the CAM gave last, when
\* IMediaStreamer has handled it: it came before the stream, while it was
\* started or later.  Only a byte handled while the film's thread injects an
\* older one may lose, as InjectCCI takes no mutex of the film
\* (IMediaStreamer.cpp:1049, HnOnDemandStreamer.cpp:1352).
FilmIsProtected ==
    hn.srv.st = "started" /\ cam = <<>> /\ hn.phase # "gone" /\ ~past.raced =>
        hn.srv.cci = past.byte

\* A film that is gone has left nothing behind: no tuner, nor a request for
\* one, at ResMon, no stream at the home network server or the CAM, and its
\* session is released, after a stream error too (HnOnDemandStreamer.cpp:423).
\* A tuner that comes after Stop starts the stream again, and a session error
\* that is handled late sets the session up again.
FilmLeavesNothing ==
    hn.phase = "gone" =>
        /\ ~past.tunerLeft /\ hn.srv = NoServer
        /\ hn.ca => past.revived
        /\ past.served => past.released \/ past.upset

\* When nothing is on its way, a film that was played streams whole, or its
\* client was told of a problem, its end or the loss of the tuner, has stopped it or
\* cut it off; or something failed of which the code only logs: the thread,
\* the stream server, the source, the tables or the stream did not start, the
\* tables changed, or the tuner came back when its loss had deleted the source
\* (HnOnDemandStreamer.cpp:796, 818).
HnAtRest ==
    /\ hnq = <<>> /\ threadq = <<>> /\ owed = {}
    /\ hn.holds = "nothing" /\ hn.psi # "reading"
    /\ rf.answer = "none" /\ ~CanGrant(rf) /\ ~CanTellToRetry(rf)
    /\ rf.mStarted => rf.locked

StreamsWhole ==
    /\ hn.state = "Streaming" /\ hn.zst = "TunerLocked" /\ hn.psi = "read"
    /\ hn.srv.st = "started" /\ hn.srv.psi /\ hn.srv.pmt /\ hn.ca
    /\ Cardinality(hn.srv.pids) <= NumOfPids(hn.pmt)
    /\ AudioPids(hn.pmt) \cup ClockPid(hn.pmt) \subseteq hn.srv.pids
    /\ \E pid \in hn.srv.pids : pid.type \in {"video", "music"} \/ hn.pmt.video = {}
    /\ rf.mStarted /\ rf.tuner = "held"

FilmIsAnswered ==
    HnAtRest /\ hn.phase = "up" /\ hn.zst # "Suspended"
             /\ hn.state \notin {"WaitForLoad", "PreparingToView"} =>
        StreamsWhole \/ past.told \in {"problem", "lost", "end"} \/ past.unreported

==============================================================================
