------------------------------- MODULE IpZapper -------------------------------
(***************************************************************************)
(* The controllers of an IP client: Zapper (zapper_ic.cpp) and Mrdvr       *)
(* (mrdvr_ic.cpp), which derives from it and plays the gateway's           *)
(* recordings, with the source they play (MSPHTTPSource_ic.cpp,            *)
(* MSPPPVSource_ic.cpp).  The parties are                                  *)
(*   - the client, whose calls hold the controller's mutex;                *)
(*   - the controller's event thread, which takes it for each event;       *)
(*   - the stream player (CGMI) with a thread of its own for its           *)
(*     callbacks, which only queue events, as do                           *)
(*   - the gateway's notifications, the PPV manager and the nightly retry  *)
(*     (MediaRTT_ic.cpp); and                                              *)
(*   - the media player's thread that cuts the sound for an alert.         *)
(* One controller, whose session is in focus; SDV, application data,       *)
(* captions and copy control are left out.                                 *)
(***************************************************************************)
EXTENDS Naturals, Sequences

CONSTANTS MaxIpCalls,      \* bound: calls of the client
          MaxIpEvents      \* bound: what happens to a stream by itself

ASSUME IpAssumption == MaxIpCalls \in Nat /\ MaxIpEvents \in Nat

VARIABLES ip,        \* the controller, and what its client was told
          http,      \* its source
          cg,        \* the stream player's session (mpSessionId), and its state
          ipq,       \* threadEventQueue
          alert,     \* where the media player's thread is with an alert's sound
          ipBudget   \* calls and events so far

ipVars == <<ip, http, cg, ipq, alert, ipBudget>>

IpKinds == {"live", "music", "ppv", "vod", "recording"}

PpvStates == {"Idle", "Loading", "StartVideo", "StopVideo", "InterstitialStart",
              "InterstitialStop", "PpvAuthorized", "Expired"}

FromSource == {"PSIReady", "FirstFrame", "BOF", "EOF", "Problem", "PendingSpeed", "PendingPosition"}

FromPpv == PpvStates \ {"Idle", "Loading"}

\* Speeds in hundredths; 0 is pause, and 50 stands for slow motion.
IpSpeeds == {0, 50, 400}
IpPositions == {1}

\* Zapper::Zapper and Mrdvr::Mrdvr; the last six are of the past.  mState goes on to
\* "Stop", "WaitTuningParams" and "Rendering"; mSessionState, as far as it is asked
\* for, to "Loading", "Started", "Revoked", "DeAuthorized" and "Authorized".
NewIp(isMrdvr) ==
    [isMrdvr |-> isMrdvr, mState |-> "Idle", mSessionState |-> "Idle", mIsVodPlay |-> FALSE,
     kind |-> "live", source |-> 0,    \* which source it is, 0: none
     num |-> 100, pos |-> 0,           \* mCurrentNumerator, mPosition
     open |-> FALSE,                   \* the gateway's session mVodSessionId is open
     sse |-> FALSE,                    \* RegisterMediaPlayerCallbackFunc
     rtt |-> FALSE,                    \* MediaRTTRegisterCallback
     rttCalls |-> FALSE,               \* its callback has seen that the stream plays
     busy |-> "no",                    \* a Load or an Eject half done
     retried |-> FALSE,                \* Retry has replaced the source
     played |-> FALSE, waits |-> FALSE,    \* Play was accepted, and not yet answered
     asked |-> FALSE, sought |-> FALSE,    \* a speed, a position was accepted
     left |-> FALSE]                   \* a session of the gateway's was left open

\* MSPHTTPSource::MSPHTTPSource.
NewHttpSource(kind) ==
    [kind |-> kind, num |-> 100, pendingPause |-> FALSE, pendingPlay |-> FALSE,
     pendingSetSpeed |-> FALSE, pendingSetPosition |-> FALSE, pmt |-> FALSE,
     hasAudioPid |-> FALSE, ppv |-> "Idle",
     dead |-> FALSE,      \* the stream failed, and the client was not told
     off |-> FALSE]       \* num is not the speed CGMI was asked for

\* What CGMI has still to report: its states, the tables, a first frame.
NoSession == [st |-> "none", rate |-> 100, pos |-> 0, due |-> <<>>, tables |-> {},
              frame |-> FALSE, pids |-> FALSE, sound |-> FALSE, relit |-> FALSE]

Created == [NoSession EXCEPT !.st = "created"]

Streaming(c) == [c EXCEPT !.st = "playing", !.rate = 100, !.due = <<100>>,
                          !.tables = {"PMT", "PSI"}, !.frame = FALSE, !.pids = FALSE,
                          !.sound = FALSE]

IpInit ==
    /\ ip \in {NewIp(isMrdvr) : isMrdvr \in BOOLEAN}
    /\ http = NewHttpSource("live") /\ cg = NoSession /\ ipq = <<>> /\ alert = "no"
    /\ ipBudget = [calls |-> 0, events |-> 0]

\* What happens by itself takes the place of two calls.
IpCall == /\ ip.busy = "no" /\ ipBudget.calls < MaxIpCalls
          /\ ipBudget' = [ipBudget EXCEPT !.calls = @ + 1]
IpHappens == /\ ipBudget.calls + 2 <= MaxIpCalls /\ ipBudget.events < MaxIpEvents
             /\ ipBudget' = [calls |-> ipBudget.calls + 2, events |-> ipBudget.events + 1]

Ev(e) == [e |-> e, n |-> ip.source]

\* mEasAudioActive.
EasAudioActive == alert \in {"starting", "on"}

\* What DoCallback tells, as far as it answers Play.
Told(i) == [i EXCEPT !.waits = FALSE]

------------------------------------------------------------------------------
(* Loading *)

\* Load, first: the present source is stopped, and what it told is forgotten.
KeptByLoad == ipq       \* Mutant: the queue is not flushed.
FlushedByLoad == <<>>

LoadStops(kind) ==
    /\ IpCall
    /\ ip.mState \in {"Idle", "Stop"} /\ ip.source # 0
    /\ ip' = [Told(ip) EXCEPT !.mIsVodPlay = (kind = "vod"), !.kind = kind, !.sse = FALSE,
                        !.busy = "load", !.left = @ \/ ip.open]
    /\ cg' = NoSession
    /\ ipq' = FlushedByLoad
    /\ UNCHANGED <<http, alert>>

\* loadSource and MSPHTTPSource::load.  A source for PPV has no session of CGMI's
\* before it is opened; a Mrdvr loads but once.
Loads(i, ok) == ok /\ (i.isMrdvr => i.mState = "Idle")
LoadedSession(i, ok) == IF Loads(i, ok) /\ i.kind # "ppv" THEN Created ELSE NoSession

WithSource(i, ok) ==
    LET new == [i EXCEPT !.source = @ + 1, !.sse = Loads(i, ok), !.asked = FALSE,
                         !.sought = FALSE]
    IN  IF Loads(i, ok) THEN [new EXCEPT !.mState = "Stop"] ELSE Told(new)

\* Then it is replaced.  What the PPV manager told meanwhile was not forgotten.
LoadReplaces ==
    /\ ip.busy = "load"
    /\ \E ok \in BOOLEAN : /\ ip' = [WithSource(ip, ok) EXCEPT !.retried = FALSE, !.busy = "no"]
                           /\ cg' = LoadedSession(ip, ok)
    /\ http' = NewHttpSource(ip.kind)
    /\ UNCHANGED <<ipq, alert, ipBudget>>

FirstLoad(kind) ==
    /\ IpCall
    /\ ip.mState \in {"Idle", "Stop"} /\ ip.source = 0
    /\ \E ok \in BOOLEAN :
          LET i == [ip EXCEPT !.mIsVodPlay = (kind = "vod"), !.kind = kind]
          IN  ip' = WithSource(i, ok) /\ cg' = LoadedSession(i, ok)
    /\ http' = NewHttpSource(kind)
    /\ UNCHANGED <<ipq, alert>>

IpLoad ==
    \E kind \in IpKinds :
        /\ kind = "recording" <=> ip.isMrdvr
        /\ LoadStops(kind) \/ FirstLoad(kind)

\* Retry, of the handler: the queue is kept, and the session's state too.
IpRetry ==
    /\ \E ok \in BOOLEAN :
          LET i == [ip EXCEPT !.mState = "Stop", !.rtt = FALSE, !.retried = TRUE]
          IN  ip' = WithSource(i, ok) /\ cg' = LoadedSession(i, ok)
    /\ http' = NewHttpSource(ip.kind)
    /\ ipq' = Append(Tail(ipq), Ev("Play"))

------------------------------------------------------------------------------
(* Playing *)

\* CGMI has still to carry out a request.
Pending == http.pendingPause \/ http.pendingPlay

\* A stream started over plays at normal speed, whatever the source believes.
StartedOver == [http EXCEPT !.off = @ \/ Pending \/ http.num # 100]

\* Zapper::Play: a film has the gateway set up a session first.
PlayStream ==
    /\ ~ip.mIsVodPlay
    /\ ip' = [ip EXCEPT !.waits = TRUE, !.played = TRUE]
    /\ ipq' = Append(ipq, Ev("Play"))

PlayFilm ==
    /\ ip.mIsVodPlay
    /\ \E setUp, known \in BOOLEAN :      \* SessionSetup, GetVodClientInfo
          IF ~setUp
          THEN UNCHANGED <<ip, ipq>>
          ELSE /\ ip' = [ip EXCEPT !.open = TRUE, !.left = @ \/ ip.open,
                                   !.played = TRUE, !.waits = known]
               /\ ipq' = IF known THEN Append(ipq, Ev("Play")) ELSE ipq

\* Mrdvr::Play opens and starts the source at once, at the position it is given.
PlayRecorded ==
    /\ \E ok \in BOOLEAN :
          IF ok /\ cg.st # "none"
          THEN /\ ip' = [ip EXCEPT !.waits = TRUE, !.played = TRUE]
               /\ cg' = Streaming(cg)
               /\ http' = StartedOver
          ELSE ip' = Told(ip) /\ UNCHANGED <<http, cg>>
    /\ UNCHANGED ipq

IpPlay ==
    /\ IpCall
    /\ ip.mState = "Stop"
    /\ \/ ip.isMrdvr /\ PlayRecorded
       \/ ~ip.isMrdvr /\ (PlayStream \/ PlayFilm) /\ UNCHANGED <<http, cg>>
    /\ UNCHANGED alert

\* Stop leaves the source streaming: the next Load or Eject stops it.
ClosedIfRendering ==      \* Mutant: a film that has not started is not closed.
    ip.mIsVodPlay /\ ip.mState = "Rendering"
ClosedByStop == ip.mIsVodPlay

IpStop ==
    /\ IpCall
    /\ \E ok \in BOOLEAN :
          ip' = [Told(ip) EXCEPT !.mState = "Stop", !.mSessionState = "Idle", !.rtt = FALSE,
                                 !.open = @ /\ ~(ok /\ ClosedByStop),
                                 !.left = @ \/ (~ok /\ ip.open),
                                 !.asked = FALSE, !.sought = FALSE, !.played = FALSE]
    /\ ipq' = <<>>
    /\ UNCHANGED <<http, cg, alert>>

\* Eject: the thread handles what is queued before it exits, ...
IpEject ==
    /\ IpCall
    /\ IF ip.mState = "Idle"
       THEN ip' = [Told(ip) EXCEPT !.busy = "gone"] /\ UNCHANGED ipq
       ELSE ip' = [ip EXCEPT !.busy = "eject"] /\ ipq' = Append(ipq, Ev("Exit"))
    /\ UNCHANGED <<http, cg, alert>>

\* ... and what it held is torn down.
IpTearDown ==
    /\ ip.busy = "exited"
    /\ ip' = [Told(ip) EXCEPT !.busy = "gone", !.sse = FALSE, !.source = 0, !.asked = FALSE,
                              !.sought = FALSE, !.left = @ \/ ip.open]
    /\ cg' = NoSession
    /\ UNCHANGED <<http, ipq, alert, ipBudget>>

------------------------------------------------------------------------------
(* Speeds and positions: SetSpeed, SetPosition of the controllers and of the   *)
(* source.  A request made while CGMI has one to carry out is kept until it    *)
(* reports that it has.                                                        *)

\* setSpeed of the source takes CGMI's agreement for granted: refused, the same
\* speed asked for again is found to be the present one.
SourceSpeed(r) ==
    \/ cg.st = "none" /\ ip' = [ip EXCEPT !.num = r, !.asked = FALSE] /\ UNCHANGED <<http, cg>>
    \/ /\ cg.st # "none" /\ http.num = r
       /\ ip' = [ip EXCEPT !.num = r, !.asked = TRUE] /\ UNCHANGED <<http, cg>>
    \/ /\ cg.st # "none" /\ http.num # r /\ Pending
       /\ ip' = [ip EXCEPT !.num = r, !.asked = TRUE]
       /\ http' = [http EXCEPT !.pendingSetSpeed = TRUE] /\ UNCHANGED cg
    \/ /\ cg.st # "none" /\ http.num # r /\ ~Pending
       /\ ip' = [ip EXCEPT !.num = r, !.asked = TRUE]
       /\ http' = [http EXCEPT !.num = r, !.pendingPause = (r = 0), !.pendingPlay = (r # 0),
                               !.off = cg.due # <<>>]
       /\ cg' = [cg EXCEPT !.rate = r, !.due = Append(@, r)]
    \/ /\ cg.st # "none" /\ http.num # r /\ ~Pending
       /\ ip' = [ip EXCEPT !.num = r, !.asked = FALSE]
       /\ http' = [http EXCEPT !.num = r, !.pendingSetSpeed = FALSE, !.off = TRUE]
       /\ UNCHANGED cg

SetSpeed(r) ==
    CASE ip.mState # "Rendering" -> UNCHANGED <<ip, http, cg>>
      [] ip.mState = "Rendering" /\ ip.mIsVodPlay ->      \* the gateway's to carry out
             ip' = [ip EXCEPT !.num = r] /\ UNCHANGED <<http, cg>>
      [] OTHER -> SourceSpeed(r)

SourcePosition(p) ==
    \/ cg.st = "none" /\ ip' = [ip EXCEPT !.pos = p, !.sought = FALSE] /\ UNCHANGED <<http, cg>>
    \/ /\ cg.st # "none" /\ Pending
       /\ ip' = [ip EXCEPT !.pos = p, !.sought = TRUE]
       /\ http' = [http EXCEPT !.pendingSetPosition = TRUE] /\ UNCHANGED cg
    \/ /\ cg.st # "none" /\ ~Pending
       /\ ip' = [ip EXCEPT !.pos = p, !.sought = TRUE]
       /\ cg' = [cg EXCEPT !.pos = p, !.frame = cg.pids] /\ UNCHANGED http
    \/ /\ cg.st # "none" /\ ~Pending
       /\ ip' = [ip EXCEPT !.pos = p, !.sought = FALSE]
       /\ http' = [http EXCEPT !.pendingSetPosition = FALSE] /\ UNCHANGED cg

SetPosition(p) ==
    CASE ip.mState # "Rendering" \/ ip.mIsVodPlay -> UNCHANGED <<ip, http, cg>>
      [] OTHER -> SourcePosition(p)

\* Refused, the calls change nothing.
IpSetSpeed ==
    /\ ip.mState = "Rendering" /\ IpCall
    /\ \E r \in IpSpeeds : SetSpeed(r)
    /\ UNCHANGED <<ipq, alert>>
IpSetPosition ==
    /\ ip.mState = "Rendering" /\ ~ip.mIsVodPlay /\ IpCall
    /\ \E p \in IpPositions : SetPosition(p)
    /\ UNCHANGED <<ipq, alert>>

------------------------------------------------------------------------------
(* CGMI's callbacks: CgmiPlayBkCallbackFunction.  Those of a session that was  *)
(* left are ignored (mpSessionId).                                             *)

Cleared(h) == [h EXCEPT !.pendingPause = FALSE, !.pendingPlay = FALSE,
                        !.pendingSetSpeed = FALSE, !.pendingSetPosition = FALSE]

\* Mutant: the one or the other.
KeptRequest(h) == IF h.pendingSetPosition THEN <<Ev("PendingPosition")>>
                  ELSE IF h.pendingSetSpeed THEN <<Ev("PendingSpeed")>> ELSE <<>>

\* What was kept until CGMI has done what it was asked.
KeptRequests(h) == (IF h.pendingSetPosition THEN <<Ev("PendingPosition")>> ELSE <<>>)
               \o (IF h.pendingSetSpeed THEN <<Ev("PendingSpeed")>> ELSE <<>>)


\* NOTIFY_CHANGED_SRC_STATE, CGMI_SrcState_Playing and Paused.  Played while fast
\* or slow motion was on, and not asked for, the stream has come to an end.
EndsReached(r) ==
    CASE r = 0 \/ http.pendingPlay -> <<>>
      [] r > 0 /\ ~http.pendingPlay /\ http.num > 100 -> <<Ev("EOF")>>
      [] r > 0 /\ ~http.pendingPlay /\ http.num \in 1..99 -> <<Ev("BOF")>>
      [] OTHER -> <<>>

CgReportsState ==
    /\ cg.due # <<>>
    /\ LET r == Head(cg.due)
           ends == EndsReached(r)
           h == IF ends = <<Ev("BOF")>> THEN Cleared(http) ELSE http
       IN  /\ ipq' = ipq \o ends \o KeptRequests(h)
           /\ http' = [h EXCEPT !.pendingSetPosition = FALSE, !.pendingSetSpeed = FALSE,
                                !.pendingPlay = @ /\ r = 0, !.pendingPause = @ /\ r # 0,
                                !.num = r]
           /\ cg' = [cg EXCEPT !.due = Tail(@)]
           /\ ip' = [ip EXCEPT !.asked = @ /\ ends = <<>>, !.sought = @ /\ ends = <<>>]
    /\ UNCHANGED <<alert, ipBudget>>

\* The ends of the stream: told as such, which forgets what is pending, or as the
\* reason of a state, which for the end of the stream forgets nothing.
StreamEnds ==
    /\ IpHappens
    /\ cg.st = "playing"
    /\ \E end \in {"BOF", "EOF"}, asReason \in BOOLEAN :
          /\ ipq' = Append(ipq, Ev(end))
          /\ http' = IF end = "BOF" \/ ~asReason THEN Cleared(http) ELSE [http EXCEPT !.off = TRUE]
          /\ cg' = IF asReason /\ end = "EOF" THEN [cg EXCEPT !.due = <<>>] ELSE cg
    /\ ip' = [ip EXCEPT !.asked = FALSE, !.sought = FALSE]
    /\ UNCHANGED alert

\* NOTIFY_PMT_READY, which keeps the table in the source, NOTIFY_PSI_READY.
CgReportsTable ==
    /\ \E t \in cg.tables :
          /\ cg' = [cg EXCEPT !.tables = @ \ {t}]
          /\ http' = IF t = "PMT" THEN [http EXCEPT !.pmt = TRUE] ELSE http
          /\ ipq' = IF t = "PSI" THEN Append(ipq, Ev("PSIReady")) ELSE ipq
    /\ UNCHANGED <<ip, alert, ipBudget>>

\* NOTIFY_FIRST_PTS_DECODED, after a seek too.
CgReportsFrame ==
    /\ cg.frame
    /\ cg' = [cg EXCEPT !.frame = FALSE]
    /\ ipq' = Append(ipq, Ev("FirstFrame"))
    /\ UNCHANGED <<ip, http, alert, ipBudget>>

\* NOTIFY_STREAMING_NOT_OK, which Zapper's sourceCB has no event for, and
\* NOTIFY_MEDIAPLAYER_URL_OPEN_FAILURE, of which nobody is told.
StreamFails ==
    /\ IpHappens
    /\ cg.st = "playing"
    /\ \E urlFails \in BOOLEAN :
          LET told == ~urlFails /\ ip.isMrdvr
          IN  /\ ipq' = IF told THEN Append(ipq, Ev("Problem")) ELSE ipq
              /\ http' = [http EXCEPT !.dead = ~told, !.off = TRUE]
    /\ cg' = [cg EXCEPT !.tables = {}, !.frame = FALSE, !.st = "failed", !.due = <<>>]
    /\ ip' = [ip EXCEPT !.asked = FALSE, !.sought = FALSE]
    /\ UNCHANGED alert

CgReports == CgReportsState \/ CgReportsTable \/ CgReportsFrame

------------------------------------------------------------------------------
(* Others that queue events *)

\* HandleSSENotfication and MediaPlayerCallbackFunc.
GatewayTells ==
    /\ IpHappens
    /\ ip.sse /\ ip.busy \in {"no", "eject"}
    /\ \E e \in {"Retry", "Revoked", "DeAuthorized", "Authorized"} : ipq' = Append(ipq, Ev(e))
    /\ UNCHANGED <<ip, http, cg, alert>>

\* PPVMgrClassCallback, as long as the source is not deleted.
PpvTells ==
    /\ IpHappens
    /\ ip.source # 0 /\ http.ppv # "Idle" /\ ip.busy # "gone"
    /\ \E e \in FromPpv : /\ http' = [http EXCEPT !.ppv = e]
                          /\ ipq' = Append(ipq, Ev(e))
    /\ UNCHANGED <<ip, cg, alert>>

\* RTTRetryCallback, at 3 a.m.: it looks at the controller without its mutex ...
RttChecks ==
    /\ IpHappens
    /\ ip.rtt /\ ip.mState # "Stop" /\ ip.num = 100 /\ ip.busy # "gone"
    /\ ip' = [ip EXCEPT !.rttCalls = TRUE]
    /\ UNCHANGED <<http, cg, ipq, alert>>

\* ... and then has it retry.
RttRetries ==
    /\ ip.rttCalls /\ ip.busy # "gone"
    /\ ip' = [ip EXCEPT !.rttCalls = FALSE]
    /\ ipq' = Append(ipq, Ev("RTTRetry"))
    /\ UNCHANGED <<http, cg, alert, ipBudget>>

\* The user changes the audio language (audioLanguageChangedCB).
LanguageChanges ==
    /\ IpHappens
    /\ ip.mState = "Rendering" /\ ip.busy # "gone"
    /\ ipq' = Append(ipq, Ev("Lang"))
    /\ UNCHANGED <<ip, http, cg, alert>>

\* SetAudioPid and UpdateAudioLanguage select a language's sound and put it on,
\* alert or not.
SoundSelected(c) == IF c.st = "none" THEN c
                    ELSE [c EXCEPT !.sound = TRUE, !.relit = @ \/ EasAudioActive]
WithAudioPid == [http EXCEPT !.hasAudioPid = @ \/ cg.st # "none"]

IpSetAudioPid ==
    /\ ip.busy = "no" /\ IpHappens
    /\ ip.source # 0
    /\ cg' = SoundSelected(cg)
    /\ http' = WithAudioPid
    /\ UNCHANGED <<ip, ipq, alert>>

\* ProcessStopInFocusAudioAndStartEasAudio and ProcessRestartInFocusAudio: the
\* flag first, then the sound, for which they take the controller's mutex.
AlertStarts == /\ IpHappens /\ alert = "no" /\ alert' = "starting" /\ UNCHANGED <<ip, http, cg, ipq>>
AlertEnds == /\ alert = "on" /\ alert' = "ending" /\ UNCHANGED <<ip, http, cg, ipq, ipBudget>>

Sounds(on) == IF cg.st # "none" /\ http.hasAudioPid
              THEN [cg EXCEPT !.sound = on, !.relit = FALSE] ELSE cg

AlertTakesSound ==
    /\ ip.busy # "load"
    /\ \/ alert = "starting" /\ alert' = "on" /\ cg' = Sounds(FALSE)
       \/ alert = "ending" /\ alert' = "no" /\ cg' = Sounds(TRUE)
    /\ UNCHANGED <<ip, http, ipq, ipBudget>>

------------------------------------------------------------------------------
(* The event thread *)

IpPopped(e) == /\ ip.busy \in {"no", "eject"}
               /\ ipq # <<>> /\ Head(ipq).e = e
               /\ UNCHANGED <<alert, ipBudget>>

\* MSPPPVSource::open: once the PPV manager has told that there is something to
\* play, it loads the stream and opens it.
PpvOpen == http.ppv \in {"StartVideo", "InterstitialStart"}

\* kZapperEventPlay.
OnPlayWaits ==
    /\ http.kind = "ppv" /\ http.ppv \in {"Idle", "Loading"}
    /\ http' = [http EXCEPT !.ppv = "Loading"]
    /\ \E ok \in BOOLEAN : ip' = IF ok \/ http.ppv = "Loading"
                                 THEN [ip EXCEPT !.mState = "WaitTuningParams"] ELSE ip
    /\ UNCHANGED cg

OnPlayStreams ==
    /\ http.kind = "ppv" => PpvOpen
    /\ http.kind # "ppv" => cg.st # "none"
    /\ \E ok \in BOOLEAN :      \* start, whose failure is told nobody
          /\ cg' = IF ok THEN Streaming(cg) ELSE [cg EXCEPT !.st = "created"]
          /\ http' = [StartedOver EXCEPT !.dead = ~ok]
          /\ ip' = [ip EXCEPT !.mSessionState = IF ok THEN "Loading" ELSE @,
                              !.asked = FALSE, !.sought = FALSE]

OnPlayFails ==
    /\ http.kind = "ppv" => http.ppv \notin {"Idle", "Loading"}
    /\ ip' = IF http.kind = "ppv" THEN ip ELSE Told(ip)
    /\ UNCHANGED <<http, cg>>

OnPlay ==
    /\ IpPopped("Play")
    /\ ipq' = Tail(ipq)
    /\ OnPlayWaits \/ OnPlayStreams \/ OnPlayFails

\* psiStart takes the table from the source.
TablesAreRead == http.pmt /\ cg.st # "none"

\* SelectAudioVideoComponents; mutant: the alert is not asked for.
SelectedAloud(c) == [c EXCEPT !.pids = TRUE, !.sound = TRUE, !.relit = FALSE,
                              !.frame = http.kind # "music" /\ c.st = "playing"]
Selected(c) == [c EXCEPT !.pids = TRUE, !.sound = ~EasAudioActive, !.relit = FALSE,
                         !.frame = http.kind # "music" /\ c.st = "playing"]

\* kZapperPSIReadyEvent; the first frame of a music channel is made up.
OnPSIReady ==
    /\ IpPopped("PSIReady")
    /\ \E ok \in BOOLEAN :
          IF ok /\ TablesAreRead
          THEN /\ cg' = Selected(cg)
               /\ http' = [http EXCEPT !.hasAudioPid = TRUE]
               /\ ipq' = Tail(ipq) \o (IF http.kind = "music" THEN <<Ev("FirstFrame")>> ELSE <<>>)
               /\ UNCHANGED ip
          ELSE /\ ip' = Told(ip) /\ ipq' = Tail(ipq) /\ UNCHANGED <<http, cg>>

\* kZapperFirstFrameEvent, after Stop too.
OnFirstFrame ==
    /\ IpPopped("FirstFrame")
    /\ ip' = CASE ip.mSessionState = "DeAuthorized" /\ http.kind = "music" -> ip
               [] ip.isMrdvr -> [Told(ip) EXCEPT !.mState = "Rendering"]
               [] OTHER -> [Told(ip) EXCEPT
                               !.rtt = @ \/ (ip.mState # "Rendering" /\ ip.kind # "vod"),
                               !.mState = "Rendering", !.mSessionState = "Started"]
    /\ ipq' = Tail(ipq)
    /\ UNCHANGED <<http, cg>>

\* BOF, EOF, kZapperSrcProblem: the client is told.
OnToldOnly ==
    /\ IpPopped("BOF") \/ IpPopped("EOF") \/ IpPopped("Problem")
    /\ ip' = IF Head(ipq).e = "Problem" THEN Told(ip) ELSE ip
    /\ ipq' = Tail(ipq)
    /\ UNCHANGED <<http, cg>>

OnPendingSpeed == IpPopped("PendingSpeed") /\ SetSpeed(ip.num) /\ ipq' = Tail(ipq)
OnPendingPosition == IpPopped("PendingPosition") /\ SetPosition(ip.pos) /\ ipq' = Tail(ipq)

OnLanguage ==
    /\ IpPopped("Lang")
    /\ cg' = SoundSelected(cg)
    /\ http' = WithAudioPid
    /\ ipq' = Tail(ipq)
    /\ UNCHANGED ip

\* MediaCallbackFuncHandler.
OnGateway ==
    /\ IpPopped("Revoked") \/ IpPopped("DeAuthorized") \/ IpPopped("Authorized")
    /\ LET e == Head(ipq).e
       IN  ip' = [IF e = "Revoked" THEN ip ELSE Told(ip) EXCEPT !.mSessionState = e]
    /\ ipq' = Tail(ipq)
    /\ UNCHANGED <<http, cg>>

OnRetry == (IpPopped("Retry") \/ IpPopped("RTTRetry")) /\ IpRetry

tearDownToRetune ==
    /\ ip' = [ip EXCEPT !.mState = "Stop", !.asked = FALSE, !.sought = FALSE]
    /\ cg' = NoSession

\* kZapperPpv*: on a start Play again.
OnPpv ==
    /\ \E e \in FromPpv :
          /\ IpPopped(e)
          /\ IF \/ e \in {"InterstitialStart", "InterstitialStop", "StartVideo", "StopVideo"}
                \/ e = "Expired" /\ ip.mState = "Rendering"
             THEN tearDownToRetune
             ELSE UNCHANGED <<ip, cg>>
          /\ ipq' = Tail(ipq) \o (IF e \in {"InterstitialStart", "StartVideo"}
                                  THEN <<Ev("Play")>> ELSE <<>>)
    /\ UNCHANGED http

OnExit ==
    /\ IpPopped("Exit")
    /\ ip' = [ip EXCEPT !.busy = "exited"]
    /\ ipq' = Tail(ipq)
    /\ UNCHANGED <<http, cg>>

IpThread == \/ OnPlay \/ OnPSIReady \/ OnFirstFrame \/ OnToldOnly \/ OnPendingSpeed
            \/ OnPendingPosition \/ OnLanguage \/ OnGateway \/ OnRetry \/ OnPpv \/ OnExit

------------------------------------------------------------------------------

IpCalls == \/ IpLoad \/ IpPlay \/ IpStop \/ IpEject \/ IpSetSpeed \/ IpSetPosition
           \/ IpSetAudioPid

IpOthers == \/ StreamEnds \/ StreamFails \/ GatewayTells \/ PpvTells \/ RttChecks \/ RttRetries
            \/ LanguageChanges \/ AlertStarts \/ AlertEnds \/ AlertTakesSound

IpNext == IpCalls \/ LoadReplaces \/ IpTearDown \/ IpThread \/ CgReports \/ IpOthers

------------------------------------------------------------------------------
(* Properties *)

\* What a source reported is handled for that source: Load replaces it with
\* nothing of the old one left in the queue.  Retry, which replaces it in the
\* middle of the queue, does leave some.
EventsAreOfTheSource ==
    \A i \in DOMAIN ipq : ipq[i].e \in FromSource => ipq[i].n = ip.source \/ ip.retried \/ ip.busy = "gone"

\* A session of the gateway's, which streams for this client, is open only while
\* its film is played: Stop closes it before and after the first frame.  Left
\* open are those of a Play or a Load before Stop, and of an Eject without it.
GatewaySessionsAreClosed ==
    ip.open => ip.left \/ (ip.played /\ ip.mIsVodPlay)

IpSessionIsKept == EventsAreOfTheSource /\ GatewaySessionsAreClosed

\* While an alert sounds the programme is silent, and after it it is not, however
\* the alert comes in between the steps of tuning; unless a language is selected
\* during the alert.
SoundFollowsTheAlert ==
    /\ alert = "on" /\ cg.sound => cg.relit
    /\ alert = "no" /\ cg.pids => cg.sound

\* Everything that was queued is handled, and CGMI has done what it was asked.
AtRest ==
    /\ ip.busy = "no" /\ ipq = <<>>
    /\ cg.due = <<>> /\ ~cg.frame /\ (cg.st = "playing" => cg.tables = {})

\* The speed and the position that the client asked for, and was told are set, are
\* in the end those at which CGMI plays, those asked for while CGMI was busy too.
RequestsAreCarriedOut ==
    AtRest /\ ~http.off =>
        (ip.asked => cg.rate = ip.num) /\ (ip.sought => cg.pos = ip.pos)

\* Play is answered with a first frame or a problem; a failure that is told nobody
\* and the PPV manager's silence excepted.
IpPlayIsAnswered == AtRest => ~ip.waits \/ http.dead \/ ip.kind = "ppv"

ClientIsServed == RequestsAreCarriedOut /\ IpPlayIsAnswered

==============================================================================
