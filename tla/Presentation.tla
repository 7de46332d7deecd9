----------------------------- MODULE Presentation -----------------------------
(***************************************************************************)
(* Who has the main screen: the presentation parameters of the sessions    *)
(* (IMediaPlayer.cpp, IMediaPlayerSession.cpp) and the display sessions    *)
(* (DisplaySession.cpp, zapper.cpp) that put them into effect on Avpm.     *)
(*                                                                         *)
(* The Zapper threads, the player's callers and the media thread each call *)
(* Avpm several times to open or to close a display; the calls interleave, *)
(* so what a thread has left to do is in "work".  A Zapper works with its  *)
(* mutex, and CommitPresentationParams with those of both sessions; the    *)
(* first frame of a film comes on the media thread, with none.  A session  *)
(* and its media handle have one name.  A stream without components, which *)
(* Commit moves along with the others, is left out.                        *)
(***************************************************************************)
EXTENDS Avpm, FiniteSets

CONSTANT Films          \* the sessions on demand, whose source is 1080p

\* A session gives its name to its thread.
ASSUME HandlesAssumption == Handles \cap {"player", "media"} = {}

VARIABLES mAudioFocus,     \* per session: "main" or "pip", its audio focus, or
                        \* "none" without a controller
          pending,      \* mPendingEnaAudio, with a rectangle, or "none"
          disp,         \* per session: mState of its disp_session, or "none"
          out,          \* its output is connected, for all its controller knows
          frame,        \* the first frame of a film is to come
          work,         \* what each thread has left to do: <<operation, session>>
          strays        \* known ways to lose track of a layer, that were taken

screen == <<mAudioFocus, pending>>
presentation == <<screen, disp, out, frame, work, strays>>
screenVars == <<presentation, avpmVars>>

Threads == Handles \cup {"player", "media"}

PresentationInit ==
    /\ AvpmInit
    /\ mAudioFocus = [s \in Handles |-> "none"]
    /\ pending = [s \in Handles |-> "none"]
    /\ disp = [s \in Handles |-> "none"]
    /\ out = [s \in Handles |-> FALSE]
    /\ frame = [s \in Handles |-> FALSE]
    /\ work = [t \in Threads |-> <<>>]
    /\ strays = {}

\* A thread other than the media thread has something left to do for it.
Locked(s) == \E t \in Threads \ {"media"} : \E i \in DOMAIN work[t] : work[t][i][2] = s

\* The mutex of the player is held throughout CommitPresentationParams.
PlayerIsFree == work["player"] = <<>>

Stray(kind, on) == strays' = IF on THEN strays \cup {kind} ELSE strays

------------------------------------------------------------------------------
(* What a thread does in turn *)

\* DisplaySession::stop, where it was started, and close.
CloseWork(s) ==
    IF disp[s] = "none" THEN <<>> ELSE << <<"stop", s>>, <<"close", s>> >>

\* connectOutput notes the resolution of a film before it takes the mutex.
ConnectWork(s) == << <<IF s \in Films THEN "note" ELSE "connect", s>> >>

\* Zapper::StartDisplaySession: open, start, setUpDfbThroughAvpm.  The output of
\* a film is connected by its first frame, which its decoders may show before
\* the display is set up.
StartWork(s) ==
    IF s \in Films THEN << <<"open", s>>, <<"setUp", s>> >>
                   ELSE << <<"setUp", s>> >> \o ConnectWork(s)

Load(s, focus) ==
    /\ PlayerIsFree
    /\ mAudioFocus[s] = "none"
    /\ \A t \in Handles : mAudioFocus[t] # focus
    /\ mAudioFocus' = [mAudioFocus EXCEPT ![s] = focus]
    /\ UNCHANGED <<pending, disp, out, frame, work, strays, avpmVars>>

\* The Zapper has its tables, a new PMT or a new tuner: its display is started
\* in place of the one before.
StartDisplay(s) ==
    /\ mAudioFocus[s] # "none"
    /\ ~Locked(s)
    /\ work' = [work EXCEPT ![s] = CloseWork(s) \o StartWork(s)]
    /\ UNCHANGED <<screen, disp, out, frame, strays, avpmVars>>

\* By the client, who keeps the mutex of the player.
StopAndEject(s) ==
    /\ PlayerIsFree
    /\ ~Locked(s)
    /\ mAudioFocus[s] # "none"
    /\ mAudioFocus' = [mAudioFocus EXCEPT ![s] = "none"]
    /\ pending' = [pending EXCEPT ![s] = "none"]
    /\ work' = [work EXCEPT !["player"] = CloseWork(s)]
    /\ UNCHANGED <<disp, out, frame, strays, avpmVars>>

\* The tuner is lost.
CloseDisplay(s) ==
    /\ ~Locked(s)
    /\ disp[s] # "none"
    /\ work' = [work EXCEPT ![s] = CloseWork(s)]
    /\ UNCHANGED <<screen, disp, out, frame, strays, avpmVars>>

\* kZapperEventServiceAuthorized and DeAuthorized.  Connected as it is, an
\* output is left alone.
ServiceAuthorized(s) ==
    /\ ~out[s]
    /\ disp[s] \in {"started", "incomplete"}
    /\ ~Locked(s)
    /\ work' = [work EXCEPT ![s] = ConnectWork(s)]
    /\ UNCHANGED <<screen, disp, out, frame, strays, avpmVars>>

ServiceDeAuthorized(s) ==
    /\ Change
    /\ disp[s] \in {"started", "incomplete"}
    /\ ~Locked(s)
    /\ freezeVideo(s, s \in Films)
    /\ out' = [out EXCEPT ![s] = FALSE]
    /\ UNCHANGED <<screen, disp, frame, work, strays, userSound, avQueue>>

\* performCb, on the media thread, as long as the callback is registered.
FirstFrame(s) ==
    /\ frame[s]
    /\ work["media"] = <<>>
    /\ frame' = [frame EXCEPT ![s] = FALSE]
    /\ work' = [work EXCEPT !["media"] = ConnectWork(s)]
    /\ UNCHANGED <<screen, disp, out, strays, avpmVars>>

------------------------------------------------------------------------------
(* The presentation parameters *)

ConfigurePresentationParams(s, focus) ==
    /\ PlayerIsFree
    /\ mAudioFocus[s] # "none"
    /\ pending[s] = "none" /\ focus # mAudioFocus[s]
    /\ pending' = [pending EXCEPT ![s] = focus]
    /\ UNCHANGED <<mAudioFocus, disp, out, frame, work, strays, avpmVars>>

\* SetPresentationParams and setVideoWindow: a display that is not started takes
\* its window when it is.  The focus of one at work moves, its layer does not.
\* Bound: nothing is configured for it meanwhile.  A commit would not move it from
\* the screen it has by then, and is left out.
MoveFocus(s, focus) ==
    /\ PlayerIsFree
    /\ pending[s] = "none"
    /\ ~Locked(s)
    /\ mAudioFocus[s] \notin {"none", focus}
    /\ \A t \in Handles \ {s} : mAudioFocus[t] # focus
    /\ mAudioFocus' = [mAudioFocus EXCEPT ![s] = focus]
    /\ IF disp[s] = "started" THEN setPresentationParams(s, focus) ELSE UNCHANGED avpm
    /\ Stray("focus", disp[s] # "none")
    /\ UNCHANGED <<pending, disp, out, frame, work, user>>

Foreground == {s \in Handles : mAudioFocus[s] # "none"}
Configured == {s \in Foreground : pending[s] # "none"}
NextFocus(s) == IF s \in Configured THEN pending[s] ELSE mAudioFocus[s]

CommitWork(s) == << <<"commit", s>> >>

\* Mutant: each is closed, committed and started in turn.
SwapInTurn(m2p, p2m) ==
    CloseWork(p2m) \o CommitWork(p2m) \o StartWork(p2m)
        \o CloseWork(m2p) \o CommitWork(m2p) \o StartWork(m2p)

\* The main screen becomes the picture in picture and the other way round: both
\* displays are closed before one is started.
Swap(m2p, p2m) ==
    CloseWork(m2p) \o CloseWork(p2m)
        \o CommitWork(p2m) \o CommitWork(m2p)
        \o StartWork(p2m) \o StartWork(m2p)

\* Refused when two sessions would have one screen: what is pending stays.  The
\* controllers are told their parameters once more at the end.
CommitPresentationParams ==
    /\ PlayerIsFree
    /\ Configured # {}
    /\ \A s \in Configured : ~Locked(s)
    /\ \A s, t \in Foreground : s # t => NextFocus(s) # NextFocus(t)
    /\ LET PickFor(focus) == CHOOSE s \in Configured : pending[s] = focus
           moved == IF Cardinality(Configured) = 2
                      THEN Swap(PickFor("pip"), PickFor("main"))
                      ELSE LET s == CHOOSE s \in Configured : TRUE
                           IN  CloseWork(s) \o CommitWork(s) \o StartWork(s)
       IN  work' = [work EXCEPT !["player"] = moved]
    /\ UNCHANGED <<screen, disp, out, frame, strays, avpmVars>>

------------------------------------------------------------------------------
(* One operation of a thread *)

Take(t, op, s) == work[t] # <<>> /\ Head(work[t]) = <<op, s>>
Done(t) == work' = [work EXCEPT ![t] = Tail(@)]
Then(t, op, s) == work' = [work EXCEPT ![t] = << <<op, s>> >> \o Tail(@)]

\* DisplaySession::stop: stopOutput and cpe_media_Stop.
Stop(t, s) ==
    /\ Take(t, "stop", s) /\ Done(t)
    /\ freezeVideo(s, s \in Films)
    /\ out' = [out EXCEPT ![s] = FALSE]
    /\ disp' = [disp EXCEPT ![s] = "stopped"]
    /\ UNCHANGED <<screen, frame, strays, user>>

\* DisplaySession::close: disconnectOutput, and the callback is taken back when
\* it is not at work.
Close(t, s) ==
    /\ Take(t, "close", s) /\ Done(t)
    /\ \A i \in DOMAIN work["media"] : work["media"][i][2] # s
    /\ disconnectOutput(s)
    /\ disp' = [disp EXCEPT ![s] = "none"]
    /\ frame' = [frame EXCEPT ![s] = FALSE]
    /\ UNCHANGED <<screen, out, strays, user>>

\* DisplaySession::open, and the start of the decoders.
Open(t, s) ==
    /\ Take(t, "open", s) /\ Done(t)
    /\ disp' = [disp EXCEPT ![s] = "starting"]
    /\ frame' = [frame EXCEPT ![s] = TRUE]
    /\ UNCHANGED <<screen, out, strays, avpmVars>>

setUpDfbThroughAvpm(t, s) ==
    /\ Take(t, "setUp", s) /\ Done(t)
    /\ setUp(s, mAudioFocus[s], s \in Films)
    /\ disp' = [disp EXCEPT ![s] = IF s \in Films THEN "started" ELSE "starting"]
    /\ UNCHANGED <<screen, out, frame, strays, user>>

setOptimalDisplayResolution(t, s) ==
    /\ \/ Take(t, "note", s) /\ Note1080p /\ Then(t, "set1080p", s)
       \/ Take(t, "note", s) /\ UNCHANGED avpm /\ Then(t, "connect", s)
       \/ Take(t, "set1080p", s) /\ setDisplayResolution1080p /\ Then(t, "connect", s)
    /\ UNCHANGED <<screen, disp, out, frame, strays, user>>

\* The first frame may find its display not set up yet, or stopped.
IsEarlyOrLate(s) == disp[s] # "started"

ConnectOutput(t, s) ==
    /\ Take(t, "connect", s) /\ Done(t)
    /\ \E ok \in BOOLEAN :
         /\ connectOutput(s, ok)
         /\ out' = [out EXCEPT ![s] = ok]
         /\ disp' = IF disp[s] = "starting" /\ t # "media"
                      THEN [disp EXCEPT ![s] = IF ok THEN "started" ELSE "incomplete"]
                      ELSE disp
    /\ Stray("frame", t = "media" /\ IsEarlyOrLate(s))
    /\ UNCHANGED <<screen, frame, user>>

\* IMediaPlayerSession::CommitPresentationParams.
CommitSession(s) ==
    /\ Take("player", "commit", s) /\ Done("player")
    /\ mAudioFocus' = [mAudioFocus EXCEPT ![s] = pending[s]]
    /\ pending' = [pending EXCEPT ![s] = "none"]
    /\ UNCHANGED <<disp, out, frame, strays, avpmVars>>

Perform(t, s) ==
    \/ Stop(t, s)
    \/ Close(t, s)
    \/ Open(t, s)
    \/ setUpDfbThroughAvpm(t, s)
    \/ setOptimalDisplayResolution(t, s)
    \/ ConnectOutput(t, s)

Client(s) ==
    \/ \E focus \in {"main", "pip"} :
         Load(s, focus) \/ ConfigurePresentationParams(s, focus) \/ MoveFocus(s, focus)
    \/ StartDisplay(s)
    \/ StopAndEject(s)
    \/ CloseDisplay(s)
    \/ ServiceAuthorized(s)
    \/ ServiceDeAuthorized(s)
    \/ FirstFrame(s)
    \/ CommitSession(s)

\* Once it has lost track of a layer or of the resolution, nothing is promised.
PresentationNext ==
    /\ strays = {} /\ slips = {}
    /\ \/ \E s \in Handles : Client(s) \/ \E t \in Threads : Perform(t, s)
       \/ CommitPresentationParams
       \/ (AvpmThread \/ UserChanges) /\ UNCHANGED presentation

------------------------------------------------------------------------------
(* Properties *)

PresentationTypeOK ==
    /\ AvpmTypeOK
    /\ mAudioFocus \in [Handles -> {"none", "main", "pip"}]
    /\ pending \in [Handles -> {"none", "main", "pip"}]
    /\ disp \in [Handles -> {"none", "starting", "started", "incomplete", "stopped"}]
    /\ out \in [Handles -> BOOLEAN]
    /\ frame \in [Handles -> BOOLEAN]
    /\ strays \subseteq {"frame", "focus"}

\* What a controller was told is connected is on its layer, through swaps of the
\* two screens and authorizations that come and go, and the captions on the main
\* layer are those that were asked for (avpm.cpp:1079, IMediaPlayer.cpp:1489).
\* Unless a first frame came early or late, or the focus of a display at work
\* was moved: then a flag of Avpm's stays with a layer nobody is on.
ConnectedIsShown ==
    strays = {} =>
        \A s \in Handles :
           out[s] => /\ pgr[s].shown
                     /\ pgr[s].audioFocus = "main" => pgr[s].cc = isClosedCaptionEnabled

\* Once its event thread has caught up, Avpm follows the user and the programme:
\* the main screen sounds as the settings say, unless a change went past it
\* while it was not the main handle yet; and with no display left the resolution
\* is the user's, unless the film's was left behind in a way that is known.
OutputFollowsTheUser ==
    /\ \A s \in Handles :
          out[s] /\ ~Locked(s) /\ pgr[s].audioFocus = "main" /\ strays = {}
                 /\ avQueue = <<>> =>
             mMainScreenPgrHandle = s /\ (pgr[s].sound = userSound \/ pgr[s].missed)
    /\ (\A s \in Handles : disp[s] = "none") /\ strays = {} /\ slips = {} =>
          resolution = [output |-> "user", active |-> FALSE]
==============================================================================
