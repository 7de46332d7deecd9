--------------------------------- MODULE Avpm ---------------------------------
(***************************************************************************)
(* The audio video presentation manager (avpm.cpp, avpm_VOD1080p.cpp): one *)
(* for the box.  It puts media handles on the main layer or on that of the *)
(* picture in picture, and keeps sound, captions and the resolution of the *)
(* output as the user and the programme want them.                         *)
(*                                                                         *)
(* Its operations hold mMutex, and so do the handlers of its event thread; *)
(* setOptimalDisplayResolution, getCc and setCc are called without it.     *)
(* Volume and mute are one "sound"; rectangles, picture modes, fonts,      *)
(* colours and copy control are left out.  A fresh entry of mMap is        *)
(* uninitialised memory: a window equal to the one asked for comes from an *)
(* entry of the same kind, so that audioFocus is what it would have been   *)
(* set to.                                                                 *)
(***************************************************************************)
EXTENDS Naturals, Sequences

CONSTANTS Handles,      \* the media handles, one for each display session
          NoHandle,     \* NULL
          Sounds,       \* what the volume and mute settings ask for
          MaxChanges    \* bound: changes of the settings and losses of
                        \* authorization

ASSUME AvpmAssumption ==
    /\ NoHandle \notin Handles
    /\ Sounds # {} /\ "unset" \notin Sounds
    /\ MaxChanges \in Nat

VARIABLES pgr,          \* mMap: what is known and done of each handle
          mMainScreenPgrHandle,
          mIsOutputStarted,    \* ...ForMain, ...ForPIP
          isClosedCaptionEnabled,
          mIsVod,
          resolution,   \* of the output, and mIs1080pModeActive
          userSound,    \* the settings
          avQueue,      \* threadEventQueue
          slips,        \* known ways to leave the resolution wrong, that were taken
          changes       \* changes so far

avpm == <<pgr, mMainScreenPgrHandle, mIsOutputStarted, isClosedCaptionEnabled, mIsVod,
          resolution, slips>>
user == <<userSound, avQueue, changes>>
avpmVars == <<avpm, user>>

\* audioFocus, whether its layer shows it (hdHandle, sdHandle), cchandle, what
\* it sounds like, and whether a change of the sound went past it.
NewSettings == [audioFocus |-> "unset", shown |-> FALSE, cc |-> FALSE,
                sound |-> "unset", missed |-> FALSE]

AvpmInit ==
    /\ pgr = [h \in Handles |-> NewSettings]
    /\ mMainScreenPgrHandle = NoHandle
    /\ mIsOutputStarted = [main |-> FALSE, pip |-> FALSE]
    /\ isClosedCaptionEnabled = FALSE
    /\ mIsVod = FALSE
    /\ resolution = [output |-> "user", active |-> FALSE]
    /\ userSound = CHOOSE sound \in Sounds : TRUE
    /\ avQueue = <<>>
    /\ slips = {}
    /\ changes = 0

------------------------------------------------------------------------------
(* Operations of a display session, on its handle *)

\* setCc, on the main handle; on none, a caption is turned on for nobody.
CaptionsOn(settings, on) ==
    IF mMainScreenPgrHandle = NoHandle THEN settings
    ELSE [settings EXCEPT ![mMainScreenPgrHandle].cc = on]

setCc(on) ==
    /\ isClosedCaptionEnabled' = on
    /\ pgr' = CaptionsOn(pgr, on)

\* setPresentationParams.  What is asked for again is left alone.  A picture in
\* picture takes the captions from the main screen.
TakesCaptions(h, focus) == pgr[h].audioFocus # focus /\ focus = "pip"

Windowed(h, focus) ==
    LET moved == [pgr EXCEPT ![h].audioFocus = focus]
    IN  IF TakesCaptions(h, focus) THEN CaptionsOn(moved, FALSE) ELSE moved

setPresentationParams(h, focus) ==
    /\ pgr' = Windowed(h, focus)
    /\ isClosedCaptionEnabled' = (isClosedCaptionEnabled /\ ~TakesCaptions(h, focus))
    /\ UNCHANGED <<mMainScreenPgrHandle, mIsOutputStarted, mIsVod, resolution,
                   slips>>

\* The settings are read, whatever is still on the queue.
setAudioParams(settings, h) ==
    [settings EXCEPT ![h].sound = userSound, ![h].missed = FALSE]

\* setIsVod, setPresentationParams and setAudioParams, which a display calls in
\* turn: nothing that comes between them tells the difference.
setUp(h, focus, film) ==
    /\ mIsVod' = film
    /\ pgr' = setAudioParams(Windowed(h, focus), h)
    /\ isClosedCaptionEnabled' = (isClosedCaptionEnabled /\ ~TakesCaptions(h, focus))
    /\ UNCHANGED <<mMainScreenPgrHandle, mIsOutputStarted, resolution, slips>>

\* On the main layer, with captions.
playToVideoLayer(h) ==
    [pgr EXCEPT ![h].shown = TRUE, ![h].cc = (@ \/ isClosedCaptionEnabled)]

playPIPVideo(h) == [pgr EXCEPT ![h].shown = TRUE]

Showing(h, focus) == IF focus = "main" THEN playToVideoLayer(h) ELSE playPIPVideo(h)

\* Mutant: the main handle is not taken over.
connectOutputKeepingMain(h, ok) ==
    LET focus == IF pgr[h].audioFocus = "main" THEN "main" ELSE "pip"
    IN  /\ IF mIsOutputStarted[focus]
             THEN ok /\ UNCHANGED <<pgr, mIsOutputStarted>>
             ELSE IF ok
             THEN pgr' = Showing(h, focus) /\ mIsOutputStarted' = [mIsOutputStarted EXCEPT ![focus] = TRUE]
             ELSE UNCHANGED <<pgr, mIsOutputStarted>>
        /\ UNCHANGED <<mMainScreenPgrHandle, isClosedCaptionEnabled, mIsVod, resolution,
                       slips>>

\* A layer that is started already is taken for this handle's.  The platform
\* may refuse the layer.  The focus of a fresh entry is anything.
connectOutput(h, ok) ==
    \E focus \in IF pgr[h].audioFocus = "unset" THEN {"main", "pip"} ELSE {pgr[h].audioFocus} :
        /\ mMainScreenPgrHandle' = IF focus = "main" THEN h ELSE mMainScreenPgrHandle
        /\ \/ mIsOutputStarted[focus] /\ ok /\ UNCHANGED <<pgr, mIsOutputStarted>>
           \/ /\ ~mIsOutputStarted[focus] /\ ok
              /\ pgr' = Showing(h, focus)
              /\ mIsOutputStarted' = [mIsOutputStarted EXCEPT ![focus] = TRUE]
           \/ ~mIsOutputStarted[focus] /\ ~ok /\ UNCHANGED <<pgr, mIsOutputStarted>>
        /\ UNCHANGED <<isClosedCaptionEnabled, mIsVod, resolution, slips>>

\* setDefaultDisplayResolution: the setting may be unreadable.
BackToUser == [output |-> "user", active |-> FALSE]

\* stopOutput.  The resolution goes back if the last programme that was set up
\* is the on demand one.
freezeVideo(h, source1080p) ==
    LET focus == IF pgr[h].audioFocus = "main" THEN "main" ELSE "pip"
    IN  /\ IF resolution.active /\ source1080p
             THEN \/ mIsVod /\ resolution' = BackToUser /\ UNCHANGED slips
                  \/ UNCHANGED resolution /\ slips' = slips \cup {"resolution"}
             ELSE UNCHANGED <<resolution, slips>>
        /\ IF mIsOutputStarted[focus]
             THEN /\ mIsOutputStarted' = [mIsOutputStarted EXCEPT ![focus] = FALSE]
                  /\ pgr' = [pgr EXCEPT ![h].shown = FALSE, ![h].cc = FALSE]
             ELSE UNCHANGED <<mIsOutputStarted, pgr>>
        /\ UNCHANGED <<mMainScreenPgrHandle, isClosedCaptionEnabled, mIsVod>>

\* With its entry in mMap.
release(h) == [pgr EXCEPT ![h] = NewSettings]

\* The flags are left as they are.
disconnectOutput(h) ==
    /\ mMainScreenPgrHandle' = IF mMainScreenPgrHandle = h THEN NoHandle
                                                           ELSE mMainScreenPgrHandle
    /\ pgr' = release(h)
    /\ UNCHANGED <<mIsOutputStarted, isClosedCaptionEnabled, mIsVod, resolution,
                   slips>>

\* connectOutput and setOptimalDisplayResolution: the mode is noted first,
\* without the mutex, and then set.
Note1080p ==
    /\ mIsVod
    /\ ~resolution.active
    /\ resolution.output = "user"
    /\ resolution' = [resolution EXCEPT !.active = TRUE]
    /\ UNCHANGED <<pgr, mMainScreenPgrHandle, mIsOutputStarted, isClosedCaptionEnabled,
                   mIsVod, slips>>

setDisplayResolution1080p ==
    /\ resolution' = [resolution EXCEPT !.output = "1080p"]
    /\ slips' = IF resolution.active THEN slips ELSE slips \cup {"resolution"}
    /\ UNCHANGED <<pgr, mMainScreenPgrHandle, mIsOutputStarted, isClosedCaptionEnabled,
                   mIsVod>>

------------------------------------------------------------------------------
(* What the user and the programme change *)

Change ==
    /\ changes < MaxChanges
    /\ changes' = changes + 1

\* settingChangedCB queues what it was told.
UserSetsSound(sound) ==
    /\ Change
    /\ sound # userSound
    /\ userSound' = sound
    /\ avQueue' = Append(avQueue, sound)
    /\ UNCHANGED avpm

\* The user's resolution, while the film's is active or not; or the user does
\* not see 1080p, or does.  How long these wait on the queue is not told apart
\* from when they are set.
UserSetsResolution ==
    /\ Change
    /\ \/ resolution' = [resolution EXCEPT !.output = "user"]
       \/ resolution.active /\ resolution' = BackToUser
    /\ UNCHANGED <<pgr, mMainScreenPgrHandle, mIsOutputStarted, isClosedCaptionEnabled,
                   mIsVod, slips, userSound, avQueue>>

\* By the services, without the mutex.
UserSetsCaptions(on) ==
    /\ Change
    /\ on # isClosedCaptionEnabled
    /\ setCc(on)
    /\ UNCHANGED <<mMainScreenPgrHandle, mIsOutputStarted, mIsVod, resolution,
                   slips, userSound, avQueue>>

------------------------------------------------------------------------------
(* The event thread *)

\* MasterMute and setMasterVolume, of one handle; the others go without.
MasterMute(h, sound) ==
    [t \in Handles |->
       IF t = h THEN [pgr[t] EXCEPT !.sound = sound]
                ELSE [pgr[t] EXCEPT !.missed = (@ \/ pgr[t].sound \notin {"unset", sound})]]

\* Of the handle that is main by now.
AvpmThread ==
    /\ avQueue # <<>>
    /\ avQueue' = Tail(avQueue)
    /\ pgr' = MasterMute(mMainScreenPgrHandle, Head(avQueue))
    /\ UNCHANGED <<mMainScreenPgrHandle, mIsOutputStarted, isClosedCaptionEnabled, mIsVod,
                   resolution, slips, userSound, changes>>

UserChanges ==
    \/ \E sound \in Sounds : UserSetsSound(sound)
    \/ UserSetsResolution
    \/ \E on \in BOOLEAN : UserSetsCaptions(on)

AvpmTypeOK ==
    /\ pgr \in [Handles -> [audioFocus : {"unset", "main", "pip"}, shown : BOOLEAN,
                            cc : BOOLEAN, sound : Sounds \cup {"unset"}, missed : BOOLEAN]]
    /\ mMainScreenPgrHandle \in Handles \cup {NoHandle}
    /\ mIsOutputStarted \in [main : BOOLEAN, pip : BOOLEAN]
    /\ isClosedCaptionEnabled \in BOOLEAN
    /\ mIsVod \in BOOLEAN
    /\ resolution \in [output : {"user", "1080p"}, active : BOOLEAN]
    /\ userSound \in Sounds
    /\ changes \in 0..MaxChanges
    /\ slips \subseteq {"resolution"}

==============================================================================
