------------------------------- MODULE EasAudio -------------------------------
(***************************************************************************)
(* Emergency alert (EAS) audio and the audio of the programme share the    *)
(* one audio decoder of the box.  Four parties take part:                  *)
(*   - the EAS client, and AudioPlayer (audioPlayer.cpp) with its thread;  *)
(*   - the event thread of IMediaPlayer, which stops the audio in focus,   *)
(*     starts the clip, and restarts the audio;                            *)
(*   - each session's Zapper, whose own thread opens and closes its        *)
(*     DisplaySession as tables and tuners come and go;                    *)
(*   - the platform, which tells when the clip is done.                    *)
(*                                                                         *)
(* A call of the API and a handler of the player's event thread exclude    *)
(* each other (the player mutex), the handlers of the other threads do     *)
(* not: what the player's thread does to several controllers is several    *)
(* steps here.  The flag mEasAudioActive stands for that of the player and *)
(* of every controller, which agree (module MediaPlayer).                  *)
(***************************************************************************)
EXTENDS Naturals, Sequences, SequencesExt

CONSTANTS Sessions,       \* sessions with a Zapper
          StopsAnytime    \* whether the EAS client calls Stop while a start
                          \* of the clip is on its way

ASSUME StopsAssumption == StopsAnytime \in BOOLEAN

VARIABLES mEnaAudio,        \* per session: HasAudioFocus
          enaAudio,         \* per controller: enaAudio, its display's mAudioFocus
          display,          \* per controller: its DisplaySession
          decodes,          \* per controller: its media handle decodes audio
          mEasAudioActive,
          playerQueue,      \* the EAS events on the player's queue
          playerAt,         \* where the player's event thread is
          easClient,        \* what the EAS client knows of its session
          currentState,     \* AudioPlayer's
          apQueue,          \* AudioPlayer's events
          timer,            \* the repeat timer runs
          clip              \* the platform plays the clip

focus == <<mEnaAudio, enaAudio>>
programmes == <<focus, display, decodes>>
player == <<mEasAudioActive, playerQueue, playerAt>>
alert == <<easClient, currentState, apQueue, timer, clip>>
vars == <<programmes, player, alert>>

Init ==
    /\ mEnaAudio = [s \in Sessions |-> FALSE]
    /\ enaAudio = [s \in Sessions |-> FALSE]
    /\ display = [s \in Sessions |-> "closed"]
    /\ decodes = [s \in Sessions |-> FALSE]
    /\ mEasAudioActive = FALSE
    /\ playerQueue = <<>>
    /\ playerAt = "pop"
    /\ easClient = "ejected"
    /\ currentState = "None"
    /\ apQueue = <<>>
    /\ timer = FALSE
    /\ clip = FALSE

\* The player mutex is free.
MutexFree == playerAt = "pop" /\ easClient # "ejecting"

------------------------------------------------------------------------------
(* The sessions of the programmes *)

\* Focus is given to one session at a time, before it plays.
SetPresentationParams(s, enable) ==
    /\ MutexFree
    /\ display[s] = "closed"
    /\ enable => \A t \in Sessions \ {s} : ~mEnaAudio[t]
    /\ mEnaAudio' = [mEnaAudio EXCEPT ![s] = enable]
    /\ enaAudio' = [enaAudio EXCEPT ![s] = enable]
    /\ UNCHANGED <<display, decodes, player, alert>>

Play(s) ==
    /\ MutexFree
    /\ display[s] = "closed"
    /\ display' = [display EXCEPT ![s] = "tuning"]
    /\ UNCHANGED <<focus, decodes, player, alert>>

\* Stop takes the focus from the session, and leaves it to the controller.
StopProgramme(s) ==
    /\ MutexFree
    /\ display' = [display EXCEPT ![s] = "closed"]
    /\ decodes' = [decodes EXCEPT ![s] = FALSE]
    /\ mEnaAudio' = [mEnaAudio EXCEPT ![s] = FALSE]
    /\ UNCHANGED <<enaAudio, player, alert>>

\* Mutant: the decoder flag is not adjusted.
StartDisplayUnadjusted(s) ==
    /\ display[s] # "closed"
    /\ display' = [display EXCEPT ![s] = "started"]
    /\ decodes' = [decodes EXCEPT ![s] = enaAudio[s]]
    /\ UNCHANGED <<focus, player, alert>>

\* The Zapper has its tables, or new ones: a display session is opened in
\* place of the one before, with the decoder flag adjusted for EAS.  The
\* decoders may not start, or the output not connect: StartedIncomplete.
StartDisplaySession(s) ==
    /\ display[s] # "closed"
    /\ \E audio \in {enaAudio[s] /\ ~mEasAudioActive, FALSE} :
         /\ decodes' = [decodes EXCEPT ![s] = audio]
         /\ \E state \in {"started", "incomplete"} :
              /\ state = "started" => audio = (enaAudio[s] /\ ~mEasAudioActive)
              /\ display' = [display EXCEPT ![s] = state]
    /\ UNCHANGED <<focus, player, alert>>

\* The tuner or the service is lost for a while.
CloseDisplaySession(s) ==
    /\ display[s] \in {"started", "incomplete"}
    /\ display' = [display EXCEPT ![s] = "tuning"]
    /\ decodes' = [decodes EXCEPT ![s] = FALSE]
    /\ UNCHANGED <<focus, player, alert>>

------------------------------------------------------------------------------
(* The EAS client *)

\* A start of the clip is on its way, in one of the queues.
StartComing ==
    \/ "PlaySource" \in Range(apQueue)
    \/ "Timer" \in Range(apQueue) /\ currentState = "Delay"
    \/ "StopPrimAudioAndStartEas" \in Range(playerQueue)

\* A new AudioPlayer, or the one at hand.
EasLoad ==
    /\ MutexFree
    /\ easClient \in {"ejected", "over"}
    /\ easClient' = "loading"
    /\ currentState' = IF easClient = "ejected" THEN "Idle" ELSE currentState
    /\ apQueue' = Append(apQueue, "PrepareSource")
    /\ UNCHANGED <<programmes, player, timer, clip>>

EasPlay ==
    /\ MutexFree
    /\ easClient = "loaded"
    /\ easClient' = "playing"
    /\ apQueue' = Append(apQueue, "PlaySource")
    /\ UNCHANGED <<programmes, player, currentState, timer, clip>>

\* While the clip plays its buffers are flushed, and the platform answers;
\* otherwise there is nothing to wait for.
EasStop ==
    /\ MutexFree
    /\ easClient \in {"loaded", "playing"}
    /\ StopsAnytime \/ ~StartComing
    /\ IF currentState = "PlaySource"
         THEN currentState' = "Stopping" /\ easClient' = "stopping"
         ELSE currentState' = "Stopped" /\ easClient' = "over"
    /\ UNCHANGED <<programmes, player, apQueue, timer, clip>>

\* Ejected once the session is over.  The player mutex is kept while the thread
\* works off its queue and exits.
EasEject ==
    /\ MutexFree
    /\ easClient = "over"
    /\ easClient' = "ejecting"
    /\ mEasAudioActive' = FALSE
    /\ UNCHANGED <<programmes, playerQueue, playerAt, currentState, apQueue, timer, clip>>

------------------------------------------------------------------------------
(* AudioPlayer's thread: one event, under its mutex *)

PopAudioEvent(e) ==
    /\ apQueue # <<>>
    /\ Head(apQueue) = e
    /\ apQueue' = Tail(apQueue)

\* The client is told ServiceLoaded, or Problem.
enterPrepareSourceState ==
    /\ PopAudioEvent("PrepareSource")
    /\ \/ currentState' = "PrepareSource" /\ easClient' = "loaded"
       \/ currentState' = "Error" /\ easClient' = "over"
    /\ UNCHANGED <<programmes, player, timer, clip>>

stopPrimaryAudioAndStartEasAudio ==
    playerQueue' = Append(playerQueue, "StopPrimAudioAndStartEas")

restartPrimaryAudio == playerQueue' = Append(playerQueue, "StartPrimAudio")

enterPlaySourceState ==
    /\ PopAudioEvent("PlaySource")
    /\ stopPrimaryAudioAndStartEasAudio
    /\ UNCHANGED <<programmes, mEasAudioActive, playerAt, easClient, currentState,
                   timer, clip>>

processTimerEvent ==
    /\ PopAudioEvent("Timer")
    /\ timer' = FALSE
    /\ IF currentState = "Delay" THEN stopPrimaryAudioAndStartEasAudio
                                 ELSE UNCHANGED playerQueue
    /\ UNCHANGED <<programmes, mEasAudioActive, playerAt, easClient, currentState, clip>>

\* Mutant: the client that waits is not the one that is served.
processAudioEventStopFirst ==
    /\ PopAudioEvent("BufferCmplt")
    /\ currentState' = IF currentState = "Stopping" THEN "None" ELSE "Delay"
    /\ UNCHANGED <<programmes, mEasAudioActive, playerQueue, playerAt, easClient,
                   timer, clip>>

\* The clip is done.  It is repeated after a while, unless it was stopped.
processAudioEvent ==
    /\ PopAudioEvent("BufferCmplt")
    /\ \/ /\ currentState = "PlaySource"
          /\ currentState' = "Delay"
          /\ timer' = TRUE
          /\ restartPrimaryAudio
          /\ UNCHANGED easClient
       \/ /\ currentState = "Stopping"
          /\ currentState' = "Stopped"
          /\ easClient' = "over"
          /\ restartPrimaryAudio
          /\ UNCHANGED timer
       \/ /\ currentState \notin {"PlaySource", "Stopping"}
          /\ UNCHANGED <<currentState, timer, playerQueue, easClient>>
    /\ UNCHANGED <<programmes, mEasAudioActive, playerAt, clip>>

\* The exit event; then the AudioPlayer is deleted, and its timer cancelled.
ExitThread ==
    /\ easClient = "ejecting"
    /\ apQueue = <<>>
    /\ easClient' = "ejected"
    /\ currentState' = "None"
    /\ timer' = FALSE
    /\ clip' = FALSE
    /\ UNCHANGED <<programmes, player, apQueue>>

\* What comes behind the exit event is never taken.
timerCallback ==
    /\ timer
    /\ easClient # "ejecting"
    /\ "Timer" \notin Range(apQueue)
    /\ apQueue' = Append(apQueue, "Timer")
    /\ UNCHANGED <<programmes, player, easClient, currentState, timer, clip>>

\* The clip is at its end, or flushed.
audioCallback ==
    /\ clip
    /\ easClient # "ejecting"
    /\ clip' = FALSE
    /\ apQueue' = Append(apQueue, "BufferCmplt")
    /\ UNCHANGED <<programmes, player, easClient, currentState, timer>>

------------------------------------------------------------------------------
(* The player's event thread *)

popEventQueue(e) ==
    /\ MutexFree
    /\ playerQueue # <<>>
    /\ Head(playerQueue) = e
    /\ playerQueue' = Tail(playerQueue)

InFocus == {s \in Sessions : mEnaAudio[s]}

\* DisplaySession::StopAudio and RestartAudio: only where it has started.
SetAudio(on) ==
    decodes' = [s \in Sessions |->
                  IF s \in InFocus /\ enaAudio[s] /\ display[s] = "started"
                    THEN on ELSE decodes[s]]

\* SetEasAudioActive comes first: what opens from now on leaves the decoder alone.
ProcessStopInFocusAudioAndStartEasAudio ==
    /\ popEventQueue("StopPrimAudioAndStartEas")
    /\ mEasAudioActive' = TRUE
    /\ playerAt' = "stopaudio"
    /\ UNCHANGED <<programmes, alert>>

StopAudio ==
    /\ playerAt = "stopaudio"
    /\ SetAudio(FALSE)
    /\ playerAt' = "starteas"
    /\ UNCHANGED <<focus, display, mEasAudioActive, playerQueue, alert>>

\* Mutant: the audio is not given back when the clip does not start.
startEasAudioOrNothing ==
    /\ playerAt = "starteas"
    /\ playerAt' = "pop"
    /\ \/ currentState # "None" /\ currentState' = "PlaySource" /\ clip' = TRUE
       \/ currentState # "None" /\ currentState' = "Error" /\ UNCHANGED clip
       \/ currentState = "None" /\ UNCHANGED <<currentState, clip>>
    /\ UNCHANGED <<programmes, mEasAudioActive, playerQueue, easClient, apQueue, timer>>

\* In the controller of the EAS session, if it still has one.  The platform may
\* refuse the decoder or the buffer, which Stop has freed.
startEasAudio ==
    /\ playerAt = "starteas"
    /\ playerAt' = "pop"
    /\ \/ /\ currentState # "None"
          /\ currentState' = "PlaySource"
          /\ clip' = TRUE
          /\ UNCHANGED <<playerQueue, easClient>>
       \/ /\ currentState # "None"
          /\ currentState' = "Error"
          /\ restartPrimaryAudio
          /\ easClient' = IF easClient = "playing" THEN "over" ELSE easClient
          /\ UNCHANGED clip
       \/ /\ currentState = "None"
          /\ UNCHANGED <<currentState, clip, playerQueue, easClient>>
    /\ UNCHANGED <<programmes, mEasAudioActive, apQueue, timer>>

\* Mutant: the flag is not taken back, only Eject does.
ProcessRestartAudioOnly ==
    /\ popEventQueue("StartPrimAudio")
    /\ playerAt' = "restart"
    /\ UNCHANGED <<programmes, mEasAudioActive, alert>>

ProcessRestartInFocusAudio ==
    /\ popEventQueue("StartPrimAudio")
    /\ mEasAudioActive' = FALSE
    /\ playerAt' = "restart"
    /\ UNCHANGED <<programmes, alert>>

RestartAudio ==
    /\ playerAt = "restart"
    /\ SetAudio(TRUE)
    /\ playerAt' = "pop"
    /\ UNCHANGED <<focus, display, mEasAudioActive, playerQueue, alert>>

------------------------------------------------------------------------------
Programme(s) ==
    \/ \E enable \in BOOLEAN : SetPresentationParams(s, enable)
    \/ Play(s)
    \/ StopProgramme(s)
    \/ StartDisplaySession(s)
    \/ CloseDisplaySession(s)

EasClient == EasLoad \/ EasPlay \/ EasStop \/ EasEject

threadFunction ==
    \/ enterPrepareSourceState
    \/ enterPlaySourceState
    \/ processTimerEvent
    \/ processAudioEvent
    \/ ExitThread

eventThreadFunc ==
    \/ ProcessStopInFocusAudioAndStartEasAudio
    \/ StopAudio
    \/ startEasAudio
    \/ ProcessRestartInFocusAudio
    \/ RestartAudio

Next ==
    \/ \E s \in Sessions : Programme(s)
    \/ EasClient
    \/ threadFunction
    \/ eventThreadFunc
    \/ timerCallback
    \/ audioCallback

\* Both threads take their events; a clip comes to its end.
Spec == /\ Init /\ [][Next]_vars
        /\ WF_vars(threadFunction)
        /\ WF_vars(eventThreadFunc)
        /\ WF_vars(audioCallback)

------------------------------------------------------------------------------
(* Properties *)

TypeOK ==
    /\ mEnaAudio \in [Sessions -> BOOLEAN]
    /\ enaAudio \in [Sessions -> BOOLEAN]
    /\ display \in [Sessions -> {"closed", "tuning", "started", "incomplete"}]
    /\ decodes \in [Sessions -> BOOLEAN]
    /\ mEasAudioActive \in BOOLEAN
    /\ playerQueue \in Seq({"StopPrimAudioAndStartEas", "StartPrimAudio"})
    /\ playerAt \in {"pop", "stopaudio", "starteas", "restart"}
    /\ easClient \in {"ejected", "loading", "loaded", "playing", "stopping", "over",
                      "ejecting"}
    /\ currentState \in {"None", "Idle", "PrepareSource", "PlaySource", "Delay",
                         "Stopping", "Stopped", "Error"}
    /\ currentState = "None" <=> easClient = "ejected"
    /\ apQueue \in Seq({"PrepareSource", "PlaySource", "Timer", "BufferCmplt"})
    /\ timer \in BOOLEAN
    /\ clip \in BOOLEAN

EasPlays == currentState \in {"PlaySource", "Stopping"}

\* The one audio decoder: while the clip plays, no session in focus whose
\* display has started decodes audio, though it may be opened, closed and
\* opened again all the while (DisplaySession.cpp:2177, "it must refrain from
\* using the audio decoder if EAS audio is active").
InFocusAudioIsSilent ==
    EasPlays =>
        \A s \in InFocus : display[s] = "started" => ~decodes[s]

\* Where EAS audio is not active, and no restart is on its way, the session in
\* focus has its audio, wherever its display was when the alert came and went
\* (IMediaPlayer.cpp:2270).
AudioIsGivenBack ==
    ~mEasAudioActive /\ playerAt = "pop" /\ "StartPrimAudio" \notin Range(playerQueue)
        => \A s \in InFocus :
              display[s] = "started" => decodes[s]

\* EAS audio does not stay active: every clip that starts, or fails to, ends,
\* for each of its repeats (AudioPlayer::completeAudioTeardown, startEasAudio).
EasAudioEnds == mEasAudioActive ~> ~mEasAudioActive

\* Both, at every moment: an alert passes, and leaves no silence behind.
AlertPasses == [](AudioIsGivenBack /\ EasAudioEnds)

\* Once Stop has returned, or the client was told that the presentation has
\* terminated, the programme is not silenced for the clip again ("Stop audio
\* playback and restore normal audio", audioPlayer.cpp:209).
StopIsFinal ==
    [][mEasAudioActive' /\ ~mEasAudioActive =>
         easClient \notin {"over", "ejecting", "ejected"}]_vars

==============================================================================
