----------------------------- MODULE MediaPlayer -----------------------------
(***************************************************************************)
(* IMediaPlayer (IMediaPlayer.cpp): the table of sessions, the controller  *)
(* each session owns, the copy control (CCI) of each session and the one   *)
(* the box applies, and the flag that EAS audio is active.                 *)
(*                                                                         *)
(* Every API call runs from end to end under the recursive player mutex,   *)
(* so that a call is one action (module PlayerLocks has the calls lock by  *)
(* lock).  Controllers cannot take that mutex in their own threads: they   *)
(* post events, and the player's event thread handles them later, in       *)
(* order, when the session may have changed or be gone.  A session is its  *)
(* address: one that was freed may be given to the next session.           *)
(***************************************************************************)
EXTENDS Naturals, Sequences, SequencesExt

CONSTANTS Sessions,          \* addresses of IMediaPlayerSession objects
          Urls,              \* service URLs
          ControllerType,    \* MediaControllerClassFactory::GetControllerType
          Files,             \* recordings: avfs:// and mrdvr:// URLs
          CABytes,           \* the emi of the CCI bytes that the CA gives
          None,
          MaxEvents          \* bound: events pending on the player's queue

COPY_FREELY  == 0
COPY_NO_MORE == 1
COPY_ONCE    == 2
COPY_NEVER   == 3
Emis == {COPY_FREELY, COPY_NO_MORE, COPY_ONCE, COPY_NEVER}

\* DEFAULT_RESTRICTIVE_CCI is 0x0B: its emi bits are COPY_NEVER.
DEFAULT_RESTRICTIVE_CCI == COPY_NEVER

\* A controller of these types is never given a second service.
LoadedOnce == {"Vod", "Mrdvr", "HnOnDemandStreamer"}
ControllerTypes == {"Zapper", "Dvr", "Audio", "Unknown"} \cup LoadedOnce

ASSUME UrlsAssumption == /\ ControllerType \in [Urls -> ControllerTypes]
                         /\ Files \subseteq Urls
ASSUME BytesAssumption == CABytes \subseteq Emis
ASSUME BoundAssumption == MaxEvents \in Nat

Controllers == [type : ControllerTypes \ {"Unknown"},
                url : Urls \cup {None},   \* GetSourceURL
                playing : BOOLEAN,        \* Play was called: mDestUrl # ""
                recording : BOOLEAN,      \* isLiveRecording
                background : BOOLEAN,     \* isBackground
                eas : BOOLEAN]            \* mEasAudioActive

ASSUME NoneAssumption ==
    None \notin Urls /\ None \notin Sessions /\ None \notin Emis /\ None \notin Controllers

Events == [type : {"CCIUpdated"}, session : Sessions, cci : Emis]
            \cup [type : {"StopPrimAudioAndStartEas"}, session : Sessions]
            \cup [type : {"StartPrimAudio"}]

VARIABLES mSessionList,      \* the registered sessions, in order of creation
          mController,       \* the controller of each session, or None
          mCCI,              \* the emi of each session's CCI byte
          masterCCI,         \* what Avpm::SetCCIBits was given last
          mEasAudioActive,
          threadEventQueue,
          lastCCI            \* history: the last CCI byte the CA gave for
                             \* each session since its last Load, or None

vars == <<mSessionList, mController, mCCI, masterCCI, mEasAudioActive,
          threadEventQueue, lastCCI>>

Init ==
    /\ mSessionList = <<>>
    /\ mController = [s \in Sessions |-> None]
    /\ mCCI = [s \in Sessions |-> COPY_FREELY]
    /\ masterCCI = [emi |-> COPY_FREELY, soc |-> FALSE]
    /\ mEasAudioActive = FALSE
    /\ threadEventQueue = <<>>
    /\ lastCCI = [s \in Sessions |-> None]

IsSessionRegistered(s) == s \in Range(mSessionList)

isRecordingPlayback(c) ==
    c.type = "Mrdvr" \/ (c.type = "Dvr" /\ c.url \in Files)

Foreground(c) == c # None /\ ~c.background

------------------------------------------------------------------------------
(* The copy control of the box *)

\* The highest of the values, none of them below floor.
EmiMax(floor, emis) ==
    CHOOSE e \in emis \cup {floor} : \A f \in emis \cup {floor} : f <= e

\* Mutant: only the last session in the foreground counts.
updateCCILast(list, ctrl, cci) ==
    LET last == {i \in 1..Len(list) :
                    /\ Foreground(ctrl[list[i]])
                    /\ \A j \in i + 1..Len(list) : ~Foreground(ctrl[list[j]])}
    IN  [emi |-> EmiMax(COPY_FREELY, {cci[list[i]] : i \in last}),
         soc |-> \E i \in last : cci[list[i]] = COPY_NO_MORE]

\* updateCCI goes through the list: a COPY_ONCE recording sets COPY_NO_MORE,
\* whatever the sessions before it asked for, and the others raise the value.
updateCCI(list, ctrl, cci) ==
    LET foreground == {i \in 1..Len(list) : Foreground(ctrl[list[i]])}
        sets == {i \in foreground :
                    cci[list[i]] = COPY_ONCE /\ isRecordingPlayback(ctrl[list[i]])}
        raises == {i \in foreground \ sets : \A j \in sets : j < i}
    IN  [emi |-> EmiMax(IF sets = {} THEN COPY_FREELY ELSE COPY_NO_MORE,
                        {cci[list[i]] : i \in raises}),
         soc |-> \E i \in foreground : cci[list[i]] = COPY_NO_MORE]

\* Mutant: a byte for a session in the background is dropped.
ProcessCCIForegroundOnly(s, byte, ctrl) ==
    IF Foreground(ctrl[s])
      THEN /\ mCCI' = [mCCI EXCEPT ![s] = byte]
           /\ masterCCI' = updateCCI(mSessionList, ctrl, mCCI')
      ELSE UNCHANGED <<mCCI, masterCCI>>

\* ProcessCCIUpdated on a registered session, with the controllers as ctrl.
ProcessCCIUpdated(s, byte, ctrl) ==
    IF ctrl[s] = None
      THEN UNCHANGED <<mCCI, masterCCI>>
      ELSE /\ mCCI' = [mCCI EXCEPT ![s] = byte]
           /\ masterCCI' = IF Foreground(ctrl[s])
                             THEN updateCCI(mSessionList, ctrl, mCCI')
                             ELSE masterCCI

\* SetEasAudioActive: the flag of the player and of every controller.
WithEasAudio(ctrl, active) ==
    [s \in Sessions |->
        IF IsSessionRegistered(s) /\ ctrl[s] # None
          THEN [ctrl[s] EXCEPT !.eas = active] ELSE ctrl[s]]

------------------------------------------------------------------------------
(* The API of the player *)

\* The session object is new, even where its address is not.
IMediaPlayerSession_Create(s) ==
    /\ ~IsSessionRegistered(s)
    /\ mSessionList' = Append(mSessionList, s)
    /\ UNCHANGED <<mController, mCCI, masterCCI, mEasAudioActive,
                   threadEventQueue, lastCCI>>

\* Mutant: the controller outlives its session.
DestroySessionOnly(s) ==
    /\ IsSessionRegistered(s)
    /\ mSessionList' =
         RemoveAt(mSessionList,
                  CHOOSE i \in 1..Len(mSessionList) : mSessionList[i] = s)
    /\ UNCHANGED <<mController, mCCI, masterCCI, mEasAudioActive,
                   threadEventQueue, lastCCI>>

\* Deletes the session with its controller, whatever the controller does.
IMediaPlayerSession_Destroy(s) ==
    /\ IsSessionRegistered(s)
    /\ mSessionList' =
         RemoveAt(mSessionList,
                  CHOOSE i \in 1..Len(mSessionList) : mSessionList[i] = s)
    /\ mController' = [mController EXCEPT ![s] = None]
    /\ mCCI' = [mCCI EXCEPT ![s] = COPY_FREELY]
    /\ lastCCI' = [lastCCI EXCEPT ![s] = None]
    /\ UNCHANGED <<masterCCI, mEasAudioActive, threadEventQueue>>

\* Mutant: a new controller is not told that EAS audio is active.
NewControllerUntold(type) ==
    [type |-> type, url |-> None, playing |-> FALSE, recording |-> FALSE,
     background |-> FALSE, eas |-> FALSE]

NewController(type) ==
    [type |-> type, url |-> None, playing |-> FALSE, recording |-> FALSE,
     background |-> FALSE, eas |-> mEasAudioActive]

\* The type of controller that the session's service asked for, if any.
OldControllerType(c) ==
    IF c = None THEN "Unknown"
    ELSE IF c.url = None THEN "Unknown" ELSE ControllerType[c.url]

\* A controller serves the next service of its type.
Reusable(c, u) ==
    ControllerType[u] = OldControllerType(c) /\ ControllerType[u] \notin LoadedOnce

\* The controllers once Load has found or made the one for u.
ControllerFor(s, u) ==
    IF Reusable(mController[s], u) THEN mController
    ELSE [mController EXCEPT
            ![s] = IF ControllerType[u] = "Unknown" THEN None
                   ELSE NewController(ControllerType[u])]

\* No controller knows the scheme of the URL: Error_InvalidURL.
LoadInvalidURL(s, u) ==
    /\ IsSessionRegistered(s)
    /\ ControllerFor(s, u)[s] = None
    /\ mController' = ControllerFor(s, u)
    /\ lastCCI' = [lastCCI EXCEPT ![s] = None]
    /\ UNCHANGED <<mSessionList, mCCI, masterCCI, mEasAudioActive,
                   threadEventQueue>>

\* The tuners are taken: the controller stays attached, and is not loaded.
LoadConflict(s, u) ==
    /\ IsSessionRegistered(s)
    /\ ControllerFor(s, u)[s] # None
    /\ mController' = ControllerFor(s, u)
    /\ lastCCI' = IF Reusable(mController[s], u) THEN lastCCI
                  ELSE [lastCCI EXCEPT ![s] = None]
    /\ UNCHANGED <<mSessionList, mCCI, masterCCI, mEasAudioActive,
                   threadEventQueue>>

\* A controller that plays or records may refuse (OutOfState), and refuses a
\* URL it does not know; the default byte is applied to the session all the same.
IMediaPlayerSession_Load(s, u) ==
    /\ IsSessionRegistered(s)
    /\ ControllerFor(s, u)[s] # None
    /\ LET ctrl == ControllerFor(s, u)
           busy == ctrl[s].playing \/ ctrl[s].recording
           byte == IF u \in Files THEN DEFAULT_RESTRICTIVE_CCI ELSE COPY_FREELY
       IN  /\ \E loads \in {ControllerType[u] # "Unknown", FALSE} :
                /\ loads \/ busy \/ ControllerType[u] = "Unknown"
                /\ mController' = IF loads THEN [ctrl EXCEPT ![s].url = u] ELSE ctrl
           /\ ProcessCCIUpdated(s, byte, mController')
           /\ lastCCI' = [lastCCI EXCEPT ![s] = None]
    /\ UNCHANGED <<mSessionList, mEasAudioActive, threadEventQueue>>

IMediaPlayerSession_Eject(s) ==
    /\ IsSessionRegistered(s)
    /\ mCCI' = [mCCI EXCEPT ![s] = COPY_FREELY]
    /\ LET c == mController[s]
           easEnds == c # None /\ c.url # None /\ ControllerType[c.url] = "Audio"
           ctrl == IF easEnds THEN WithEasAudio(mController, FALSE)
                   ELSE mController
       IN  /\ mEasAudioActive' = (mEasAudioActive /\ ~easEnds)
           /\ mController' = [ctrl EXCEPT ![s] = None]
           /\ masterCCI' = IF Foreground(c)
                             THEN updateCCI(mSessionList, mController', mCCI')
                             ELSE masterCCI
    /\ lastCCI' = [lastCCI EXCEPT ![s] = None]
    /\ UNCHANGED <<mSessionList, threadEventQueue>>

\* A Dvr in the background comes to the foreground.  An output URL that is not
\* a decoder is refused (InvalidParameter), but remembered.
IMediaPlayerSession_Play(s, decoder) ==
    /\ IsSessionRegistered(s)
    /\ mController[s] # None
    /\ mController[s].url # None
    /\ decoder \/ mController[s].type = "Dvr"
    /\ mController' = [mController EXCEPT ![s].playing = TRUE,
                                          ![s].background = @ /\ ~decoder]
    /\ UNCHANGED <<mSessionList, mCCI, masterCCI, mEasAudioActive,
                   threadEventQueue, lastCCI>>

\* Only a Dvr with a live source records; in the background if nothing plays.
IMediaPlayerSession_PersistentRecord(s) ==
    /\ IsSessionRegistered(s)
    /\ LET c == mController[s]
       IN  /\ c # None
           /\ c.type = "Dvr" /\ c.url # None /\ c.url \notin Files
           /\ mController' = [mController EXCEPT
                                ![s].recording = TRUE,
                                ![s].background = @ \/ ~c.playing]
    /\ UNCHANGED <<mSessionList, mCCI, masterCCI, mEasAudioActive,
                   threadEventQueue, lastCCI>>

\* A Dvr that still records when playing stops goes to the background.
IMediaPlayerSession_Stop(s, stopPlay, stopPersistentRecord) ==
    /\ IsSessionRegistered(s)
    /\ mController[s] # None
    /\ mController' = [mController EXCEPT
         ![s].recording = @ /\ ~stopPersistentRecord,
         ![s].playing = @ /\ ~stopPlay,
         ![s].background =
             @ \/ (stopPlay /\ mController[s].recording /\ ~stopPersistentRecord)]
    /\ UNCHANGED <<mSessionList, mCCI, masterCCI, mEasAudioActive,
                   threadEventQueue, lastCCI>>

------------------------------------------------------------------------------
(* The threads of the controllers *)

queueEvent(e) ==
    /\ Len(threadEventQueue) < MaxEvents
    /\ threadEventQueue' = Append(threadEventQueue, e)

\* The CA tells the CCI of what a controller plays or records.
CCIUpdated(s, byte) ==
    /\ mController[s] # None
    /\ mController[s].playing \/ mController[s].recording
    /\ queueEvent([type |-> "CCIUpdated", session |-> s, cci |-> byte])
    /\ lastCCI' = [lastCCI EXCEPT ![s] = byte]
    /\ UNCHANGED <<mSessionList, mController, mCCI, masterCCI, mEasAudioActive>>

\* The EAS audio player is about to play, or is done.
StopInFocusAudioAndStartEasAudio(s) ==
    /\ mController[s] # None
    /\ mController[s].type = "Audio" /\ mController[s].playing
    /\ queueEvent([type |-> "StopPrimAudioAndStartEas", session |-> s])
    /\ UNCHANGED <<mSessionList, mController, mCCI, masterCCI, mEasAudioActive,
                   lastCCI>>

RestartInFocusAudio(s) ==
    /\ mController[s] # None
    /\ mController[s].type = "Audio"
    /\ queueEvent([type |-> "StartPrimAudio"])
    /\ UNCHANGED <<mSessionList, mController, mCCI, masterCCI, mEasAudioActive,
                   lastCCI>>

------------------------------------------------------------------------------
(* eventThreadFunc *)

popEventQueue(type) ==
    /\ threadEventQueue # <<>>
    /\ Head(threadEventQueue).type = type
    /\ threadEventQueue' = Tail(threadEventQueue)

HandleCCIUpdated ==
    /\ popEventQueue("CCIUpdated")
    /\ LET e == Head(threadEventQueue)
       IN  IF IsSessionRegistered(e.session)
             THEN ProcessCCIUpdated(e.session, e.cci, mController)
             ELSE UNCHANGED <<mCCI, masterCCI>>
    /\ UNCHANGED <<mSessionList, mController, mEasAudioActive, lastCCI>>

\* Which audio stops and starts is the matter of module EasAudio.
ProcessStopInFocusAudioAndStartEasAudio ==
    /\ popEventQueue("StopPrimAudioAndStartEas")
    /\ IF IsSessionRegistered(Head(threadEventQueue).session)
         THEN /\ mEasAudioActive' = TRUE
              /\ mController' = WithEasAudio(mController, TRUE)
         ELSE UNCHANGED <<mEasAudioActive, mController>>
    /\ UNCHANGED <<mSessionList, mCCI, masterCCI, lastCCI>>

ProcessRestartInFocusAudio ==
    /\ popEventQueue("StartPrimAudio")
    /\ mEasAudioActive' = FALSE
    /\ mController' = WithEasAudio(mController, FALSE)
    /\ UNCHANGED <<mSessionList, mCCI, masterCCI, lastCCI>>

------------------------------------------------------------------------------
Api(s) ==
    \/ IMediaPlayerSession_Create(s)
    \/ IMediaPlayerSession_Destroy(s)
    \/ \E u \in Urls :
         \/ LoadInvalidURL(s, u)
         \/ LoadConflict(s, u)
         \/ IMediaPlayerSession_Load(s, u)
    \/ IMediaPlayerSession_Eject(s)
    \/ \E decoder \in BOOLEAN : IMediaPlayerSession_Play(s, decoder)
    \/ IMediaPlayerSession_PersistentRecord(s)
    \/ \E play, record \in BOOLEAN : IMediaPlayerSession_Stop(s, play, record)

ControllerThreads(s) ==
    \/ \E byte \in CABytes : CCIUpdated(s, byte)
    \/ StopInFocusAudioAndStartEasAudio(s)
    \/ RestartInFocusAudio(s)

EventThread ==
    \/ HandleCCIUpdated
    \/ ProcessStopInFocusAudioAndStartEasAudio
    \/ ProcessRestartInFocusAudio

Next ==
    \/ \E s \in Sessions : Api(s) \/ ControllerThreads(s)
    \/ EventThread

\* The event thread takes every event it is given.
Spec == Init /\ [][Next]_vars /\ WF_vars(EventThread)

------------------------------------------------------------------------------
(* Properties *)

TypeOK ==
    /\ mSessionList \in Seq(Sessions)
    /\ \A i, j \in 1..Len(mSessionList) :
          mSessionList[i] = mSessionList[j] => i = j
    /\ mController \in [Sessions -> Controllers \cup {None}]
    /\ \A s \in Sessions :
          ~IsSessionRegistered(s) => mController[s] = None /\ mCCI[s] = COPY_FREELY
    /\ mCCI \in [Sessions -> Emis]
    /\ masterCCI \in [emi : Emis, soc : BOOLEAN]
    /\ mEasAudioActive \in BOOLEAN
    /\ threadEventQueue \in Seq(Events)
    /\ lastCCI \in [Sessions -> Emis \cup {None}]

\* Every controller knows whether EAS audio is active, the ones made while it
\* was and the ones that were there before (IMediaPlayer.cpp:513, 2417).
EasAudioFlagsAgree ==
    \A s \in Sessions :
        mController[s] # None => mController[s].eas = mEasAudioActive

PendingCCI(s) ==
    \E i \in 1..Len(threadEventQueue) :
        /\ threadEventQueue[i].type = "CCIUpdated"
        /\ threadEventQueue[i].session = s

\* Whatever is in between, bytes of services that were ejected, conflicts,
\* sessions that come and go at the same address: once no byte for a session
\* is pending, the session has the last byte the CA gave since its Load.
\* "When the real callback comes, it will overwrite the default one"
\* (IMediaPlayer.cpp:550), for a session in the background too.
LastCCIWins ==
    \A s \in Sessions :
        lastCCI[s] # None /\ ~PendingCCI(s) => mCCI[s] = lastCCI[s]

ForegroundSessions ==
    {s \in Sessions : IsSessionRegistered(s) /\ Foreground(mController[s])}

\* A byte that changes a session in the foreground never leaves the box free
\* to copy, or without SOC, while a session in the foreground is not: the
\* other sessions count as well (IMediaPlayer.cpp:2070).
ChangeKeepsTheBoxRestricted ==
    [][\A s \in ForegroundSessions' :
         mCCI'[s] # mCCI[s] =>
            \A t \in ForegroundSessions' :
                /\ mCCI'[t] # COPY_FREELY => masterCCI'.emi # COPY_FREELY
                /\ mCCI'[t] = COPY_NO_MORE => masterCCI'.soc]_vars

\* A byte that changes a session in the foreground leaves the box at
\* COPY_NEVER if any session in the foreground is at COPY_NEVER ("Search for
\* most restrictive values", IMediaPlayer.cpp:1671).
MostRestrictiveIsApplied ==
    [][\A s \in ForegroundSessions' :
         mCCI'[s] # mCCI[s] =>
            \A t \in ForegroundSessions' :
                mCCI'[t] = COPY_NEVER => masterCCI'.emi = COPY_NEVER]_vars

==============================================================================
