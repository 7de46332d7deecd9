-------------------------------- MODULE Zapper -------------------------------
(***************************************************************************)
(* Zapper (zapper.cpp), the controller of live channels, with its tuner    *)
(* source (RFSource).  Five parties work on one Zapper:                    *)
(*   - the player's calls, with the Zapper's mutex held;                   *)
(*   - its event thread, which pops an event without the mutex and handles *)
(*     it with the mutex, so that a call may come in between;              *)
(*   - ResMon's answers, the SDV manager and the tuner, which call the     *)
(*     source on threads of their own, and it posts an event;              *)
(*   - Psi's thread, which posts when the tables are there or change;      *)
(*   - the platform, which tells of the first frame on the display.        *)
(* Pay per view, output authorization and audio languages are left out.    *)
(***************************************************************************)
EXTENDS RFSource, Sequences, SequencesExt

CONSTANTS MaxEvents,        \* bound: events on the queue
          MaxDisturbances   \* bound: calls of Play while playing, tuners denied,
                            \* revoked or locked again, SDV or table changes

ASSUME BoundsAssumption == MaxEvents \in Nat /\ MaxDisturbances \in Nat

States == {"Idle", "Stop", "WaitTuningParams", "WaitForTuner",
           "WaitSourceReady", "TunerLocked", "Rendering"}

Events == {"Exit", "Play", "TunerLocked", "RFAnalog", "PSIReady", "AnalogPSIReady",
           "PSIUpdate", "FirstFrame", "TuningUpdate", "TunerLost", "TunerRestored",
           "SDVLoaded", "SDVUnavailable"}

VARIABLES state,      \* eZapperState
          thread,     \* the event thread: none, running or exited
          queue,      \* threadEventQueue
          inHand,     \* the event popped, the mutex not taken yet
          mSource,    \* the source, NoSource for NULL
          psi,        \* psi or mPtrAnalogPsi
          display,    \* disp_session: none, open, its frames shown, or dark
                      \* when its decoders did not start
          client,     \* what the client has done, and was told of it
          told,       \* the client was told that the programme cannot come
          lost,       \* what was made and cannot be given back any more
          disturbed   \* disturbances so far

session == <<client, told>>
pipeline == <<psi, display>>
thr == <<thread, queue, inHand>>
vars == <<state, thr, mSource, pipeline, session, lost, disturbed>>

Init ==
    /\ state = "Idle"
    /\ thread = "none"
    /\ queue = <<>>
    /\ inHand = "none"
    /\ mSource = NoSource
    /\ psi = "none"
    /\ display = "none"
    /\ client = "none"
    /\ told = FALSE
    /\ lost = {}
    /\ disturbed = 0

\* The source is deleted; the tuner is lost if ResMon still has it for us.
Tuners(src) == IF src.tuner = "none" THEN {} ELSE {"tuner"}
LoseSource == lost' = lost \cup Tuners(delete(mSource))

\* What may come in between, a bounded number of times.
Disturbance ==
    /\ disturbed < MaxDisturbances
    /\ disturbed' = disturbed + 1

------------------------------------------------------------------------------
(* Calls of the player *)

\* A new source takes the place of the one before.  While the Zapper waits
\* for a tuner the new one is not loaded: the client is told of a problem.
Load(kind) ==
    /\ client # "ejecting"
    /\ state \in {"Idle", "Stop", "WaitForTuner"}
    /\ LoseSource
    /\ mSource' = IF state = "WaitForTuner" THEN NewSource(kind) ELSE load(NewSource(kind))
    /\ client' = "loaded"
    /\ \/ /\ state # "WaitForTuner"
          /\ told' = FALSE
          /\ thread' = "running"
          /\ state' = IF thread = "none" THEN "Stop" ELSE state
       \/ /\ told' = TRUE
          /\ UNCHANGED <<thread, state>>
    /\ UNCHANGED <<queue, inHand, pipeline, disturbed>>

Play ==
    /\ client \notin {"none", "ejecting"}
    /\ state \in {"Stop", "WaitSourceReady"}
    /\ Len(queue) < MaxEvents
    /\ IF client = "playing" THEN Disturbance ELSE UNCHANGED disturbed
    /\ queue' = Append(queue, "Play")
    /\ client' = "playing"
    /\ told' = FALSE
    /\ UNCHANGED <<state, thread, inHand, mSource, pipeline, lost>>

\* The source is left as it is.
Stop ==
    /\ client \notin {"none", "ejecting"}
    /\ display' = "none"
    /\ psi' = "none"
    /\ queue' = <<>>
    /\ state' = "Stop"
    /\ client' = "stopped"
    /\ UNCHANGED <<thread, inHand, mSource, told, lost, disturbed>>

\* Without a thread there is nothing to wait for, or to tear down.
Eject ==
    /\ client \notin {"none", "ejecting"}
    /\ client' = "ejecting"
    /\ IF thread = "running"
         THEN queue' = Append(queue, "Exit") /\ UNCHANGED thread
         ELSE thread' = "exited" /\ UNCHANGED queue
    /\ UNCHANGED <<state, inHand, mSource, pipeline, told, lost, disturbed>>

\* The thread is joined, the rest torn down, and the Zapper deleted.
tearDown ==
    /\ client = "ejecting"
    /\ thread = "exited"
    /\ LoseSource
    /\ mSource' = NoSource
    /\ state' = "Idle"
    /\ thread' = "none"
    /\ queue' = <<>>
    /\ psi' = "none"
    /\ display' = "none"
    /\ client' = "none"
    /\ told' = FALSE
    /\ UNCHANGED <<inHand, disturbed>>

------------------------------------------------------------------------------
(* The event thread *)

\* Mutant: the thread goes on after Exit.
popEventQueueAlways ==
    /\ inHand = "none"
    /\ queue # <<>>
    /\ inHand' = Head(queue)
    /\ queue' = Tail(queue)
    /\ UNCHANGED <<state, thread, mSource, pipeline, session, lost, disturbed>>

popEventQueue ==
    /\ thread = "running"
    /\ inHand = "none"
    /\ queue # <<>>
    /\ inHand' = Head(queue)
    /\ queue' = Tail(queue)
    /\ UNCHANGED <<state, thread, mSource, pipeline, session, lost, disturbed>>

\* The event in hand is handled: it is one of the given ones.
Handling(events) ==
    /\ inHand \in events
    /\ inHand' = "none"

queueEvent(e) == queue' = Append(queue, e)

HandleExit ==
    /\ Handling({"Exit"})
    /\ thread' = "exited"
    /\ UNCHANGED <<state, queue, mSource, pipeline, session, lost, disturbed>>

\* What start gives is not looked at.
HandlePlay ==
    /\ Handling({"Play"})
    /\ \E opened \in open(mSource) :
         \/ /\ opened.status = "Ok"
            /\ mSource' \in start(opened.src)
            /\ state' = "WaitSourceReady"
            /\ UNCHANGED told
         \/ /\ opened.status \in {"Loading", "WaitForTuner"}
            /\ mSource' = opened.src
            /\ state' = IF opened.status = "Loading" THEN "WaitTuningParams" ELSE "WaitForTuner"
            /\ UNCHANGED told
         \/ /\ opened.status \notin {"Ok", "Loading", "WaitForTuner"}
            /\ mSource' = opened.src
            /\ told' = TRUE
            /\ UNCHANGED state
    /\ UNCHANGED <<thread, queue, pipeline, client, lost, disturbed>>

\* psi is overwritten, whatever it was.
NewPsi(kind) ==
    /\ psi' = kind
    /\ lost' = lost \cup (IF psi = "none" THEN {} ELSE {"psi"})

HandleTunerLocked ==
    /\ Handling({"TunerLocked", "RFAnalog"})
    /\ IF state = "WaitSourceReady"
         THEN /\ state' = "TunerLocked"
              /\ IF inHand = "RFAnalog"
                   THEN NewPsi("analog") /\ queueEvent("AnalogPSIReady")
                   ELSE NewPsi("started") /\ UNCHANGED queue
         ELSE UNCHANGED <<state, psi, lost, queue>>
    /\ UNCHANGED <<thread, mSource, display, session, disturbed>>

\* In place of the display there may be.
StartDisplaySession == display' \in {"open", "dark"}

HandlePSIReady ==
    /\ Handling({"PSIReady", "AnalogPSIReady"})
    /\ IF state = "TunerLocked" THEN StartDisplaySession ELSE UNCHANGED display
    /\ UNCHANGED <<state, thread, queue, mSource, psi, session, lost, disturbed>>

HandlePSIUpdate ==
    /\ Handling({"PSIUpdate"})
    /\ IF state = "Rendering" THEN StartDisplaySession ELSE UNCHANGED display
    /\ UNCHANGED <<state, thread, queue, mSource, psi, session, lost, disturbed>>

HandleFirstFrame ==
    /\ Handling({"FirstFrame"})
    /\ state' = "Rendering"
    /\ UNCHANGED <<thread, queue, mSource, pipeline, session, lost, disturbed>>

\* The session is stopped, to be played again.
HandleTuningUpdate ==
    /\ Handling({"TuningUpdate"})
    /\ IF state \in {"Rendering", "WaitSourceReady", "TunerLocked"}
         THEN /\ display' = "none"
              /\ psi' = IF psi = "analog" THEN psi ELSE "none"
              /\ mSource' = shutdown(mSource)
              /\ state' = "Stop"
              /\ queueEvent("Play")
         ELSE UNCHANGED <<display, psi, mSource, state, queue>>
    /\ UNCHANGED <<thread, session, lost, disturbed>>

\* Mutant: the source is not shut down.
HandleTunerLostHolding ==
    /\ Handling({"TunerLost"})
    /\ display' = "none"
    /\ psi' = "none"
    /\ state' = "Stop"
    /\ UNCHANGED <<thread, queue, mSource, session, lost, disturbed>>

\* tearDownToRetune: the tuner goes back to ResMon.
HandleTunerLost ==
    /\ Handling({"TunerLost"})
    /\ display' = "none"
    /\ psi' = "none"
    /\ mSource' = shutdown(mSource)
    /\ state' = "Stop"
    /\ UNCHANGED <<thread, queue, session, lost, disturbed>>

\* Mutant: a Zapper that is stopped stays so.
HandleTunerRestoredUnlessStopped ==
    /\ Handling({"TunerRestored"})
    /\ IF state # "Stop" THEN queueEvent("Play") ELSE UNCHANGED queue
    /\ UNCHANGED <<state, thread, mSource, pipeline, session, lost, disturbed>>

HandleTunerRestored ==
    /\ Handling({"TunerRestored"})
    /\ queueEvent("Play")
    /\ UNCHANGED <<state, thread, mSource, pipeline, session, lost, disturbed>>

HandleSDVLoaded ==
    /\ Handling({"SDVLoaded"})
    /\ IF state # "Stop" THEN queueEvent("Play") ELSE UNCHANGED queue
    /\ UNCHANGED <<state, thread, mSource, pipeline, session, lost, disturbed>>

HandleSDVUnavailable ==
    /\ Handling({"SDVUnavailable"})
    /\ told' = (told \/ state # "Stop")
    /\ UNCHANGED <<state, thread, queue, mSource, pipeline, client, lost, disturbed>>

handleEvent ==
    \/ HandleExit
    \/ HandlePlay
    \/ HandleTunerLocked
    \/ HandlePSIReady
    \/ HandlePSIUpdate
    \/ HandleFirstFrame
    \/ HandleTuningUpdate
    \/ HandleTunerLost
    \/ HandleTunerRestored
    \/ HandleSDVLoaded
    \/ HandleSDVUnavailable

------------------------------------------------------------------------------
(* What the other threads post *)

Post(e) ==
    /\ client # "none"
    /\ Len(queue) < MaxEvents
    /\ queueEvent(e)

\* The tuner locks, once for each start if it is not disturbed.
ReportsLock == Post(IF mSource.kind = "analog" THEN "RFAnalog" ELSE "TunerLocked")

RFCallback ==
    /\ mSource.mStarted /\ mSource.loaded
    /\ ~mSource.locked
    /\ ReportsLock
    /\ mSource' = [mSource EXCEPT !.locked = TRUE]
    /\ UNCHANGED <<state, thread, inHand, pipeline, session, lost, disturbed>>

RFCallbackAgain ==
    /\ mSource.mStarted /\ mSource.loaded
    /\ mSource.locked
    /\ Disturbance
    /\ ReportsLock
    /\ UNCHANGED <<state, thread, inHand, mSource, pipeline, session, lost>>

ResMonGrants ==
    /\ CanGrant(mSource)
    /\ mSource' = grant(mSource)
    /\ UNCHANGED <<state, thr, pipeline, session, lost, disturbed>>

ResMonDenies ==
    /\ CanGrant(mSource)
    /\ Disturbance
    /\ mSource' = deny(mSource)
    /\ UNCHANGED <<state, thr, pipeline, session, lost>>

ResMonRevokes ==
    /\ CanRevoke(mSource)
    /\ Disturbance
    /\ mSource' = revoke(mSource)
    /\ UNCHANGED <<state, thr, pipeline, session, lost>>

ResMonTellsToRetry ==
    /\ CanTellToRetry(mSource)
    /\ mSource' = tellToRetry(mSource)
    /\ UNCHANGED <<state, thr, pipeline, session, lost, disturbed>>

\* The ResMon client's thread passes the answer on.
doCallback ==
    /\ mSource.answer # "none"
    /\ mSource' = resourceManagerCallback(mSource)
    /\ IF CallbackSet(mSource)
         THEN Post(IF mSource.answer = "Revoked" THEN "TunerLost" ELSE "TunerRestored")
         ELSE UNCHANGED queue
    /\ UNCHANGED <<state, thread, inHand, pipeline, session, lost, disturbed>>

SDVCallback(mState, e) ==
    /\ Post(e)
    /\ mSource' = [mSource EXCEPT !.mState = mState]
    /\ UNCHANGED <<state, thread, inHand, pipeline, session, lost>>

\* The SDV manager answers, and tells of changes later.
SDVAnswers ==
    /\ mSource.connected /\ mSource.mState = "Loading"
    /\ SDVCallback("Known", "SDVLoaded") \/ SDVCallback("Unavailable", "SDVUnavailable")
    /\ UNCHANGED disturbed

SDVChanges ==
    /\ mSource.connected /\ mSource.mState # "Loading"
    /\ Disturbance
    /\ \/ SDVCallback("Changed", "TuningUpdate")
       \/ SDVCallback("Unavailable", "SDVUnavailable")

psiCallback ==
    /\ psi = "started"
    /\ Post("PSIReady")
    /\ psi' = "ready"
    /\ UNCHANGED <<state, thread, inHand, mSource, display, session, lost, disturbed>>

\* A Psi that was lost goes on as well.
psiCallbackUpdate ==
    /\ psi = "ready" \/ "psi" \in lost
    /\ Disturbance
    /\ Post("PSIUpdate") \/ ("psi" \in lost /\ Post("PSIReady"))
    /\ UNCHANGED <<state, thread, inHand, mSource, pipeline, session, lost>>

mediaCB ==
    /\ display = "open"
    /\ Post("FirstFrame")
    /\ display' = "shown"
    /\ UNCHANGED <<state, thread, inHand, mSource, psi, session, lost, disturbed>>

Environment ==
    \/ RFCallback \/ RFCallbackAgain
    \/ ResMonGrants \/ ResMonDenies \/ ResMonRevokes \/ ResMonTellsToRetry \/ doCallback
    \/ SDVAnswers \/ SDVChanges
    \/ psiCallback \/ psiCallbackUpdate \/ mediaCB

EventThread == popEventQueue \/ handleEvent

Next ==
    \/ \E kind \in Kinds : Load(kind)
    \/ Play \/ Stop \/ Eject \/ tearDown
    \/ EventThread
    \/ Environment

\* The event thread and the other threads go on; ResMon gives a tuner in the
\* end, and asks to retry; the SDV manager, the tuner, the tables and the
\* first frame come.  The client need not do anything but let Eject end.
Fairness ==
    /\ WF_vars(EventThread)
    /\ WF_vars(tearDown)
    /\ WF_vars(ResMonGrants \/ ResMonDenies)
    /\ WF_vars(ResMonTellsToRetry)
    /\ WF_vars(doCallback)
    /\ WF_vars(SDVAnswers)
    /\ WF_vars(RFCallback)
    /\ WF_vars(psiCallback)
    /\ WF_vars(mediaCB)

Spec == Init /\ [][Next]_vars /\ Fairness

------------------------------------------------------------------------------
(* Properties *)

\* The values of the variables; an event is in hand only while the thread
\* that handles it runs.
TypeOK ==
    /\ state \in States
    /\ thread \in {"none", "running", "exited"}
    /\ queue \in Seq(Events)
    /\ inHand \in Events \cup {"none"}
    /\ inHand # "none" => thread = "running"
    /\ mSource \in Source
    /\ psi \in {"none", "started", "ready", "analog"}
    /\ display \in {"none", "open", "shown", "dark"}
    /\ client \in {"none", "loaded", "playing", "stopped", "ejecting"}
    /\ told \in BOOLEAN
    /\ lost \subseteq {"tuner", "psi"}
    /\ disturbed \in 0..MaxDisturbances

\* The source holds the platform's tuner only while ResMon has given it
\* access, or has just taken it back: no play, loss and retry, in whatever
\* order their events are handled, opens a tuner of somebody else.
TunerIsOurs ==
    mSource.mOpened => mSource.granted /\ mSource.tuner \in {"held", "revoked"}

\* A source is never deleted with a tuner, or a request for one, left at
\* ResMon: on every way out, with an answer on its way or without.
NoTunerIsLost == "tuner" \notin lost

\* What the code leaves without an answer: a source that ResMon's answers do
\* not reach, no thread, and a tuner or decoders that do not start.
SilentFailure ==
    \/ thread # "running"
    \/ ~CallbackSet(mSource)
    \/ state = "WaitSourceReady" /\ ~mSource.mStarted
    \/ display = "dark"

\* A programme that is played comes to the screen, or the client is told
\* that it cannot, unless the client stops it: through refusals, tuners taken
\* back and given again, and SDV changes, with their events in any order.
PlayIsAnswered ==
    (client = "playing") ~> (state = "Rendering" \/ told \/ SilentFailure \/ client # "playing")

\* The loss of the tuner is on its way to the event thread.
LossPending ==
    \/ mSource.answer = "Revoked"
    \/ "TunerLost" \in Range(queue) \cup {inHand}

\* A tuner that ResMon takes back is given back, whatever else is on the
\* queue, if a Stop does not flush the event.
RevokedTunerIsReleased ==
    (mSource.tuner = "revoked" /\ LossPending) ~>
        (mSource.tuner # "revoked" \/ client = "stopped")

\* Both: neither the client nor ResMon waits for the Zapper for ever.
NobodyIsKeptWaiting == PlayIsAnswered /\ RevokedTunerIsReleased

\* Stop stops: no display is opened for a session that is stopped.
\* (IMediaPlayer.h:101; the queue is flushed for it, zapper.cpp:1075.)
StopIsFinal == display # "none" => client # "stopped"

==============================================================================
