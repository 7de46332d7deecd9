---------------------------- MODULE Zapper_proofs ----------------------------
(***************************************************************************)
(* Zapper for any kinds of channel and any bounds: a source uses a tuner   *)
(* only while it is its own, and is never deleted with one.  What is       *)
(* proved of a source's methods holds for every controller that uses one.  *)
(***************************************************************************)
EXTENDS Zapper, SequenceTheorems, TLAPS

\* What a source and ResMon have of each other.  An answer on its way fits
\* ResMon's record, and a grant comes before the source has granted; so that
\* the source never asks again for a tuner it has, or gives back one that it
\* is about to get.
Agrees(src) ==
    /\ src.mOpened => src.granted
    /\ src.granted => src.tuner \in {"held", "revoked"}
    /\ src.tuner # "none" => src.requested
    /\ src.answer = "Granted" => src.tuner = "held" /\ ~src.granted
    /\ src.answer = "OkToRetry" => src.tuner = "none" /\ src.requested

Good(src) == src \in Source /\ Agrees(src)

------------------------------------------------------------------------------
(* The methods of a source *)

LEMMA NewSourceGood ==
    ASSUME NEW kind \in Kinds \cup {"none"}
    PROVE  Good(NewSource(kind)) /\ Good(load(NewSource(kind)))
BY DEF Good, Agrees, Source, NewSource, load

LEMMA ReleaseGood ==
    ASSUME NEW src, Good(src), ~src.mOpened, src.granted
    PROVE  /\ Good(releaseTunerAccess(src))
           /\ Good([releaseTunerAccess(src) EXCEPT !.registered = FALSE])
BY DEF Good, Agrees, Source, releaseTunerAccess

LEMMA SdvReleaseGood ==
    ASSUME NEW src, Good(src)
    PROVE  LET left == [src EXCEPT !.connected = FALSE, !.mState = "Idle"]
           IN  Good(left) /\ left.mOpened = src.mOpened /\ left.granted = src.granted
BY DEF Good, Agrees, Source

LEMMA ShutdownGood ==
    ASSUME NEW src, Good(src)
    PROVE  Good(shutdown(src))
<1> DEFINE closed == [src EXCEPT !.mStarted = FALSE, !.mOpened = FALSE, !.locked = FALSE]
           left == IF src.connected /\ src.mState # "Loading"
                     THEN [closed EXCEPT !.connected = FALSE, !.mState = "Idle"]
                     ELSE closed
<1>1. Good(closed) /\ ~closed.mOpened /\ closed.granted = src.granted
  BY DEF Good, Agrees, Source
<1>2. Good(left) /\ ~left.mOpened /\ left.granted = src.granted
  BY <1>1, SdvReleaseGood
<1>3. shutdown(src) = IF src.granted THEN releaseTunerAccess(left) ELSE left
  BY DEF shutdown
<1> QED
  BY <1>2, <1>3, ReleaseGood

LEMMA DeleteGivesBack ==
    ASSUME NEW src, Good(src)
    PROVE  delete(src).tuner = "none"
<1> DEFINE idle == [src EXCEPT !.mState = "Idle"]
<1>1. Good(idle) /\ idle.requested = src.requested
  BY DEF Good, Agrees, Source
<1>2. Good(shutdown(idle))
  BY <1>1, ShutdownGood
<1>3. shutdown(idle).requested = src.requested
  BY <1>1 DEF shutdown, releaseTunerAccess, Good, Source
<1> QED
  BY <1>2, <1>3 DEF delete, cancelTunerAccess, Good, Agrees, Source

LEMMA TuneGood ==
    ASSUME NEW src, Good(src), src.requested, src.granted, NEW out \in tune(src)
    PROVE  Good(out.src)
<1> DEFINE stopped == [src EXCEPT !.mStarted = FALSE, !.locked = FALSE]
           opened == [stopped EXCEPT !.mOpened = TRUE]
           off == [releaseTunerAccess(src) EXCEPT !.registered = FALSE]
<1>1. Good(stopped)
  BY DEF Good, Agrees, Source
<1>2. Good(opened)
  BY DEF Good, Agrees, Source
<1>3. ~src.mOpened => Good(off)
  BY ReleaseGood
<1>4. \/ out.src \in {opened, src, shutdown(stopped), shutdown(src), shutdown(opened)}
      \/ ~src.mOpened /\ out.src = shutdown(off)
  BY DEF tune, Outcome
<1> QED
  BY <1>1, <1>2, <1>3, <1>4, ShutdownGood

LEMMA AccessGood ==
    ASSUME NEW src, Good(src), NEW out \in access(src)
    PROVE  Good(out.src)
<1>1. CASE src.requested /\ src.granted
  BY <1>1, TuneGood DEF access
<1>2. CASE ~(src.requested /\ src.granted)
  <2>1. out.src = src \/ (/\ ~src.requested /\ ~src.granted
                          /\ out.src = [src EXCEPT !.requested = TRUE, !.tuner = "asked"])
    BY <1>2 DEF access, Outcome
  <2> QED
    BY <2>1 DEF Good, Agrees, Source
<1> QED
  BY <1>1, <1>2

LEMMA OpenGood ==
    ASSUME NEW src, Good(src), NEW out \in open(src)
    PROVE  Good(out.src)
<1>1. PICK params \in getTuningParams(src) :
         out \in IF params.status = "Ok" THEN access(params.src) ELSE {params}
  BY DEF open
<1>2. \/ params.src \in {src, [src EXCEPT !.mTuneParamSet = TRUE], [src EXCEPT !.mState = "Unavailable"]}
      \/ params.src = [src EXCEPT !.mState = "Loading", !.connected = TRUE]
  BY DEF getTuningParams, getTuningParamsFromSDV, getTuningParamsFromChannelList, Outcome, Good, Source
<1>3. Good(params.src)
  BY <1>2, ZenonT(40) DEF Good, Agrees, Source
<1> QED
  BY <1>1, <1>3, AccessGood

LEMMA StartGood ==
    ASSUME NEW src, Good(src), NEW new \in start(src)
    PROVE  Good(new)
<1>1. Good([src EXCEPT !.mStarted = TRUE])
  BY DEF Good, Agrees, Source
<1> QED
  BY <1>1, ShutdownGood DEF start

LEMMA ResMonGood ==
    ASSUME NEW src, Good(src)
    PROVE  /\ CanGrant(src) => Good(grant(src)) /\ Good(deny(src))
           /\ CanRevoke(src) => Good(revoke(src))
           /\ CanTellToRetry(src) => Good(tellToRetry(src))
<1>1. CanGrant(src) => Good(grant(src))
  BY DEF CanGrant, grant, Good, Agrees, Source
<1>2. CanGrant(src) => Good(deny(src))
  BY DEF CanGrant, deny, Good, Agrees, Source
<1>3. CanRevoke(src) => Good(revoke(src))
  BY DEF CanRevoke, revoke, Good, Agrees, Source
<1>4. CanTellToRetry(src) => Good(tellToRetry(src))
  BY DEF CanTellToRetry, tellToRetry, Good, Agrees, Source
<1> QED
  BY <1>1, <1>2, <1>3, <1>4

LEMMA ResourceManagerCallbackGood ==
    ASSUME NEW src, Good(src), src.answer # "none"
    PROVE  Good(resourceManagerCallback(src))
<1> DEFINE taken == [src EXCEPT !.answer = "none"]
<1>1. Good(taken)
  BY DEF Good, Agrees, Source
<1>2. CASE ~CallbackSet(src)
  BY <1>1, <1>2 DEF resourceManagerCallback
<1>3. CASE CallbackSet(src) /\ src.answer = "OkToRetry"
  BY <1>3 DEF resourceManagerCallback, Good, Agrees, Source
<1>4. CASE CallbackSet(src) /\ src.answer = "Granted"
  BY <1>4 DEF resourceManagerCallback, Good, Agrees, Source
<1>5. CASE CallbackSet(src) /\ src.answer = "Revoked"
  BY <1>5 DEF resourceManagerCallback, isSDV, Good, Agrees, Source
<1>6. src.answer \in {"Granted", "Revoked", "OkToRetry"}
  BY DEF Good, Source
<1> QED
  BY <1>2, <1>3, <1>4, <1>5, <1>6

------------------------------------------------------------------------------
(* The Zapper *)

IInv ==
    /\ TypeOK
    /\ Agrees(mSource)
    /\ NoTunerIsLost

\* The queue and what is around it.
Typed ==
    /\ state \in States
    /\ thread \in {"none", "running", "exited"}
    /\ queue \in Seq(Events)
    /\ inHand \in Events \cup {"none"}
    /\ inHand # "none" => thread = "running"
    /\ psi \in {"none", "started", "ready", "analog"}
    /\ display \in {"none", "open", "shown", "dark"}
    /\ client \in {"none", "loaded", "playing", "stopped", "ejecting"}
    /\ told \in BOOLEAN
    /\ lost \subseteq {"psi"}
    /\ disturbed \in 0..MaxDisturbances

LEMMA IInvParts == IInv <=> Typed /\ Good(mSource)
BY DEF IInv, TypeOK, Typed, NoTunerIsLost, Good

LEMMA QueueTyped ==
    ASSUME NEW q \in Seq(Events)
    PROVE  /\ <<>> \in Seq(Events)
           /\ \A e \in Events : Append(q, e) \in Seq(Events)
           /\ q # <<>> => Head(q) \in Events /\ Tail(q) \in Seq(Events)
BY EmptySeq, AppendProperties, HeadTailProperties

LEMMA DisturbedTyped ==
    ASSUME disturbed \in 0..MaxDisturbances, Disturbance
    PROVE  disturbed' \in 0..MaxDisturbances
BY BoundsAssumption DEF Disturbance

LEMMA NoSourceGood == Good(NoSource)
BY NewSourceGood DEF NoSource

LEMMA Initial == Init => IInv
<1> SUFFICES ASSUME Init PROVE Typed /\ Good(mSource)
  BY IInvParts
<1>1. Typed
  <2>1. <<>> \in Seq(Events)
    BY EmptySeq
  <2>2. 0 \in 0..MaxDisturbances
    BY BoundsAssumption
  <2> QED
    BY <2>1, <2>2 DEF Init, Typed, States
<1>2. Good(mSource)
  BY NoSourceGood DEF Init
<1> QED
  BY <1>1, <1>2

\* Deleting a source of ours loses no tuner.
LEMMA LoseSourceLosesNothing ==
    ASSUME Good(mSource), lost \subseteq {"psi"}, LoseSource
    PROVE  lost' \subseteq {"psi"}
BY DeleteGivesBack DEF LoseSource, Tuners

LEMMA CallStep ==
    ASSUME IInv, (\E kind \in Kinds : Load(kind)) \/ Play \/ Stop \/ Eject \/ tearDown
    PROVE  IInv'
<1> SUFFICES ASSUME Typed, Good(mSource) PROVE Typed' /\ Good(mSource)'
  BY IInvParts, PTL
<1> USE BoundsAssumption
<1>1. ASSUME NEW kind \in Kinds, Load(kind) PROVE Typed' /\ Good(mSource)'
  <2>1. lost' \subseteq {"psi"}
    BY <1>1, LoseSourceLosesNothing DEF Load, Typed
  <2>2. Good(mSource')
    BY <1>1, NewSourceGood DEF Load
  <2> QED
    BY <1>1, <2>1, <2>2 DEF Load, Typed, States, pipeline
<1>2. CASE Play
  <2>1. disturbed' \in 0..MaxDisturbances
    BY <1>2, DisturbedTyped DEF Play, Typed
  <2>2. queue' \in Seq(Events)
    BY <1>2, QueueTyped DEF Play, Typed, Events
  <2> QED
    BY <1>2, <2>1, <2>2 DEF Play, Typed, pipeline
<1>3. CASE Stop
  <2>1. Good(mSource)'
    BY <1>3 DEF Stop
  <2>2. Typed'
    BY <1>3, EmptySeq DEF Stop, Typed, States
  <2> QED
    BY <2>1, <2>2
<1>4. CASE Eject
  BY <1>4 DEF Eject, Typed, Events, pipeline
<1>5. CASE tearDown
  <2>1. lost' \subseteq {"psi"}
    BY <1>5, LoseSourceLosesNothing DEF tearDown, Typed
  <2>2. Good(mSource)'
    BY <1>5, NoSourceGood DEF tearDown
  <2>3. Typed'
    BY <1>5, <2>1, EmptySeq DEF tearDown, Typed, States
  <2> QED
    BY <2>2, <2>3
<1> QED
  BY <1>1, <1>2, <1>3, <1>4, <1>5

LEMMA HandlePlayGood ==
    ASSUME Good(mSource), HandlePlay
    PROVE  Good(mSource')
<1>1. PICK opened \in open(mSource) :
         mSource' \in start(opened.src) \/ mSource' = opened.src
  BY DEF HandlePlay
<1> QED
  BY <1>1, OpenGood, StartGood

LEMMA EventThreadStep ==
    ASSUME IInv, EventThread
    PROVE  IInv'
<1> SUFFICES ASSUME Typed, Good(mSource) PROVE Typed' /\ Good(mSource)'
  BY IInvParts, PTL
<1> USE DEF Handling, queueEvent
<1>q. /\ queue # <<>> => Head(queue) \in Events /\ Tail(queue) \in Seq(Events)
      /\ \A e \in Events : Append(queue, e) \in Seq(Events)
  BY QueueTyped DEF Typed
<1>1. CASE popEventQueue
  <2>1. inHand' \in Events /\ queue' \in Seq(Events) /\ thread = "running"
    BY <1>1, <1>q DEF popEventQueue
  <2> QED
    BY <1>1, <2>1 DEF popEventQueue, Typed, pipeline, session
<1>2. CASE HandleExit
  BY <1>2 DEF HandleExit, Typed, pipeline, session
<1>3. CASE HandlePlay
  <2>1. Good(mSource')
    BY <1>3, HandlePlayGood
  <2> QED
    BY <1>3, <2>1 DEF HandlePlay, Typed, States, pipeline
<1>4. CASE HandleTunerLocked
  <2>1. queue' \in Seq(Events)
    BY <1>4, <1>q DEF HandleTunerLocked, Typed, Events
  <2>2. lost' \subseteq {"psi"} /\ psi' \in {"none", "started", "ready", "analog"}
    BY <1>4 DEF HandleTunerLocked, NewPsi, Typed
  <2> QED
    BY <1>4, <2>1, <2>2 DEF HandleTunerLocked, Typed, States, session
<1>5. CASE HandlePSIReady
  BY <1>5 DEF HandlePSIReady, StartDisplaySession, Typed, session
<1>6. CASE HandlePSIUpdate
  BY <1>6 DEF HandlePSIUpdate, StartDisplaySession, Typed, session
<1>7. CASE HandleFirstFrame
  BY <1>7 DEF HandleFirstFrame, Typed, States, pipeline, session
<1>8. CASE HandleTuningUpdate
  <2>1. Good(mSource')
    BY <1>8, ShutdownGood DEF HandleTuningUpdate
  <2> QED
    BY <1>8, <1>q, <2>1 DEF HandleTuningUpdate, Typed, States, Events, session
<1>9. CASE HandleTunerLost
  <2>1. Good(mSource')
    BY <1>9, ShutdownGood DEF HandleTunerLost
  <2> QED
    BY <1>9, <2>1 DEF HandleTunerLost, Typed, States, session
<1>10. CASE HandleTunerRestored
  BY <1>10, <1>q DEF HandleTunerRestored, Typed, Events, pipeline, session
<1>11. CASE HandleSDVLoaded
  BY <1>11, <1>q DEF HandleSDVLoaded, Typed, Events, pipeline, session
<1>12. CASE HandleSDVUnavailable
  BY <1>12 DEF HandleSDVUnavailable, Typed, pipeline
<1> QED
  BY <1>1, <1>2, <1>3, <1>4, <1>5, <1>6, <1>7, <1>8, <1>9, <1>10, <1>11, <1>12
     DEF EventThread, handleEvent

\* Whatever is posted, the queue stays one of events.
LEMMA Posted ==
    ASSUME Typed, NEW e \in Events, Post(e)
    PROVE  queue' \in Seq(Events)
BY QueueTyped DEF Typed, Post, queueEvent

LEMMA EnvironmentStep ==
    ASSUME IInv, Environment
    PROVE  IInv'
<1> SUFFICES ASSUME Typed, Good(mSource) PROVE Typed' /\ Good(mSource)'
  BY IInvParts, PTL
<1>1. CASE RFCallback \/ RFCallbackAgain
  <2>1. queue' \in Seq(Events)
    BY <1>1, Posted DEF RFCallback, RFCallbackAgain, ReportsLock, Events
  <2>2. disturbed' \in 0..MaxDisturbances
    BY <1>1, DisturbedTyped DEF RFCallback, RFCallbackAgain, Typed
  <2>3. Good(mSource')
    BY <1>1 DEF RFCallback, RFCallbackAgain, Good, Agrees, Source
  <2> QED
    BY <1>1, <2>1, <2>2, <2>3 DEF RFCallback, RFCallbackAgain, Typed, pipeline, session
<1>2. CASE ResMonGrants \/ ResMonDenies \/ ResMonRevokes \/ ResMonTellsToRetry
  <2>1. disturbed' \in 0..MaxDisturbances
    BY <1>2, DisturbedTyped
    DEF ResMonGrants, ResMonDenies, ResMonRevokes, ResMonTellsToRetry, Typed
  <2>2. Good(mSource')
    BY <1>2, ResMonGood DEF ResMonGrants, ResMonDenies, ResMonRevokes, ResMonTellsToRetry
  <2> QED
    BY <1>2, <2>1, <2>2
    DEF ResMonGrants, ResMonDenies, ResMonRevokes, ResMonTellsToRetry, Typed, thr, pipeline, session
<1>3. CASE doCallback
  <2>1. queue' \in Seq(Events)
    BY <1>3, Posted DEF doCallback, Events, Typed
  <2>2. Good(mSource')
    BY <1>3, ResourceManagerCallbackGood DEF doCallback
  <2> QED
    BY <1>3, <2>1, <2>2 DEF doCallback, Typed, pipeline, session
<1>4. CASE SDVAnswers \/ SDVChanges
  <2>1. PICK mState \in {"Known", "Unavailable", "Changed"},
             e \in {"SDVLoaded", "SDVUnavailable", "TuningUpdate"} : SDVCallback(mState, e)
    BY <1>4 DEF SDVAnswers, SDVChanges
  <2>2. queue' \in Seq(Events)
    BY <2>1, Posted DEF SDVCallback, Events
  <2>3. disturbed' \in 0..MaxDisturbances
    BY <1>4, DisturbedTyped DEF SDVAnswers, SDVChanges, Typed
  <2>4. Good(mSource')
    BY <2>1 DEF SDVCallback, Good, Agrees, Source
  <2> QED
    BY <2>1, <2>2, <2>3, <2>4 DEF SDVCallback, Typed, pipeline, session
<1>5. CASE psiCallback \/ psiCallbackUpdate \/ mediaCB
  <2>1. queue' \in Seq(Events)
    BY <1>5, Posted DEF psiCallback, psiCallbackUpdate, mediaCB, Events
  <2>2. disturbed' \in 0..MaxDisturbances
    BY <1>5, DisturbedTyped DEF psiCallback, psiCallbackUpdate, mediaCB, Typed
  <2> QED
    BY <1>5, <2>1, <2>2 DEF psiCallback, psiCallbackUpdate, mediaCB, Typed, pipeline, session
<1> QED
  BY <1>1, <1>2, <1>3, <1>4, <1>5 DEF Environment

LEMMA Stutter ==
    ASSUME IInv, UNCHANGED vars
    PROVE  IInv'
BY DEF IInv, TypeOK, NoTunerIsLost, vars, thr, pipeline, session

LEMMA Inductive == Spec => []IInv
<1>1. IInv /\ [Next]_vars => IInv'
  BY CallStep, EventThreadStep, EnvironmentStep, Stutter DEF Next
<1> QED
  BY <1>1, Initial, PTL DEF Spec

\* The variables keep their types, and an event is in hand only of a thread
\* that runs.
THEOREM TypeCorrect == Spec => []TypeOK
<1>1. IInv => TypeOK
  BY DEF IInv
<1> QED
  BY <1>1, Inductive, PTL

\* The platform's tuner is open only while ResMon has given it to the source,
\* or has just taken it back.
THEOREM TunerAlwaysOurs == Spec => []TunerIsOurs
<1>1. IInv => TunerIsOurs
  BY DEF IInv, Agrees, TunerIsOurs
<1> QED
  BY <1>1, Inductive, PTL

\* No source is deleted with a tuner, or a request for one, left at ResMon.
THEOREM NoTunerEverLost == Spec => []NoTunerIsLost
<1>1. IInv => NoTunerIsLost
  BY DEF IInv
<1> QED
  BY <1>1, Inductive, PTL

==============================================================================
