------------------------------ MODULE Dvr_proofs ------------------------------
(***************************************************************************)
(* A Dvr, for any number of buffers, any bounds and either service: its    *)
(* types, that exactly the buffer it remembers is marked as its own, and   *)
(* that a recording that goes on is not cut silently.                      *)
(*                                                                         *)
(* The operators of Dvr take a Dvr and give the set of what it may be; so  *)
(* do the lemmas: one for each operator says what is true of every outcome *)
(* (DvrOK), and what becomes of the recording.                             *)
(***************************************************************************)
EXTENDS Dvr, SequenceTheorems, WellFoundedInduction, TLAPS

\* The records have their fields, with the values that the rest relies on.
DvrType(x) ==
    /\ DOMAIN x = {"mState", "mPersistentRecordState", "mTsbState", "mCurrentSourceType",
                   "mPendingTrickPlay", "live", "file", "psi", "display", "rec", "hasRec",
                   "mTsbNumber", "mDestUrl", "dwell", "queue", "tsbs", "interrupted",
                   "programme", "wanted"}
    /\ x.mState \in DvrStates
    /\ x.mPersistentRecordState \in {"NotStarted", "WaitingPMT", "WaitingTSB", "Started"}
    /\ x.mTsbState \in {"NotCreated", "Created", "Started"}
    /\ x.rec \in RecordSession
    /\ x.hasRec \in BOOLEAN /\ x.interrupted \in BOOLEAN
    /\ x.mTsbNumber \in Tsbs \cup {NoTsb}
    /\ x.tsbs \in [Tsbs -> Users]
    /\ x.queue \in Seq(Events)

Own(x) == \A n \in Tsbs : x.tsbs[n] = "dvr" <=> n = x.mTsbNumber

Converting(x) == x.rec.mState = "ConversionStarted"

\* Without a record session there is no buffer; only a buffer that is filled is
\* converted, and never one that an interrupted recording is to replace.
SessionOK(x) ==
    /\ ~x.hasRec => x.mTsbNumber = NoTsb /\ x.rec = NoSession
    /\ Converting(x) => x.mTsbState = "Started"
    /\ x.interrupted => /\ x.mPersistentRecordState \in {"NotStarted", "WaitingPMT"}
                        /\ ~Converting(x)

DvrOK(x) == DvrType(x) /\ Own(x) /\ SessionOK(x)

\* The recording that is converted for the client is the one that is "Started":
\* whoever stops that one, knows of it.
StartedIsKnown(x) ==
    Converting(x) /\ x.wanted = "asked" => x.mPersistentRecordState = "Started"

\* From x to y the recording goes on, if the client still waits for it.
GoesOn(x, y) ==
    /\ y.wanted = "asked" => x.wanted = "asked"
    /\ y.wanted = "asked" /\ Converting(x) => Converting(y)

\* Nothing of the recording is touched.
Alike(x, y) ==
    /\ DOMAIN y = DOMAIN x
    /\ y.mState \in DvrStates /\ y.queue \in Seq(Events)
    /\ y.mPersistentRecordState = x.mPersistentRecordState /\ y.mTsbState = x.mTsbState
    /\ y.rec = x.rec /\ y.hasRec = x.hasRec /\ y.mTsbNumber = x.mTsbNumber
    /\ y.tsbs = x.tsbs /\ y.interrupted = x.interrupted
    /\ y.wanted = "asked" => x.wanted = "asked"

ThreadOK ==
    /\ inHand \in Events \cup {"none"}
    /\ inHand # "none" => thread = "running"
    /\ thread \in {"none", "running", "exited"}
    /\ client \in {"none", "loaded", "playing", "stopped", "ejecting"}

IInv == DvrOK(d) /\ StartedIsKnown(d) /\ ThreadOK

\* What every step does to the Dvr.
Carries(x, y) == DvrOK(y) /\ StartedIsKnown(y) /\ (x.wanted = "asked" => GoesOn(x, y))

------------------------------------------------------------------------------
(* The buffers *)

\* The search for a buffer that is available finds one, if there is one.
LEMMA GetTsb ==
    ASSUME NEW tsbs, get_tsb(tsbs) # NoTsb
    PROVE  get_tsb(tsbs) \in Available(tsbs)
<1> DEFINE T == Available(tsbs)
<1>1. T # {}
  BY DEF get_tsb
<1>2. T \subseteq Nat /\ \A n, m \in T : ~(m < n) => n <= m
  BY NumTsbsAssumption DEF Available, Tsbs
<1>3. PICK n \in T : \A m \in T : <<m, n>> \notin OpToRel(<, Nat)
  BY <1>1, <1>2, NatLessThanWellFounded, WFMin
<1>4. \A m \in T : n <= m
  BY <1>2, <1>3 DEF OpToRel
<1> QED
  BY <1>1, <1>4 DEF get_tsb

\* The number that stands for no buffer is none.
LEMMA TsbNumbers == NoTsb \notin Tsbs
BY DEF NoTsb, Tsbs

------------------------------------------------------------------------------
(* The record session *)

\* A session that is new, and none at all.
LEMMA NewSessions ==
    /\ NewSession \in RecordSession /\ NewSession.mState = "Idle"
    /\ NoSession \in RecordSession /\ NoSession.mState = "Closed"
BY DEF NewSession, NoSession, RecordSession, RecordStates

\* The buffer is opened and started; one that is converted gives an error.
LEMMA OpenStart ==
    ASSUME NEW rec \in RecordSession
    PROVE  \A r \in Then(openSession(rec), startSession) :
               /\ r.rec \in RecordSession
               /\ r.rec.mState = "ConversionStarted" <=> rec.mState = "ConversionStarted"
               /\ rec.mState = "ConversionStarted" => r.status \notin {"Ok", "NotSupported"}
<1> DEFINE OK(q) == /\ q.rec \in RecordSession
                    /\ q.rec.mState = "ConversionStarted" <=> rec.mState = "ConversionStarted"
           Closed(q) == /\ OK(q)
                        /\ rec.mState = "ConversionStarted" => q.status \notin {"Ok", "NotSupported"}
           created == createRecordSession(rec)
           opened == Then(created, openTSB)
           set == Then(opened, setTSB)
           registered == Then(set, register_callbacks)
<1>1. ASSUME NEW q \in created PROVE OK(q) /\ q.status \in {"Ok", "Error"}
  <2>1. q \in {Result("Ok", [rec EXCEPT !.cam = TRUE]), Result("Error", rec)}
    BY DEF createRecordSession
  <2>2. CASE q = Result("Ok", [rec EXCEPT !.cam = TRUE])
    BY <2>2 DEF Result, RecordSession
  <2>3. CASE q = Result("Error", rec)
    BY <2>3 DEF Result
  <2> QED
    BY <2>1, <2>2, <2>3
<1>2. ASSUME NEW q \in opened PROVE Closed(q)
  <2>1. PICK p \in created : q \in IF p.status = "Ok" THEN openTSB(p.rec) ELSE {p}
    BY DEF Then
  <2>2. OK(p) /\ p.status \in {"Ok", "Error"}
    BY <1>1
  <2> HIDE DEF created
  <2>3. CASE p.status = "Ok"
    BY <2>1, <2>2, <2>3 DEF openTSB, Result, RecordSession, RecordStates, Then
  <2>4. CASE p.status # "Ok"
    BY <2>1, <2>2, <2>4
  <2> QED
    BY <2>3, <2>4
<1>3. ASSUME NEW p, OK(p), rec.mState # "ConversionStarted", NEW q \in setTSB(p.rec) PROVE Closed(q)
  <2>1. CASE p.rec.mState # "Opened"
    BY <1>3, <2>1 DEF setTSB, Result, Then
  <2>2. CASE p.rec.mState = "Opened"
    <3> DEFINE SetPids(s) == {Result(status, [s EXCEPT !.mState = "Configured"]) :
                                 status \in {"Ok", "RecordError"}}
    <3>1. q \in Then(Then(Then(getAudioPid(p.rec), getClockPid), getVideoPid), SetPids)
      BY <1>3, <2>2 DEF setTSB
    <3>2. \A s \in Then(getAudioPid(p.rec), getClockPid) : s.rec = p.rec
      BY DEF Then, getAudioPid, getClockPid, Result
    <3>3. \A s \in Then(Then(getAudioPid(p.rec), getClockPid), getVideoPid) : s.rec = p.rec
      BY <3>2 DEF Then, getVideoPid, Result
    <3>4. q.rec \in {p.rec, [p.rec EXCEPT !.mState = "Configured"]}
      BY <3>1, <3>3 DEF Then, Result
    <3> QED
      BY <1>3, <3>4 DEF RecordSession, RecordStates
  <2> QED
    BY <2>1, <2>2
<1>4. ASSUME NEW q \in set PROVE Closed(q)
  <2>1. PICK p \in opened : q \in IF p.status = "Ok" THEN setTSB(p.rec) ELSE {p}
    BY DEF Then
  <2>2. Closed(p)
    BY <1>2
  <2> QED
    BY <1>3, <2>1, <2>2
<1>5. ASSUME NEW q \in registered PROVE Closed(q)
  <2>1. PICK p \in set : q \in IF p.status = "Ok" THEN register_callbacks(p.rec) ELSE {p}
    BY DEF Then
  <2>2. Closed(p)
    BY <1>4
  <2> HIDE DEF set, registered
  <2>3. CASE p.status = "Ok"
    <3>1. PICK status \in {"Ok", "RecordError"} :
              q = Result(status, [p.rec EXCEPT !.callbacks = TRUE])
      BY <2>1, <2>3 DEF register_callbacks
    <3>2. p.rec \in RecordSession /\ rec.mState # "ConversionStarted"
      BY <2>2, <2>3
    <3> QED
      BY <2>2, <3>1, <3>2 DEF RecordSession, Result
  <2>4. CASE p.status # "Ok"
    BY <2>1, <2>2, <2>4
  <2> QED
    BY <2>3, <2>4
<1>6. ASSUME NEW r \in Then(registered, startSession) PROVE Closed(r)
  <2>1. PICK p \in registered : r \in IF p.status = "Ok" THEN startSession(p.rec) ELSE {p}
    BY DEF Then
  <2>2. Closed(p)
    BY <1>5
  <2> HIDE DEF registered
  <2> QED
    BY <2>1, <2>2 DEF startSession, startTSB, Result, RecordSession, RecordStates, Then
<1> QED
  BY <1>6 DEF openSession

\* A conversion that does not start leaves the session as it is.
LEMMA StartConvert ==
    ASSUME NEW rec \in RecordSession, NEW r \in startConvert(rec)
    PROVE  /\ r.rec \in RecordSession
           /\ r.status # "Ok" => r.rec = rec
           /\ rec.mState = "ConversionStarted" => r.rec = rec
BY DEF startConvert, Result, RecordSession, RecordStates

\* One that is stopped, or fails to stop, is not started by it.
LEMMA StopConvert ==
    ASSUME NEW rec \in RecordSession, NEW r \in stopConvert(rec)
    PROVE  /\ r.rec \in RecordSession
           /\ r.rec.mState = "ConversionStarted" => rec.mState = "ConversionStarted"
BY DEF stopConvert, Result, RecordSession, RecordStates

\* Whatever its stop reports, the session is not converting any more.
LEMMA StopSession ==
    ASSUME NEW rec \in RecordSession, NEW r \in stopSession(rec)
    PROVE  r.rec \in RecordSession /\ r.rec.mState # "ConversionStarted"
<1>1. stopTSB(rec) \in RecordSession /\ stopTSB(rec).mState # "ConversionStarted"
  BY DEF stopTSB, RecordSession, RecordStates
<1>2. PICK q \in stopCaFilter(stopTSB(rec)) :
          r = Result(q.status, [q.rec EXCEPT !.callbacks = FALSE, !.cam = FALSE])
  BY DEF stopSession
<1>3. q.rec = stopTSB(rec)
  BY DEF stopCaFilter, Result
<1> QED
  BY <1>1, <1>2, <1>3 DEF Result, RecordSession


------------------------------------------------------------------------------
(* What does not touch the recording *)

\* The types are kept, from one change to the next.
LEMMA AlikeType ==
    ASSUME NEW x, NEW y, DvrType(x), Alike(x, y)
    PROVE  DvrType(y)
BY DEF DvrType, Alike

LEMMA AlikeTrans ==
    ASSUME NEW x, NEW y, NEW z, Alike(x, y), Alike(y, z)
    PROVE  Alike(x, z)
BY DEF Alike

\* So is all that the invariant says.
LEMMA AlikeOK ==
    ASSUME NEW x, NEW y, DvrOK(x), Alike(x, y)
    PROVE  /\ DvrOK(y)
           /\ Converting(y) <=> Converting(x)
BY AlikeType DEF DvrOK, Alike, Own, SessionOK, Converting

LEMMA AlikeCarries ==
    ASSUME NEW x, NEW y, DvrOK(x), StartedIsKnown(x), Alike(x, y)
    PROVE  Carries(x, y)
BY AlikeOK DEF Carries, StartedIsKnown, GoesOn, Alike, Converting

\* The operators on the display, the tables and the sources.
LEMMA Display ==
    ASSUME NEW x, DvrType(x)
    PROVE  /\ Alike(x, CloseDisplaySession(x))
           /\ Alike(x, SetDisplaySession(x))
           /\ Alike(x, StopDeletePSI(x))
           /\ Alike(x, psiStart(x))
<1>1. Alike(x, CloseDisplaySession(x))
  BY DEF Alike, DvrType, CloseDisplaySession, DvrStates
<1>2. ASSUME NEW y, DvrType(y) PROVE Alike(y, [y EXCEPT !.display = "open"])
  BY <1>2 DEF Alike, DvrType
<1>3. Alike(x, SetDisplaySession(x))
  <2>1. CASE x.display # "none"
    BY <1>1, <1>2, <2>1, AlikeType, AlikeTrans DEF SetDisplaySession
  <2>2. CASE x.display = "none"
    BY <1>2, <2>2 DEF SetDisplaySession
  <2> QED
    BY <2>1, <2>2
<1>4. Alike(x, StopDeletePSI(x))
  BY DEF Alike, DvrType, StopDeletePSI
<1>5. Alike(x, psiStart(x))
  BY DEF Alike, DvrType, psiStart
<1> QED
  BY <1>1, <1>3, <1>4, <1>5

\* The operators on the two sources and the dwell timer.
LEMMA Sources ==
    ASSUME NEW x, DvrType(x)
    PROVE  /\ Alike(x, stopLive(x))
           /\ Alike(x, openFile(x)) /\ Alike(x, startFile(x))
           /\ Alike(x, stopFile(x)) /\ Alike(x, deleteFile(x))
           /\ Alike(x, joinDwellTimer(x))
<1>1. Alike(x, stopLive(x))
  BY DEF Alike, DvrType, stopLive
<1>2. Alike(x, openFile(x)) /\ Alike(x, startFile(x))
  BY DEF Alike, DvrType, openFile, startFile
<1>3. Alike(x, stopFile(x))
  BY DEF Alike, DvrType, stopFile
<1>4. Alike(x, deleteFile(x)) /\ Alike(x, joinDwellTimer(x))
  BY DEF Alike, DvrType, deleteFile, joinDwellTimer
<1> QED
  BY <1>1, <1>2, <1>3, <1>4

\* What the client is told, or misses, and what is queued.
LEMMA Told ==
    ASSUME NEW x, DvrType(x)
    PROVE  /\ Alike(x, refuse(x)) /\ refuse(x).wanted # "asked"
           /\ Alike(x, lose(x)) /\ lose(x).wanted # "asked"
           /\ Alike(x, told(x)) /\ told(x).wanted # "asked"
<1>1. ASSUME NEW y, DvrType(y) PROVE Alike(y, refuse(y)) /\ refuse(y).wanted # "asked"
  BY <1>1 DEF Alike, DvrType, refuse
<1>2. Alike(x, lose(x)) /\ lose(x).wanted # "asked"
  BY DEF Alike, DvrType, lose
<1>3. Alike(x, told(x)) /\ told(x).wanted # "asked"
  <2> DEFINE y == [x EXCEPT !.programme = IF @ = "none" THEN @ ELSE "refused"]
  <2>1. Alike(x, y)
    BY DEF Alike, DvrType
  <2>2. told(x) = refuse(y)
    BY DEF told
  <2> HIDE DEF y
  <2> QED
    BY <1>1, <2>1, <2>2, AlikeType, AlikeTrans
<1> QED
  BY <1>1, <1>2, <1>3

\* An event is queued.
LEMMA Queued ==
    ASSUME NEW x, DvrType(x), NEW e \in Events
    PROVE  Alike(x, queueEvent(x, e))
<1>1. Append(x.queue, e) \in Seq(Events)
  BY AppendProperties DEF DvrType
<1> QED
  BY <1>1 DEF Alike, DvrType, queueEvent

------------------------------------------------------------------------------
(* The record session and its buffer *)

\* The buffer is given back with the session.
LEMMA StopRecord ==
    ASSUME NEW x, DvrOK(x), NEW y \in StopRecordSession(x)
    PROVE  /\ DvrOK(y) /\ ~Converting(y)
           /\ y.wanted = x.wanted /\ y.interrupted = x.interrupted
           /\ y.mPersistentRecordState = x.mPersistentRecordState
<1> USE DEF DvrOK
<1>1. DvrType(x) /\ Own(x) /\ SessionOK(x)
  OBVIOUS
<1>2. CASE ~x.hasRec
  <2>1. y = [x EXCEPT !.tsbs = release_tsb(@, x.mTsbNumber), !.mTsbNumber = NoTsb]
    BY <1>2 DEF StopRecordSession
  <2>2. x.mTsbNumber = NoTsb /\ x.rec = NoSession
    BY <1>1, <1>2 DEF SessionOK
  <2>3. release_tsb(x.tsbs, x.mTsbNumber) = x.tsbs
    BY <2>2, TsbNumbers DEF release_tsb
  <2>4. DvrType(y)
    BY <1>1, <2>1, <2>3 DEF DvrType
  <2>5. Own(y) /\ SessionOK(y) /\ ~Converting(y)
    BY <1>1, <2>1, <2>2, <2>3, NewSessions DEF DvrType, Own, SessionOK, Converting
  <2> QED
    BY <1>1, <2>1, <2>4, <2>5 DEF DvrType
<1>3. CASE x.hasRec
  <2>1. PICK r \in stopSession(x.rec) :
            y = IF r.status # "Ok" THEN [x EXCEPT !.rec = r.rec]
                ELSE [[x EXCEPT !.rec = NoSession, !.hasRec = FALSE, !.mTsbState = "NotCreated"]
                         EXCEPT !.tsbs = release_tsb(@, x.mTsbNumber), !.mTsbNumber = NoTsb]
    BY <1>1, <1>3 DEF StopRecordSession, DvrType
  <2>2. r.rec \in RecordSession /\ r.rec.mState # "ConversionStarted"
    BY <1>1, StopSession DEF DvrType
  <2>3. CASE r.status # "Ok"
    <3>1. y = [x EXCEPT !.rec = r.rec]
      BY <2>1, <2>3
    <3> QED
      BY <1>1, <1>3, <2>2, <3>1 DEF DvrType, Own, SessionOK, Converting
  <2>4. CASE r.status = "Ok"
    <3> DEFINE z == [x EXCEPT !.rec = NoSession, !.hasRec = FALSE, !.mTsbState = "NotCreated"]
               tsbs == release_tsb(x.tsbs, x.mTsbNumber)
    <3>1. DOMAIN z = DOMAIN x /\ z.tsbs = x.tsbs /\ z.rec = NoSession /\ z.hasRec = FALSE
      BY <1>1 DEF DvrType
    <3>2. y = [z EXCEPT !.tsbs = tsbs, !.mTsbNumber = NoTsb]
      BY <2>1, <2>4, <3>1
    <3>3. /\ z.mTsbState = "NotCreated" /\ z.mState = x.mState /\ z.wanted = x.wanted
          /\ z.mPersistentRecordState = x.mPersistentRecordState
          /\ z.interrupted = x.interrupted /\ z.queue = x.queue
      BY <1>1 DEF DvrType
    <3>4. tsbs \in [Tsbs -> Users] /\ \A n \in Tsbs : tsbs[n] # "dvr"
      BY <1>1 DEF DvrType, Own, release_tsb, Users
    <3> HIDE DEF z, tsbs
    <3>5. /\ DOMAIN y = DOMAIN x /\ y.tsbs = tsbs /\ y.mTsbNumber = NoTsb
          /\ y.rec = NoSession /\ y.hasRec = FALSE
          /\ y.mTsbState = "NotCreated" /\ y.mState = x.mState /\ y.wanted = x.wanted
          /\ y.mPersistentRecordState = x.mPersistentRecordState
          /\ y.interrupted = x.interrupted /\ y.queue = x.queue
      BY <1>1, <3>1, <3>2, <3>3 DEF DvrType
    <3>6. DvrType(y)
      BY <1>1, <3>4, <3>5, NewSessions DEF DvrType
    <3>7. Own(y) /\ SessionOK(y) /\ ~Converting(y)
      BY <1>1, <3>4, <3>5, NewSessions, TsbNumbers DEF Own, SessionOK, Converting
    <3> QED
      BY <3>5, <3>6, <3>7
  <2> QED
    BY <2>3, <2>4
<1> QED
  BY <1>1, <1>2, <1>3 DEF DvrType

\* What a step of the record session keeps.
Kept(x, y) ==
    /\ DOMAIN y = DOMAIN x
    /\ y.mState = x.mState /\ y.queue = x.queue /\ y.wanted = x.wanted
    /\ y.mPersistentRecordState = x.mPersistentRecordState /\ y.interrupted = x.interrupted
    /\ y.mTsbState = x.mTsbState

\* A session is opened and started, with a buffer of its own.
LEMMA StartTsb ==
    ASSUME NEW x, DvrOK(x), NEW o \in StartTSBRecordSession(x)
    PROVE  /\ DvrOK(o.d) /\ Kept(x, o.d)
           /\ Converting(o.d) <=> Converting(x)
           /\ o.status \in {"Ok", "NotSupported"} => ~Converting(x) /\ o.d.hasRec
           /\ o = Outcome(o.status, o.d)
<1> USE DEF DvrOK, Outcome
<1> DEFINE n == get_tsb(x.tsbs)
           new == [x EXCEPT !.mTsbNumber = n, !.tsbs = TakenBy("dvr", @, n),
                            !.rec = NewSession, !.hasRec = TRUE]
           opened(y) == IF y.live = "none" THEN {Outcome("Error", y)}
                        ELSE {Outcome(r.status, [y EXCEPT !.rec = r.rec]) :
                                r \in Then(openSession(y.rec), startSession)}
           Good(y) == DvrOK(y) /\ Kept(x, y) /\ (Converting(y) <=> Converting(x))
<1>1. ASSUME NEW y, Good(y), y.hasRec, NEW p \in opened(y)
      PROVE  /\ Good(p.d)
             /\ p.status \in {"Ok", "NotSupported"} => ~Converting(x) /\ p.d.hasRec
             /\ p = Outcome(p.status, p.d)
  <2>1. CASE y.live = "none"
    BY <1>1, <2>1
  <2>2. CASE y.live # "none"
    <3>1. PICK r \in Then(openSession(y.rec), startSession) :
              p = Outcome(r.status, [y EXCEPT !.rec = r.rec])
      BY <1>1, <2>2
    <3>2. y.rec \in RecordSession
      BY <1>1 DEF DvrType
    <3>3. /\ r.rec \in RecordSession
          /\ r.rec.mState = "ConversionStarted" <=> y.rec.mState = "ConversionStarted"
          /\ y.rec.mState = "ConversionStarted" => r.status \notin {"Ok", "NotSupported"}
      BY <3>1, <3>2, OpenStart
    <3>4. p.d = [y EXCEPT !.rec = r.rec] /\ p.status = r.status /\ p = Outcome(p.status, p.d)
      BY <3>1
    <3>5. DvrType(p.d) /\ Kept(y, p.d) /\ p.d.hasRec
          /\ p.d.tsbs = y.tsbs /\ p.d.mTsbNumber = y.mTsbNumber /\ p.d.rec = r.rec
      <4> HIDE DEF opened
      <4>1. DvrType(y) /\ y.hasRec
        BY <1>1
      <4> QED
        BY <4>1, <3>3, <3>4 DEF DvrType, Kept
    <3>6. DvrOK(p.d)
      BY <1>1, <3>3, <3>5 DEF Own, SessionOK, Kept, Converting
    <3> QED
      BY <1>1, <3>3, <3>4, <3>5, <3>6 DEF Kept, Converting
  <2> QED
    BY <2>1, <2>2
<1>2. CASE x.hasRec
  <2>1. o \in opened(x)
    BY <1>2 DEF StartTSBRecordSession
  <2>2. Good(x)
    BY DEF Kept
  <2> HIDE DEF opened, Good
  <2>3. Good(o.d) /\ (o.status \in {"Ok", "NotSupported"} => ~Converting(x) /\ o.d.hasRec)
        /\ o = Outcome(o.status, o.d)
    BY <1>1, <1>2, <2>1, <2>2
  <2> QED
    BY <2>3 DEF Good
<1>3. CASE ~x.hasRec /\ n = NoTsb
  <2>1. o = Outcome("Error", x)
    BY <1>3 DEF StartTSBRecordSession
  <2> QED
    BY <2>1 DEF Kept
<1>4. CASE ~x.hasRec /\ n # NoTsb
  <2>1. o \in opened(new)
    BY <1>4 DEF StartTSBRecordSession
  <2>2. n \in Tsbs /\ x.tsbs[n] = "free"
    BY <1>4, GetTsb DEF Available
  <2>3. /\ x.mTsbNumber = NoTsb /\ x.rec = NoSession
    BY <1>4 DEF SessionOK
  <2>4. TakenBy("dvr", x.tsbs, n) \in [Tsbs -> Users]
        /\ \A m \in Tsbs : TakenBy("dvr", x.tsbs, n)[m] = "dvr" <=> m = n
    BY <2>2, <2>3, TsbNumbers DEF DvrType, Own, TakenBy, Users
  <2> HIDE DEF n
  <2>5. new.hasRec /\ Kept(x, new) /\ DvrType(new)
    BY <2>2, <2>4, NewSessions DEF DvrType, Kept
  <2>6. Own(new)
    BY <2>4 DEF Own, DvrType
  <2>7. ~Converting(x) /\ ~Converting(new)
    BY <2>3, NewSessions DEF DvrType, Converting
  <2>8. SessionOK(new)
    BY <2>5, <2>7 DEF SessionOK, Kept
  <2>9. Good(new)
    BY <2>5, <2>6, <2>7, <2>8
  <2> HIDE DEF opened, Good, new
  <2>10. Good(o.d) /\ (o.status \in {"Ok", "NotSupported"} => ~Converting(x) /\ o.d.hasRec)
         /\ o = Outcome(o.status, o.d)
    BY <1>1, <2>1, <2>5, <2>9
  <2> QED
    BY <2>10 DEF Good
<1> QED
  BY <1>2, <1>3, <1>4

\* The buffer that is filled is converted.
LEMMA StartPersistent ==
    ASSUME NEW x, DvrOK(x), x.mTsbState = "Started", ~x.interrupted,
           NEW o \in StartPersistentRecording(x)
    PROVE  /\ DvrOK(o.d) /\ Kept(x, o.d)
           /\ Converting(x) => Converting(o.d)
<1> USE DEF DvrOK, Outcome
<1>1. CASE x.hasRec
  <2>1. PICK r \in startConvert(x.rec) : o = Outcome(r.status, [x EXCEPT !.rec = r.rec])
    BY <1>1 DEF StartPersistentRecording
  <2>2. /\ r.rec \in RecordSession
        /\ x.rec.mState = "ConversionStarted" => r.rec = x.rec
    BY StartConvert DEF DvrType
  <2> QED
    BY <1>1, <2>1, <2>2 DEF DvrType, Own, SessionOK, Kept, Converting
<1>2. CASE ~x.hasRec
  <2>1. o = Outcome("Error", x)
    BY <1>2 DEF StartPersistentRecording
  <2> QED
    BY <2>1 DEF Kept
<1> QED
  BY <1>1, <1>2

------------------------------------------------------------------------------
(* The operators on the recording *)

\* Kept but for the state of the buffer.
LEMMA BufferCreated ==
    ASSUME NEW x, DvrOK(x), ~Converting(x)
    PROVE  /\ DvrOK([x EXCEPT !.mTsbState = "Created"])
           /\ ~Converting([x EXCEPT !.mTsbState = "Created"])
BY DEF DvrOK, DvrType, Own, SessionOK, Converting

\* An interrupted recording gets another buffer, and that only when it is not
\* being converted.
LEMMA Tsb ==
    ASSUME NEW x, DvrOK(x), NEW o \in NewTsb(x)
    PROVE  /\ DvrOK(o.d)
           /\ Converting(o.d) <=> Converting(x)
           /\ o.d.wanted = x.wanted /\ o.d.mPersistentRecordState = x.mPersistentRecordState
           /\ o = Outcome(o.status, o.d)
<1> DEFINE start(y) == {IF p.status = "Ok"
                          THEN Outcome("Ok", [p.d EXCEPT !.mTsbState = "Created"])
                          ELSE p : p \in StartTSBRecordSession(y)}
<1>1. ASSUME NEW y, DvrOK(y), NEW q \in start(y)
      PROVE  /\ DvrOK(q.d)
             /\ Converting(q.d) <=> Converting(y)
             /\ q.d.wanted = y.wanted /\ q.d.mPersistentRecordState = y.mPersistentRecordState
             /\ q = Outcome(q.status, q.d)
  <2>1. PICK p \in StartTSBRecordSession(y) :
            q = IF p.status = "Ok" THEN Outcome("Ok", [p.d EXCEPT !.mTsbState = "Created"]) ELSE p
    BY <1>1
  <2>2. /\ DvrOK(p.d) /\ Kept(y, p.d)
        /\ Converting(p.d) <=> Converting(y)
        /\ p.status = "Ok" => ~Converting(p.d)
        /\ p = Outcome(p.status, p.d)
    BY <1>1, StartTsb
  <2>3. CASE p.status = "Ok"
    <3>1. q.d = [p.d EXCEPT !.mTsbState = "Created"] /\ q = Outcome(q.status, q.d)
      BY <2>1, <2>3 DEF Outcome
    <3>2. DvrOK(q.d) /\ ~Converting(q.d)
      BY <2>2, <2>3, <3>1, BufferCreated
    <3> QED
      BY <2>2, <2>3, <3>1, <3>2 DEF DvrOK, DvrType, Kept
  <2>4. CASE p.status # "Ok"
    BY <2>1, <2>2, <2>4 DEF Kept
  <2> QED
    BY <2>3, <2>4
<1> HIDE DEF start
<1>2. CASE x.mTsbState = "NotCreated"
  <2>1. o \in start(x)
    BY <1>2 DEF NewTsb, start
  <2> QED
    BY <1>1, <2>1
<1>3. CASE x.mTsbState # "NotCreated" /\ ~x.interrupted
  BY <1>3 DEF NewTsb, Outcome
<1>4. CASE x.mTsbState # "NotCreated" /\ x.interrupted
  <2>1. PICK y \in StopRecordSession(x) : o \in IF y.hasRec THEN {Outcome("Error", y)} ELSE start(y)
    BY <1>4 DEF NewTsb, start
  <2>2. ~Converting(x)
    BY <1>4 DEF DvrOK, SessionOK
  <2>3. /\ DvrOK(y) /\ ~Converting(y)
        /\ y.wanted = x.wanted /\ y.mPersistentRecordState = x.mPersistentRecordState
    BY StopRecord
  <2>4. CASE y.hasRec
    BY <2>1, <2>2, <2>3, <2>4 DEF Outcome
  <2>5. CASE ~y.hasRec
    BY <1>1, <2>1, <2>2, <2>3, <2>5
  <2> QED
    BY <2>4, <2>5
<1> QED
  BY <1>2, <1>3, <1>4

\* A step of StartRecording changes how far the recording is, and no more.
LEMMA RecordingState ==
    ASSUME NEW x, DvrOK(x), ~x.interrupted,
           NEW state \in {"NotStarted", "WaitingPMT", "WaitingTSB", "Started"}
    PROVE  /\ DvrOK([x EXCEPT !.mPersistentRecordState = state])
           /\ Converting([x EXCEPT !.mPersistentRecordState = state]) <=> Converting(x)
           /\ [x EXCEPT !.mPersistentRecordState = state].wanted = x.wanted
           /\ [x EXCEPT !.mPersistentRecordState = state].mPersistentRecordState = state
<1> DEFINE y == [x EXCEPT !.mPersistentRecordState = state]
<1>1. DvrType(y) /\ Own(y)
  BY DEF DvrOK, DvrType, Own
<1>2. SessionOK(y)
  BY DEF DvrOK, DvrType, SessionOK, Converting
<1>3. y.rec = x.rec /\ y.wanted = x.wanted /\ y.mPersistentRecordState = state
  BY DEF DvrOK, DvrType
<1> HIDE DEF y
<1>4. DvrOK(y) /\ (Converting(y) <=> Converting(x))
  BY <1>1, <1>2, <1>3 DEF DvrOK, Converting
<1> QED
  BY <1>3, <1>4 DEF y

\* A recording that has got its buffer is not interrupted any more.
LEMMA NotInterrupted ==
    ASSUME NEW x, DvrOK(x)
    PROVE  /\ DvrOK([x EXCEPT !.interrupted = FALSE])
           /\ ~[x EXCEPT !.interrupted = FALSE].interrupted
           /\ [x EXCEPT !.interrupted = FALSE].rec = x.rec
           /\ [x EXCEPT !.interrupted = FALSE].wanted = x.wanted
           /\ [x EXCEPT !.interrupted = FALSE].mTsbState = x.mTsbState
           /\ [x EXCEPT !.interrupted = FALSE].mPersistentRecordState = x.mPersistentRecordState
BY DEF DvrOK, DvrType, Own, SessionOK, Converting

\* The recording is started, or it waits for its buffer, or an error is given; one
\* that is going on goes on.
LEMMA Start ==
    ASSUME NEW x, DvrOK(x), StartedIsKnown(x), NEW o \in StartRecording(x)
    PROVE  /\ DvrOK(o.d) /\ GoesOn(x, o.d)
           /\ o.status = "Ok" => StartedIsKnown(o.d)
<1> DEFINE convert(y) == {IF p.status = "Ok"
                            THEN Outcome("Ok", [p.d EXCEPT !.mPersistentRecordState = "Started"])
                            ELSE Outcome("Error", [p.d EXCEPT !.mPersistentRecordState = "NotStarted"]) :
                               p \in StartPersistentRecording(y)}
           wait(y) == [y EXCEPT !.mPersistentRecordState = "WaitingTSB"]
<1>1. PICK t \in NewTsb(x) :
          LET q == [t EXCEPT !.d.interrupted = FALSE]
          IN  o \in CASE q.status \notin {"Ok", "NotSupported"} -> {Outcome("Error", q.d)}
                      [] q.status \in {"Ok", "NotSupported"} /\ q.d.mTsbState = "Started" -> convert(q.d)
                      [] OTHER -> {Outcome("Ok", IF q.status = "Ok" THEN wait(q.d) ELSE lose(wait(q.d)))}
  BY DEF StartRecording
<1> DEFINE z == [t.d EXCEPT !.interrupted = FALSE]
           q == [t EXCEPT !.d.interrupted = FALSE]
<1>2. /\ DvrOK(t.d)
      /\ Converting(t.d) <=> Converting(x)
      /\ t.d.wanted = x.wanted /\ t.d.mPersistentRecordState = x.mPersistentRecordState
      /\ t = Outcome(t.status, t.d)
  BY Tsb
<1>3. q.status = t.status /\ q.d = z
  BY <1>2 DEF Outcome
<1>4. /\ DvrOK(z) /\ ~z.interrupted
      /\ Converting(z) <=> Converting(x)
      /\ z.wanted = x.wanted /\ z.mPersistentRecordState = x.mPersistentRecordState
  BY <1>2, NotInterrupted DEF Converting
<1>5. o \in CASE q.status \notin {"Ok", "NotSupported"} -> {Outcome("Error", q.d)}
              [] q.status \in {"Ok", "NotSupported"} /\ q.d.mTsbState = "Started" -> convert(q.d)
              [] OTHER -> {Outcome("Ok", IF q.status = "Ok" THEN wait(q.d) ELSE lose(wait(q.d)))}
  BY <1>1
<1> HIDE DEF q, z, convert, wait
<1>6. CASE t.status \notin {"Ok", "NotSupported"}
  <2>1. o = Outcome("Error", z)
    BY <1>3, <1>5, <1>6
  <2> QED
    BY <1>4, <2>1 DEF GoesOn, Outcome
<1>7. CASE t.status \in {"Ok", "NotSupported"} /\ z.mTsbState = "Started"
  <2>1. o \in convert(z)
    BY <1>3, <1>5, <1>7
  <2>2. PICK p \in StartPersistentRecording(z) :
            o = IF p.status = "Ok"
                  THEN Outcome("Ok", [p.d EXCEPT !.mPersistentRecordState = "Started"])
                  ELSE Outcome("Error", [p.d EXCEPT !.mPersistentRecordState = "NotStarted"])
    BY <2>1 DEF convert
  <2>3. /\ DvrOK(p.d) /\ ~p.d.interrupted /\ p.d.wanted = z.wanted
        /\ Converting(z) => Converting(p.d)
    BY <1>4, <1>7, StartPersistent DEF Kept
  <2> DEFINE state == IF p.status = "Ok" THEN "Started" ELSE "NotStarted"
  <2>4. o.d = [p.d EXCEPT !.mPersistentRecordState = state] /\ (o.status = "Ok" => state = "Started")
    BY <2>2 DEF Outcome
  <2>5. state \in {"NotStarted", "WaitingPMT", "WaitingTSB", "Started"}
    OBVIOUS
  <2> DEFINE w == [p.d EXCEPT !.mPersistentRecordState = state]
  <2> HIDE DEF state
  <2>6. /\ DvrOK(w) /\ (Converting(w) <=> Converting(p.d)) /\ w.wanted = p.d.wanted
        /\ w.mPersistentRecordState = state
    BY <2>3, <2>5, RecordingState
  <2> HIDE DEF w
  <2>7. /\ DvrOK(o.d) /\ (Converting(o.d) <=> Converting(p.d)) /\ o.d.wanted = p.d.wanted
        /\ o.d.mPersistentRecordState = state
    BY <2>4, <2>6 DEF w
  <2> QED
    BY <1>4, <2>3, <2>4, <2>7 DEF GoesOn, StartedIsKnown
<1>8. CASE t.status \in {"Ok", "NotSupported"} /\ z.mTsbState # "Started"
  <2>1. o = Outcome("Ok", IF t.status = "Ok" THEN wait(z) ELSE lose(wait(z)))
    BY <1>3, <1>5, <1>8
  <2>2. ~Converting(z)
    BY <1>4, <1>8 DEF DvrOK, SessionOK
  <2>3. DvrOK(wait(z)) /\ ~Converting(wait(z)) /\ wait(z).wanted = x.wanted
    BY <1>4, <2>2, RecordingState DEF wait
  <2>4. Alike(wait(z), lose(wait(z)))
    BY <2>3, Told DEF DvrOK
  <2>5. /\ DvrOK(lose(wait(z))) /\ ~Converting(lose(wait(z)))
        /\ lose(wait(z)).wanted = "asked" => x.wanted = "asked"
    BY <2>3, <2>4, AlikeOK DEF Alike
  <2> QED
    BY <1>4, <2>1, <2>2, <2>3, <2>5 DEF Outcome, GoesOn, StartedIsKnown
<1> QED
  BY <1>6, <1>7, <1>8

\* For another frequency nothing of the recording stays.
LEMMA TearDown ==
    ASSUME NEW x, DvrOK(x), NEW y \in tearDownToRetune(x)
    PROVE  DvrOK(y) /\ ~Converting(y) /\ (y.wanted = "asked" => x.wanted = "asked")
<1> DEFINE closed == CloseDisplaySession(stopFile(x))
           converted == IF closed.hasRec /\ closed.mPersistentRecordState = "Started"
                          THEN {[closed EXCEPT !.rec = r.rec, !.mPersistentRecordState = "NotStarted"] :
                                   r \in stopConvert(closed.rec)}
                          ELSE {closed}
           finish(s) == joinDwellTimer(stopLive(StopDeletePSI(s)))
<1>1. Alike(x, closed)
  BY Sources, Display, AlikeTrans, AlikeType DEF DvrOK
<1>2. DvrOK(closed) /\ (closed.wanted = "asked" => x.wanted = "asked")
  BY <1>1, AlikeOK DEF Alike
<1>3. PICK c \in converted : \E s \in IF c.hasRec THEN StopRecordSession(c) ELSE {c} : y = finish(s)
  BY DEF tearDownToRetune
<1> HIDE DEF closed, finish
<1>4. DvrOK(c) /\ c.wanted = closed.wanted
  <2>1. CASE c = closed
    BY <1>2, <2>1
  <2>2. ASSUME NEW r \in stopConvert(closed.rec),
               c = [closed EXCEPT !.rec = r.rec, !.mPersistentRecordState = "NotStarted"]
        PROVE  DvrOK(c) /\ c.wanted = closed.wanted
    <3>1. r.rec \in RecordSession /\ (r.rec.mState = "ConversionStarted" => Converting(closed))
      BY <1>2, StopConvert DEF DvrOK, DvrType, Converting
    <3>2. DvrType(c) /\ Own(c) /\ c.wanted = closed.wanted
      BY <1>2, <2>2, <3>1 DEF DvrOK, DvrType, Own
    <3>3. closed.hasRec => SessionOK(c)
      BY <1>2, <2>2, <3>1 DEF DvrOK, DvrType, SessionOK, Converting
    <3>4. ~closed.hasRec => c = closed
      BY <1>3
    <3> QED
      BY <1>2, <3>2, <3>3, <3>4 DEF DvrOK
  <2> QED
    BY <1>3, <2>1, <2>2
<1>5. PICK s \in IF c.hasRec THEN StopRecordSession(c) ELSE {c} : y = finish(s)
  BY <1>3
<1>6. DvrOK(s) /\ ~Converting(s) /\ s.wanted = c.wanted
  <2>1. CASE c.hasRec
    BY <1>4, <1>5, <2>1, StopRecord
  <2>2. CASE ~c.hasRec
    BY <1>4, <1>5, <2>2, NewSessions DEF DvrOK, SessionOK, Converting
  <2> QED
    BY <2>1, <2>2
<1>7. Alike(s, y)
  BY <1>5, <1>6, Display, Sources, AlikeTrans, AlikeType DEF DvrOK, finish
<1> QED
  BY <1>2, <1>4, <1>6, <1>7, AlikeOK DEF Alike

\* The buffer takes the place of the channel on the display.
LEMMA PlayTsbAlike ==
    ASSUME NEW x, DvrType(x), NEW y \in PlayTsb(x)
    PROVE  Alike(x, y)
<1> DEFINE opened == openFile(x)
           ready == [opened EXCEPT !.psi = IF @ = "none" THEN "new" ELSE @, !.display = "open"]
           shown == psiStart(ready)
<1>1. y \in {[x EXCEPT !.file = "loaded"], opened, shown,
             [startFile(shown) EXCEPT !.mCurrentSourceType = "file"]}
  BY DEF PlayTsb
<1>2. Alike(x, [x EXCEPT !.file = "loaded"])
  BY DEF Alike, DvrType
<1>3. Alike(x, opened)
  BY Sources
<1>4. DvrType(opened)
  BY <1>3, AlikeType
<1> HIDE DEF opened
<1>5. Alike(opened, ready)
  BY <1>4 DEF Alike, DvrType
<1>6. DvrType(ready)
  BY <1>4, <1>5, AlikeType
<1> HIDE DEF ready
<1>7. Alike(ready, shown)
  BY <1>6, Display
<1>8. Alike(shown, startFile(shown))
  BY <1>6, <1>7, AlikeType, Sources
<1>9. DvrType(startFile(shown))
  BY <1>6, <1>7, <1>8, AlikeType
<1>10. ASSUME NEW z, DvrType(z) PROVE Alike(z, [z EXCEPT !.mCurrentSourceType = "file"])
  BY <1>10 DEF Alike, DvrType
<1>11. Alike(startFile(shown), [startFile(shown) EXCEPT !.mCurrentSourceType = "file"])
  BY <1>9, <1>10
<1> HIDE DEF shown
<1>12. Alike(x, shown)
  BY <1>3, <1>5, <1>7, AlikeTrans
<1> QED
  BY <1>1, <1>2, <1>3, <1>8, <1>11, <1>12, AlikeTrans

\* Pause and rewind leave a recording as it is.
LEMMA Trick ==
    ASSUME NEW x, DvrOK(x), NEW y \in TrickPlay(x)
    PROVE  /\ DvrOK(y) /\ (Converting(y) <=> Converting(x))
           /\ y.wanted = "asked" => x.wanted = "asked"
           /\ y.mPersistentRecordState = x.mPersistentRecordState
<1> DEFINE pending(z) == [z EXCEPT !.mPendingTrickPlay = TRUE]
           Fine(z) == /\ DvrOK(z) /\ (Converting(z) <=> Converting(x))
                      /\ z.wanted = "asked" => x.wanted = "asked"
                      /\ z.mPersistentRecordState = x.mPersistentRecordState
<1>1. ASSUME NEW z, DvrType(z) PROVE Alike(z, pending(z))
  BY <1>1 DEF Alike, DvrType
<1> HIDE DEF pending
<1>2. ASSUME NEW z, NEW w, Fine(z), Alike(z, w) PROVE Fine(w)
  BY <1>2, AlikeOK DEF Alike
<1>3. Fine(x)
  OBVIOUS
<1>4. CASE x.mTsbState = "Created"
  <2>1. y = pending(x)
    BY <1>4 DEF TrickPlay, pending
  <2> QED
    BY <1>1, <1>2, <1>3, <2>1 DEF DvrOK
<1>5. CASE x.mTsbState = "NotCreated"
  <2>1. PICK o \in StartTSBRecordSession(x) :
            y \in CASE o.status = "Ok" -> {pending([o.d EXCEPT !.mTsbState = "Created"])}
                    [] o.status = "NotSupported" -> PlayTsb(o.d)
                    [] OTHER -> {o.d}
    BY <1>5 DEF TrickPlay, pending
  <2>2. Fine(o.d) /\ (o.status = "Ok" => ~Converting(o.d))
    BY StartTsb DEF Kept
  <2>3. CASE o.status = "Ok"
    <3> DEFINE z == [o.d EXCEPT !.mTsbState = "Created"]
    <3>1. y = pending(z)
      BY <2>1, <2>3
    <3>2. DvrOK(z) /\ ~Converting(z)
      BY <2>2, <2>3, BufferCreated
    <3>3. z.wanted = o.d.wanted /\ z.mPersistentRecordState = o.d.mPersistentRecordState
      BY <2>2 DEF DvrOK, DvrType
    <3> HIDE DEF z
    <3>4. Fine(z)
      BY <2>2, <2>3, <3>2, <3>3
    <3> QED
      BY <1>1, <1>2, <3>1, <3>4 DEF DvrOK
  <2>4. CASE o.status = "NotSupported"
    <3>1. y \in PlayTsb(o.d)
      BY <2>1, <2>4
    <3>2. Alike(o.d, y)
      BY <2>2, <3>1, PlayTsbAlike DEF DvrOK
    <3> QED
      BY <1>2, <2>2, <3>2
  <2>5. CASE o.status \notin {"Ok", "NotSupported"}
    BY <2>1, <2>2, <2>5
  <2> QED
    BY <2>3, <2>4, <2>5
<1>6. CASE x.mTsbState = "Started"
  <2>1. y \in PlayTsb(x) \/ y = x
    BY <1>6 DEF TrickPlay
  <2> QED
    BY <1>2, <1>3, <2>1, PlayTsbAlike DEF DvrOK
<1> QED
  BY <1>4, <1>5, <1>6 DEF DvrOK, DvrType

------------------------------------------------------------------------------
(* Calls of the player *)

\* A recording that is not asked for any more is nobody's.
LEMMA NotAsked ==
    ASSUME NEW x, NEW y, DvrOK(y), y.wanted # "asked"
    PROVE  Carries(x, y)
BY DEF Carries, GoesOn, StartedIsKnown

\* Nor is one cut that is not converted, if the client knows.
LEMMA NotConverting ==
    ASSUME NEW x, NEW y, DvrOK(y), ~Converting(y), y.wanted = "asked" => ~Converting(x)
    PROVE  Carries(x, y)
BY DEF Carries, GoesOn, StartedIsKnown

\* One lemma for each call.
LEMMA LoadStep ==
    ASSUME IInv, NEW service \in Services, Load(service)
    PROVE  Carries(d, d') /\ ThreadOK'
<1>1. Alike(d, d')
  BY DEF IInv, DvrOK, DvrType, Alike, Load, DvrStates
<1>2. Carries(d, d')
  BY <1>1, AlikeCarries DEF IInv
<1>3. ThreadOK'
  BY DEF IInv, ThreadOK, Load
<1> QED
  BY <1>2, <1>3

LEMMA PlayStep ==
    ASSUME IInv, Play
    PROVE  Carries(d, d') /\ ThreadOK'
<1> DEFINE x == [d EXCEPT !.mDestUrl = TRUE, !.programme = "asked"]
           ready == [x EXCEPT !.mState = "SourceReady"]
           live == [x EXCEPT !.mState = "SourceReady", !.mCurrentSourceType = "live"]
<1>1. Alike(d, x)
  BY DEF IInv, DvrOK, DvrType, Alike
<1>2. DvrType(x)
  BY <1>1, AlikeType DEF IInv, DvrOK
<1>3. d' \in {queueEvent(x, "Play"), psiStart(live), told(ready)}
  BY DEF Play
<1> HIDE DEF x
<1>4. Alike(x, ready) /\ Alike(x, live)
  BY <1>2 DEF DvrType, Alike, DvrStates
<1> HIDE DEF ready, live
<1>5. Alike(x, queueEvent(x, "Play"))
  BY <1>2, Queued DEF Events
<1>6. Alike(x, psiStart(live)) /\ Alike(x, told(ready))
  BY <1>2, <1>4, AlikeType, AlikeTrans, Display, Told
<1>7. Alike(d, d')
  BY <1>1, <1>3, <1>5, <1>6, AlikeTrans
<1>8. Carries(d, d')
  BY <1>7, AlikeCarries DEF IInv
<1>9. ThreadOK'
  BY DEF IInv, ThreadOK, Play
<1> QED
  BY <1>8, <1>9

LEMMA PersistentRecordStep ==
    ASSUME IInv, NEW interrupted \in BOOLEAN, PersistentRecord(interrupted)
    PROVE  Carries(d, d') /\ ThreadOK'
<1> DEFINE x == [d EXCEPT !.mPersistentRecordState = "WaitingPMT", !.interrupted = interrupted,
                          !.wanted = "asked"]
<1>1. DvrOK(x) /\ ~Converting(x)
  <2>1. DvrType(x) /\ Own(x)
    BY DEF IInv, DvrOK, DvrType, Own
  <2>2. SessionOK(x) /\ ~Converting(x)
    BY DEF IInv, DvrOK, DvrType, SessionOK, Converting, PersistentRecord
  <2> QED
    BY <2>1, <2>2 DEF DvrOK
<1>2. \/ d' = queueEvent(x, "Play")
      \/ d' = x
      \/ \E o \in StartRecording(x) : d' = IF o.status = "Ok" THEN o.d ELSE refuse(o.d)
  BY DEF PersistentRecord
<1>3. d.wanted # "asked" /\ ThreadOK'
  BY DEF PersistentRecord, IInv, ThreadOK
<1> HIDE DEF x
<1>4. DvrOK(d') /\ StartedIsKnown(d')
  <2>1. CASE d' = queueEvent(x, "Play")
    <3>1. Alike(x, d')
      BY <1>1, <2>1, Queued DEF Events, DvrOK
    <3> QED
      BY <1>1, <3>1, AlikeOK DEF StartedIsKnown
  <2>2. CASE d' = x
    BY <1>1, <2>2 DEF StartedIsKnown
  <2>3. ASSUME NEW o \in StartRecording(x), d' = IF o.status = "Ok" THEN o.d ELSE refuse(o.d)
        PROVE  DvrOK(d') /\ StartedIsKnown(d')
    <3>1. DvrOK(o.d) /\ (o.status = "Ok" => StartedIsKnown(o.d))
      BY <1>1, Start DEF StartedIsKnown
    <3>2. DvrOK(refuse(o.d)) /\ StartedIsKnown(refuse(o.d))
      BY <3>1, Told, AlikeOK DEF DvrOK, StartedIsKnown
    <3> QED
      BY <2>3, <3>1, <3>2
  <2> QED
    BY <1>2, <2>1, <2>2, <2>3
<1> QED
  BY <1>3, <1>4 DEF Carries

\* The client stops its recording.
LEMMA StopRec ==
    ASSUME NEW x, DvrOK(x), NEW o \in StopRecording(x)
    PROVE  DvrOK(o.d) /\ o.d.wanted = "stopped"
<1> DEFINE y == [x EXCEPT !.mPersistentRecordState = "NotStarted", !.wanted = "stopped"]
<1>1. DvrType(y) /\ Own(y) /\ y.wanted = "stopped"
  BY DEF DvrOK, DvrType, Own
<1>2. SessionOK(y)
  BY DEF DvrOK, DvrType, SessionOK, Converting
<1>3. \/ y.hasRec /\ \E r \in stopConvert(y.rec) : o = Outcome(r.status, [y EXCEPT !.rec = r.rec])
      \/ \E z \in StopRecordSession(y) : o = Outcome("Ok", z)
      \/ o = Outcome("Ok", y)
  BY DEF StopRecording
<1> HIDE DEF y
<1>4. ASSUME y.hasRec, NEW r \in stopConvert(y.rec), o = Outcome(r.status, [y EXCEPT !.rec = r.rec])
      PROVE  DvrOK(o.d) /\ o.d.wanted = "stopped"
  <2>1. r.rec \in RecordSession /\ (r.rec.mState = "ConversionStarted" => Converting(y))
    BY <1>1, StopConvert DEF DvrType, Converting
  <2>2. o.d = [y EXCEPT !.rec = r.rec]
    BY <1>4 DEF Outcome
  <2>3. DvrType(o.d) /\ Own(o.d) /\ o.d.wanted = "stopped"
    BY <1>1, <2>1, <2>2 DEF DvrType, Own
  <2>4. SessionOK(o.d)
    BY <1>1, <1>2, <1>4, <2>1, <2>2 DEF DvrType, SessionOK, Converting
  <2> QED
    BY <2>3, <2>4 DEF DvrOK
<1>5. ASSUME NEW z \in StopRecordSession(y), o = Outcome("Ok", z)
      PROVE  DvrOK(o.d) /\ o.d.wanted = "stopped"
  BY <1>1, <1>2, <1>5, StopRecord DEF DvrOK, Outcome
<1>6. CASE o = Outcome("Ok", y)
  BY <1>1, <1>2, <1>6 DEF DvrOK, Outcome
<1> QED
  BY <1>3, <1>4, <1>5, <1>6

\* The programme goes; a recording stays, and what is being converted is one.
LEMMA StopPlay ==
    ASSUME NEW x, DvrOK(x), StartedIsKnown(x), NEW y \in StopPlaying(x)
    PROVE  Carries(x, y) /\ (y.wanted = "asked" => x.wanted = "asked")
<1> DEFINE gone == deleteFile(CloseDisplaySession(stopFile(x)))
           dark == [gone EXCEPT !.mPendingTrickPlay = FALSE, !.mDestUrl = FALSE, !.programme = "none"]
           stopped == StopDeletePSI([dark EXCEPT !.mState = "Stop"])
<1>1. Alike(x, gone)
  BY Sources, Display, AlikeTrans, AlikeType DEF DvrOK
<1>2. DvrType(gone)
  BY <1>1, AlikeType DEF DvrOK
<1>3. IF Recording(x) THEN y = dark
      ELSE \E z \in StopRecordSession(stopped) : y = [joinDwellTimer(z) EXCEPT !.queue = <<>>]
  BY DEF StopPlaying
<1> HIDE DEF gone
<1>4. Alike(gone, dark)
  BY <1>2 DEF Alike, DvrType
<1>5. DvrType(dark)
  BY <1>2, <1>4, AlikeType
<1> HIDE DEF dark
<1>6. Alike(dark, [dark EXCEPT !.mState = "Stop"])
  BY <1>5 DEF Alike, DvrType, DvrStates
<1>7. Alike([dark EXCEPT !.mState = "Stop"], stopped)
  BY <1>5, <1>6, AlikeType, Display
<1>8. Alike(x, dark)
  BY <1>1, <1>4, AlikeTrans
<1>9. Alike(x, stopped)
  BY <1>6, <1>7, <1>8, AlikeTrans
<1> HIDE DEF stopped
<1>10. CASE Recording(x)
  BY <1>3, <1>8, <1>10, AlikeCarries DEF Alike
<1>11. CASE ~Recording(x)
  <2>1. PICK z \in StopRecordSession(stopped) : y = [joinDwellTimer(z) EXCEPT !.queue = <<>>]
    BY <1>3, <1>11
  <2>2. DvrOK(stopped)
    BY <1>9, AlikeOK
  <2>3. DvrOK(z) /\ ~Converting(z) /\ z.wanted = stopped.wanted
    BY <2>1, <2>2, StopRecord
  <2>4. Alike(z, joinDwellTimer(z))
    BY <2>3, Sources DEF DvrOK
  <2>5. DvrType(joinDwellTimer(z))
    BY <2>3, <2>4, AlikeType DEF DvrOK
  <2>6. ASSUME NEW w, DvrType(w) PROVE Alike(w, [w EXCEPT !.queue = <<>>])
    BY <2>6, EmptySeq DEF Alike, DvrType
  <2>7. Alike(z, y)
    BY <2>1, <2>4, <2>5, <2>6, AlikeTrans
  <2>8. DvrOK(y) /\ ~Converting(y) /\ (y.wanted = "asked" => x.wanted = "asked")
    BY <1>9, <2>3, <2>7, AlikeOK DEF Alike
  <2>9. x.wanted = "asked" => ~Converting(x)
    BY <1>11 DEF StartedIsKnown, Recording
  <2> QED
    BY <2>8, <2>9, NotConverting
<1> QED
  BY <1>10, <1>11

LEMMA StopStep ==
    ASSUME IInv, NEW stopPlay \in BOOLEAN, NEW stopPersistentRecord \in BOOLEAN,
           Stop(stopPlay, stopPersistentRecord)
    PROVE  Carries(d, d') /\ ThreadOK'
<1>1. ThreadOK'
  BY DEF IInv, ThreadOK, Stop
<1>2. PICK o \in IF stopPersistentRecord THEN StopRecording(d) ELSE {Outcome("Ok", d)} :
          d' \in StopPlaying(o.d) \/ d' = o.d
  BY DEF Stop
<1>3. CASE stopPersistentRecord
  <2>1. DvrOK(o.d) /\ o.d.wanted = "stopped"
    BY <1>2, <1>3, StopRec DEF IInv
  <2>2. StartedIsKnown(o.d)
    BY <2>1 DEF StartedIsKnown
  <2>3. DvrOK(d') /\ d'.wanted # "asked"
    BY <1>2, <2>1, <2>2, StopPlay DEF Carries
  <2> QED
    BY <1>1, <2>3, NotAsked
<1>4. CASE ~stopPersistentRecord
  <2>1. o.d = d
    BY <1>2, <1>4 DEF Outcome
  <2>2. Carries(d, d)
    BY DEF IInv, Carries, GoesOn
  <2> QED
    BY <1>1, <1>2, <2>1, <2>2, StopPlay DEF IInv
<1> QED
  BY <1>3, <1>4

LEMMA SetSpeedStep ==
    ASSUME IInv, SetSpeed
    PROVE  Carries(d, d') /\ ThreadOK'
<1>1. d' \in TrickPlay(d) /\ ThreadOK'
  BY DEF SetSpeed, IInv, ThreadOK
<1>2. /\ DvrOK(d') /\ (Converting(d') <=> Converting(d))
      /\ d'.wanted = "asked" => d.wanted = "asked"
      /\ d'.mPersistentRecordState = d.mPersistentRecordState
  BY <1>1, Trick DEF IInv
<1> QED
  BY <1>1, <1>2 DEF IInv, Carries, GoesOn, StartedIsKnown

LEMMA SetPositionStep ==
    ASSUME IInv, SetPosition
    PROVE  Carries(d, d') /\ ThreadOK'
<1> DEFINE x == deleteFile(CloseDisplaySession(d))
           y == [x EXCEPT !.mCurrentSourceType = "live"]
<1>1. Alike(d, x)
  BY Display, Sources, AlikeType, AlikeTrans DEF IInv, DvrOK
<1>2. DvrType(x)
  BY <1>1, AlikeType DEF IInv, DvrOK
<1>3. d' = psiStart(y) /\ ThreadOK'
  BY DEF SetPosition, IInv, ThreadOK
<1> HIDE DEF x
<1>4. Alike(x, y)
  BY <1>2 DEF Alike, DvrType
<1> HIDE DEF y
<1>5. Alike(d, d')
  BY <1>1, <1>2, <1>3, <1>4, Display, AlikeType, AlikeTrans
<1> QED
  BY <1>3, <1>5, AlikeCarries DEF IInv

\* The recording that is made of the buffer is lost when the buffer is stopped.
LEMMA SeekInTsb ==
    ASSUME NEW x, DvrOK(x), StartedIsKnown(x), NEW y \in SeekTsb(x)
    PROVE  Carries(x, y) /\ (y.wanted = "asked" => x.wanted = "asked")
<1> DEFINE playing == startFile(psiStart(x))
           shown == [playing EXCEPT !.display = "open", !.mCurrentSourceType = "file"]
           cut == IF Recording(x) THEN lose(x) ELSE x
<1>1. Alike(x, playing)
  BY Display, Sources, AlikeType, AlikeTrans DEF DvrOK
<1>2. DvrType(playing)
  BY <1>1, AlikeType DEF DvrOK
<1>3. y \in {x, [x EXCEPT !.file = "loaded"], shown} \cup StopRecordSession(cut)
  BY DEF SeekTsb
<1> HIDE DEF playing
<1>4. Alike(playing, shown)
  BY <1>2 DEF Alike, DvrType
<1>5. Alike(x, shown)
  BY <1>1, <1>4, AlikeTrans
<1> HIDE DEF shown
<1>6. CASE y \in {x, [x EXCEPT !.file = "loaded"], shown}
  <2>1. Alike(x, x) /\ Alike(x, [x EXCEPT !.file = "loaded"])
    BY DEF Alike, DvrOK, DvrType
  <2>2. Alike(x, y)
    BY <1>5, <1>6, <2>1
  <2> QED
    BY <2>2, AlikeCarries DEF Alike
<1>7. CASE y \in StopRecordSession(cut)
  <2>1. DvrOK(cut)
    BY Told, AlikeOK DEF DvrOK
  <2>2. DvrOK(y) /\ ~Converting(y) /\ y.wanted = cut.wanted
    BY <1>7, <2>1, StopRecord
  <2>3. cut.wanted = "asked" => x.wanted = "asked" /\ ~Converting(x)
    BY Told DEF DvrOK, Alike, StartedIsKnown, Recording
  <2> QED
    BY <2>2, <2>3, NotConverting
<1> QED
  BY <1>3, <1>6, <1>7

LEMMA SeekStep ==
    ASSUME IInv, Seek
    PROVE  Carries(d, d') /\ ThreadOK'
<1>1. ThreadOK'
  BY DEF Seek, IInv, ThreadOK
<1>2. CASE d.mTsbState # "NotCreated"
  <2>1. d' \in SeekTsb(d)
    BY <1>2 DEF Seek
  <2> QED
    BY <1>1, <2>1, SeekInTsb DEF IInv
<1>3. CASE d.mTsbState = "NotCreated"
  <2>1. PICK o \in StartTSBRecordSession(d) :
            d' \in CASE o.status = "Ok" -> SeekTsb([o.d EXCEPT !.mTsbState = "Created"])
                     [] o.status = "NotSupported" -> SeekTsb(o.d)
                     [] OTHER -> {o.d}
    BY <1>3 DEF Seek
  <2>2. ~Converting(d)
    BY <1>3 DEF IInv, DvrOK, SessionOK
  <2>3. DvrOK(o.d) /\ ~Converting(o.d) /\ o.d.wanted = d.wanted
    BY <2>2, StartTsb DEF IInv, Kept
  <2> DEFINE created == [o.d EXCEPT !.mTsbState = "Created"]
  <2>4. DvrOK(created) /\ ~Converting(created) /\ created.wanted = d.wanted
    BY <2>3, BufferCreated DEF DvrOK, DvrType
  <2>5. d' \in SeekTsb(created) \/ d' \in SeekTsb(o.d) \/ d' = o.d
    BY <2>1
  <2> HIDE DEF created
  <2>6. DvrOK(d') /\ StartedIsKnown(d')
    BY <2>3, <2>4, <2>5, SeekInTsb DEF StartedIsKnown, Carries
  <2>7. d'.wanted = "asked" => d.wanted = "asked"
    BY <2>3, <2>4, <2>5, SeekInTsb DEF StartedIsKnown
  <2> QED
    BY <1>1, <2>2, <2>6, <2>7 DEF Carries, GoesOn
<1> QED
  BY <1>2, <1>3

LEMMA EjectStep ==
    ASSUME IInv, Eject
    PROVE  Carries(d, d') /\ ThreadOK'
<1>1. d' = queueEvent(joinDwellTimer(d), "Exit") /\ ThreadOK'
  BY DEF Eject, IInv, ThreadOK
<1>2. Alike(d, d')
  BY <1>1, Sources, Queued, AlikeType, AlikeTrans DEF IInv, DvrOK, Events
<1> QED
  BY <1>1, <1>2, AlikeCarries DEF IInv

\* Another Dvr has no buffer yet, and the last one's is free again.
LEMMA NewDvrOK ==
    ASSUME NEW tsbs \in [Tsbs -> Users], \A n \in Tsbs : tsbs[n] # "dvr"
    PROVE  DvrOK([NewDvr EXCEPT !.tsbs = tsbs]) /\ [NewDvr EXCEPT !.tsbs = tsbs].wanted = "none"
<1> DEFINE x == [NewDvr EXCEPT !.tsbs = tsbs]
<1>1. DvrType(x)
  BY NewSessions, EmptySeq DEF DvrType, NewDvr, DvrStates
<1>2. /\ x.tsbs = tsbs /\ x.mTsbNumber = NoTsb /\ x.rec = NoSession /\ x.wanted = "none"
      /\ x.interrupted = FALSE
  BY DEF NewDvr
<1> HIDE DEF x
<1>3. Own(x) /\ SessionOK(x)
  BY <1>2, TsbNumbers, NewSessions DEF Own, SessionOK, Converting
<1>4. DvrOK(x) /\ x.wanted = "none"
  BY <1>1, <1>2, <1>3 DEF DvrOK
<1> QED
  BY <1>4 DEF x

LEMMA deleteDvrStep ==
    ASSUME IInv, deleteDvr
    PROVE  Carries(d, d') /\ ThreadOK'
<1> DEFINE tsbs == release_tsb(d.tsbs, d.mTsbNumber)
<1>1. tsbs \in [Tsbs -> Users] /\ \A n \in Tsbs : tsbs[n] # "dvr"
  BY DEF IInv, DvrOK, DvrType, Own, release_tsb, Users
<1>2. d' = [NewDvr EXCEPT !.tsbs = tsbs]
  BY DEF deleteDvr
<1> HIDE DEF tsbs
<1>3. DvrOK(d') /\ d'.wanted # "asked"
  BY <1>1, <1>2, NewDvrOK
<1>4. ThreadOK'
  BY DEF deleteDvr, IInv, ThreadOK
<1> QED
  BY <1>3, <1>4, NotAsked

------------------------------------------------------------------------------
(* The event thread *)

LEMMA popEventQueueStep ==
    ASSUME IInv, popEventQueue
    PROVE  Carries(d, d') /\ ThreadOK'
<1>1. d.queue \in Seq(Events) /\ d.queue # <<>>
  BY DEF IInv, DvrOK, DvrType, popEventQueue
<1>2. Head(d.queue) \in Events /\ Tail(d.queue) \in Seq(Events)
  BY <1>1, HeadTailProperties
<1>3. Alike(d, d')
  BY <1>2 DEF IInv, DvrOK, DvrType, Alike, popEventQueue
<1>4. ThreadOK'
  BY <1>2 DEF IInv, ThreadOK, popEventQueue
<1> QED
  BY <1>3, <1>4, AlikeCarries DEF IInv

\* A handler that touches nothing of the recording.
LEMMA HandleAlike ==
    ASSUME IInv, NEW events, NEW outcomes, Handle(events, outcomes),
           \A y \in outcomes : Alike(d, y)
    PROVE  Carries(d, d') /\ ThreadOK'
<1>1. Alike(d, d') /\ ThreadOK'
  BY DEF Handle, Handling, IInv, ThreadOK
<1> QED
  BY <1>1, AlikeCarries DEF IInv

\* A handler takes the event in hand.
LEMMA HandleThread ==
    ASSUME IInv, NEW events, NEW outcomes, Handle(events, outcomes)
    PROVE  d' \in outcomes /\ ThreadOK'
BY DEF Handle, Handling, IInv, ThreadOK

LEMMA Same == DvrType(d) => Alike(d, d)
BY DEF DvrType, Alike

\* One lemma for each handler.
LEMMA HandleExitStep ==
    ASSUME IInv, HandleExit
    PROVE  Carries(d, d') /\ ThreadOK'
<1>1. ThreadOK' /\ Alike(d, d')
  BY Same DEF HandleExit, Handling, IInv, ThreadOK, DvrOK
<1> QED
  BY <1>1, AlikeCarries DEF IInv

LEMMA HandleTimeOutStep ==
    ASSUME IInv, HandleTimeOut
    PROVE  Carries(d, d') /\ ThreadOK'
BY Same, Told, HandleAlike DEF HandleTimeOut, IInv, DvrOK

\* The channel is tuned, or waited for.
LEMMA PlayLiveAlike ==
    ASSUME NEW x, DvrType(x), NEW status, NEW y \in PlayLive(x, status)
    PROVE  Alike(x, y)
<1> DEFINE ready == [x EXCEPT !.mState = "WaitSourceReady"]
<1>1. y \in {[x EXCEPT !.mState = "WaitTuningParams", !.live = "loading"],
             [x EXCEPT !.mState = "WaitForTuner", !.live = "waiting"],
             [x EXCEPT !.mState = "WaitSourceReady", !.live = "started"],
             told(x), told(ready)}
  BY DEF PlayLive
<1>2. /\ Alike(x, [x EXCEPT !.mState = "WaitTuningParams", !.live = "loading"])
      /\ Alike(x, [x EXCEPT !.mState = "WaitForTuner", !.live = "waiting"])
  BY DEF Alike, DvrType, DvrStates
<1>3. /\ Alike(x, [x EXCEPT !.mState = "WaitSourceReady", !.live = "started"])
      /\ Alike(x, ready)
  BY DEF Alike, DvrType, DvrStates
<1> HIDE DEF ready
<1>4. Alike(x, told(x)) /\ Alike(x, told(ready))
  BY <1>3, Told, AlikeType, AlikeTrans
<1> QED
  BY <1>1, <1>2, <1>3, <1>4

LEMMA HandlePlayStep ==
    ASSUME IInv, HandlePlay
    PROVE  Carries(d, d') /\ ThreadOK'
<1>1. DvrType(d)
  BY DEF IInv, DvrOK
<1>2. \A status : \A y \in PlayLive(d, status) : Alike(d, y)
  BY <1>1, PlayLiveAlike
<1>3. \A y \in PlayFile(d) : Alike(d, y)
  BY <1>1, Told, Sources, Queued, AlikeType, AlikeTrans DEF PlayFile, Events
<1>4. Alike(d, d)
  BY <1>1, Same
<1> DEFINE outcomes ==
        CASE d.mCurrentSourceType = "live" /\ d.live # "none" ->
               UNION {PlayLive(d, status) : status \in LiveOutcomes(d.live)}
          [] d.mCurrentSourceType = "file" /\ d.file # "none" -> PlayFile(d)
          [] OTHER -> {d}
<1>5. Handle({"Play"}, outcomes)
  BY DEF HandlePlay
<1>6. \A y \in outcomes : Alike(d, y)
  BY <1>2, <1>3, <1>4
<1> HIDE DEF outcomes
<1> QED
  BY <1>5, <1>6, HandleAlike

LEMMA StartPsi ==
    ASSUME NEW x, DvrType(x)
    PROVE  Alike(x, startPsi(x))
<1> DEFINE y == [x EXCEPT !.psi = IF @ = "none" THEN "new" ELSE @, !.mState = "SourceReady"]
<1>1. Alike(x, y)
  BY DEF Alike, DvrType, DvrStates
<1>2. startPsi(x) = psiStart(y)
  BY DEF startPsi
<1> HIDE DEF y
<1> QED
  BY <1>1, <1>2, Display, AlikeType, AlikeTrans

LEMMA HandleRFCallbackStep ==
    ASSUME IInv, HandleRFCallback
    PROVE  Carries(d, d') /\ ThreadOK'
<1> DEFINE y == [startPsi(d) EXCEPT !.psi = IF d.psi = "none" THEN "new" ELSE d.psi]
<1>1. d' \in {d, startPsi(d), y} /\ ThreadOK'
  BY HandleThread DEF HandleRFCallback
<1>2. Alike(d, startPsi(d)) /\ DvrType(startPsi(d))
  BY StartPsi, AlikeType DEF IInv, DvrOK
<1>3. ASSUME NEW x, DvrType(x) PROVE Alike(x, [x EXCEPT !.psi = IF d.psi = "none" THEN "new" ELSE d.psi])
  BY <1>3 DEF Alike, DvrType
<1>4. Alike(d, d')
  BY <1>1, <1>2, <1>3, Same, AlikeTrans DEF IInv, DvrOK
<1> QED
  BY <1>1, <1>4, AlikeCarries DEF IInv

LEMMA HandlePlayBkStep ==
    ASSUME IInv, HandlePlayBk
    PROVE  Carries(d, d') /\ ThreadOK'
BY StartPsi, HandleAlike DEF HandlePlayBk, IInv, DvrOK

LEMMA HandlePSIReadyStep ==
    ASSUME IInv, HandlePSIReady
    PROVE  Carries(d, d') /\ ThreadOK'
<1> DEFINE shown == SetDisplaySession(d)
<1>1. d' \in {d, shown, startFile(shown), told(shown)} /\ ThreadOK'
  BY HandleThread DEF HandlePSIReady
<1>2. Alike(d, shown) /\ DvrType(shown)
  BY Display, AlikeType DEF IInv, DvrOK
<1> HIDE DEF shown
<1>3. Alike(d, d')
  BY <1>1, <1>2, Sources, Told, Same, AlikeTrans DEF IInv, DvrOK
<1> QED
  BY <1>1, <1>3, AlikeCarries DEF IInv

LEMMA HandleNextFileStep ==
    ASSUME IInv, HandleNextFile
    PROVE  Carries(d, d') /\ ThreadOK'
<1> DEFINE dark == IF d.display = "none" THEN d ELSE CloseDisplaySession(d)
           stopped == StopDeletePSI(dark)
           paused == [stopFile(stopped) EXCEPT !.mState = "Stop"]
<1>1. d' \in {stopped, queueEvent(paused, "Play")} /\ ThreadOK'
  BY HandleThread DEF HandleNextFile
<1>2. Alike(d, dark) /\ DvrType(dark)
  BY Display, AlikeType, Same DEF IInv, DvrOK
<1> HIDE DEF dark
<1>3. Alike(d, stopped) /\ DvrType(stopped)
  BY <1>2, Display, AlikeType, AlikeTrans
<1> HIDE DEF stopped
<1>4. Alike(d, stopFile(stopped)) /\ DvrType(stopFile(stopped))
  BY <1>3, Sources, AlikeType, AlikeTrans
<1>5. ASSUME NEW x, DvrType(x) PROVE Alike(x, [x EXCEPT !.mState = "Stop"])
  BY <1>5 DEF Alike, DvrType, DvrStates
<1>6. Alike(stopFile(stopped), paused) /\ DvrType(paused)
  BY <1>4, <1>5, AlikeType
<1> HIDE DEF paused
<1>7. Alike(paused, queueEvent(paused, "Play"))
  BY <1>6, Queued DEF Events
<1>8. Alike(d, d')
  BY <1>1, <1>3, <1>4, <1>6, <1>7, AlikeTrans
<1> QED
  BY <1>1, <1>8, AlikeCarries DEF IInv

LEMMA HandleSchedRecStep ==
    ASSUME IInv, HandleSchedRec
    PROVE  Carries(d, d') /\ ThreadOK'
<1>1. d' \in {IF o.status = "Ok" THEN o.d ELSE told(o.d) : o \in StartRecording(d)} /\ ThreadOK'
  BY HandleThread DEF HandleSchedRec
<1>2. PICK o \in StartRecording(d) : d' = IF o.status = "Ok" THEN o.d ELSE told(o.d)
  BY <1>1
<1>3. /\ DvrOK(o.d) /\ GoesOn(d, o.d)
      /\ o.status = "Ok" => StartedIsKnown(o.d)
  BY Start DEF IInv
<1>4. DvrOK(told(o.d)) /\ told(o.d).wanted # "asked"
  BY <1>3, Told, AlikeOK DEF DvrOK
<1>5. CASE o.status = "Ok"
  BY <1>1, <1>2, <1>3, <1>5 DEF Carries
<1>6. CASE o.status # "Ok"
  BY <1>1, <1>2, <1>4, <1>6, NotAsked
<1> QED
  BY <1>5, <1>6

LEMMA HandleDwellExpiredStep ==
    ASSUME IInv, HandleDwellExpired
    PROVE  Carries(d, d') /\ ThreadOK'
<1>1. ThreadOK'
  BY DEF HandleDwellExpired, Handle, Handling, IInv, ThreadOK
<1>2. \/ d' = d
      \/ /\ d.mTsbState = "NotCreated"
         /\ \E o \in StartTSBRecordSession(d) :
                d' = IF o.status = "Ok" THEN [o.d EXCEPT !.mTsbState = "Created"] ELSE o.d
  BY DEF HandleDwellExpired, Handle
<1>3. CASE d' = d
  BY <1>1, <1>3, Same, AlikeCarries DEF IInv, DvrOK
<1>4. ASSUME d.mTsbState = "NotCreated", NEW o \in StartTSBRecordSession(d),
             d' = IF o.status = "Ok" THEN [o.d EXCEPT !.mTsbState = "Created"] ELSE o.d
      PROVE  Carries(d, d')
  <2>1. ~Converting(d)
    BY <1>4 DEF IInv, DvrOK, SessionOK
  <2>2. DvrOK(o.d) /\ ~Converting(o.d)
    BY <2>1, StartTsb DEF IInv
  <2>3. DvrOK(d') /\ ~Converting(d')
    BY <1>4, <2>2, BufferCreated
  <2> QED
    BY <2>1, <2>3, NotConverting
<1> QED
  BY <1>1, <1>2, <1>3, <1>4

\* The buffer is being filled.
LEMMA BufferStarted ==
    ASSUME NEW x, DvrOK(x)
    PROVE  /\ DvrOK([x EXCEPT !.mTsbState = "Started"])
           /\ [x EXCEPT !.mTsbState = "Started"].mTsbState = "Started"
           /\ [x EXCEPT !.mTsbState = "Started"].rec = x.rec
           /\ [x EXCEPT !.mTsbState = "Started"].wanted = x.wanted
           /\ [x EXCEPT !.mTsbState = "Started"].interrupted = x.interrupted
           /\ [x EXCEPT !.mTsbState = "Started"].mPersistentRecordState = x.mPersistentRecordState
<1> DEFINE y == [x EXCEPT !.mTsbState = "Started"]
<1>1. /\ y.mTsbState = "Started" /\ y.rec = x.rec /\ y.wanted = x.wanted
      /\ y.interrupted = x.interrupted /\ y.hasRec = x.hasRec /\ y.mTsbNumber = x.mTsbNumber
      /\ y.mPersistentRecordState = x.mPersistentRecordState /\ y.tsbs = x.tsbs
  BY DEF DvrOK, DvrType
<1>2. DvrType(y)
  BY DEF DvrOK, DvrType
<1> HIDE DEF y
<1>3. Own(y) /\ SessionOK(y)
  BY <1>1 DEF DvrOK, Own, SessionOK, Converting
<1>4. DvrOK(y)
  BY <1>2, <1>3 DEF DvrOK
<1> QED
  BY <1>1, <1>4 DEF y

\* A trick play that was pending is carried out.
LEMMA PendingTrick ==
    ASSUME NEW x, DvrOK(x), StartedIsKnown(x),
           NEW y \in IF x.mPendingTrickPlay
                       THEN {[z EXCEPT !.mPendingTrickPlay = FALSE] :
                                z \in IF CanTrickPlay(x) THEN TrickPlay(x) ELSE {x}}
                       ELSE {x}
    PROVE  DvrOK(y) /\ StartedIsKnown(y) /\ GoesOn(x, y)
<1>1. CASE y = x
  BY <1>1 DEF GoesOn
<1>2. ASSUME NEW z \in TrickPlay(x) \cup {x}, y = [z EXCEPT !.mPendingTrickPlay = FALSE]
      PROVE  DvrOK(y) /\ StartedIsKnown(y) /\ GoesOn(x, y)
  <2>1. /\ DvrOK(z) /\ (Converting(z) <=> Converting(x))
        /\ z.wanted = "asked" => x.wanted = "asked"
        /\ z.mPersistentRecordState = x.mPersistentRecordState
    BY Trick
  <2>2. Alike(z, y)
    BY <1>2, <2>1 DEF Alike, DvrOK, DvrType
  <2>3. DvrOK(y) /\ (Converting(y) <=> Converting(z))
    BY <2>1, <2>2, AlikeOK
  <2> QED
    BY <2>1, <2>2, <2>3 DEF Alike, StartedIsKnown, GoesOn
<1> QED
  BY <1>1, <1>2

\* A recording that waited for its buffer is converted, or lost.
LEMMA TSBStarts ==
    ASSUME NEW x, DvrOK(x), StartedIsKnown(x), NEW o \in TSBStart(x)
    PROVE  Carries(x, o.d)
<1> DEFINE started == [x EXCEPT !.mTsbState = "Started"]
           trickPlay(y) == IF y.mPendingTrickPlay
                             THEN {[z EXCEPT !.mPendingTrickPlay = FALSE] :
                                      z \in IF CanTrickPlay(y) THEN TrickPlay(y) ELSE {y}}
                             ELSE {y}
           known(p) == [p.d EXCEPT !.mPersistentRecordState = "Started"]
           none(p) == [p.d EXCEPT !.mPersistentRecordState = "NotStarted"]
           converted(p) == IF p.status = "Ok"
                             THEN {Outcome("Ok", y) : y \in trickPlay(known(p))}
                             ELSE {Outcome("Exit", lose(none(p)))}
<1>1. \/ o = Outcome("Ok", x)
      \/ x.mPersistentRecordState = "WaitingTSB"
         /\ \E p \in StartPersistentRecording(started) :
                \/ \E y \in trickPlay(known(p)) : o = Outcome("Ok", y)
                \/ o = Outcome("Exit", lose(none(p)))
      \/ \E y \in trickPlay(started) : o = Outcome("Ok", y)
  <2>1. o \in CASE x.mState = "Stop" -> {Outcome("Ok", x)}
                [] x.mState # "Stop" /\ x.mPersistentRecordState = "WaitingTSB" ->
                     UNION {converted(p) : p \in StartPersistentRecording(started)}
                [] OTHER -> {Outcome("Ok", y) : y \in trickPlay(started)}
    BY Zenon DEF TSBStart
  <2> HIDE DEF started, trickPlay, converted
  <2>2. \/ o = Outcome("Ok", x)
        \/ x.mPersistentRecordState = "WaitingTSB"
           /\ \E p \in StartPersistentRecording(started) : o \in converted(p)
        \/ \E y \in trickPlay(started) : o = Outcome("Ok", y)
    BY <2>1
  <2> HIDE DEF known, none
  <2> QED
    BY <2>2 DEF converted
<1> HIDE DEF trickPlay, known, none
<1>2. ASSUME NEW z, DvrOK(z), StartedIsKnown(z), NEW y \in trickPlay(z)
      PROVE  DvrOK(y) /\ StartedIsKnown(y) /\ GoesOn(z, y)
  BY <1>2, PendingTrick DEF trickPlay
<1>3. /\ DvrOK(started) /\ started.mTsbState = "Started" /\ started.rec = x.rec
      /\ started.wanted = x.wanted /\ started.interrupted = x.interrupted
      /\ started.mPersistentRecordState = x.mPersistentRecordState
  BY BufferStarted
<1> HIDE DEF started
<1>4. StartedIsKnown(started) /\ (Converting(started) <=> Converting(x))
  BY <1>3 DEF StartedIsKnown, Converting
<1>5. CASE o = Outcome("Ok", x)
  BY <1>5 DEF Outcome, Carries, GoesOn
<1>6. ASSUME NEW y \in trickPlay(started), o = Outcome("Ok", y)
      PROVE  Carries(x, o.d)
  BY <1>2, <1>3, <1>4, <1>6 DEF Outcome, Carries, GoesOn
<1>7. ASSUME x.mPersistentRecordState = "WaitingTSB",
             NEW p \in StartPersistentRecording(started)
      PROVE  /\ \A y \in trickPlay(known(p)) : Carries(x, y)
             /\ Carries(x, lose(none(p)))
  <2>1. ~started.interrupted
    BY <1>3, <1>7 DEF DvrOK, SessionOK
  <2>2. /\ DvrOK(p.d) /\ Kept(started, p.d) /\ ~p.d.interrupted
        /\ Converting(started) => Converting(p.d)
    BY <1>3, <2>1, StartPersistent DEF Kept
  <2>3. /\ DvrOK(known(p)) /\ (Converting(known(p)) <=> Converting(p.d))
        /\ known(p).wanted = p.d.wanted /\ known(p).mPersistentRecordState = "Started"
    BY <2>2, RecordingState DEF known
  <2>4. /\ DvrOK(none(p)) /\ none(p).wanted = p.d.wanted
    BY <2>2, RecordingState DEF none
  <2>5. StartedIsKnown(known(p)) /\ GoesOn(x, known(p))
    BY <1>3, <1>4, <2>2, <2>3 DEF StartedIsKnown, GoesOn, Kept
  <2>6. DvrOK(lose(none(p))) /\ lose(none(p)).wanted # "asked"
    BY <2>4, Told, AlikeOK DEF DvrOK
  <2>7. \A y \in trickPlay(known(p)) : Carries(x, y)
    BY <1>2, <2>3, <2>5 DEF Carries, GoesOn
  <2> QED
    BY <2>6, <2>7, NotAsked
<1> QED
  BY <1>1, <1>5, <1>6, <1>7 DEF Outcome

LEMMA HandleTSBStartStep ==
    ASSUME IInv, HandleTSBStart
    PROVE  Carries(d, d') /\ ThreadOK'
<1>1. PICK o \in TSBStart(d) : d' = o.d
  BY DEF HandleTSBStart
<1>2. ThreadOK'
  BY DEF HandleTSBStart, Handling, IInv, ThreadOK
<1> QED
  BY <1>1, <1>2, TSBStarts DEF IInv

LEMMA HandlePSIUpdateStep ==
    ASSUME IInv, HandlePSIUpdate
    PROVE  Carries(d, d') /\ ThreadOK'
<1> DEFINE x == SetDisplaySession(CloseDisplaySession(d))
           y == [x EXCEPT !.mCurrentSourceType = "live", !.mState = "SourceReady"]
<1>1. d' \in {d, y} /\ ThreadOK'
  BY HandleThread DEF HandlePSIUpdate
<1>2. Alike(d, x) /\ DvrType(x)
  BY Display, AlikeType, AlikeTrans DEF IInv, DvrOK
<1> HIDE DEF x
<1>3. Alike(x, y)
  BY <1>2 DEF Alike, DvrType, DvrStates
<1> HIDE DEF y
<1>4. Alike(d, d')
  BY <1>1, <1>2, <1>3, Same, AlikeTrans DEF IInv, DvrOK
<1> QED
  BY <1>1, <1>4, AlikeCarries DEF IInv

\* What is set after the tear-down does not touch the recording.
LEMMA StateSet ==
    ASSUME NEW x, DvrType(x)
    PROVE  /\ Alike(x, [x EXCEPT !.mState = "Stop"])
           /\ Alike(x, [x EXCEPT !.mState = "Stop", !.mCurrentSourceType = "live"])
BY DEF Alike, DvrType, DvrStates

\* The recording that was going on is lost with the channel.
LEMMA HandleTuningUpdateStep ==
    ASSUME IInv, HandleTuningUpdate
    PROVE  Carries(d, d') /\ ThreadOK'
<1> DEFINE y(z) == IF d.mPersistentRecordState = "Started" THEN lose(z) ELSE z
           paused(z) == [y(z) EXCEPT !.mState = "Stop", !.mCurrentSourceType = "live"]
<1>1. ThreadOK'
  BY HandleThread DEF HandleTuningUpdate
<1>2. d' = d \/ \E z \in tearDownToRetune(d) : d' = queueEvent(paused(z), "Play")
  BY DEF HandleTuningUpdate, Handle, Retuned
<1>3. ASSUME NEW z \in tearDownToRetune(d), d' = queueEvent(paused(z), "Play")
      PROVE  Carries(d, d')
  <2>1. DvrOK(z) /\ ~Converting(z) /\ (z.wanted = "asked" => d.wanted = "asked")
    BY TearDown DEF IInv
  <2>2. Alike(z, y(z)) /\ (y(z).wanted = "asked" => d.mPersistentRecordState # "Started")
    BY <2>1, Told DEF DvrOK, DvrType, Alike
  <2> HIDE DEF y
  <2>3. Alike(y(z), paused(z))
    BY <2>1, <2>2, AlikeType, StateSet DEF DvrOK
  <2> HIDE DEF paused
  <2>4. Alike(paused(z), d')
    BY <1>3, <2>1, <2>2, <2>3, AlikeType, Queued DEF DvrOK, Events
  <2>5. Alike(y(z), d')
    BY <2>3, <2>4, AlikeTrans
  <2>6. Alike(z, d')
    BY <2>2, <2>5, AlikeTrans
  <2>7. DvrOK(d') /\ ~Converting(d')
    BY <2>1, <2>6, AlikeOK
  <2>8. d'.wanted = "asked" => ~Converting(d)
    BY <2>1, <2>2, <2>5, <2>6 DEF Alike, IInv, StartedIsKnown
  <2> QED
    BY <2>7, <2>8, NotConverting
<1>4. CASE d' = d
  BY <1>1, <1>4, Same, AlikeCarries DEF IInv, DvrOK
<1> QED
  BY <1>1, <1>2, <1>3, <1>4

LEMMA HandlePpvStopStep ==
    ASSUME IInv, HandlePpvStop
    PROVE  Carries(d, d') /\ ThreadOK'
<1> DEFINE paused(z) == [z EXCEPT !.mState = "Stop", !.mCurrentSourceType = "live"]
<1>1. d' \in {told(paused(z)) : z \in tearDownToRetune(d)} /\ ThreadOK'
  BY HandleThread DEF HandlePpvStop
<1>2. PICK z \in tearDownToRetune(d) : d' = told(paused(z))
  BY <1>1
<1>3. DvrOK(z)
  BY TearDown DEF IInv
<1>4. DvrOK(paused(z))
  BY <1>3, StateSet, AlikeOK DEF DvrOK
<1> HIDE DEF paused
<1>5. DvrOK(d') /\ d'.wanted # "asked"
  BY <1>2, <1>4, Told, AlikeOK DEF DvrOK
<1> QED
  BY <1>1, <1>5, NotAsked

LEMMA HandleTunerLostStep ==
    ASSUME IInv, HandleTunerLost
    PROVE  Carries(d, d') /\ ThreadOK'
<1> DEFINE paused(z) == [z EXCEPT !.mState = "Stop"]
<1>1. d' \in {told(paused(z)) : z \in tearDownToRetune(d)} /\ ThreadOK'
  BY HandleThread DEF HandleTunerLost
<1>2. PICK z \in tearDownToRetune(d) : d' = told(paused(z))
  BY <1>1
<1>3. DvrOK(z)
  BY TearDown DEF IInv
<1>4. DvrOK(paused(z))
  BY <1>3, StateSet, AlikeOK DEF DvrOK
<1> HIDE DEF paused
<1>5. DvrOK(d') /\ d'.wanted # "asked"
  BY <1>2, <1>4, Told, AlikeOK DEF DvrOK
<1> QED
  BY <1>1, <1>5, NotAsked

LEMMA HandleTunerRestoredStep ==
    ASSUME IInv, HandleTunerRestored
    PROVE  Carries(d, d') /\ ThreadOK'
BY HandleAlike, Queued DEF HandleTunerRestored, IInv, DvrOK, Events

LEMMA HandleSDVStep ==
    ASSUME IInv, HandleSDV
    PROVE  Carries(d, d') /\ ThreadOK'
<1>1. d' \in {d, queueEvent(d, "Play"), told(d)} /\ ThreadOK'
  BY HandleThread DEF HandleSDV
<1>2. Alike(d, d')
  BY <1>1, Same, Queued, Told DEF IInv, DvrOK, Events
<1> QED
  BY <1>1, <1>2, AlikeCarries DEF IInv

LEMMA HandleFirstFrameStep ==
    ASSUME IInv, HandleFirstFrame
    PROVE  Carries(d, d') /\ ThreadOK'
<1> DEFINE rendering == [d EXCEPT !.mState = "Rendering",
                                  !.programme = IF @ = "none" THEN @ ELSE "shown"]
<1>1. ThreadOK'
  BY DEF HandleFirstFrame, Handle, Handling, IInv, ThreadOK
<1>2. \/ \E o \in StartRecording(rendering) : d' = IF o.status = "Ok" THEN o.d ELSE lose(o.d)
      \/ d' = StartDwellTimerForTsb(rendering)
  BY DEF HandleFirstFrame, Handle
<1>3. Alike(d, rendering)
  BY DEF Alike, IInv, DvrOK, DvrType, DvrStates
<1> HIDE DEF rendering
<1>4. DvrOK(rendering) /\ StartedIsKnown(rendering) /\ GoesOn(d, rendering)
  BY <1>3, AlikeOK DEF IInv, Alike, StartedIsKnown, GoesOn
<1>5. ASSUME NEW o \in StartRecording(rendering), d' = IF o.status = "Ok" THEN o.d ELSE lose(o.d)
      PROVE  Carries(d, d')
  <2>1. /\ DvrOK(o.d) /\ GoesOn(rendering, o.d)
        /\ o.status = "Ok" => StartedIsKnown(o.d)
    BY <1>4, Start
  <2>2. DvrOK(lose(o.d)) /\ lose(o.d).wanted # "asked"
    BY <2>1, Told, AlikeOK DEF DvrOK
  <2>3. CASE o.status = "Ok"
    BY <1>4, <1>5, <2>1, <2>3 DEF Carries, GoesOn
  <2>4. CASE o.status # "Ok"
    BY <1>5, <2>2, <2>4, NotAsked
  <2> QED
    BY <2>3, <2>4
<1>6. ASSUME d' = StartDwellTimerForTsb(rendering)
      PROVE  Carries(d, d')
  <2>1. Alike(rendering, d')
    BY <1>4, <1>6 DEF Alike, DvrOK, DvrType, StartDwellTimerForTsb
  <2> QED
    BY <1>3, <2>1, AlikeTrans, AlikeCarries DEF IInv
<1> QED
  BY <1>1, <1>2, <1>5, <1>6

LEMMA HandleRecordingAbortedStep ==
    ASSUME IInv, HandleRecordingAborted
    PROVE  Carries(d, d') /\ ThreadOK'
<1> DEFINE x == [d EXCEPT !.mPersistentRecordState = "NotStarted"]
           aborted == refuse(x)
<1>1. ThreadOK'
  BY DEF HandleRecordingAborted, Handle, Handling, IInv, ThreadOK
<1>2. \/ d' = refuse(d)
      \/ /\ d.mPersistentRecordState = "Started" /\ d.hasRec
         /\ \E r \in stopConvert(d.rec) : d' = [aborted EXCEPT !.rec = r.rec]
      \/ d.mPersistentRecordState = "Started" /\ d' = aborted
  BY DEF HandleRecordingAborted, Handle
<1>3. CASE d' = refuse(d)
  BY <1>1, <1>3, Told, AlikeCarries DEF IInv, DvrOK
<1>4. CASE d.mPersistentRecordState = "Started" /\ d' # refuse(d)
  <2>1. ~d.interrupted
    BY <1>4 DEF IInv, DvrOK, SessionOK
  <2>2. /\ DvrOK(x) /\ (Converting(x) <=> Converting(d)) /\ x.rec = d.rec /\ x.hasRec = d.hasRec
    BY <2>1, RecordingState DEF IInv, DvrOK, DvrType
  <2> HIDE DEF x
  <2>3. /\ DvrOK(aborted) /\ (Converting(aborted) <=> Converting(d)) /\ aborted.wanted # "asked"
        /\ aborted.rec = d.rec /\ aborted.hasRec = d.hasRec
    BY <2>2, Told, AlikeOK, SMTT(30) DEF DvrOK, Alike
  <2> HIDE DEF aborted
  <2>4. ASSUME d.hasRec, NEW r \in stopConvert(d.rec), d' = [aborted EXCEPT !.rec = r.rec]
        PROVE  DvrOK(d') /\ d'.wanted # "asked"
    <3>1. r.rec \in RecordSession /\ (r.rec.mState = "ConversionStarted" => Converting(d))
      BY StopConvert DEF IInv, DvrOK, DvrType, Converting
    <3>2. DvrType(d') /\ Own(d') /\ d'.wanted # "asked"
      BY <2>3, <2>4, <3>1 DEF DvrOK, DvrType, Own
    <3>3. SessionOK(d')
      BY <2>3, <2>4, <3>1 DEF DvrOK, DvrType, SessionOK, Converting
    <3> QED
      BY <3>2, <3>3 DEF DvrOK
  <2> QED
    BY <1>1, <1>2, <1>4, <2>3, <2>4, NotAsked
<1> QED
  BY <1>1, <1>2, <1>3, <1>4

LEMMA dispatchEventStep ==
    ASSUME IInv, dispatchEvent
    PROVE  Carries(d, d') /\ ThreadOK'
BY HandleExitStep, HandleTimeOutStep, HandlePlayStep, HandleRFCallbackStep, HandlePlayBkStep,
   HandlePSIReadyStep, HandleNextFileStep, HandleSchedRecStep, HandleDwellExpiredStep,
   HandleTSBStartStep, HandlePSIUpdateStep, HandleTuningUpdateStep, HandlePpvStopStep,
   HandleTunerLostStep, HandleTunerRestoredStep, HandleSDVStep, HandleFirstFrameStep,
   HandleRecordingAbortedStep DEF dispatchEvent

------------------------------------------------------------------------------
(* What the other threads post *)

\* An event is queued, with a change that touches nothing of the recording.
LEMMA PostAlike ==
    ASSUME IInv, NEW e \in Events, NEW x, Alike(d, x), Post(e, x)
    PROVE  Carries(d, d') /\ ThreadOK'
<1>1. d' = queueEvent(x, e) /\ ThreadOK'
  BY DEF Post, IInv, ThreadOK
<1>2. Alike(d, d')
  BY <1>1, Queued, AlikeType, AlikeTrans DEF IInv, DvrOK
<1> QED
  BY <1>1, <1>2, AlikeCarries DEF IInv

\* The tuner, the SDV and the channel.
LEMMA TunerStep ==
    ASSUME IInv, TunerLocks \/ TunerGranted \/ SDVAnswers \/ ChannelChanges
    PROVE  Carries(d, d') /\ ThreadOK'
<1>1. \A live : Alike(d, [d EXCEPT !.live = live])
  BY DEF IInv, DvrOK, DvrType, Alike
<1>2. Alike(d, d)
  BY Same DEF IInv, DvrOK
<1>3. PICK e \in Events, x \in {d} \cup {[d EXCEPT !.live = live] : live \in
                {"locked", "granted", "known", "loaded", "waiting"}} : Post(e, x)
  BY DEF TunerLocks, TunerGranted, SDVAnswers, ChannelChanges, Events
<1>4. Alike(d, x)
  BY <1>1, <1>2
<1> QED
  BY <1>3, <1>4, PostAlike

\* The tables, the display and the file.
LEMMA ProgrammeStep ==
    ASSUME IInv, psiCallback \/ psiCallbackUpdate \/ mediaCB \/ FileEnds
    PROVE  Carries(d, d') /\ ThreadOK'
<1>1. /\ \A psi : Alike(d, [d EXCEPT !.psi = psi])
      /\ Alike(d, [d EXCEPT !.display = "shown"])
  BY DEF IInv, DvrOK, DvrType, Alike
<1>2. Alike(d, d)
  BY Same DEF IInv, DvrOK
<1>3. PICK e \in Events, x \in {d, [d EXCEPT !.psi = "ready"], [d EXCEPT !.psi = "failed"],
                               [d EXCEPT !.display = "shown"]} : Post(e, x)
  BY DEF psiCallback, psiCallbackUpdate, mediaCB, FileEnds, Events
<1>4. Alike(d, x)
  BY <1>1, <1>2
<1> QED
  BY <1>3, <1>4, PostAlike

LEMMA dwellTimerFunStep ==
    ASSUME IInv, dwellTimerFun
    PROVE  Carries(d, d') /\ ThreadOK'
<1> DEFINE x == [d EXCEPT !.dwell = FALSE]
<1>1. Alike(d, x)
  BY DEF IInv, DvrOK, DvrType, Alike
<1>2. Post("DwellExpired", x) \/ (d' = x /\ UNCHANGED <<thread, inHand, client>>)
  BY DEF dwellTimerFun
<1> HIDE DEF x
<1>3. CASE Post("DwellExpired", x)
  BY <1>1, <1>3, PostAlike DEF Events
<1>4. CASE d' = x /\ UNCHANGED <<thread, inHand, client>>
  BY <1>1, <1>4, AlikeCarries DEF IInv, ThreadOK
<1> QED
  BY <1>2, <1>3, <1>4

LEMMA recordSessionCallbackStep ==
    ASSUME IInv, recordSessionCallback
    PROVE  Carries(d, d') /\ ThreadOK'
<1> DEFINE x == [d EXCEPT !.rec.reported = TRUE]
<1>1. \/ d.rec.callbacks /\ Post("TSBStart", x)
      \/ Post("RecordingAborted", d)
  BY DEF recordSessionCallback
<1>2. CASE d.rec.callbacks /\ Post("TSBStart", x)
  <2>1. d.hasRec
    BY <1>2 DEF IInv, DvrOK, SessionOK, NoSession, NewSession
  <2>2. [d.rec EXCEPT !.reported = TRUE] \in RecordSession
        /\ [d.rec EXCEPT !.reported = TRUE].mState = d.rec.mState
    BY DEF IInv, DvrOK, DvrType, RecordSession
  <2>3. DvrOK(x) /\ (Converting(x) <=> Converting(d)) /\ x.wanted = d.wanted
        /\ x.mPersistentRecordState = d.mPersistentRecordState
    BY <2>1, <2>2 DEF IInv, DvrOK, DvrType, Own, SessionOK, Converting
  <2> HIDE DEF x
  <2>4. d' = queueEvent(x, "TSBStart") /\ ThreadOK'
    BY <1>2 DEF Post, IInv, ThreadOK
  <2>5. Alike(x, d')
    BY <2>3, <2>4, Queued DEF DvrOK, Events
  <2>6. DvrOK(d') /\ (Converting(d') <=> Converting(x))
    BY <2>3, <2>5, AlikeOK
  <2> QED
    BY <2>3, <2>4, <2>5, <2>6 DEF Alike, IInv, Carries, GoesOn, StartedIsKnown
<1>3. CASE Post("RecordingAborted", d)
  BY <1>3, Same, PostAlike DEF IInv, DvrOK, Events
<1> QED
  BY <1>1, <1>2, <1>3

\* The buffer of a streamer is not the Dvr's.
LEMMA StreamerStep ==
    ASSUME IInv, StreamerTakesTsb \/ StreamerReleasesTsb
    PROVE  Carries(d, d') /\ ThreadOK'
<1>1. ThreadOK'
  BY DEF StreamerTakesTsb, StreamerReleasesTsb, IInv, ThreadOK
<1>2. PICK tsbs : d' = [d EXCEPT !.tsbs = tsbs]
              /\ \E n \in Tsbs : /\ d.tsbs[n] \in {"free", "streamer"}
                                 /\ \E user \in {"free", "streamer"} : tsbs = [d.tsbs EXCEPT ![n] = user]
  <2>1. CASE StreamerTakesTsb
    <3>1. get_tsb(d.tsbs) \in Available(d.tsbs)
      BY <2>1, GetTsb DEF StreamerTakesTsb
    <3> QED
      BY <2>1, <3>1 DEF StreamerTakesTsb, TakenBy, Available
  <2>2. CASE StreamerReleasesTsb
    BY <2>2 DEF StreamerReleasesTsb, release_tsb
  <2> QED
    BY <2>1, <2>2
<1>3. tsbs \in [Tsbs -> Users] /\ \A n \in Tsbs : tsbs[n] = "dvr" <=> d.tsbs[n] = "dvr"
  BY <1>2 DEF IInv, DvrOK, DvrType, Users
<1>4. DvrType(d')
  BY <1>2, <1>3 DEF IInv, DvrOK, DvrType
<1>5. Own(d') /\ SessionOK(d')
  BY <1>2, <1>3 DEF IInv, DvrOK, DvrType, Own, SessionOK, Converting
<1>6. d'.wanted = d.wanted /\ d'.rec = d.rec /\ d'.mPersistentRecordState = d.mPersistentRecordState
  BY <1>2 DEF IInv, DvrOK, DvrType
<1> QED
  BY <1>1, <1>4, <1>5, <1>6 DEF IInv, DvrOK, Carries, GoesOn, StartedIsKnown, Converting

LEMMA EnvironmentStep ==
    ASSUME IInv, Environment
    PROVE  Carries(d, d') /\ ThreadOK'
BY TunerStep, ProgrammeStep, dwellTimerFunStep, recordSessionCallbackStep, StreamerStep
   DEF Environment

------------------------------------------------------------------------------
(* The induction *)

LEMMA InitIInv == Init => IInv
<1> SUFFICES ASSUME Init PROVE IInv
  OBVIOUS
<1>1. AllAvailable \in [Tsbs -> Users] /\ \A n \in Tsbs : AllAvailable[n] # "dvr"
  BY DEF AllAvailable, Users
<1>2. DvrType(d)
  BY <1>1, NewSessions, EmptySeq DEF Init, DvrType, NewDvr, DvrStates
<1>3. /\ d.tsbs = AllAvailable /\ d.mTsbNumber = NoTsb /\ d.rec = NoSession
      /\ d.wanted = "none" /\ d.interrupted = FALSE
  BY DEF Init, NewDvr
<1>4. Own(d) /\ SessionOK(d)
  BY <1>1, <1>3, TsbNumbers, NewSessions DEF Own, SessionOK, Converting
<1> QED
  BY <1>2, <1>3, <1>4 DEF Init, IInv, DvrOK, StartedIsKnown, ThreadOK

LEMMA NextIInv == IInv /\ [Next]_vars => Carries(d, d') /\ IInv'
<1> SUFFICES ASSUME IInv, [Next]_vars PROVE Carries(d, d') /\ ThreadOK'
  BY DEF Carries, IInv, DvrOK, DvrType, Own, SessionOK, Converting, StartedIsKnown
<1>1. CASE UNCHANGED vars
  BY <1>1, Same, AlikeCarries DEF IInv, ThreadOK, vars, DvrOK
<1>2. CASE Next
  BY <1>2, LoadStep, PersistentRecordStep, StopStep, PlayStep, SetSpeedStep, SetPositionStep,
     SeekStep, EjectStep, deleteDvrStep, popEventQueueStep, dispatchEventStep, EnvironmentStep
     DEF Next, EventThread
<1> QED
  BY <1>1, <1>2

------------------------------------------------------------------------------
(* The theorems *)

\* The induction, for any number of buffers, of events and of disturbances.
THEOREM InductiveInvariant == Spec => []IInv
<1>1. IInv /\ [Next]_vars => IInv'
  BY NextIInv
<1> QED
  BY <1>1, InitIInv, PTL DEF Spec

\* The variables of the Dvr (dvr.h) keep to the values they are given.
THEOREM TypeCorrect == Spec => []TypeOK
<1>1. IInv => TypeOK
  BY RangeOfSeq DEF IInv, DvrOK, DvrType, ThreadOK, TypeOK
<1> QED
  BY <1>1, InductiveInvariant, PTL

\* Whatever StartTSBRecordSession, a conversion, a seek or a tear-down comes to,
\* the buffer that mTsbNumber names is the Dvr's, and it has no other.
THEOREM TsbAlwaysOurs == Spec => []TsbIsOurs
<1>1. IInv => TsbIsOurs
  BY TsbNumbers DEF IInv, DvrOK, DvrType, Own, TsbIsOurs
<1> QED
  BY <1>1, InductiveInvariant, PTL

\* No call and no event of the Dvr takes the recording session that converts away
\* from a client that still waits for its recording.
THEOREM RecordingNeverCut == Spec => RecordingIsNotCut
<1>1. IInv /\ [Next]_vars =>
        [d.wanted = "asked" /\ d'.wanted = "asked" /\ d.rec.mState = "ConversionStarted"
           => d'.rec.mState = "ConversionStarted"]_vars
  BY NextIInv DEF Carries, GoesOn, Converting
<1> QED
  BY <1>1, InductiveInvariant, PTL DEF Spec, RecordingIsNotCut
=============================================================================
