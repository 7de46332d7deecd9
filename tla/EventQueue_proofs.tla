-------------------------- MODULE EventQueue_proofs --------------------------
(***************************************************************************)
(* The safety properties of EventQueue, for every set of callers, every    *)
(* set of events and every bound, and after them those of Psi, the user of *)
(* the queue that MCEventQueue checks with it.                             *)
(*                                                                         *)
(* Of the queue: one inductive invariant carries its properties: the       *)
(* holder of the mutex is the one thread inside a critical section, so     *)
(* that what popEventQueue read of the list when it left its loop is still *)
(* true when it takes the front.                                           *)
(*                                                                         *)
(* Of Psi, for any number of versions, attempts, starts and changes of the *)
(* stream: no section filter is opened over another or left behind, and    *)
(* the controller knows the PIDs that are on the air.  Both rest on what   *)
(* the queue can hold: one event that is still to be acted upon, and none  *)
(* while a filter is open.  A filter is only opened in the handling of     *)
(* such an event.                                                          *)
(***************************************************************************)
EXTENDS EventQueue, Psi, SequenceTheorems, TLAPS

------------------------------------------------------------------------------
(* The queue *)

\* Callers and the event thread are at points of their own code, and a caller
\* that is about to push has an event to push.
PointsOK ==
    /\ pc[Consumer] \in ConsumerPoints
    /\ \A t \in Callers : pc[t] \in CallerPoints
    /\ \A t \in Callers : pc[t] \in {"lock", "push"} => event[t] \in Events

\* The inductive invariant.
IInv ==
    /\ TypeOK
    /\ PointsOK
    /\ MutualExclusion
    /\ FrontExists

\* The initial states satisfy the inductive invariant.
LEMMA InitIInv == Init => IInv
BY ConsumerAssumption, NoneAssumption
   DEF Init, IInv, TypeOK, PointsOK, MutualExclusion, HoldsMutex, FrontExists,
       Threads, CallerPoints, ConsumerPoints

\* Starting a call, on the side of the callers, touches no critical section.
LEMMA CallsKeepIInv ==
    ASSUME IInv, NEW t \in Callers,
           CallFlush(t) \/ \E e \in Events : CallDispatch(t, e)
    PROVE  IInv'
<1> USE ConsumerAssumption, NoneAssumption
        DEF IInv, TypeOK, PointsOK, MutualExclusion, HoldsMutex, FrontExists,
            Threads, CallerPoints, ConsumerPoints, Goto
<1>1. CASE CallFlush(t)
  BY <1>1 DEF CallFlush
<1>2. ASSUME NEW e \in Events, CallDispatch(t, e)
      PROVE  IInv'
  BY <1>2 DEF CallDispatch
<1> QED
  BY <1>1, <1>2

\* A caller's own steps keep the invariant: it changes the list only while it
\* holds the mutex, hence while the event thread is not between its test and
\* its pop.
LEMMA CallerStepKeepsIInv ==
    ASSUME IInv, NEW t \in Callers, CallerStep(t)
    PROVE  IInv'
<1> USE ConsumerAssumption, NoneAssumption
        DEF IInv, TypeOK, PointsOK, MutualExclusion, HoldsMutex, FrontExists,
            Threads, CallerPoints, ConsumerPoints, Goto, Lock, Unlock
<1>1. CASE DispatchLock(t)
  BY <1>1 DEF DispatchLock
<1>2. CASE DispatchPush(t)
  BY <1>2 DEF DispatchPush
<1>3. CASE DispatchSignal(t)
  <2>1. CASE pc[Consumer] = "wait"
    BY <1>3, <2>1 DEF DispatchSignal, Signal
  <2>2. CASE pc[Consumer] # "wait"
    BY <1>3, <2>2 DEF DispatchSignal, Signal
  <2> QED
    BY <2>1, <2>2
<1>4. CASE CallerUnlock(t)
  BY <1>4 DEF CallerUnlock
<1>5. CASE FlushLock(t)
  BY <1>5 DEF FlushLock
<1>6. CASE FlushErase(t)
  BY <1>6 DEF FlushErase
<1> QED
  BY <1>1, <1>2, <1>3, <1>4, <1>5, <1>6 DEF CallerStep

\* The event thread's steps keep the invariant.
LEMMA ConsumerStepKeepsIInv ==
    ASSUME IInv, ConsumerStep \/ SpuriousWakeup
    PROVE  IInv'
<1> USE ConsumerAssumption, NoneAssumption, WaitTimesAssumption
        DEF IInv, TypeOK, PointsOK, MutualExclusion, HoldsMutex, FrontExists,
            Threads, CallerPoints, ConsumerPoints, Goto, Lock, Unlock
<1>1. ASSUME NEW w \in WaitTimes, SetTimeOutSecs(w)
      PROVE  IInv'
  BY <1>1 DEF SetTimeOutSecs
<1>2. CASE PopLock
  BY <1>2 DEF PopLock
<1>3. CASE PopWait
  BY <1>3 DEF PopWait
<1>4. CASE WaitTimesOut \/ SpuriousWakeup
  BY <1>4 DEF WaitTimesOut, SpuriousWakeup
<1>5. CASE WaitReturns("woken", "ok") \/ WaitReturns("expired", "ETIMEDOUT")
  BY <1>5 DEF WaitReturns
<1>6. CASE LeaveLoop
  BY <1>6 DEF LeaveLoop, MustWait
<1>7. CASE PopTimeOut
  BY <1>7 DEF PopTimeOut
<1>8. CASE PopFront
  <2>1. Head(mQueue) \in Events /\ Tail(mQueue) \in Seq(Events)
    BY <1>8 DEF PopFront
  <2> QED
    BY <1>8, <2>1 DEF PopFront
<1>9. CASE PopUnlock
  BY <1>9 DEF PopUnlock
<1> QED
  BY <1>1, <1>2, <1>3, <1>4, <1>5, <1>6, <1>7, <1>8, <1>9 DEF ConsumerStep

\* Every step keeps the inductive invariant.
LEMMA NextKeepsIInv == IInv /\ [Next]_vars => IInv'
<1> SUFFICES ASSUME IInv, [Next]_vars
             PROVE  IInv'
  OBVIOUS
<1>1. CASE UNCHANGED vars
  BY <1>1 DEF vars, IInv, TypeOK, PointsOK, MutualExclusion, HoldsMutex,
              FrontExists
<1>2. CASE Next
  BY <1>2, CallsKeepIInv, CallerStepKeepsIInv, ConsumerStepKeepsIInv DEF Next
<1> QED
  BY <1>1, <1>2

\* The inductive invariant is an invariant.
THEOREM IInvHolds == Spec => []IInv
BY InitIInv, NextKeepsIInv, PTL DEF Spec

\* Type correctness of the queue and of every thread's place in it.
THEOREM TypeCorrect == Spec => []TypeOK
<1>1. IInv => TypeOK
  BY DEF IInv
<1> QED
  BY IInvHolds, <1>1, PTL

\* dispatchEvent, flushQueue and popEventQueue exclude each other.
THEOREM CriticalSections == Spec => []MutualExclusion
<1>1. IInv => MutualExclusion
  BY DEF IInv
<1> QED
  BY IInvHolds, <1>1, PTL

\* popEventQueue never takes the front of an empty list, however its waits end.
THEOREM PopsExistingFront == Spec => []FrontExists
<1>1. IInv => FrontExists
  BY DEF IInv
<1> QED
  BY IInvHolds, <1>1, PTL

\* The queue implements EventFifo: the push, the erasure and the two ways a
\* pop ends are the abstract steps, everything else is a stutter.
THEOREM Refinement == Spec => ImplementsFifo
<1>1. Init => Fifo!Init
  BY DEF Init, Fifo!Init
<1>2. IInv /\ [Next]_vars => [Fifo!Next]_(Fifo!vars)
  <2> SUFFICES ASSUME IInv, [Next]_vars
               PROVE  Fifo!Next \/ UNCHANGED Fifo!vars
    OBVIOUS
  <2> USE DEF Fifo!vars
  <2>1. CASE UNCHANGED vars
    BY <2>1 DEF vars
  <2>2. ASSUME NEW t \in Callers,
               CallFlush(t) \/ \E e \in Events : CallDispatch(t, e)
        PROVE  UNCHANGED Fifo!vars
    BY <2>2 DEF CallFlush, CallDispatch
  <2>3. ASSUME NEW t \in Callers, CallerStep(t)
        PROVE  Fifo!Next \/ UNCHANGED Fifo!vars
    <3>1. CASE DispatchPush(t)
      <4>1. event[t] \in Events
        BY <3>1 DEF DispatchPush, Goto, IInv, PointsOK
      <4>2. Fifo!Post(event[t])
        BY <3>1 DEF DispatchPush, Fifo!Post
      <4> QED
        BY <4>1, <4>2 DEF Fifo!Next
    <3>2. CASE FlushErase(t)
      BY <3>2 DEF FlushErase, Fifo!Next, Fifo!Discard
    <3>3. CASE DispatchLock(t) \/ DispatchSignal(t) \/ CallerUnlock(t) \/ FlushLock(t)
      BY <3>3 DEF DispatchLock, DispatchSignal, CallerUnlock, FlushLock
    <3> QED
      BY <2>3, <3>1, <3>2, <3>3 DEF CallerStep
  <2>4. ASSUME ConsumerStep \/ SpuriousWakeup
        PROVE  Fifo!Next \/ UNCHANGED Fifo!vars
    <3>1. CASE PopTimeOut
      BY <3>1 DEF PopTimeOut, Fifo!Next, Fifo!Expire
    <3>2. CASE PopFront
      <4>1. mQueue # <<>>
        BY <3>2 DEF PopFront, Goto, IInv, FrontExists, TypeOK
      <4> QED
        BY <3>2, <4>1 DEF PopFront, Fifo!Next, Fifo!Deliver
    <3>3. CASE SpuriousWakeup \/ \E w \in WaitTimes : SetTimeOutSecs(w)
      BY <3>3 DEF SpuriousWakeup, SetTimeOutSecs
    <3>4. CASE PopLock \/ PopWait \/ WaitTimesOut \/ LeaveLoop \/ PopUnlock
      BY <3>4 DEF PopLock, PopWait, WaitTimesOut, LeaveLoop, PopUnlock
    <3>5. CASE WaitReturns("woken", "ok") \/ WaitReturns("expired", "ETIMEDOUT")
      BY <3>5 DEF WaitReturns
    <3> QED
      BY <2>4, <3>1, <3>2, <3>3, <3>4, <3>5 DEF ConsumerStep
  <2> QED
    BY <2>1, <2>2, <2>3, <2>4 DEF Next
<1> QED
  BY <1>1, <1>2, IInvHolds, PTL DEF Spec, ImplementsFifo, Fifo!Spec

------------------------------------------------------------------------------
(* Psi *)

PsiEvents == {"start", "fileReady", "section", "PATReady", "PMTReady", "update",
              "revision", "exit"}

Has(q, e) == \E i \in 1 .. Len(q) : q[i] = e

\* Nothing but the exit of the thread is queued.
Quiet(q) == Len(q) = 0 \/ (Len(q) = 1 /\ q[1] = "exit")

\* A section that was given up, and the start that gave it up.
GivenUp(q) == q[1] = "section" /\ q[2] \in {"start", "fileReady"}

\* What the queue holds in each state of the thread: at most one event, behind a
\* section that was given up, and before or behind the exit.
Fits(q, thread, gone) ==
    /\ q \in Seq(PsiEvents)
    /\ thread = "none" => Len(q) = 0
    /\ thread = "runs" =>
         \/ Len(q) = 0
         \/ Len(q) = 1 /\ q[1] # "exit"
         \/ Len(q) = 2 /\ gone /\ GivenUp(q)
    /\ thread = "deleting" =>
         \/ Len(q) = 1 /\ q[1] = "exit"
         \/ Len(q) = 2 /\ q[1] = "exit" /\ q[2] # "exit"
         \/ Len(q) = 2 /\ q[1] # "exit" /\ q[2] = "exit"
         \/ Len(q) = 3 /\ gone /\ GivenUp(q) /\ q[3] = "exit"

\* A filter is open only while nothing else is queued, and until the thread ends.
QueueOK ==
    /\ Fits(psiQueue, psiThread, mPSecFilterBuf = NoMap)
    /\ filter # "closed" => psiThread \in {"runs", "deleting"} /\ Quiet(psiQueue)

\* A section that was read is queued, and Psi is in the state to parse it.
SectionOK ==
    mPSecFilterBuf # NoMap =>
        /\ Has(psiQueue, "section")
        /\ \/ psiState = "processingPAT" /\ mPSecFilterBuf.content \in {"listed", "others"}
           \/ /\ psiState \in {"processingPMT", "processingPMTUpdate"}
              /\ mPSecFilterBuf.content \in Contents \ {"file"}

\* A map that was read is the stream's, as long as the stream has its version.
IsOnAir(map) ==
    map.content \in Contents \ {"file"} /\ map.version = onAir.version
        => map.content = onAir.content

MapsOK == IsOnAir(mPmt) /\ IsOnAir(mPSecFilterBuf)

\* Started for a recording, or for nothing, Psi has no section left.
FileOK ==
    source # "live" =>
        /\ filter = "closed" /\ mPSecFilterBuf = NoMap
        /\ \A e \in PsiEvents : Has(psiQueue, e) => e \in {"section", "fileReady", "exit"}
        /\ source = "file" => mPmt.content = "file" /\ (known = "file" \/ Has(psiQueue, "fileReady"))
        /\ source # "file" => ~Has(psiQueue, "fileReady")

\* Started for a stream, the controller knows the PIDs of the map, or it is about
\* to be told.
LiveOK ==
    source = "live" =>
        /\ ~Has(psiQueue, "fileReady")
        /\ mPmt.content # "file"
        /\ Has(psiQueue, "PMTReady") \/ Has(psiQueue, "update") => mPmt.content \in Contents
        /\ ~Has(psiQueue, "start") =>
             /\ psiState = "waitForUpdate" /\ psiThread = "runs" => filter = "PMT update"
             /\ \/ psiState = "waitForUpdate"
                \/ psiState = "processingPMTUpdate" /\ mPSecFilterBuf # NoMap
                \/ Has(psiQueue, "revision")
                => mPmt.content \in Contents /\ PidsOf(known) = PidsOf(mPmt.content)

TablesOK == psiThread \in {"runs", "deleting"} => MapsOK /\ FileOK /\ LiveOK

Types ==
    /\ PsiTypeOK
    /\ psiQueue \in Seq(PsiEvents)
    /\ mPSecFilterBuf \in [version : 0 .. Versions - 1,
                           content : Contents \cup {NoContent, "listed", "others"}]
    /\ mPSecFilterBuf.content = NoContent => mPSecFilterBuf = NoMap
    /\ onAir \in [version : 0 .. Versions - 1, content : Contents \ {"file"}]
    /\ source \in {"live", "file", NoContent}

PsiIInv == Types /\ "filter" \notin lapses /\ (lapses = {} => QueueOK /\ SectionOK /\ TablesOK)

------------------------------------------------------------------------------
(* The queue *)

LEMMA EmptyFits ==
    ASSUME NEW thread \in {"none", "runs"}, NEW gone \in BOOLEAN
    PROVE  Fits(<<>>, thread, gone) /\ Quiet(<<>>) /\ \A e : ~Has(<<>>, e)
BY EmptySeq DEF Fits, Quiet, Has

LEMMA QuietHasOnlyExit ==
    ASSUME NEW q \in Seq(PsiEvents), Quiet(q), NEW e, Has(q, e)
    PROVE  e = "exit"
<1>1. PICK i \in 1 .. Len(q) : q[i] = e
  BY DEF Has
<1>2. i = 1 /\ q[1] = "exit"
  BY <1>1 DEF Quiet
<1> QED
  BY <1>1, <1>2

\* Of what a queue holds, the front and the rest.
LEMMA HasHeadTail ==
    ASSUME NEW q \in Seq(PsiEvents), q # <<>>, NEW e
    PROVE  Has(q, e) <=> e = Head(q) \/ Has(Tail(q), e)
<1> DEFINE n == Len(q)
<1>1. n \in Nat \ {0}
  BY EmptySeq
<1>2. /\ Head(q) = q[1] /\ Len(Tail(q)) = n - 1
      /\ \A i \in 1 .. n - 1 : Tail(q)[i] = q[i + 1]
  BY <1>1, HeadTailProperties
<1> HIDE DEF n
<1>3. ASSUME NEW i \in 1 .. n, q[i] = e
      PROVE  e = Head(q) \/ \E j \in 1 .. n - 1 : Tail(q)[j] = e
  <2>1. CASE i = 1
    BY <2>1, <1>2, <1>3
  <2>2. CASE i # 1
    <3>1. i - 1 \in 1 .. n - 1 /\ (i - 1) + 1 = i
      BY <2>2, <1>1
    <3> QED
      BY <3>1, <1>2, <1>3
  <2> QED
    BY <2>1, <2>2
<1>4. ASSUME NEW j \in 1 .. n - 1, Tail(q)[j] = e
      PROVE  \E i \in 1 .. n : q[i] = e
  <2>1. j + 1 \in 1 .. n
    BY <1>1
  <2> QED
    BY <2>1, <1>2, <1>4
<1>5. 1 \in 1 .. n
  BY <1>1
<1>6. (\E i \in 1 .. n : q[i] = e) <=> e = Head(q) \/ \E j \in 1 .. n - 1 : Tail(q)[j] = e
  BY <1>2, <1>3, <1>4, <1>5
<1> QED
  BY <1>6, <1>2 DEF Has, n

\* Taking the event at the front, which is not the exit, leaves nothing behind it
\* but the exit; unless it is a section that was given up.
LEMMA Take ==
    ASSUME NEW q, NEW thread \in {"runs", "deleting"}, NEW gone \in BOOLEAN,
           NEW after \in BOOLEAN,
           Fits(q, thread, gone), q # <<>>, Head(q) # "exit"
    PROVE  /\ Fits(Tail(q), thread, after)
           /\ ~Quiet(q)
           /\ Head(q) \in PsiEvents
           /\ \A e : Has(q, e) <=> e = Head(q) \/ Has(Tail(q), e)
           /\ Head(q) # "section" \/ ~gone => Quiet(Tail(q))
<1>1. q \in Seq(PsiEvents)
  BY DEF Fits
<1>2. Len(q) # 0
  BY <1>1, EmptySeq
<1>3. /\ Head(q) = q[1] /\ Head(q) \in PsiEvents
      /\ Tail(q) \in Seq(PsiEvents) /\ Len(Tail(q)) = Len(q) - 1
      /\ \A i \in 1 .. Len(q) - 1 : Tail(q)[i] = q[i + 1]
  BY <1>1, HeadTailProperties
<1>4. CASE Len(q) = 1
  <2>1. Len(Tail(q)) = 0 /\ thread = "runs"
    BY <1>3, <1>4 DEF Fits
  <2> QED
    BY <2>1, <1>1, <1>3, <1>4, HasHeadTail DEF Fits, Quiet
<1>5. CASE Len(q) = 2
  <2>1. Len(Tail(q)) = 1 /\ Tail(q)[1] = q[2]
    BY <1>3, <1>5
  <2>2. CASE thread = "runs"
    <3>1. gone /\ GivenUp(q)
      BY <1>5, <2>2 DEF Fits
    <3>2. Tail(q)[1] # "exit" /\ Head(q) = "section"
      BY <2>1, <3>1, <1>3 DEF GivenUp
    <3>3. Fits(Tail(q), thread, after)
      BY <2>1, <2>2, <3>2, <1>3 DEF Fits
    <3>4. ~Quiet(q)
      BY <1>5 DEF Quiet
    <3> QED
      BY <3>1, <3>2, <3>3, <3>4, <1>1, <1>3, HasHeadTail
  <2>3. CASE thread = "deleting"
    <3>1. q[2] = "exit"
      BY <1>3, <1>5, <2>3 DEF Fits
    <3> QED
      BY <2>1, <2>3, <3>1, <1>1, <1>3, <1>5, HasHeadTail DEF Fits, Quiet
  <2> QED
    BY <2>2, <2>3
<1>6. CASE Len(q) = 3
  <2>1. Len(Tail(q)) = 2 /\ Tail(q)[1] = q[2] /\ Tail(q)[2] = q[3]
    BY <1>3, <1>6
  <2>2. thread = "deleting" /\ gone /\ GivenUp(q) /\ q[3] = "exit"
    BY <1>6 DEF Fits
  <2> QED
    BY <2>1, <2>2, <1>1, <1>3, <1>6, HasHeadTail DEF Fits, Quiet, GivenUp
<1>7. Len(q) = 1 \/ Len(q) = 2 \/ Len(q) = 3
  BY <1>2 DEF Fits
<1> QED
  BY <1>4, <1>5, <1>6, <1>7

LEMMA HasAfterAppend ==
    ASSUME NEW q \in Seq(PsiEvents), NEW posted \in PsiEvents, NEW e
    PROVE  Has(Append(q, posted), e) <=> Has(q, e) \/ e = posted
<1> DEFINE n == Len(q)
<1>1. n \in Nat
  BY LenProperties
<1>2. /\ Len(Append(q, posted)) = n + 1
      /\ \A i \in 1 .. n : Append(q, posted)[i] = q[i]
      /\ Append(q, posted)[n + 1] = posted
  BY AppendProperties
<1> HIDE DEF n
<1>3. \A i : i \in 1 .. n + 1 <=> i \in 1 .. n \/ i = n + 1
  BY <1>1
<1> QED
  BY <1>2, <1>3 DEF Has, n

\* With nothing but the exit queued there is room for one event.
LEMMA QuietAppend ==
    ASSUME NEW q, NEW thread \in {"runs", "deleting"}, NEW gone \in BOOLEAN,
           NEW after \in BOOLEAN, NEW posted \in PsiEvents \ {"exit"},
           Fits(q, thread, gone), Quiet(q)
    PROVE  /\ Fits(Append(q, posted), thread, after)
           /\ \A e : Has(Append(q, posted), e) => e \in {posted, "exit"}
           /\ Has(Append(q, posted), posted)
<1>1. q \in Seq(PsiEvents)
  BY DEF Fits
<1>2. /\ Append(q, posted) \in Seq(PsiEvents) /\ Len(Append(q, posted)) = Len(q) + 1
      /\ \A i \in 1 .. Len(q) : Append(q, posted)[i] = q[i]
      /\ Append(q, posted)[Len(q) + 1] = posted
  BY <1>1, AppendProperties
<1>3. CASE Len(q) = 0
  <2>1. Len(Append(q, posted)) = 1 /\ Append(q, posted)[1] = posted
    BY <1>2, <1>3
  <2>2. thread = "runs"
    BY <1>3 DEF Fits
  <2>3. Fits(Append(q, posted), thread, after)
    BY <2>1, <2>2, <1>2 DEF Fits
  <2> QED
    BY <2>3, <1>1, HasAfterAppend, QuietHasOnlyExit
<1>4. CASE Len(q) = 1
  <2>1. /\ Len(Append(q, posted)) = 2 /\ Append(q, posted)[1] = "exit"
        /\ Append(q, posted)[2] = posted /\ q[1] = "exit"
    BY <1>2, <1>4 DEF Quiet
  <2> QED
    BY <2>1, <1>1, <1>2, <1>4, HasAfterAppend, QuietHasOnlyExit DEF Fits
<1> QED
  BY <1>3, <1>4 DEF Quiet

\* Nothing is queued but the exit, and one event fits behind it.
Room(q, thread) ==
    /\ \A e : Has(q, e) => e = "exit"
    /\ \A e \in PsiEvents \ {"exit"} :
         /\ \A gone \in BOOLEAN : Fits(Append(q, e), thread, gone)
         /\ Append(q, e) \in Seq(PsiEvents)
         /\ \A x : Has(Append(q, e), x) => x \in {e, "exit"}
         /\ Has(Append(q, e), e)

LEMMA QuietIsRoom ==
    ASSUME NEW q, NEW thread \in {"runs", "deleting"}, NEW gone \in BOOLEAN,
           Fits(q, thread, gone), Quiet(q)
    PROVE  Room(q, thread)
<1>1. q \in Seq(PsiEvents)
  BY DEF Fits
<1>2. \A e : Has(q, e) => e = "exit"
  BY <1>1, QuietHasOnlyExit
<1>3. ASSUME NEW e \in PsiEvents \ {"exit"}, NEW after \in BOOLEAN
      PROVE  /\ Fits(Append(q, e), thread, after)
             /\ \A x : Has(Append(q, e), x) => x \in {e, "exit"}
             /\ Has(Append(q, e), e)
  BY QuietAppend
<1>4. ASSUME NEW e \in PsiEvents \ {"exit"}
      PROVE  Append(q, e) \in Seq(PsiEvents)
  BY <1>3 DEF Fits
<1> QED
  BY <1>2, <1>3, <1>4 DEF Room

LEMMA ExitAppend ==
    ASSUME NEW q, NEW gone \in BOOLEAN, Fits(q, "runs", gone)
    PROVE  /\ Fits(Append(q, "exit"), "deleting", gone)
           /\ Quiet(q) => Quiet(Append(q, "exit"))
           /\ \A e : Has(Append(q, "exit"), e) <=> Has(q, e) \/ e = "exit"
<1>1. q \in Seq(PsiEvents) /\ "exit" \in PsiEvents
  BY DEF Fits, PsiEvents
<1>2. /\ Append(q, "exit") \in Seq(PsiEvents) /\ Len(Append(q, "exit")) = Len(q) + 1
      /\ \A i \in 1 .. Len(q) : Append(q, "exit")[i] = q[i]
      /\ Append(q, "exit")[Len(q) + 1] = "exit"
  BY <1>1, AppendProperties
<1>3. CASE Len(q) = 0
  <2>1. Len(Append(q, "exit")) = 1 /\ Append(q, "exit")[1] = "exit"
    BY <1>2, <1>3
  <2> QED
    BY <2>1, <1>1, <1>2, HasAfterAppend DEF Fits, Quiet
<1>4. CASE Len(q) = 1
  <2>1. /\ Len(Append(q, "exit")) = 2 /\ Append(q, "exit")[1] = q[1]
        /\ Append(q, "exit")[2] = "exit" /\ q[1] # "exit"
    BY <1>2, <1>4 DEF Fits
  <2> QED
    BY <2>1, <1>1, <1>2, <1>4, HasAfterAppend DEF Fits, Quiet
<1>5. CASE Len(q) = 2
  <2>1. /\ Len(Append(q, "exit")) = 3 /\ Append(q, "exit")[1] = q[1]
        /\ Append(q, "exit")[2] = q[2] /\ Append(q, "exit")[3] = "exit"
    BY <1>2, <1>5
  <2>2. gone /\ GivenUp(q)
    BY <1>5 DEF Fits
  <2> QED
    BY <2>1, <2>2, <1>1, <1>2, <1>5, HasAfterAppend DEF Fits, Quiet, GivenUp
<1> QED
  BY <1>3, <1>4, <1>5 DEF Fits

\* A start that finds nothing but a section leaves that and its own event.
LEMMA RestartFits ==
    ASSUME NEW q, NEW thread \in {"none", "runs"}, NEW gone \in BOOLEAN,
           NEW posted \in {"start", "fileReady"},
           Fits(q, thread, gone), ~\E i \in DOMAIN q : q[i] # "section"
    PROVE  /\ Fits(q, "runs", TRUE)
           /\ \A e : Has(q, e) => e = "section"
           /\ Fits(Append(q, posted), "runs", TRUE)
           /\ \A e : Has(Append(q, posted), e) <=> Has(q, e) \/ e = posted
<1>1. q \in Seq(PsiEvents) /\ posted \in PsiEvents
  BY DEF Fits, PsiEvents
<1>2. \A i \in 1 .. Len(q) : q[i] = "section"
  BY <1>1, LenProperties
<1>3. /\ Append(q, posted) \in Seq(PsiEvents) /\ Len(Append(q, posted)) = Len(q) + 1
      /\ \A i \in 1 .. Len(q) : Append(q, posted)[i] = q[i]
      /\ Append(q, posted)[Len(q) + 1] = posted
  BY <1>1, AppendProperties
<1>4. /\ \A e : Has(q, e) => e = "section"
      /\ \A e : Has(Append(q, posted), e) <=> Has(q, e) \/ e = posted
  BY <1>1, <1>2, HasAfterAppend DEF Has
<1>5. Len(q) # 2
  <2>1. CASE Len(q) = 2
    <3>1. q[2] = "section"
      BY <2>1, <1>2
    <3> QED
      BY <2>1, <3>1 DEF Fits, GivenUp
  <2> QED
    BY <2>1
<1>6. CASE Len(q) = 0
  <2>1. Len(Append(q, posted)) = 1 /\ Append(q, posted)[1] = posted
    BY <1>3, <1>6
  <2> QED
    BY <2>1, <1>1, <1>3, <1>4, <1>6 DEF Fits
<1>7. CASE Len(q) = 1
  <2>1. /\ Len(Append(q, posted)) = 2 /\ Append(q, posted)[1] = "section"
        /\ Append(q, posted)[2] = posted /\ q[1] = "section"
    BY <1>2, <1>3, <1>7
  <2> QED
    BY <2>1, <1>1, <1>3, <1>4, <1>7 DEF Fits, GivenUp
<1> QED
  BY <1>5, <1>6, <1>7 DEF Fits

------------------------------------------------------------------------------
(* The steps *)

Steady == QueueOK /\ SectionOK /\ TablesOK

LEMMA InitPsiIInv == PsiInit => PsiIInv
<1> SUFFICES ASSUME PsiInit PROVE PsiIInv
  OBVIOUS
<1>1. Types
  <2>1. psiQueue \in Seq(PsiEvents)
    BY DEF PsiInit
  <2>2. 0 \in 0 .. Versions - 1 /\ 0 \in 0 .. kAppMaxSectFiltReadAttempts
    BY PsiAssumption
  <2> QED
    BY <2>1, <2>2 DEF PsiInit, Types, PsiTypeOK, NoMap, NoContent, Contents
<1>2. "filter" \notin lapses
  BY DEF PsiInit
<1>3. QueueOK /\ SectionOK /\ TablesOK
  BY EmptyFits DEF PsiInit, QueueOK, SectionOK, TablesOK
<1> QED
  BY <1>1, <1>2, <1>3 DEF PsiIInv

\* A new start, whatever it is for.
LEMMA RestartFacts ==
    ASSUME PsiIInv, lapses = {}, Restart, NEW posted \in {"start", "fileReady"}
    PROVE  /\ "filter" \notin lapses'
           /\ Append(psiQueue, posted) \in Seq(PsiEvents)
           /\ lapses' \subseteq {"restart"}
           /\ lapses' = {} =>
                /\ Fits(Append(psiQueue, posted), "runs", TRUE)
                /\ \A e : Has(Append(psiQueue, posted), e) => e \in {"section", posted}
                /\ Has(Append(psiQueue, posted), posted)
<1>1. /\ psiThread \in {"none", "runs"}
      /\ lapses' = IF \E i \in DOMAIN psiQueue : psiQueue[i] # "section"
                     THEN {"restart"} ELSE {}
  BY DEF Restart, Lapse
<1>2. psiQueue \in Seq(PsiEvents) /\ posted \in PsiEvents
  BY DEF PsiIInv, Types, PsiEvents
<1>3. Append(psiQueue, posted) \in Seq(PsiEvents)
  BY <1>2, AppendProperties
<1>4. ASSUME lapses' = {}
      PROVE  /\ Fits(Append(psiQueue, posted), "runs", TRUE)
             /\ \A e : Has(Append(psiQueue, posted), e) => e \in {"section", posted}
             /\ Has(Append(psiQueue, posted), posted)
  <2>1. ~\E i \in DOMAIN psiQueue : psiQueue[i] # "section"
    BY <1>1, <1>4
  <2>2. Fits(psiQueue, psiThread, mPSecFilterBuf = NoMap)
    BY DEF PsiIInv, QueueOK
  <2> DEFINE gone == mPSecFilterBuf = NoMap
  <2>3. gone \in BOOLEAN
    OBVIOUS
  <2>4. Fits(psiQueue, psiThread, gone)
    BY <2>2
  <2> HIDE DEF gone
  <2>5. /\ Fits(Append(psiQueue, posted), "runs", TRUE)
        /\ \A e : Has(psiQueue, e) => e = "section"
        /\ \A e : Has(Append(psiQueue, posted), e) <=> Has(psiQueue, e) \/ e = posted
    BY <1>1, <2>1, <2>3, <2>4, RestartFits
  <2> QED
    BY <2>5
<1> QED
  BY <1>1, <1>3, <1>4

LEMMA RestartTypes ==
    ASSUME PsiIInv, Restart, source' \in {"live", "file"},
           mPmt' \in [version : 0 .. Versions - 1, content : Contents \cup {NoContent}],
           psiQueue' \in Seq(PsiEvents), lapses' \subseteq {"restart"}
    PROVE  Types'
<1>1. 0 \in 0 .. Versions - 1
  BY PsiAssumption
<1> QED
  BY <1>1 DEF PsiIInv, Types, PsiTypeOK, Restart, psiStop, stream, NoMap, NoContent

LEMMA psiStartStep ==
    ASSUME PsiIInv, lapses = {}, psiStart
    PROVE  PsiIInv'
<1>1. /\ Restart /\ source' = "live" /\ mPmt' = NoMap
      /\ psiQueue' = Append(psiQueue, "start")
  BY DEF psiStart
<1>2. Types'
  <2>1. mPmt' \in [version : 0 .. Versions - 1, content : Contents \cup {NoContent}]
    BY <1>1, PsiAssumption DEF NoMap
  <2>2. psiQueue' \in Seq(PsiEvents) /\ lapses' \subseteq {"restart"}
    BY <1>1, RestartFacts
  <2> QED
    BY <1>1, <2>1, <2>2, RestartTypes
<1>3. ASSUME lapses' = {} PROVE Steady'
  <2>1. /\ Fits(psiQueue', "runs", TRUE)
        /\ \A e : Has(psiQueue', e) => e \in {"section", "start"}
        /\ Has(psiQueue', "start")
    BY <1>1, <1>3, RestartFacts
  <2>2. filter' = "closed" /\ mPSecFilterBuf' = NoMap /\ psiThread' = "runs"
    BY <1>1 DEF Restart, psiStop
  <2>3. QueueOK' /\ SectionOK'
    BY <2>1, <2>2 DEF QueueOK, SectionOK
  <2>4. MapsOK' /\ FileOK' /\ LiveOK'
    BY <1>1, <2>1, <2>2 DEF MapsOK, IsOnAir, FileOK, LiveOK, NoMap, NoContent, Contents
  <2> QED
    BY <2>3, <2>4 DEF Steady, TablesOK
<1> QED
  BY <1>1, <1>2, <1>3, RestartFacts DEF PsiIInv, Steady

LEMMA FileStartStep ==
    ASSUME PsiIInv, lapses = {}, psiStartFile \/ ParsePsiRemoteSource
    PROVE  PsiIInv'
<1>1. /\ Restart /\ source' = "file" /\ mPmt' = [version |-> 0, content |-> "file"]
      /\ psiQueue' = Append(psiQueue, "fileReady")
  BY DEF psiStartFile, ParsePsiRemoteSource
<1>2. Types'
  <2>1. mPmt' \in [version : 0 .. Versions - 1, content : Contents \cup {NoContent}]
    BY <1>1, PsiAssumption DEF Contents
  <2>2. psiQueue' \in Seq(PsiEvents) /\ lapses' \subseteq {"restart"}
    BY <1>1, RestartFacts
  <2> QED
    BY <1>1, <2>1, <2>2, RestartTypes
<1>3. ASSUME lapses' = {} PROVE Steady'
  <2>1. /\ Fits(psiQueue', "runs", TRUE)
        /\ \A e : Has(psiQueue', e) => e \in {"section", "fileReady"}
        /\ Has(psiQueue', "fileReady")
    BY <1>1, <1>3, RestartFacts
  <2>2. filter' = "closed" /\ mPSecFilterBuf' = NoMap /\ psiThread' = "runs"
    BY <1>1 DEF Restart, psiStop
  <2>3. QueueOK' /\ SectionOK'
    BY <2>1, <2>2 DEF QueueOK, SectionOK
  <2>4. MapsOK' /\ FileOK' /\ LiveOK'
    BY <1>1, <2>1, <2>2 DEF MapsOK, IsOnAir, FileOK, LiveOK, NoMap, NoContent, Contents
  <2> QED
    BY <2>3, <2>4 DEF Steady, TablesOK
<1> QED
  BY <1>1, <1>2, <1>3, RestartFacts DEF PsiIInv, Steady

LEMMA psiStartFailsStep ==
    ASSUME PsiIInv, lapses = {}, psiStartFails
    PROVE  PsiIInv'
<1>1. /\ psiThread \in {"none", "runs"} /\ psiThread' = "runs"
      /\ lapses' = IF \E i \in DOMAIN psiQueue : psiQueue[i] # "section"
                     THEN {"restart"} ELSE {}
      /\ filter' = "closed" /\ mPSecFilterBuf' = NoMap /\ mPmt' = NoMap
      /\ source' = NoContent /\ psiQueue' = psiQueue
  BY DEF psiStartFails, psiStop, Lapse
<1>2. Types'
  <2>1. 0 \in 0 .. Versions - 1
    BY PsiAssumption
  <2>2. /\ UNCHANGED <<psiState, mPmtPid, mSectFileReadAttempts, known, onAir>>
        /\ lapses' \subseteq {"restart"}
    BY <1>1 DEF psiStartFails, stream, PsiIInv
  <2>3. NoMap \in [version : 0 .. Versions - 1, content : {NoContent}]
    BY <2>1 DEF NoMap
  <2> QED
    BY <1>1, <2>2, <2>3 DEF PsiIInv, Types, PsiTypeOK
<1>3. ASSUME lapses' = {} PROVE Steady'
  <2>1. ~\E i \in DOMAIN psiQueue : psiQueue[i] # "section"
    BY <1>1, <1>3
  <2> DEFINE gone == mPSecFilterBuf = NoMap
  <2>2. gone \in BOOLEAN /\ Fits(psiQueue, psiThread, gone)
    BY DEF PsiIInv, QueueOK
  <2> HIDE DEF gone
  <2>3. Fits(psiQueue', "runs", TRUE) /\ \A e : Has(psiQueue', e) => e = "section"
    BY <1>1, <2>1, <2>2, RestartFits
  <2>4. QueueOK' /\ SectionOK'
    BY <1>1, <2>3 DEF QueueOK, SectionOK
  <2>5. MapsOK' /\ FileOK' /\ LiveOK'
    BY <1>1, <2>3 DEF MapsOK, IsOnAir, FileOK, LiveOK, NoMap, NoContent, Contents
  <2> QED
    BY <2>4, <2>5 DEF Steady, TablesOK
<1> QED
  BY <1>1, <1>2, <1>3 DEF PsiIInv, Steady

LEMMA DeleteStep ==
    ASSUME PsiIInv, lapses = {}, Delete
    PROVE  PsiIInv'
<1>1. /\ psiThread = "runs" /\ psiThread' = "deleting"
      /\ psiQueue' = Append(psiQueue, "exit")
      /\ UNCHANGED <<psiState, filter, mPSecFilterBuf, mPmt, source, known, onAir, lapses>>
  BY DEF Delete, tables, client, stream
<1> DEFINE gone == mPSecFilterBuf = NoMap
<1>2. gone \in BOOLEAN /\ Fits(psiQueue, "runs", gone)
  BY <1>1 DEF PsiIInv, QueueOK
<1> HIDE DEF gone
<1>3. /\ Fits(psiQueue', "deleting", gone)
      /\ Quiet(psiQueue) => Quiet(psiQueue')
      /\ \A e : Has(psiQueue', e) <=> Has(psiQueue, e) \/ e = "exit"
  BY <1>1, <1>2, ExitAppend
<1>4. Types'
  <2>1. psiQueue' \in Seq(PsiEvents)
    BY <1>3 DEF Fits
  <2> QED
    BY <1>1, <2>1, ZenonT(40) DEF Delete, PsiIInv, Types, PsiTypeOK
<1>5. QueueOK' /\ SectionOK'
  BY <1>1, <1>3 DEF PsiIInv, QueueOK, SectionOK, gone
<1>6. MapsOK' /\ FileOK' /\ LiveOK'
  BY <1>1, <1>3 DEF PsiIInv, TablesOK, MapsOK, IsOnAir, FileOK, LiveOK
<1> QED
  BY <1>1, <1>4, <1>5, <1>6 DEF PsiIInv, TablesOK

\* While a filter is open, Psi was started for a stream, and no event is queued
\* but the exit.
LEMMA FilterIsOpen ==
    ASSUME PsiIInv, lapses = {}, filter # "closed"
    PROVE  /\ psiThread \in {"runs", "deleting"}
           /\ mPSecFilterBuf = NoMap /\ source = "live"
           /\ Room(psiQueue, psiThread)
<1> DEFINE now == mPSecFilterBuf = NoMap
<1>1. /\ psiThread \in {"runs", "deleting"} /\ Quiet(psiQueue)
      /\ now \in BOOLEAN /\ Fits(psiQueue, psiThread, now)
  BY DEF PsiIInv, QueueOK
<1> HIDE DEF now
<1>2. Room(psiQueue, psiThread)
  BY <1>1, QuietIsRoom
<1>3. mPSecFilterBuf = NoMap /\ source = "live"
  BY <1>1, <1>2 DEF PsiIInv, SectionOK, TablesOK, FileOK, Room
<1> QED
  BY <1>1, <1>2, <1>3

\* Of an event that the thread takes.
LEMMA EventIsTaken ==
    ASSUME PsiIInv, lapses = {}, NEW posted \in PsiEvents \ {"exit"}, Event(posted)
    PROVE  /\ psiThread \in {"runs", "deleting"}
           /\ filter = "closed"
           /\ Tail(psiQueue) \in Seq(PsiEvents)
           /\ \A gone \in BOOLEAN : Fits(Tail(psiQueue), psiThread, gone)
           /\ \A e : Has(psiQueue, e) <=> e = posted \/ Has(Tail(psiQueue), e)
           /\ posted # "section" => mPSecFilterBuf = NoMap
           /\ posted # "section" \/ mPSecFilterBuf # NoMap =>
                Quiet(Tail(psiQueue)) /\ Room(Tail(psiQueue), psiThread)
<1> DEFINE now == mPSecFilterBuf = NoMap
           rest == Tail(psiQueue)
<1>1. /\ psiThread \in {"runs", "deleting"}
      /\ now \in BOOLEAN /\ Fits(psiQueue, psiThread, now)
      /\ psiQueue # <<>> /\ Head(psiQueue) = posted
  BY DEF PsiIInv, QueueOK, Event
<1> HIDE DEF now
<1>2. /\ \A gone \in BOOLEAN : Fits(rest, psiThread, gone)
      /\ ~Quiet(psiQueue)
      /\ \A e : Has(psiQueue, e) <=> e = posted \/ Has(rest, e)
      /\ posted # "section" \/ ~now => Quiet(rest)
  BY <1>1, Take
<1>3. filter = "closed"
  BY <1>2 DEF PsiIInv, QueueOK
<1> HIDE DEF rest
<1>4. rest \in Seq(PsiEvents)
  BY <1>2 DEF Fits
<1>5. Quiet(rest) => Room(rest, psiThread)
  BY <1>1, <1>2, QuietIsRoom
<1>6. posted # "section" => mPSecFilterBuf = NoMap
  BY <1>2, <1>5 DEF PsiIInv, SectionOK, Room
<1> QED
  BY <1>1, <1>2, <1>3, <1>4, <1>5, <1>6 DEF now, rest


LEMMA SectionStep ==
    ASSUME PsiIInv, lapses = {}, PatSection \/ PmtSection
    PROVE  PsiIInv'
<1>1. /\ filter # "closed" /\ filter' = "closed"
      /\ psiQueue' = Append(psiQueue, "section")
      /\ UNCHANGED <<mPmt, mSectFileReadAttempts, psiThread, source, known, onAir, mPmtPid,
                     lapses>>
  BY DEF PatSection, PmtSection, SectionData, psiStop, tables, client, stream
<1>2. \/ psiState' = "processingPAT" /\ mPSecFilterBuf'.content \in {"listed", "others"}
      \/ psiState' = "processingPMT" /\ mPSecFilterBuf' = onAir
  BY DEF PatSection, PmtSection
<1>3. /\ psiThread \in {"runs", "deleting"} /\ source = "live"
      /\ Room(psiQueue, psiThread)
  BY <1>1, FilterIsOpen
<1>4. "section" \in PsiEvents \ {"exit"}
  BY DEF PsiEvents
<1>5. /\ \A gone \in BOOLEAN : Fits(psiQueue', psiThread, gone)
      /\ psiQueue' \in Seq(PsiEvents)
      /\ \A e : Has(psiQueue', e) => e \in {"section", "exit"}
      /\ Has(psiQueue', "section")
  BY <1>1, <1>3, <1>4 DEF Room
<1>6. Types'
  <2>1. mPSecFilterBuf' \in [version : 0 .. Versions - 1,
                             content : (Contents \ {"file"}) \cup {"listed", "others"}]
    BY PsiAssumption DEF PatSection, PmtSection, PsiIInv, Types
  <2>2. mPSecFilterBuf'.content # NoContent
    BY <2>1 DEF Contents, NoContent
  <2> QED
    BY <1>1, <1>2, <1>5, <2>1, <2>2 DEF PsiIInv, Types, PsiTypeOK
<1>7. QueueOK'
  BY <1>1, <1>3, <1>5 DEF QueueOK
<1>8. SectionOK'
  BY <1>2, <1>5 DEF SectionOK, PsiIInv, Types
<1>9. MapsOK' /\ FileOK' /\ LiveOK'
  <2>1. mPSecFilterBuf'.content \in Contents \ {"file"} => mPSecFilterBuf' = onAir
    BY <1>2 DEF Contents
  <2>2. MapsOK'
    BY <1>1, <1>3, <2>1 DEF PsiIInv, TablesOK, MapsOK, IsOnAir
  <2>3. FileOK'
    BY <1>1, <1>3 DEF FileOK
  <2>4. mPmt'.content # "file"
    BY <1>1, <1>3 DEF PsiIInv, TablesOK, LiveOK
  <2>5. psiState' # "waitForUpdate" /\ psiState' # "processingPMTUpdate"
    BY <1>2
  <2>6. LiveOK'
    BY <1>1, <1>3, <1>5, <2>4, <2>5 DEF LiveOK
  <2> QED
    BY <2>2, <2>3, <2>6
<1> QED
  BY <1>1, <1>6, <1>7, <1>8, <1>9 DEF PsiIInv, TablesOK

LEMMA PmtUpdateSectionStep ==
    ASSUME PsiIInv, lapses = {}, PmtUpdateSection
    PROVE  PsiIInv'
<1>1. /\ filter # "closed" /\ filter' = "closed" /\ psiState = "waitForUpdate"
      /\ UNCHANGED <<mSectFileReadAttempts, psiThread, source, known, onAir, mPmtPid>>
  BY DEF PmtUpdateSection, SectionData, psiStop, tables, client, stream
<1>2. /\ psiThread \in {"runs", "deleting"} /\ source = "live" /\ mPSecFilterBuf = NoMap
      /\ Room(psiQueue, psiThread)
  BY <1>1, FilterIsOpen
<1>3. mPmt.content \in Contents /\ PidsOf(known) = PidsOf(mPmt.content) /\ mPmt.content # "file"
  BY <1>1, <1>2 DEF PsiIInv, TablesOK, LiveOK, Room
<1>4. /\ onAir.content \in Contents \ {"file"}
      /\ onAir \in [version : 0 .. Versions - 1, content : Contents \ {"file"}]
      /\ onAir # NoMap
  BY DEF PsiIInv, Types, NoMap, NoContent, Contents
<1>5. CASE crc(onAir) # mCurrentPMTCRC
  <2>1. /\ psiState' = "processingPMTUpdate" /\ mPSecFilterBuf' = onAir
        /\ psiQueue' = Append(psiQueue, "section")
        /\ UNCHANGED <<mPmt, lapses>>
    BY <1>5 DEF PmtUpdateSection
  <2>2. "section" \in PsiEvents \ {"exit"}
    BY DEF PsiEvents
  <2>3. /\ \A gone \in BOOLEAN : Fits(psiQueue', psiThread, gone)
        /\ psiQueue' \in Seq(PsiEvents)
        /\ \A e : Has(psiQueue', e) => e \in {"section", "exit"}
        /\ Has(psiQueue', "section")
    BY <1>2, <2>1, <2>2 DEF Room
  <2>4. Types'
    <3>1. /\ mPSecFilterBuf' \in [version : 0 .. Versions - 1,
                              content : Contents \cup {NoContent, "listed", "others"}]
          /\ mPSecFilterBuf'.content # NoContent
      BY <1>4, <2>1 DEF NoContent, Contents
    <3> QED
      BY <1>1, <2>1, <2>3, <3>1 DEF PsiIInv, Types, PsiTypeOK
  <2>5. QueueOK' /\ SectionOK'
    BY <1>1, <1>2, <1>4, <2>1, <2>3 DEF QueueOK, SectionOK
  <2>6. MapsOK'
    BY <1>1, <1>2, <2>1 DEF PsiIInv, TablesOK, MapsOK, IsOnAir
  <2>7. FileOK'
    BY <1>1, <1>2 DEF FileOK
  <2>8. LiveOK'
    BY <1>1, <1>3, <1>4, <2>1, <2>3 DEF LiveOK
  <2> QED
    BY <2>1, <2>4, <2>5, <2>6, <2>7, <2>8 DEF PsiIInv, TablesOK
<1>6. CASE crc(onAir) = mCurrentPMTCRC
  <2>1. /\ psiState' = "updatePMTRevision" /\ mPmt' = [mPmt EXCEPT !.version = onAir.version]
        /\ psiQueue' = Append(psiQueue, "revision")
        /\ lapses' = IF mPmt.content # onAir.content THEN {"crc"} ELSE {}
        /\ mPSecFilterBuf' = NoMap
    BY <1>2, <1>6 DEF PmtUpdateSection, Lapse
  <2>2. "revision" \in PsiEvents \ {"exit"}
    BY DEF PsiEvents
  <2>3. /\ \A gone \in BOOLEAN : Fits(psiQueue', psiThread, gone)
        /\ psiQueue' \in Seq(PsiEvents)
        /\ \A e : Has(psiQueue', e) => e \in {"revision", "exit"}
    BY <1>2, <2>1, <2>2 DEF Room
  <2>4. Types'
    <3>1. /\ mPmt' \in [version : 0 .. Versions - 1, content : Contents \cup {NoContent}]
          /\ mPSecFilterBuf' = mPSecFilterBuf
      BY <1>2, <1>4, <2>1 DEF PsiIInv, Types, PsiTypeOK
    <3> QED
      BY <1>1, <2>1, <2>3, <3>1 DEF PsiIInv, Types, PsiTypeOK
  <2>5. QueueOK' /\ SectionOK'
    BY <1>1, <2>1, <2>3 DEF QueueOK, SectionOK
  <2>6. ASSUME lapses' = {} PROVE MapsOK' /\ FileOK' /\ LiveOK'
    <3>1. mPmt'.content = mPmt.content /\ mPmt.content = onAir.content
      BY <2>1, <2>6 DEF PsiIInv, Types, PsiTypeOK
    <3>2. NoMap.content \notin Contents
      BY DEF NoMap, NoContent, Contents
    <3> QED
      BY <1>1, <1>2, <1>3, <2>1, <2>3, <3>1, <3>2 DEF MapsOK, IsOnAir, FileOK, LiveOK
  <2> QED
    BY <2>1, <2>4, <2>5, <2>6 DEF PsiIInv, TablesOK
<1> QED
  BY <1>5, <1>6

\* A filter that is started when none is open.
LEMMA FilterStarts ==
    ASSUME PsiIInv, lapses = {}, filter = "closed", NEW table \in {"PAT", "PMT", "PMT update"},
           NEW ok \in BOOLEAN, startSectionFilter(table, ok)
    PROVE  /\ lapses' = {} /\ filter' \in {"closed", table}
           /\ ok /\ psiThread # "deleting" => filter' = table
BY DEF startSectionFilter, Lapse

LEMMA CallbackTypes ==
    ASSUME PsiIInv, NEW state, psiCallback(state)
    PROVE  /\ known' \in Contents \cup {NoContent} /\ source' = source
           /\ state \in {"ready", "update"} => known' = mPmt.content
           /\ state \notin {"ready", "update"} => known' = known
BY DEF psiCallback, PsiIInv, Types, PsiTypeOK

\* The events with which a table is waited for.
LEMMA WaitForTableStep ==
    ASSUME PsiIInv, lapses = {}, StartPsi \/ PATReady
    PROVE  PsiIInv'
<1>1. PICK posted \in {"start", "PATReady"} :
        /\ Event(posted) /\ psiQueue' = Tail(psiQueue)
        /\ psiState' \in {"waitForPat", "waitForPmt"}
        /\ mPmtPid' \in BOOLEAN
        /\ UNCHANGED <<mPSecFilterBuf, mPmt, mSectFileReadAttempts, psiThread, onAir>>
        /\ \E ok \in BOOLEAN, table \in {"PAT", "PMT"} :
             /\ startSectionFilter(table, ok)
             /\ UNCHANGED <<source, known>> \/ psiCallback("error")
  BY DEF StartPsi, PATReady, Taken, tables, stream, client, PsiIInv, Types, PsiTypeOK
<1>2. posted \in PsiEvents \ {"exit"} /\ posted # "section"
  BY <1>1 DEF PsiEvents
<1>3. /\ psiThread \in {"runs", "deleting"} /\ filter = "closed"
      /\ psiQueue' \in Seq(PsiEvents)
      /\ \A gone \in BOOLEAN : Fits(psiQueue', psiThread, gone)
      /\ Has(psiQueue, posted) /\ mPSecFilterBuf = NoMap
      /\ Quiet(psiQueue')
      /\ \A e : Has(psiQueue', e) => e = "exit"
  BY <1>1, <1>2, EventIsTaken DEF Room
<1>4. lapses' = {} /\ filter' \in {"closed", "PAT", "PMT"}
  BY <1>1, <1>3, FilterStarts
<1>5. known' = known /\ source' = source
  BY <1>1, CallbackTypes
<1>6. source = "live"
  BY <1>1, <1>2, <1>3 DEF PsiIInv, TablesOK, FileOK
<1>7. Types'
  BY <1>1, <1>3, <1>4, <1>5 DEF PsiIInv, Types, PsiTypeOK
<1>8. QueueOK' /\ SectionOK'
  BY <1>1, <1>3 DEF QueueOK, SectionOK
<1>9. MapsOK' /\ FileOK' /\ LiveOK'
  BY <1>1, <1>3, <1>5, <1>6 DEF PsiIInv, TablesOK, MapsOK, IsOnAir, FileOK, LiveOK
<1> QED
  BY <1>4, <1>7, <1>8, <1>9 DEF PsiIInv, TablesOK

\* The events that tell the controller of a map and wait for another.
LEMMA WaitForUpdateStep ==
    ASSUME PsiIInv, lapses = {}, PMTReady \/ Update \/ RevUpdate
    PROVE  PsiIInv'
<1>1. PICK posted \in {"PMTReady", "update", "revision"} :
        /\ Event(posted) /\ psiQueue' = Tail(psiQueue)
        /\ psiCallback(IF posted = "PMTReady" THEN "ready" ELSE posted)
        /\ WaitForUpdate
        /\ UNCHANGED <<mPSecFilterBuf, mPmt, mSectFileReadAttempts, psiThread, onAir, mPmtPid>>
  BY DEF PMTReady, Update, RevUpdate, Taken, tables, stream
<1>2. posted \in PsiEvents \ {"exit"} /\ posted \notin {"section", "fileReady", "exit"}
  BY <1>1 DEF PsiEvents
<1>3. /\ psiThread \in {"runs", "deleting"} /\ filter = "closed"
      /\ psiQueue' \in Seq(PsiEvents)
      /\ \A gone \in BOOLEAN : Fits(psiQueue', psiThread, gone)
      /\ \A e : Has(psiQueue, e) => e \in {posted, "exit"}
      /\ Has(psiQueue, posted) /\ mPSecFilterBuf = NoMap
      /\ Quiet(psiQueue')
      /\ \A e : Has(psiQueue', e) => e = "exit"
  BY <1>1, <1>2, EventIsTaken DEF Room
<1>4. source = "live"
  BY <1>1, <1>2, <1>3 DEF PsiIInv, TablesOK, FileOK
<1>5. /\ psiState' = "waitForUpdate"
      /\ lapses' \subseteq {"update"} /\ filter' \in {"closed", "PMT update"}
      /\ lapses' = {} /\ psiThread = "runs" => filter' = "PMT update"
  <2>1. CASE startSectionFilter("PMT update", TRUE)
    <3>1. /\ lapses' = {} /\ filter' \in {"closed", "PMT update"}
          /\ psiThread # "deleting" => filter' = "PMT update"
      BY <1>3, <2>1, FilterStarts
    <3> QED
      BY <1>1, <3>1 DEF WaitForUpdate
  <2>2. CASE psiStop /\ lapses' = lapses \cup {"update"}
    BY <1>1, <2>2 DEF WaitForUpdate, psiStop
  <2> QED
    BY <1>1, <2>1, <2>2 DEF WaitForUpdate
<1>6. mPmt.content \in Contents /\ mPmt.content # "file"
  BY <1>1, <1>3, <1>4 DEF PsiIInv, TablesOK, LiveOK
<1>7. /\ known' \in Contents \cup {NoContent} /\ source' = source
      /\ PidsOf(known') = PidsOf(mPmt.content)
  <2>1. CASE posted = "revision"
    <3>1. PidsOf(known) = PidsOf(mPmt.content)
      BY <1>3, <1>4, <2>1 DEF PsiIInv, TablesOK, LiveOK
    <3> QED
      BY <1>1, <2>1, <3>1, CallbackTypes
  <2>2. CASE posted \in {"PMTReady", "update"}
    BY <1>1, <2>2, CallbackTypes
  <2> QED
    BY <1>1, <2>1, <2>2
<1>8. Types'
  BY <1>1, <1>3, <1>5, <1>7 DEF PsiIInv, Types, PsiTypeOK
<1>9. QueueOK' /\ SectionOK'
  BY <1>1, <1>3 DEF QueueOK, SectionOK
<1>10. ASSUME lapses' = {} PROVE MapsOK' /\ FileOK' /\ LiveOK'
  BY <1>1, <1>3, <1>4, <1>5, <1>6, <1>7, <1>10
     DEF PsiIInv, TablesOK, MapsOK, IsOnAir, FileOK, LiveOK
<1> QED
  BY <1>5, <1>8, <1>9, <1>10 DEF PsiIInv, TablesOK

\* Events that nothing comes of but what the controller is told.
LEMMA ToldStep ==
    ASSUME PsiIInv, lapses = {}, FileSrcPMTReady \/ SectionIsGone
    PROVE  PsiIInv'
<1>1. PICK posted \in {"fileReady", "section"} :
        /\ Event(posted) /\ psiQueue' = Tail(psiQueue)
        /\ psiCallback(IF posted = "fileReady" THEN "ready" ELSE "error")
        /\ posted = "section" => mPSecFilterBuf = NoMap
        /\ UNCHANGED <<psiState, filter, mPSecFilterBuf, mPmt, mSectFileReadAttempts,
                       psiThread, onAir, mPmtPid, lapses>>
  BY DEF FileSrcPMTReady, SectionIsGone, Taken, tables, stream
<1>2. posted \in PsiEvents \ {"exit"}
  BY <1>1 DEF PsiEvents
<1>3. /\ psiThread \in {"runs", "deleting"} /\ filter = "closed"
      /\ psiQueue' \in Seq(PsiEvents)
      /\ \A gone \in BOOLEAN : Fits(psiQueue', psiThread, gone)
      /\ \A e : Has(psiQueue, e) <=> e = posted \/ Has(psiQueue', e)
      /\ mPSecFilterBuf = NoMap
  BY <1>1, <1>2, EventIsTaken
<1>4. /\ known' \in Contents \cup {NoContent} /\ source' = source
      /\ posted = "fileReady" => known' = mPmt.content
      /\ posted = "section" => known' = known
  BY <1>1, CallbackTypes
<1>5. Types'
  BY <1>1, <1>3, <1>4 DEF PsiIInv, Types, PsiTypeOK
<1>6. QueueOK' /\ SectionOK'
  BY <1>1, <1>3 DEF QueueOK, SectionOK
<1>7. MapsOK'
  BY <1>1, <1>3 DEF PsiIInv, TablesOK, MapsOK, IsOnAir
<1>8. CASE posted = "fileReady"
  <2>1. Has(psiQueue, "fileReady") /\ Has(psiQueue, posted)
    BY <1>3, <1>8
  <2>2. source = "file"
    BY <1>3, <2>1 DEF PsiIInv, Types, TablesOK, FileOK, LiveOK
  <2>3. FileOK'
    BY <1>1, <1>3, <1>4, <1>8, <2>2 DEF PsiIInv, TablesOK, FileOK
  <2>4. LiveOK'
    BY <1>4, <2>2 DEF LiveOK
  <2> QED
    BY <1>1, <1>5, <1>6, <1>7, <2>3, <2>4 DEF PsiIInv, TablesOK
<1>9. CASE posted = "section"
  <2>1. \A e : e # "section" => (Has(psiQueue, e) <=> Has(psiQueue', e))
    BY <1>3, <1>9
  <2>2. FileOK'
    BY <1>1, <1>3, <1>4, <1>9, <2>1 DEF PsiIInv, TablesOK, FileOK
  <2>3. LiveOK'
    BY <1>1, <1>3, <1>4, <1>9, <2>1 DEF PsiIInv, TablesOK, LiveOK
  <2> QED
    BY <1>1, <1>5, <1>6, <1>7, <2>2, <2>3 DEF PsiIInv, TablesOK
<1> QED
  BY <1>1, <1>8, <1>9

\* A step of something else.
LEMMA Unchanged ==
    ASSUME PsiIInv, UNCHANGED <<psiState, mPmtPid, filter, mPSecFilterBuf, psiQueue, mPmt,
                             mSectFileReadAttempts, psiThread, source, known, onAir, lapses>>
    PROVE  PsiIInv'
<1>1. Types'
  <2>1. PsiTypeOK'
    BY DEF PsiIInv, Types, PsiTypeOK
  <2> QED
    BY <2>1 DEF PsiIInv, Types
<1>2. lapses = {} => QueueOK' /\ SectionOK'
  BY DEF PsiIInv, QueueOK, SectionOK
<1>3. lapses = {} /\ psiThread \in {"runs", "deleting"} => MapsOK'
  BY DEF PsiIInv, TablesOK, MapsOK, IsOnAir
<1>4. lapses = {} /\ psiThread \in {"runs", "deleting"} => FileOK'
  BY DEF PsiIInv, TablesOK, FileOK
<1>5. lapses = {} /\ psiThread \in {"runs", "deleting"} => LiveOK'
  BY DEF PsiIInv, TablesOK, LiveOK
<1> QED
  BY <1>1, <1>2, <1>3, <1>4, <1>5 DEF PsiIInv, TablesOK

LEMMA TimeOutStep ==
    ASSUME PsiIInv, lapses = {}, TimeOut
    PROVE  PsiIInv'
<1>1. /\ known' = known /\ source' = source
      /\ UNCHANGED <<psiState, mPmtPid, filter, mPSecFilterBuf, psiQueue, mPmt,
                     mSectFileReadAttempts, psiThread, onAir, lapses>>
  BY CallbackTypes DEF TimeOut, tables, stream
<1> QED
  BY <1>1, Unchanged

LEMMA ExitStep ==
    ASSUME PsiIInv, lapses = {}, Exit
    PROVE  PsiIInv'
<1>1. /\ psiQueue # <<>> /\ psiQueue' = Tail(psiQueue)
      /\ psiThread' = "ended" /\ filter' = "closed"
      /\ mPSecFilterBuf' = NoMap /\ mPmt' = NoMap
      /\ UNCHANGED <<psiState, mPmtPid, mSectFileReadAttempts, source, known, onAir, lapses>>
  BY DEF Exit, Event, Taken, psiStop, client, stream
<1>2. psiQueue' \in Seq(PsiEvents)
  BY <1>1, HeadTailProperties DEF PsiIInv, Types
<1>3. NoMap \in [version : 0 .. Versions - 1, content : {NoContent}]
  BY PsiAssumption DEF NoMap
<1>4. Types'
  BY <1>1, <1>2, <1>3 DEF PsiIInv, Types, PsiTypeOK
<1>5. QueueOK' /\ SectionOK' /\ TablesOK'
  BY <1>1, <1>2 DEF QueueOK, SectionOK, TablesOK, Fits
<1> QED
  BY <1>1, <1>4, <1>5 DEF PsiIInv

\* A section is parsed: Psi was started for a stream, nothing else is queued.
LEMMA SectionIsTaken ==
    ASSUME PsiIInv, lapses = {}, Event("section"), mPSecFilterBuf # NoMap
    PROVE  /\ psiThread \in {"runs", "deleting"} /\ filter = "closed" /\ source = "live"
           /\ Room(Tail(psiQueue), psiThread)
           /\ Quiet(Tail(psiQueue)) /\ Tail(psiQueue) \in Seq(PsiEvents)
           /\ \A gone \in BOOLEAN : Fits(Tail(psiQueue), psiThread, gone)
           /\ \A e : Has(psiQueue, e) => e \in {"section", "exit"}
<1>1. "section" \in PsiEvents \ {"exit"}
  BY DEF PsiEvents
<1>2. /\ psiThread \in {"runs", "deleting"} /\ filter = "closed"
      /\ Room(Tail(psiQueue), psiThread)
      /\ Quiet(Tail(psiQueue)) /\ Tail(psiQueue) \in Seq(PsiEvents)
      /\ \A gone \in BOOLEAN : Fits(Tail(psiQueue), psiThread, gone)
      /\ \A e : Has(psiQueue, e) <=> e = "section" \/ Has(Tail(psiQueue), e)
  BY <1>1, EventIsTaken
<1>3. \A e : Has(psiQueue, e) => e \in {"section", "exit"}
  BY <1>2 DEF Room
<1>4. source = "live"
  BY <1>2 DEF PsiIInv, TablesOK, FileOK
<1> QED
  BY <1>2, <1>3, <1>4

LEMMA ParsePatStep ==
    ASSUME PsiIInv, lapses = {}, ParsePat
    PROVE  PsiIInv'
<1>1. /\ Event("section") /\ mPSecFilterBuf # NoMap /\ mPSecFilterBuf' = NoMap
      /\ mPmtPid' \in BOOLEAN
      /\ psiState' \in {"waitForPmt", "waitForPat", "idle"}
      /\ UNCHANGED <<source, known>> \/ psiCallback("error")
      /\ UNCHANGED <<filter, mPmt, psiThread, onAir, lapses>>
  BY DEF ParsePat, tables, stream, client, PsiIInv, Types, PsiTypeOK
<1>2. mSectFileReadAttempts' \in 0 .. kAppMaxSectFiltReadAttempts
  <2>1. mSectFileReadAttempts \in Nat /\ kAppMaxSectFiltReadAttempts \in Nat
    <3>1. mSectFileReadAttempts \in 0 .. kAppMaxSectFiltReadAttempts
      BY DEF PsiIInv, Types, PsiTypeOK
    <3> QED
      BY <3>1, PsiAssumption
  <2>2. \/ mSectFileReadAttempts' = 0
        \/ /\ mSectFileReadAttempts + 1 < kAppMaxSectFiltReadAttempts
           /\ mSectFileReadAttempts' = mSectFileReadAttempts + 1
    BY DEF ParsePat
  <2> QED
    BY <2>1, <2>2
<1>3. \/ psiQueue' = Tail(psiQueue)
      \/ \E e \in {"PATReady", "start"} : psiQueue' = Append(Tail(psiQueue), e)
  BY DEF ParsePat, Taken
<1>4. /\ psiThread \in {"runs", "deleting"} /\ filter = "closed" /\ source = "live"
      /\ Room(Tail(psiQueue), psiThread)
      /\ Quiet(Tail(psiQueue)) /\ Tail(psiQueue) \in Seq(PsiEvents)
      /\ \A gone \in BOOLEAN : Fits(Tail(psiQueue), psiThread, gone)
  BY <1>1, SectionIsTaken
<1>5. /\ psiQueue' \in Seq(PsiEvents)
      /\ \A gone \in BOOLEAN : Fits(psiQueue', psiThread, gone)
      /\ \A e : Has(psiQueue', e) => e \in {"PATReady", "start", "exit"}
  <2>1. CASE psiQueue' = Tail(psiQueue)
    BY <1>4, <2>1 DEF Room
  <2>2. ASSUME NEW e \in {"PATReady", "start"}, psiQueue' = Append(Tail(psiQueue), e)
        PROVE  /\ psiQueue' \in Seq(PsiEvents)
               /\ \A gone \in BOOLEAN : Fits(psiQueue', psiThread, gone)
               /\ \A x : Has(psiQueue', x) => x \in {"PATReady", "start", "exit"}
    <3>1. e \in PsiEvents \ {"exit"}
      BY DEF PsiEvents
    <3> QED
      BY <1>4, <2>2, <3>1 DEF Room
  <2> QED
    BY <1>3, <2>1, <2>2
<1>6. source' = source /\ known' = known
  BY <1>1, CallbackTypes
<1>7. Types'
  <2>1. mPSecFilterBuf' \in [version : 0 .. Versions - 1, content : {NoContent}]
    BY <1>1, PsiAssumption DEF NoMap
  <2> QED
    BY <1>1, <1>2, <1>5, <1>6, <2>1 DEF PsiIInv, Types, PsiTypeOK
<1>8. QueueOK' /\ SectionOK'
  BY <1>1, <1>4, <1>5 DEF QueueOK, SectionOK
<1>9. MapsOK'
  BY <1>1, <1>4 DEF PsiIInv, TablesOK, MapsOK, IsOnAir, NoMap, NoContent, Contents
<1>10. FileOK'
  BY <1>4, <1>6 DEF FileOK
<1>11. LiveOK'
  BY <1>1, <1>4, <1>5, <1>6 DEF PsiIInv, TablesOK, LiveOK
<1> QED
  BY <1>1, <1>7, <1>8, <1>9, <1>10, <1>11 DEF PsiIInv, TablesOK

\* A map that is refused is waited for again, or not.
LEMMA RefusedStep ==
    ASSUME PsiIInv, lapses = {}, Event("section"), mPSecFilterBuf # NoMap,
           PmtRefused, mPSecFilterBuf' = NoMap,
           mPmt' = [mPSecFilterBuf EXCEPT !.content = NoContent],
           UNCHANGED <<mPmtPid, psiThread, onAir>>
    PROVE  PsiIInv'
<1>1. /\ psiQueue' = Tail(psiQueue) /\ psiCallback("error")
      /\ psiState' \in {"idle", "waitForPmt"}
  BY DEF PmtRefused, Taken
<1>2. /\ psiThread \in {"runs", "deleting"} /\ filter = "closed" /\ source = "live"
      /\ Room(Tail(psiQueue), psiThread)
      /\ Quiet(Tail(psiQueue)) /\ Tail(psiQueue) \in Seq(PsiEvents)
      /\ \A gone \in BOOLEAN : Fits(Tail(psiQueue), psiThread, gone)
  BY SectionIsTaken
<1>3. mSectFileReadAttempts' \in 0 .. kAppMaxSectFiltReadAttempts
  <2>1. mSectFileReadAttempts \in Nat /\ kAppMaxSectFiltReadAttempts \in Nat
    <3>1. mSectFileReadAttempts \in 0 .. kAppMaxSectFiltReadAttempts
      BY DEF PsiIInv, Types, PsiTypeOK
    <3> QED
      BY <3>1, PsiAssumption
  <2>2. \/ mSectFileReadAttempts' = 0
        \/ /\ ~(mSectFileReadAttempts + 1 > kAppMaxSectFiltReadAttempts)
           /\ mSectFileReadAttempts' = mSectFileReadAttempts + 1
    BY DEF PmtRefused
  <2> QED
    BY <2>1, <2>2
<1>4. lapses' = {} /\ filter' \in {"closed", "PMT"}
  <2>1. CASE UNCHANGED <<filter, lapses>>
    BY <1>2, <2>1
  <2>2. ASSUME NEW ok \in BOOLEAN, startSectionFilter("PMT", ok)
        PROVE  lapses' = {} /\ filter' \in {"closed", "PMT"}
    BY <1>2, <2>2, FilterStarts
  <2> QED
    BY <2>1, <2>2 DEF PmtRefused
<1>5. source' = source /\ known' = known
  BY <1>1, CallbackTypes
<1>6. /\ mPmt' \in [version : 0 .. Versions - 1, content : {NoContent}]
      /\ mPSecFilterBuf' \in [version : 0 .. Versions - 1, content : {NoContent}]
  BY PsiAssumption DEF NoMap, PsiIInv, Types
<1>7. Types'
  BY <1>1, <1>2, <1>3, <1>4, <1>5, <1>6 DEF PsiIInv, Types, PsiTypeOK
<1>8. QueueOK' /\ SectionOK'
  BY <1>1, <1>2 DEF QueueOK, SectionOK
<1>9. MapsOK' /\ mPmt'.content # "file"
  BY <1>6 DEF MapsOK, IsOnAir, NoContent, Contents
<1>10. FileOK'
  BY <1>2, <1>5 DEF FileOK
<1>11. \A e : Has(psiQueue', e) => e = "exit"
  BY <1>1, <1>2 DEF Room
<1>12. LiveOK'
  BY <1>1, <1>2, <1>5, <1>9, <1>11 DEF LiveOK
<1> QED
  BY <1>4, <1>7, <1>8, <1>9, <1>10, <1>12 DEF PsiIInv, TablesOK

LEMMA ParsePmtStep ==
    ASSUME PsiIInv, lapses = {}, ParsePmt
    PROVE  PsiIInv'
<1>1. /\ Event("section") /\ mPSecFilterBuf # NoMap /\ mPSecFilterBuf' = NoMap
      /\ psiState = "processingPMT"
      /\ UNCHANGED <<mPmtPid, psiThread, onAir>>
  BY DEF ParsePmt, stream
<1>2. CASE ~IsCollected(mPSecFilterBuf, pidTable)
  BY <1>1, <1>2, RefusedStep DEF ParsePmt, MapRead
<1>3. CASE IsCollected(mPSecFilterBuf, pidTable)
  <2>1. /\ mPmt' = mPSecFilterBuf
        /\ psiQueue' = Append(Tail(psiQueue), "PMTReady")
        /\ mSectFileReadAttempts' = 0
        /\ lapses' \subseteq {"pidTable"}
        /\ UNCHANGED <<psiState, filter, source, known>>
    BY <1>3 DEF ParsePmt, MapRead, Lapse, client
  <2>2. /\ psiThread \in {"runs", "deleting"} /\ filter = "closed" /\ source = "live"
        /\ Room(Tail(psiQueue), psiThread)
    BY <1>1, SectionIsTaken
  <2>3. "PMTReady" \in PsiEvents \ {"exit"}
    BY DEF PsiEvents
  <2>4. /\ psiQueue' \in Seq(PsiEvents)
        /\ \A gone \in BOOLEAN : Fits(psiQueue', psiThread, gone)
        /\ \A e : Has(psiQueue', e) => e \in {"PMTReady", "exit"}
    BY <2>1, <2>2, <2>3 DEF Room
  <2>5. mPSecFilterBuf.content \in Contents \ {"file"} /\ IsOnAir(mPSecFilterBuf)
    BY <1>1, <2>2 DEF PsiIInv, SectionOK, TablesOK, MapsOK
  <2>6. /\ mPmt' \in [version : 0 .. Versions - 1, content : Contents \cup {NoContent}]
        /\ mPSecFilterBuf' \in [version : 0 .. Versions - 1, content : {NoContent}]
    BY <1>1, <2>1, <2>5, PsiAssumption DEF PsiIInv, Types, NoMap
  <2>7. Types'
    <3>1. 0 \in 0 .. kAppMaxSectFiltReadAttempts
      BY PsiAssumption
    <3> QED
      BY <1>1, <2>1, <2>4, <2>6, <3>1 DEF PsiIInv, Types, PsiTypeOK
  <2>8. QueueOK' /\ SectionOK'
    BY <1>1, <2>1, <2>2, <2>4 DEF QueueOK, SectionOK
  <2>9. MapsOK'
    BY <1>1, <2>1, <2>5 DEF MapsOK, IsOnAir, NoMap, NoContent, Contents
  <2>10. FileOK'
    BY <2>1, <2>2 DEF FileOK
  <2>11. LiveOK'
    BY <1>1, <2>1, <2>2, <2>4, <2>5 DEF LiveOK
  <2> QED
    BY <2>1, <2>7, <2>8, <2>9, <2>10, <2>11 DEF PsiIInv, TablesOK
<1> QED
  BY <1>2, <1>3

LEMMA ParsePmtUpdateStep ==
    ASSUME PsiIInv, lapses = {}, ParsePmtUpdate
    PROVE  PsiIInv'
<1>1. /\ Event("section") /\ mPSecFilterBuf # NoMap /\ mPSecFilterBuf' = NoMap
      /\ psiState = "processingPMTUpdate"
      /\ UNCHANGED <<mPmtPid, psiThread, onAir>>
  BY DEF ParsePmtUpdate, stream
<1>2. CASE ~IsCollected(mPSecFilterBuf, FALSE)
  BY <1>1, <1>2, RefusedStep DEF ParsePmtUpdate, MapRead
<1>3. CASE IsCollected(mPSecFilterBuf, FALSE)
  <2> DEFINE told == IF PidsDiffer(mPSecFilterBuf, mPmt) THEN "update" ELSE "revision"
  <2>1. /\ mPmt' = mPSecFilterBuf
        /\ psiQueue' = Append(Tail(psiQueue), told)
        /\ mSectFileReadAttempts' = 0
        /\ UNCHANGED <<psiState, filter, source, known, lapses>>
    BY <1>3 DEF ParsePmtUpdate, MapRead, client
  <2>2. /\ psiThread \in {"runs", "deleting"} /\ filter = "closed" /\ source = "live"
        /\ Room(Tail(psiQueue), psiThread)
        /\ \A e : Has(psiQueue, e) => e \in {"section", "exit"}
    BY <1>1, SectionIsTaken
  <2>3. /\ mPSecFilterBuf.content \in Contents \ {"file"} /\ IsOnAir(mPSecFilterBuf)
        /\ PidsOf(known) = PidsOf(mPmt.content)
    BY <1>1, <2>2 DEF PsiIInv, SectionOK, TablesOK, MapsOK, LiveOK
  <2>4. /\ told \in PsiEvents \ {"exit"} /\ told \in {"update", "revision"}
        /\ told = "revision" => PidsOf(known') = PidsOf(mPmt'.content)
    BY <2>1, <2>3 DEF PsiEvents, PidsDiffer
  <2> HIDE DEF told
  <2>5. /\ psiQueue' \in Seq(PsiEvents)
        /\ \A gone \in BOOLEAN : Fits(psiQueue', psiThread, gone)
        /\ \A e : Has(psiQueue', e) => e \in {told, "exit"}
    BY <2>1, <2>2, <2>4 DEF Room
  <2>6. /\ mPmt' \in [version : 0 .. Versions - 1, content : Contents \cup {NoContent}]
        /\ mPSecFilterBuf' \in [version : 0 .. Versions - 1, content : {NoContent}]
    BY <1>1, <2>1, <2>3, PsiAssumption DEF PsiIInv, Types, NoMap
  <2>7. Types'
    <3>1. 0 \in 0 .. kAppMaxSectFiltReadAttempts
      BY PsiAssumption
    <3> QED
      BY <1>1, <2>1, <2>5, <2>6, <3>1 DEF PsiIInv, Types, PsiTypeOK
  <2>8. QueueOK' /\ SectionOK'
    BY <1>1, <2>1, <2>2, <2>5 DEF QueueOK, SectionOK
  <2>9. MapsOK'
    BY <1>1, <2>1, <2>3 DEF MapsOK, IsOnAir, NoMap, NoContent, Contents
  <2>10. FileOK'
    BY <2>1, <2>2 DEF FileOK
  <2>11. LiveOK'
    BY <1>1, <2>1, <2>2, <2>3, <2>4, <2>5 DEF LiveOK
  <2> QED
    BY <2>1, <2>7, <2>8, <2>9, <2>10, <2>11 DEF PsiIInv, TablesOK
<1> QED
  BY <1>2, <1>3

\* The stream changes.
LEMMA StreamStep ==
    ASSUME PsiIInv, lapses = {}, NewMapOnAir \/ PatOnAirChanges
    PROVE  PsiIInv'
<1>1. UNCHANGED <<psiState, mPmtPid, filter, mPSecFilterBuf, psiQueue, mPmt,
                  mSectFileReadAttempts, psiThread, source, known, lapses>>
  BY DEF NewMapOnAir, PatOnAirChanges, tables, client
<1>2. onAir' \in [version : 0 .. Versions - 1, content : Contents \ {"file"}]
  <2>1. CASE NewMapOnAir
    <3>1. onAir.version \in Nat
      BY DEF PsiIInv, Types
    <3>2. (onAir.version + 1) % Versions \in 0 .. Versions - 1
      BY <3>1, PsiAssumption
    <3> QED
      BY <2>1, <3>2 DEF NewMapOnAir
  <2>2. CASE PatOnAirChanges
    BY <2>2 DEF PatOnAirChanges, PsiIInv, Types
  <2> QED
    BY <2>1, <2>2
<1>3. Types'
  <2>1. PsiTypeOK'
    BY <1>1 DEF PsiIInv, Types, PsiTypeOK
  <2> QED
    BY <1>1, <1>2, <2>1 DEF PsiIInv, Types
<1>4. QueueOK' /\ SectionOK'
  BY <1>1 DEF PsiIInv, QueueOK, SectionOK
<1>5. psiThread \in {"runs", "deleting"} => MapsOK'
  <2>1. CASE NewMapOnAir
    <3>1. \A map \in {mPmt, mPSecFilterBuf} :
            map.content \in Contents => onAir'.version # map.version
      BY <2>1 DEF NewMapOnAir
    <3> QED
      BY <1>1, <3>1 DEF MapsOK, IsOnAir
  <2>2. CASE PatOnAirChanges
    BY <1>1, <2>2 DEF PatOnAirChanges, PsiIInv, TablesOK, MapsOK, IsOnAir
  <2> QED
    BY <2>1, <2>2
<1>6. psiThread \in {"runs", "deleting"} => FileOK' /\ LiveOK'
  BY <1>1 DEF PsiIInv, TablesOK, FileOK, LiveOK
<1> QED
  BY <1>1, <1>3, <1>4, <1>5, <1>6 DEF PsiIInv, TablesOK

LEMMA NextPsiIInv == PsiIInv /\ [PsiNext]_psiVars => PsiIInv'
<1> SUFFICES ASSUME PsiIInv, [PsiNext]_psiVars PROVE PsiIInv'
  OBVIOUS
<1>1. CASE PsiNext
  <2>1. lapses = {}
    BY <1>1 DEF PsiNext
  <2> QED
    BY <1>1, <2>1, psiStartStep, FileStartStep, psiStartFailsStep, DeleteStep, SectionStep,
       PmtUpdateSectionStep, WaitForTableStep, WaitForUpdateStep, ToldStep, TimeOutStep,
       ExitStep, ParsePatStep, ParsePmtStep, ParsePmtUpdateStep, StreamStep
       DEF PsiNext, psiThreadStep
<1>2. CASE UNCHANGED psiVars
  BY <1>2, Unchanged DEF psiVars, tables, client, stream
<1> QED
  BY <1>1, <1>2

\* The invariant that the theorems rest on.
THEOREM PsiInductiveInvariant == PsiSpec => []PsiIInv
BY InitPsiIInv, NextPsiIInv, PTL DEF PsiSpec

------------------------------------------------------------------------------
(* The theorems *)

\* Every variable of Psi keeps to its values, the attempts to find a table to
\* their limit.
THEOREM PsiTypeCorrect == PsiSpec => []PsiTypeOK
<1>1. PsiIInv => PsiTypeOK
  BY DEF PsiIInv, Types
<1> QED
  BY <1>1, PsiInductiveInvariant, PTL

\* No section filter is opened over one that is open, and none outlives the
\* thread of Psi (psi.cpp:691, 708, 949).
THEOREM NoFilterIsEverLeft == PsiSpec => []NoFilterIsLeft
<1>1. PsiIInv => NoFilterIsLeft
  <2> SUFFICES ASSUME PsiIInv, lapses = {}, psiThread = "ended" PROVE filter = "closed"
    BY DEF PsiIInv, NoFilterIsLeft
  <2> QED
    BY DEF PsiIInv, QueueOK
<1> QED
  BY <1>1, PsiInductiveInvariant, PTL

\* At rest the controller knows the PIDs on the air, or a filter is open for the
\* map it does not know yet; of a recording it knows the recording's
\* (psi.cpp:1147, 1408).
THEOREM TablesAreAlwaysFollowed == PsiSpec => []TablesAreFollowed
<1>1. PsiIInv => TablesAreFollowed
  <2> SUFFICES ASSUME PsiIInv, lapses = {}, psiQueue = <<>>, psiThread = "runs"
               PROVE  TablesAreFollowed
    BY DEF TablesAreFollowed
  <2>1. \A e : ~Has(psiQueue, e)
    BY EmptyFits
  <2>2. CASE source = "live" /\ psiState = "waitForUpdate"
    <3>1. /\ filter = "PMT update" /\ mPmt.content \in Contents \ {"file"}
          /\ PidsOf(known) = PidsOf(mPmt.content)
      BY <2>1, <2>2 DEF PsiIInv, TablesOK, LiveOK
    <3>2. onAir.version = mPmt.version => mPmt.content = onAir.content
      BY <3>1 DEF PsiIInv, TablesOK, MapsOK, IsOnAir
    <3> QED
      BY <2>2, <3>1, <3>2 DEF TablesAreFollowed
  <2>3. CASE source = "file"
    <3>1. known = "file" /\ filter = "closed"
      BY <2>1, <2>3 DEF PsiIInv, TablesOK, FileOK
    <3> QED
      BY <2>3, <3>1 DEF TablesAreFollowed
  <2> QED
    BY <2>2, <2>3 DEF TablesAreFollowed
<1> QED
  BY <1>1, PsiInductiveInvariant, PTL

==============================================================================
