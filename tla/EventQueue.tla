----------------------------- MODULE EventQueue ------------------------------
(***************************************************************************)
(* MSPEventQueue (eventQueue.cpp): the queue every player component puts   *)
(* between the threads that post events and its own event thread.          *)
(*                                                                         *)
(* Callers are the threads that call dispatchEvent and flushQueue; the     *)
(* Consumer is the one event thread that calls popEventQueue and, before   *)
(* each pop, setTimeOutSecs or unSetTimeOut.  The pthread mutex and        *)
(* condition variable are modelled step by step: a wait gives the mutex up *)
(* and may end by a signal, by the timeout or by nothing at all (a         *)
(* spurious wakeup), and then has to win the mutex again.                  *)
(***************************************************************************)
EXTENDS Naturals, Sequences, FiniteSets

CONSTANTS Callers,     \* threads that post to and flush the queue
          Consumer,    \* the event thread
          Events,      \* (eventType, eventData) pairs that are posted
          WaitTimes,   \* the wait times the event thread chooses from
          kTimeOut,    \* the made-up event of a timed out pop
          None,        \* no event, no thread
          MaxPending   \* bound: events pending or about to be

ASSUME ConsumerAssumption == Consumer \notin Callers
ASSUME NoneAssumption == None \notin Callers \cup {Consumer}
ASSUME WaitTimesAssumption == WaitTimes \subseteq Nat

Threads == Callers \cup {Consumer}

VARIABLES mQueue,        \* std::list<Event*>
          mMutex,        \* the thread that holds mMutex, or None
          mWaitTimeSecs, \* written by the event thread, without the mutex
          pc,            \* where each thread is
          event,         \* the event each caller is dispatching
          rc,            \* popEventQueue's rc: "ok" or "ETIMEDOUT"
          p              \* what popEventQueue returned last

vars == <<mQueue, mMutex, mWaitTimeSecs, pc, event, rc, p>>

Init ==
    /\ mQueue = <<>>
    /\ mMutex = None
    /\ mWaitTimeSecs = 0
    /\ pc = [t \in Threads |-> "idle"]
    /\ event = [t \in Callers |-> None]
    /\ rc = "ok"
    /\ p = None

\* Thread t goes from one program point to another.
Goto(t, from, to) ==
    /\ pc[t] = from
    /\ pc' = [pc EXCEPT ![t] = to]

Lock(t) ==
    /\ mMutex = None
    /\ mMutex' = t

Unlock(t) ==
    /\ mMutex = t
    /\ mMutex' = None

------------------------------------------------------------------------------
(* dispatchEvent: allocate, lock, push, signal, unlock *)

Posting == {t \in Callers : pc[t] \in {"lock", "push"}}

\* Mutant: the event is queued before its fields are set.
CallDispatchUnset(t, e) ==
    /\ Len(mQueue) + Cardinality(Posting) < MaxPending
    /\ Goto(t, "idle", "lock")
    /\ UNCHANGED <<mQueue, mMutex, mWaitTimeSecs, event, rc, p>>

CallDispatch(t, e) ==
    /\ Len(mQueue) + Cardinality(Posting) < MaxPending
    /\ Goto(t, "idle", "lock")
    /\ event' = [event EXCEPT ![t] = e]
    /\ UNCHANGED <<mQueue, mMutex, mWaitTimeSecs, rc, p>>

DispatchLock(t) ==
    /\ Goto(t, "lock", "push")
    /\ Lock(t)
    /\ UNCHANGED <<mQueue, mWaitTimeSecs, event, rc, p>>

\* Mutant: push_front.
DispatchPushFront(t) ==
    /\ Goto(t, "push", "signal")
    /\ mQueue' = <<event[t]>> \o mQueue
    /\ UNCHANGED <<mMutex, mWaitTimeSecs, event, rc, p>>

DispatchPush(t) ==
    /\ Goto(t, "push", "signal")
    /\ mQueue' = Append(mQueue, event[t])
    /\ UNCHANGED <<mMutex, mWaitTimeSecs, event, rc, p>>

\* Mutant: nobody is signalled.
SignalNobody(t) == pc' = [pc EXCEPT ![t] = "unlock"]

\* pthread_cond_signal wakes the event thread if it waits, and is lost if not.
Signal(t) ==
    IF pc[Consumer] = "wait"
      THEN pc' = [pc EXCEPT ![t] = "unlock", ![Consumer] = "woken"]
      ELSE pc' = [pc EXCEPT ![t] = "unlock"]

DispatchSignal(t) ==
    /\ pc[t] = "signal"
    /\ Signal(t)
    /\ UNCHANGED <<mQueue, mMutex, mWaitTimeSecs, event, rc, p>>

CallerUnlock(t) ==
    /\ Goto(t, "unlock", "idle")
    /\ Unlock(t)
    /\ event' = [event EXCEPT ![t] = None]
    /\ UNCHANGED <<mQueue, mWaitTimeSecs, rc, p>>

(* flushQueue: lock, erase every event, unlock *)

CallFlush(t) ==
    /\ Goto(t, "idle", "flush")
    /\ UNCHANGED <<mQueue, mMutex, mWaitTimeSecs, event, rc, p>>

\* Mutant: the list is erased without the mutex.
FlushUnlocked(t) ==
    /\ Goto(t, "flush", "erase")
    /\ UNCHANGED <<mQueue, mMutex, mWaitTimeSecs, event, rc, p>>

FlushLock(t) ==
    /\ Goto(t, "flush", "erase")
    /\ Lock(t)
    /\ UNCHANGED <<mQueue, mWaitTimeSecs, event, rc, p>>

FlushErase(t) ==
    /\ Goto(t, "erase", "unlock")
    /\ mQueue' = <<>>
    /\ UNCHANGED <<mMutex, mWaitTimeSecs, event, rc, p>>

------------------------------------------------------------------------------
(* The event thread: setTimeOutSecs or unSetTimeOut, then popEventQueue *)

SetTimeOutSecs(w) ==
    /\ Goto(Consumer, "idle", "call")
    /\ mWaitTimeSecs' = w
    /\ UNCHANGED <<mQueue, mMutex, event, rc, p>>

PopLock ==
    /\ Goto(Consumer, "call", "test")
    /\ Lock(Consumer)
    /\ rc' = "ok"
    /\ UNCHANGED <<mQueue, mWaitTimeSecs, event, p>>

\* The loop's condition: wait while the queue is empty and no wait timed out.
MustWait == mQueue = <<>> /\ rc # "ETIMEDOUT"

PopWait ==
    /\ MustWait
    /\ Goto(Consumer, "test", "wait")
    /\ Unlock(Consumer)
    /\ UNCHANGED <<mQueue, mWaitTimeSecs, event, rc, p>>

SpuriousWakeup ==
    /\ Goto(Consumer, "wait", "woken")
    /\ UNCHANGED <<mQueue, mMutex, mWaitTimeSecs, event, rc, p>>

\* Only pthread_cond_timedwait times out.
WaitTimesOut ==
    /\ mWaitTimeSecs # 0
    /\ Goto(Consumer, "wait", "expired")
    /\ UNCHANGED <<mQueue, mMutex, mWaitTimeSecs, event, rc, p>>

\* Mutant: "if" in place of "while", no second look at the list.
WaitReturnsToTake(from, result) ==
    /\ Goto(Consumer, from, "take")
    /\ Lock(Consumer)
    /\ rc' = result
    /\ UNCHANGED <<mQueue, mWaitTimeSecs, event, p>>

\* Mutant: the result of the wait is overwritten, as gettimeofday's is.
WaitReturnsOk(from, result) ==
    /\ Goto(Consumer, from, "test")
    /\ Lock(Consumer)
    /\ rc' = "ok"
    /\ UNCHANGED <<mQueue, mWaitTimeSecs, event, p>>

\* The wait returns once it holds the mutex again, with its result in rc,
\* and the loop tests its condition again.
WaitReturns(from, result) ==
    /\ Goto(Consumer, from, "test")
    /\ Lock(Consumer)
    /\ rc' = result
    /\ UNCHANGED <<mQueue, mWaitTimeSecs, event, p>>

LeaveLoop ==
    /\ ~MustWait
    /\ Goto(Consumer, "test", "take")
    /\ UNCHANGED <<mQueue, mMutex, mWaitTimeSecs, event, rc, p>>

PopTimeOut ==
    /\ rc = "ETIMEDOUT"
    /\ Goto(Consumer, "take", "release")
    /\ p' = kTimeOut
    /\ UNCHANGED <<mQueue, mMutex, mWaitTimeSecs, event, rc>>

PopFront ==
    /\ rc # "ETIMEDOUT"
    /\ Goto(Consumer, "take", "release")
    /\ p' = Head(mQueue)
    /\ mQueue' = Tail(mQueue)
    /\ UNCHANGED <<mMutex, mWaitTimeSecs, event, rc>>

PopUnlock ==
    /\ Goto(Consumer, "release", "idle")
    /\ Unlock(Consumer)
    /\ UNCHANGED <<mQueue, mWaitTimeSecs, event, rc, p>>

------------------------------------------------------------------------------
CallerStep(t) ==
    \/ DispatchLock(t) \/ DispatchPush(t) \/ DispatchSignal(t)
    \/ FlushLock(t) \/ FlushErase(t)
    \/ CallerUnlock(t)

ConsumerStep ==
    \/ \E w \in WaitTimes : SetTimeOutSecs(w)
    \/ PopLock
    \/ PopWait
    \/ WaitTimesOut
    \/ WaitReturns("woken", "ok")
    \/ WaitReturns("expired", "ETIMEDOUT")
    \/ LeaveLoop
    \/ PopTimeOut
    \/ PopFront
    \/ PopUnlock

Next ==
    \/ \E t \in Callers, e \in Events : CallDispatch(t, e)
    \/ \E t \in Callers : CallFlush(t)
    \/ \E t \in Callers : CallerStep(t)
    \/ ConsumerStep
    \/ SpuriousWakeup

Spec == Init /\ [][Next]_vars

\* A thread that started a call goes on with it, the scheduler is fair to
\* threads that compete for the mutex, and time passes; nobody has to call
\* dispatchEvent or flushQueue, and no wakeup is spurious by obligation.
\* Each wakeup starts the timeout over (ts is computed inside the loop), so
\* wakeups must not come so fast forever that no wait ever lasts its time.
Fairness ==
    /\ \A t \in Callers : SF_vars(CallerStep(t))
    /\ SF_vars(ConsumerStep)
    /\ SF_vars(WaitTimesOut)

FairSpec == Spec /\ Fairness

------------------------------------------------------------------------------
(* Properties *)

CallerPoints == {"idle", "lock", "push", "signal", "unlock", "flush", "erase"}
ConsumerPoints ==
    {"idle", "call", "test", "wait", "woken", "expired", "take", "release"}

\* The type invariant.
TypeOK ==
    /\ mQueue \in Seq(Events)
    /\ mMutex \in Threads \cup {None}
    /\ mWaitTimeSecs \in Nat
    /\ pc \in [Threads -> CallerPoints \cup ConsumerPoints]
    /\ event \in [Callers -> Events \cup {None}]
    /\ rc \in {"ok", "ETIMEDOUT"}
    /\ p \in Events \cup {kTimeOut, None}

\* A thread inside a critical section holds the mutex: what dispatchEvent,
\* flushQueue and popEventQueue do to the list never overlaps.
HoldsMutex(t) ==
    pc[t] \in {"push", "signal", "unlock", "erase", "test", "take", "release"}

MutualExclusion == \A t \in Threads : HoldsMutex(t) <=> mMutex = t

\* popEventQueue takes front() only of a queue that has one: the hazard that
\* the comment at eventQueue.cpp:82 describes, a wakeup nobody signalled or
\* one whose event a flush erased before the event thread won the mutex.
FrontExists == pc[Consumer] = "take" /\ rc = "ok" => mQueue # <<>>

\* The queue is an EventFifo: order kept, nothing delivered twice or made up,
\* and a pop that timed out leaves the event that arrived late in its place.
Fifo == INSTANCE EventFifo WITH pending <- mQueue, delivered <- p
ImplementsFifo == Fifo!Spec

\* No wakeup is lost: an event thread in a wait without a timeout does not
\* sleep on while an event is pending.
Popping == pc[Consumer] \in {"call", "test", "wait", "woken", "expired", "take"}
NoLostWakeup == (Popping /\ mQueue # <<>>) ~> (~Popping \/ mQueue = <<>>)

\* A pop with a timeout set returns, whether or not anybody posts.
TimedPopReturns == (Popping /\ mWaitTimeSecs # 0) ~> ~Popping

\* The event thread sleeps for as long as there is nothing to do, and no longer:
\* popEventQueue returns if there is an event or a timeout is set.
PopsReturn == NoLostWakeup /\ TimedPopReturns
==============================================================================
