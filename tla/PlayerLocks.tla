----------------------------- MODULE PlayerLocks -----------------------------
(***************************************************************************)
(* Who waits for whom in the media player: the client threads that call    *)
(* the IMediaPlayer API, the player's event thread, and the event thread   *)
(* of every controller (Zapper, Dvr: their thread functions, Eject and     *)
(* destructors are alike).                                                 *)
(*                                                                         *)
(* The player mutex comes first, a controller's mutex second.  A client    *)
(* that ejects or deletes a controller joins its thread while it holds the *)
(* player mutex, so that a controller's thread may never take that mutex:  *)
(* what it has to tell the player it posts to the player's queue.          *)
(*                                                                         *)
(* Bodies are reduced to the locks they take, the controllers they use,    *)
(* make and delete, and the events they post.                              *)
(***************************************************************************)
EXTENDS Naturals, Sequences, FiniteSets

CONSTANTS Clients,        \* threads that call the API
          Player,         \* the player's event thread
          Sessions,       \* session addresses
          None,
          MaxEvents       \* bound: events pending on any one queue

ASSUME PlayerAssumption == Player \notin Clients
ASSUME SessionsAssumption == Sessions \cap (Clients \cup {Player}) = {}
ASSUME NoneAssumption == None \notin Clients \cup {Player} \cup Sessions

Threads == Clients \cup {Player}

\* Load finds a controller of the type it needs, or Replaces the one there
\* is; Call is any other call.  CCI and EAS are the player's own events.
ApiCalls == {"Create", "Destroy", "Load", "Replace", "Call", "Eject"}
PlayerEvents == {"CCI", "EAS"}

VARIABLES playerMutex,    \* the thread that holds m_PlayerMutex, or None
          ctlMutex,       \* per controller: a thread, its session, or None
          mSessionList,   \* the registered sessions
          alive,          \* sessions whose controller exists
          pc, op, on,     \* per thread: where it is, its call, its session
          sweep,          \* per thread: controllers SetEasAudioActive has to tell
          ctlPc,          \* per controller: where its event thread is
          ctlQueue,       \* per controller: events pending for that thread
          playerQueue     \* events pending for the player's event thread

table == <<mSessionList, alive>>
calls == <<op, on>>
ctls == <<ctlPc, ctlQueue>>
vars == <<playerMutex, ctlMutex, table, pc, calls, sweep, ctls, playerQueue>>

Init ==
    /\ playerMutex = None
    /\ ctlMutex = [s \in Sessions |-> None]
    /\ mSessionList = {}
    /\ alive = {}
    /\ pc = [t \in Threads |-> "idle"]
    /\ op = [t \in Threads |-> None]
    /\ on = [t \in Threads |-> None]
    /\ sweep = [t \in Threads |-> {}]
    /\ ctlPc = [s \in Sessions |-> "none"]
    /\ ctlQueue = [s \in Sessions |-> <<>>]
    /\ playerQueue = <<>>

Goto(t, from, to) ==
    /\ pc[t] = from
    /\ pc' = [pc EXCEPT ![t] = to]

lockMutex(s, owner) ==
    /\ ctlMutex[s] = None
    /\ ctlMutex' = [ctlMutex EXCEPT ![s] = owner]

unLockMutex(s) == ctlMutex' = [ctlMutex EXCEPT ![s] = None]

------------------------------------------------------------------------------
(* Every call locks the player mutex, and tests that the session exists *)

CallApi(c, o, s) ==
    /\ Goto(c, "idle", "lockplayer")
    /\ op' = [op EXCEPT ![c] = o]
    /\ on' = [on EXCEPT ![c] = s]
    /\ UNCHANGED <<playerMutex, ctlMutex, table, sweep, ctls, playerQueue>>

lockplayermutex(t) ==
    /\ Goto(t, "lockplayer", "body")
    /\ playerMutex = None
    /\ playerMutex' = t
    /\ UNCHANGED <<ctlMutex, table, calls, sweep, ctls, playerQueue>>

unlockplayermutex(t) ==
    /\ Goto(t, "unlockplayer", "idle")
    /\ playerMutex' = None
    /\ op' = [op EXCEPT ![t] = None]
    /\ on' = [on EXCEPT ![t] = None]
    /\ UNCHANGED <<ctlMutex, table, sweep, ctls, playerQueue>>

IsSessionRegistered(t) == on[t] \in mSessionList

\* getMediaController of the session of the call.
HasController(t) == IsSessionRegistered(t) /\ on[t] \in alive

\* UnknownSession, OutOfState, or a CCI byte for a session that is gone.
Refuse(t) ==
    /\ Goto(t, "body", "unlockplayer")
    /\ \/ op[t] = "Create" /\ IsSessionRegistered(t)
       \/ op[t] \in {"Destroy", "Load", "Replace", "EAS"} /\ ~IsSessionRegistered(t)
       \/ op[t] \in {"Call", "Eject", "CCI"} /\ ~HasController(t)
    /\ UNCHANGED <<playerMutex, ctlMutex, table, calls, sweep, ctls, playerQueue>>

Create(c) ==
    /\ op[c] = "Create" /\ ~IsSessionRegistered(c)
    /\ Goto(c, "body", "unlockplayer")
    /\ mSessionList' = mSessionList \cup {on[c]}
    /\ UNCHANGED <<playerMutex, ctlMutex, alive, calls, sweep, ctls, playerQueue>>

\* The session has no controller, or the old one was just deleted: Load makes
\* one, and its event thread with it.
MakeController(c) ==
    /\ op[c] \in {"Load", "Replace"}
    /\ IsSessionRegistered(c) /\ ~HasController(c)
    /\ Goto(c, "body", "lockctl")
    /\ alive' = alive \cup {on[c]}
    /\ ctlPc' = [ctlPc EXCEPT ![on[c]] = "pop"]
    /\ ctlQueue' = [ctlQueue EXCEPT ![on[c]] = <<>>]
    /\ UNCHANGED <<playerMutex, ctlMutex, mSessionList, calls, sweep, playerQueue>>

\* Mutant: the player mutex is given back before the controller's is taken.
UseControllerUnlocked(c) ==
    /\ op[c] \in {"Load", "Call"} /\ HasController(c)
    /\ Goto(c, "body", "lockctl")
    /\ playerMutex' = None
    /\ UNCHANGED <<ctlMutex, table, calls, sweep, ctls, playerQueue>>

UseController(c) ==
    /\ op[c] \in {"Load", "Call"} /\ HasController(c)
    /\ Goto(c, "body", "lockctl")
    /\ UNCHANGED <<playerMutex, ctlMutex, table, calls, sweep, ctls, playerQueue>>

\* ProcessCCIUpdated asks the controller without its mutex.
AskController(t) ==
    /\ op[t] = "CCI" /\ HasController(t)
    /\ Goto(t, "body", "unlockplayer")
    /\ UNCHANGED <<playerMutex, ctlMutex, table, calls, sweep, ctls, playerQueue>>

\* The Eject of the EAS session and the player's EAS events tell every
\* controller that EAS audio is active or not; other Ejects tell none.
StartSweep(t) ==
    /\ \/ op[t] = "Eject" /\ HasController(t)
       \/ op[t] = "EAS" /\ IsSessionRegistered(t)
    /\ Goto(t, "body", "sweep")
    /\ \E told \in {alive \cap mSessionList, {}} :
          /\ op[t] = "EAS" => told = alive \cap mSessionList
          /\ sweep' = [sweep EXCEPT ![t] = told]
    /\ UNCHANGED <<playerMutex, ctlMutex, table, calls, ctls, playerQueue>>

------------------------------------------------------------------------------
(* SetEasAudioActive: the mutex of one controller after the other *)

SweepLock(t, s) ==
    /\ s \in sweep[t]
    /\ Goto(t, "sweep", "told")
    /\ lockMutex(s, t)
    /\ sweep' = [sweep EXCEPT ![t] = @ \ {s}]
    /\ UNCHANGED <<playerMutex, table, calls, ctls, playerQueue>>

SweepUnlock(t, s) ==
    /\ ctlMutex[s] = t
    /\ Goto(t, "told", "sweep")
    /\ unLockMutex(s)
    /\ UNCHANGED <<playerMutex, table, calls, sweep, ctls, playerQueue>>

SweepDone(t) ==
    /\ sweep[t] = {}
    /\ Goto(t, "sweep", IF op[t] = "Eject" THEN "lockctl" ELSE "unlockplayer")
    /\ UNCHANGED <<playerMutex, ctlMutex, table, calls, sweep, ctls, playerQueue>>

------------------------------------------------------------------------------
(* The call in the controller, under its mutex *)

LockController(t) ==
    /\ Goto(t, "lockctl", "incontroller")
    /\ lockMutex(on[t], t)
    /\ UNCHANGED <<playerMutex, table, calls, sweep, ctls, playerQueue>>

\* Load, Play and most others post at most an event to the controller.
ControllerCall(c) ==
    /\ op[c] \in {"Load", "Replace", "Call"}
    /\ Goto(c, "incontroller", "unlockplayer")
    /\ unLockMutex(on[c])
    /\ \/ UNCHANGED ctlQueue
       \/ /\ Len(ctlQueue[on[c]]) < MaxEvents
          /\ ctlQueue' = [ctlQueue EXCEPT ![on[c]] = Append(@, "work")]
    /\ UNCHANGED <<playerMutex, table, calls, sweep, ctlPc, playerQueue>>

\* Mutant: the thread is joined with the mutex held.
EjectJoinsLocked(c) ==
    /\ op[c] = "Eject"
    /\ Goto(c, "incontroller", "join")
    /\ ctlQueue' = [ctlQueue EXCEPT ![on[c]] = Append(@, "exit")]
    /\ UNCHANGED <<playerMutex, ctlMutex, table, calls, sweep, ctlPc, playerQueue>>

\* Eject posts the exit event and lets go of the mutex, but not of the
\* player's, to wait for the thread.
Eject(c) ==
    /\ op[c] = "Eject"
    /\ Goto(c, "incontroller", "join")
    /\ ctlQueue' = [ctlQueue EXCEPT ![on[c]] = Append(@, "exit")]
    /\ unLockMutex(on[c])
    /\ UNCHANGED <<playerMutex, table, calls, sweep, ctlPc, playerQueue>>

------------------------------------------------------------------------------
(* Deleting a controller *)

\* Mutant: the destructor does not end the thread.
DeleteWithoutExit(c) ==
    /\ op[c] \in {"Destroy", "Replace"} /\ HasController(c)
    /\ Goto(c, "body", "delete")
    /\ mSessionList' = IF op[c] = "Destroy" THEN mSessionList \ {on[c]}
                       ELSE mSessionList
    /\ UNCHANGED <<playerMutex, ctlMutex, alive, calls, sweep, ctls, playerQueue>>

\* The session, taken off the list, or a Load of another type of service
\* deletes the controller; the controller's destructor makes its thread exit.
DeleteController(c) ==
    /\ op[c] \in {"Destroy", "Replace"} /\ HasController(c)
    /\ Goto(c, "body", "join")
    /\ mSessionList' = IF op[c] = "Destroy" THEN mSessionList \ {on[c]}
                       ELSE mSessionList
    /\ ctlQueue' = [ctlQueue EXCEPT ![on[c]] = Append(@, "exit")]
    /\ UNCHANGED <<playerMutex, ctlMutex, alive, calls, sweep, ctlPc, playerQueue>>

\* pthread_join, and the controller's mutex again.
Joined(c) ==
    /\ Goto(c, "join", "delete")
    /\ ctlPc[on[c]] = "exited"
    /\ lockMutex(on[c], c)
    /\ UNCHANGED <<playerMutex, table, calls, sweep, ctls, playerQueue>>

\* Mutex and queue are gone with the controller.  A Replace goes on to make
\* the new one.
Deleted(c) ==
    /\ Goto(c, "delete", IF op[c] = "Replace" THEN "body" ELSE "unlockplayer")
    /\ alive' = alive \ {on[c]}
    /\ unLockMutex(on[c])
    /\ UNCHANGED <<playerMutex, mSessionList, calls, sweep, ctls, playerQueue>>

\* A session without a controller.
DestroySession(c) ==
    /\ op[c] = "Destroy" /\ IsSessionRegistered(c) /\ ~HasController(c)
    /\ Goto(c, "body", "unlockplayer")
    /\ mSessionList' = mSessionList \ {on[c]}
    /\ UNCHANGED <<playerMutex, ctlMutex, alive, calls, sweep, ctls, playerQueue>>

------------------------------------------------------------------------------
(* Calls that find the controller without the player mutex, or use it after *)
(* they gave the mutex back                                                 *)

UnlockedFind(c, s) ==
    /\ s \in mSessionList \cap alive
    /\ Goto(c, "idle", "unlockedlock")
    /\ op' = [op EXCEPT ![c] = "Call"]
    /\ on' = [on EXCEPT ![c] = s]
    /\ UNCHANGED <<playerMutex, ctlMutex, table, sweep, ctls, playerQueue>>

UnlockedLock(c) ==
    /\ Goto(c, "unlockedlock", "unlockeduse")
    /\ lockMutex(on[c], c)
    /\ UNCHANGED <<playerMutex, table, calls, sweep, ctls, playerQueue>>

UnlockedReturn(c) ==
    /\ Goto(c, "unlockeduse", "idle")
    /\ unLockMutex(on[c])
    /\ op' = [op EXCEPT ![c] = None]
    /\ on' = [on EXCEPT ![c] = None]
    /\ UNCHANGED <<playerMutex, table, sweep, ctls, playerQueue>>

------------------------------------------------------------------------------
(* The event thread of a controller *)

\* Sources, PSI, timers and the CA post events too, while there is a controller.
PostWork(s) ==
    /\ ctlPc[s] # "none" /\ s \in alive
    /\ Len(ctlQueue[s]) < MaxEvents
    /\ ctlQueue' = [ctlQueue EXCEPT ![s] = Append(@, "work")]
    /\ UNCHANGED <<playerMutex, ctlMutex, table, pc, calls, sweep, ctlPc, playerQueue>>

CtlPop(s) ==
    /\ ctlPc[s] = "pop"
    /\ ctlQueue[s] # <<>>
    /\ ctlPc' = [ctlPc EXCEPT ![s] = IF Head(ctlQueue[s]) = "exit" THEN "lockexit"
                                     ELSE "lockwork"]
    /\ ctlQueue' = [ctlQueue EXCEPT ![s] = Tail(@)]
    /\ UNCHANGED <<playerMutex, ctlMutex, table, pc, calls, sweep, playerQueue>>

CtlLock(s) ==
    /\ ctlPc[s] \in {"lockwork", "lockexit"}
    /\ lockMutex(s, s)
    /\ ctlPc' = [ctlPc EXCEPT ![s] = IF @ = "lockexit" THEN "handleexit"
                                     ELSE "handlework"]
    /\ UNCHANGED <<playerMutex, table, pc, calls, sweep, ctlQueue, playerQueue>>

\* What the player has to know goes to its queue.
CtlHandle(s) ==
    /\ ctlPc[s] = "handlework"
    /\ unLockMutex(s)
    /\ ctlPc' = [ctlPc EXCEPT ![s] = "pop"]
    /\ \/ UNCHANGED playerQueue
       \/ \E e \in PlayerEvents :
             /\ Len(playerQueue) < MaxEvents
             /\ playerQueue' = Append(playerQueue, <<e, s>>)
    /\ UNCHANGED <<playerMutex, table, pc, calls, sweep, ctlQueue>>

CtlExit(s) ==
    /\ ctlPc[s] = "handleexit"
    /\ unLockMutex(s)
    /\ ctlPc' = [ctlPc EXCEPT ![s] = "exited"]
    /\ UNCHANGED <<playerMutex, table, pc, calls, sweep, ctlQueue, playerQueue>>

\* Mutant: type and data of the event are taken for one another.
PlayerPopEvent ==
    /\ playerQueue # <<>>
    /\ Goto(Player, "idle", "lockplayer")
    /\ op' = [op EXCEPT ![Player] = Head(playerQueue)[2]]
    /\ on' = [on EXCEPT ![Player] = Head(playerQueue)[1]]
    /\ playerQueue' = Tail(playerQueue)
    /\ UNCHANGED <<playerMutex, ctlMutex, table, sweep, ctls>>

\* The player's event thread takes an event, and then the player mutex.
PlayerPop ==
    /\ playerQueue # <<>>
    /\ Goto(Player, "idle", "lockplayer")
    /\ op' = [op EXCEPT ![Player] = Head(playerQueue)[1]]
    /\ on' = [on EXCEPT ![Player] = Head(playerQueue)[2]]
    /\ playerQueue' = Tail(playerQueue)
    /\ UNCHANGED <<playerMutex, ctlMutex, table, sweep, ctls>>

------------------------------------------------------------------------------
Client(c) ==
    \/ \E o \in ApiCalls, s \in Sessions : CallApi(c, o, s)
    \/ Create(c)
    \/ MakeController(c)
    \/ UseController(c)
    \/ ControllerCall(c)
    \/ Eject(c)
    \/ DeleteController(c)
    \/ Joined(c)
    \/ Deleted(c)
    \/ DestroySession(c)

UnlockedClient(c) ==
    \/ \E s \in Sessions : UnlockedFind(c, s)
    \/ UnlockedLock(c)
    \/ UnlockedReturn(c)

\* What the clients and the player's event thread do alike.
Locking(t) ==
    \/ lockplayermutex(t)
    \/ unlockplayermutex(t)
    \/ Refuse(t)
    \/ AskController(t)
    \/ StartSweep(t)
    \/ \E s \in Sessions : SweepLock(t, s) \/ SweepUnlock(t, s)
    \/ SweepDone(t)
    \/ LockController(t)

Controller(s) ==
    \/ PostWork(s)
    \/ CtlPop(s)
    \/ CtlLock(s)
    \/ CtlHandle(s)
    \/ CtlExit(s)

Next ==
    \/ \E c \in Clients : Client(c)
    \/ \E t \in Threads : Locking(t)
    \/ \E s \in Sessions : Controller(s)
    \/ PlayerPop

Spec == Init /\ [][Next]_vars

\* The clients make the calls without the player mutex too.
UnlockedNext == Next \/ \E c \in Clients : UnlockedClient(c)
UnlockedSpec == Init /\ [][UnlockedNext]_vars

------------------------------------------------------------------------------
(* Properties *)

\* A thread that has found a controller, and waits for its mutex or is in it.
Uses(t, s) ==
    \/ on[t] = s /\ pc[t] \in {"lockctl", "incontroller", "join", "delete",
                               "unlockedlock", "unlockeduse"}
    \/ s \in sweep[t]
    \/ ctlMutex[s] = t

\* No thread is left with a controller that another has deleted: not while it
\* waits for the controller's mutex, not in the controller, not on the way
\* through all of them.  The player mutex is there for "protecting accessing
\* and deletion of" sessions and controllers (IMediaPlayer.cpp:159).
UsesLiveController ==
    \A t \in Threads, s \in Sessions : Uses(t, s) => s \in alive

\* A controller is deleted after its event thread is done with it: neither an
\* event that was pending nor one that was being handled finds it gone
\* (Zapper::Eject, "tell thread to exit first", zapper.cpp:975).
ThreadEndsBeforeController ==
    \A s \in Sessions : s \notin alive => ctlPc[s] \in {"none", "exited"}

\* What a thread works on is there until it is done with it: a controller for
\* the threads of its clients, and for its own.
ControllersAreLive == UsesLiveController /\ ThreadEndsBeforeController

\* x waits for y: for a mutex that y holds, or for the end of y's thread.
WaitsFor(x, y) ==
    \/ x \in Threads /\ pc[x] = "lockplayer" /\ playerMutex = y
    \/ x \in Threads /\ pc[x] \in {"lockctl", "unlockedlock"} /\ ctlMutex[on[x]] = y
    \/ x \in Threads /\ pc[x] = "sweep" /\ \E s \in sweep[x] : ctlMutex[s] = y
    \/ x \in Threads /\ pc[x] = "join"
         /\ y = IF ctlPc[on[x]] = "exited" THEN ctlMutex[on[x]] ELSE on[x]
    \/ x \in Sessions /\ ctlPc[x] \in {"lockwork", "lockexit"} /\ ctlMutex[x] = y

\* No circle of threads waits for one another, over the player mutex, the
\* controllers' mutexes and the join of a controller's thread.
NoCircularWait ==
    ~ \E S \in SUBSET (Threads \cup Sessions) :
         /\ S # {}
         /\ \A x \in S : \E y \in S : WaitsFor(x, y)

==============================================================================
