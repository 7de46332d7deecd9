-------------------------- MODULE PlayerLocks_proofs --------------------------
(***************************************************************************)
(* PlayerLocks for any number of clients, sessions and events: nobody uses *)
(* a controller that is gone, and no circle of threads waits for one       *)
(* another.                                                                *)
(*                                                                         *)
(* The argument is an order.  Only the thread that holds the player mutex  *)
(* waits for a controller's mutex or joins its thread; the thread of a     *)
(* controller waits for nobody but one that is in the controller, and that *)
(* one waits for nobody.                                                   *)
(***************************************************************************)
EXTENDS PlayerLocks, SequenceTheorems, TLAPS

\* Where a thread is that holds the player mutex.
Inside == {"body", "sweep", "told", "lockctl", "incontroller", "join", "delete",
           "unlockplayer"}

Handling == {"handlework", "handleexit"}

LockTypes ==
    /\ playerMutex \in Threads \cup {None}
    /\ ctlMutex \in [Sessions -> Threads \cup Sessions \cup {None}]
    /\ mSessionList \subseteq Sessions
    /\ alive \subseteq Sessions
    /\ pc \in [Threads -> Inside \cup {"idle", "lockplayer"}]
    /\ op \in [Threads -> ApiCalls \cup PlayerEvents \cup {None}]
    /\ on \in [Threads -> Sessions \cup {None}]
    /\ sweep \in [Threads -> SUBSET Sessions]
    /\ ctlPc \in [Sessions -> Handling \cup {"none", "pop", "lockwork", "lockexit", "exited"}]
    /\ ctlQueue \in [Sessions -> Seq({"work", "exit"})]
    /\ playerQueue \in Seq(PlayerEvents \X Sessions)

\* One thread at a time is past lockplayermutex.
PlayerMutexOK ==
    /\ \A t \in Threads : pc[t] \in Inside <=> playerMutex = t
    /\ \A t \in Threads : pc[t] # "idle" => on[t] \in Sessions

\* A controller's mutex is held by a thread that is in the controller or tells it
\* of EAS audio, or by its own thread that handles an event.
CtlMutexOK ==
    /\ \A t \in Threads, s \in Sessions :
         ctlMutex[s] = t => \/ pc[t] \in {"incontroller", "delete"} /\ on[t] = s
                            \/ pc[t] = "told" /\ s \in alive
    /\ \A s, r \in Sessions :
         ctlMutex[s] = ctlMutex[r] /\ ctlMutex[s] # None => s = r
    /\ \A t \in Threads : pc[t] \in {"incontroller", "delete"} => ctlMutex[on[t]] = t
    /\ \A s, r \in Sessions : ctlMutex[s] = r => r = s
    /\ \A s \in Sessions : ctlMutex[s] = s <=> ctlPc[s] \in Handling

\* What the holder of the player mutex works on exists.
UsedOK ==
    /\ \A t \in Threads :
         pc[t] \in {"lockctl", "incontroller", "join", "delete"} => on[t] \in alive
    /\ \A t \in Threads :
         pc[t] \in {"sweep", "told"} /\ op[t] = "Eject" => on[t] \in alive
    /\ \A t \in Threads, s \in Sessions :
         s \in sweep[t] => pc[t] \in {"sweep", "told"} /\ s \in alive

\* A thread has ended before its controller is deleted.
EndedOK ==
    /\ \A s \in Sessions : s \notin alive => ctlPc[s] \in {"none", "exited"}
    /\ \A t \in Threads : pc[t] = "delete" => ctlPc[on[t]] = "exited"

IInv == LockTypes /\ PlayerMutexOK /\ CtlMutexOK /\ UsedOK /\ EndedOK

------------------------------------------------------------------------------
(* The steps *)

\* A queue of a controller after a post.
LEMMA EventIsPosted ==
    ASSUME NEW queues \in [Sessions -> Seq({"work", "exit"})], NEW s,
           NEW e \in {"work", "exit"}
    PROVE  [queues EXCEPT ![s] = Append(@, e)] \in [Sessions -> Seq({"work", "exit"})]
<1>1. \A q \in Seq({"work", "exit"}) : Append(q, e) \in Seq({"work", "exit"})
  BY AppendProperties
<1> QED
  BY <1>1

\* Every action keeps the types.
LEMMA TypesKept ==
    ASSUME IInv, Next
    PROVE  LockTypes'
<1> USE PlayerAssumption, SessionsAssumption, NoneAssumption
        DEF IInv, LockTypes, Inside, Threads, table, calls, ctls, Goto,
            Handling, ApiCalls, PlayerEvents
<1>1. ASSUME NEW c \in Clients, NEW o \in ApiCalls, NEW s \in Sessions, CallApi(c, o, s)
      PROVE  LockTypes'
  BY <1>1 DEF CallApi
<1>2. ASSUME NEW c \in Clients, Create(c) PROVE LockTypes'
  BY <1>2 DEF Create, PlayerMutexOK
<1>3. ASSUME NEW c \in Clients, MakeController(c) PROVE LockTypes'
  BY <1>3 DEF MakeController, HasController, IsSessionRegistered
<1>4. ASSUME NEW c \in Clients, UseController(c) PROVE LockTypes'
  BY <1>4 DEF UseController, HasController
<1>5. ASSUME NEW c \in Clients, ControllerCall(c) PROVE LockTypes'
  <2>1. ctlQueue' \in [Sessions -> Seq({"work", "exit"})]
    <3>1. UNCHANGED ctlQueue \/ ctlQueue' = [ctlQueue EXCEPT ![on[c]] = Append(@, "work")]
      BY <1>5 DEF ControllerCall
    <3>2. [ctlQueue EXCEPT ![on[c]] = Append(@, "work")]
            \in [Sessions -> Seq({"work", "exit"})]
      BY EventIsPosted
    <3> QED
      BY <3>1, <3>2
  <2> QED
    BY <1>5, <2>1 DEF ControllerCall, unLockMutex
<1>6. ASSUME NEW c \in Clients, Eject(c) PROVE LockTypes'
  <2>1. ctlQueue' \in [Sessions -> Seq({"work", "exit"})]
    <3>1. UNCHANGED ctlQueue \/ ctlQueue' = [ctlQueue EXCEPT ![on[c]] = Append(@, "exit")]
      BY <1>6 DEF Eject
    <3>2. [ctlQueue EXCEPT ![on[c]] = Append(@, "exit")]
            \in [Sessions -> Seq({"work", "exit"})]
      BY EventIsPosted
    <3> QED
      BY <3>1, <3>2
  <2> QED
    BY <1>6, <2>1 DEF Eject, unLockMutex
<1>7. ASSUME NEW c \in Clients, DeleteController(c) PROVE LockTypes'
  BY <1>7 DEF DeleteController, HasController
<1>8. ASSUME NEW c \in Clients, Joined(c) PROVE LockTypes'
  BY <1>8 DEF Joined, lockMutex
<1>9. ASSUME NEW c \in Clients, Deleted(c) PROVE LockTypes'
  BY <1>9 DEF Deleted, unLockMutex
<1>10. ASSUME NEW c \in Clients, DestroySession(c) PROVE LockTypes'
  BY <1>10 DEF DestroySession
<1>11. ASSUME NEW t \in Threads, lockplayermutex(t) PROVE LockTypes'
  BY <1>11 DEF lockplayermutex
<1>12. ASSUME NEW t \in Threads, unlockplayermutex(t) PROVE LockTypes'
  BY <1>12 DEF unlockplayermutex
<1>13. ASSUME NEW t \in Threads, Refuse(t) PROVE LockTypes'
  BY <1>13 DEF Refuse
<1>14. ASSUME NEW t \in Threads, AskController(t) PROVE LockTypes'
  BY <1>14 DEF AskController
<1>15. ASSUME NEW t \in Threads, StartSweep(t) PROVE LockTypes'
  BY <1>15 DEF StartSweep, HasController
<1>16. ASSUME NEW t \in Threads, NEW s \in Sessions, SweepLock(t, s) PROVE LockTypes'
  BY <1>16 DEF SweepLock, lockMutex
<1>17. ASSUME NEW t \in Threads, NEW s \in Sessions, SweepUnlock(t, s) PROVE LockTypes'
  BY <1>17 DEF SweepUnlock, unLockMutex
<1>18. ASSUME NEW t \in Threads, SweepDone(t) PROVE LockTypes'
  BY <1>18 DEF SweepDone
<1>19. ASSUME NEW t \in Threads, LockController(t) PROVE LockTypes'
  BY <1>19 DEF LockController, lockMutex
<1>20. ASSUME NEW s \in Sessions, PostWork(s) PROVE LockTypes'
  BY <1>20 DEF PostWork
<1>21. ASSUME NEW s \in Sessions, CtlPop(s) PROVE LockTypes'
  BY <1>21 DEF CtlPop
<1>22. ASSUME NEW s \in Sessions, CtlLock(s) PROVE LockTypes'
  BY <1>22 DEF CtlLock, lockMutex
<1>23. ASSUME NEW s \in Sessions, CtlHandle(s) PROVE LockTypes'
  <2>1. playerQueue' \in Seq(PlayerEvents \X Sessions)
    <3>1. ASSUME NEW e \in PlayerEvents
          PROVE  Append(playerQueue, <<e, s>>) \in Seq(PlayerEvents \X Sessions)
      BY AppendProperties
    <3> QED
      BY <1>23, <3>1 DEF CtlHandle
  <2> QED
    BY <1>23, <2>1 DEF CtlHandle, unLockMutex
<1>24. ASSUME NEW s \in Sessions, CtlExit(s) PROVE LockTypes'
  BY <1>24 DEF CtlExit, unLockMutex
<1>25. ASSUME PlayerPop PROVE LockTypes'
  BY <1>25 DEF PlayerPop
<1> HIDE DEF LockTypes
<1> QED
  BY <1>1, <1>2, <1>3, <1>4, <1>5, <1>6, <1>7, <1>8, <1>9, <1>10, <1>11, <1>12, <1>13, <1>14,
     <1>15, <1>16, <1>17, <1>18, <1>19, <1>20, <1>21, <1>22, <1>23, <1>24, <1>25
     DEF Next, Client, Locking, Controller

\* The player mutex is taken at the beginning of a call and given back at its end.
LEMMA PlayerMutexKept ==
    ASSUME IInv, Next
    PROVE  PlayerMutexOK'
<1> USE PlayerAssumption, SessionsAssumption, NoneAssumption
        DEF IInv, LockTypes, Inside, Threads, table, calls, ctls, Goto,
            PlayerMutexOK
<1>1. ASSUME NEW c \in Clients, NEW o \in ApiCalls, NEW s \in Sessions, CallApi(c, o, s)
      PROVE  PlayerMutexOK'
  BY <1>1 DEF CallApi
<1>2. ASSUME NEW c \in Clients, Create(c) PROVE PlayerMutexOK'
  BY <1>2 DEF Create
<1>3. ASSUME NEW c \in Clients, MakeController(c) PROVE PlayerMutexOK'
  BY <1>3 DEF MakeController, HasController, IsSessionRegistered
<1>4. ASSUME NEW c \in Clients, UseController(c) PROVE PlayerMutexOK'
  BY <1>4 DEF UseController, HasController
<1>5. ASSUME NEW c \in Clients, ControllerCall(c) PROVE PlayerMutexOK'
  BY <1>5 DEF ControllerCall, unLockMutex
<1>6. ASSUME NEW c \in Clients, Eject(c) PROVE PlayerMutexOK'
  BY <1>6 DEF Eject, unLockMutex
<1>7. ASSUME NEW c \in Clients, DeleteController(c) PROVE PlayerMutexOK'
  BY <1>7 DEF DeleteController, HasController
<1>8. ASSUME NEW c \in Clients, Joined(c) PROVE PlayerMutexOK'
  BY <1>8 DEF Joined, lockMutex
<1>9. ASSUME NEW c \in Clients, Deleted(c) PROVE PlayerMutexOK'
  BY <1>9 DEF Deleted, unLockMutex
<1>10. ASSUME NEW c \in Clients, DestroySession(c) PROVE PlayerMutexOK'
  BY <1>10 DEF DestroySession
<1>11. ASSUME NEW t \in Threads, lockplayermutex(t) PROVE PlayerMutexOK'
  BY <1>11 DEF lockplayermutex
<1>12. ASSUME NEW t \in Threads, unlockplayermutex(t) PROVE PlayerMutexOK'
  BY <1>12 DEF unlockplayermutex
<1>13. ASSUME NEW t \in Threads, Refuse(t) PROVE PlayerMutexOK'
  BY <1>13 DEF Refuse
<1>14. ASSUME NEW t \in Threads, AskController(t) PROVE PlayerMutexOK'
  BY <1>14 DEF AskController
<1>15. ASSUME NEW t \in Threads, StartSweep(t) PROVE PlayerMutexOK'
  BY <1>15 DEF StartSweep, HasController
<1>16. ASSUME NEW t \in Threads, NEW s \in Sessions, SweepLock(t, s)
       PROVE  PlayerMutexOK'
  BY <1>16 DEF SweepLock, lockMutex
<1>17. ASSUME NEW t \in Threads, NEW s \in Sessions, SweepUnlock(t, s)
       PROVE  PlayerMutexOK'
  BY <1>17 DEF SweepUnlock, unLockMutex
<1>18. ASSUME NEW t \in Threads, SweepDone(t) PROVE PlayerMutexOK'
  BY <1>18 DEF SweepDone
<1>19. ASSUME NEW t \in Threads, LockController(t) PROVE PlayerMutexOK'
  BY <1>19 DEF LockController, lockMutex
<1>20. ASSUME NEW s \in Sessions, PostWork(s) PROVE PlayerMutexOK'
  BY <1>20 DEF PostWork
<1>21. ASSUME NEW s \in Sessions, CtlPop(s) PROVE PlayerMutexOK'
  BY <1>21 DEF CtlPop
<1>22. ASSUME NEW s \in Sessions, CtlLock(s) PROVE PlayerMutexOK'
  BY <1>22 DEF CtlLock, lockMutex
<1>23. ASSUME NEW s \in Sessions, CtlHandle(s) PROVE PlayerMutexOK'
  BY <1>23 DEF CtlHandle, unLockMutex
<1>24. ASSUME NEW s \in Sessions, CtlExit(s) PROVE PlayerMutexOK'
  BY <1>24 DEF CtlExit, unLockMutex
<1>25. ASSUME PlayerPop PROVE PlayerMutexOK'
  BY <1>25 DEF PlayerPop
<1> QED
  BY <1>1, <1>2, <1>3, <1>4, <1>5, <1>6, <1>7, <1>8, <1>9, <1>10, <1>11, <1>12, <1>13, <1>14,
     <1>15, <1>16, <1>17, <1>18, <1>19, <1>20, <1>21, <1>22, <1>23, <1>24, <1>25
     DEF Next, Client, Locking, Controller

\* A controller's mutex is taken and given back by who says so.
LEMMA CtlMutexKept ==
    ASSUME IInv, Next
    PROVE  CtlMutexOK'
<1> USE PlayerAssumption, SessionsAssumption, NoneAssumption
        DEF IInv, LockTypes, Inside, Threads, table, calls, ctls, Goto,
            PlayerMutexOK, CtlMutexOK, UsedOK, EndedOK, Handling
<1>1. ASSUME NEW c \in Clients, NEW o \in ApiCalls, NEW s \in Sessions, CallApi(c, o, s)
      PROVE  CtlMutexOK'
  BY <1>1 DEF CallApi
<1>2. ASSUME NEW c \in Clients, Create(c) PROVE CtlMutexOK'
  BY <1>2 DEF Create
<1>3. ASSUME NEW c \in Clients, MakeController(c) PROVE CtlMutexOK'
  <2>1. on[c] \in Sessions /\ ctlPc[on[c]] \notin Handling /\ ctlMutex[on[c]] # on[c]
    BY <1>3 DEF MakeController, HasController, IsSessionRegistered
  <2>2. /\ ctlMutex' = ctlMutex /\ on' = on /\ alive \subseteq alive'
        /\ \A t \in Threads : pc'[t] = IF t = c THEN "lockctl" ELSE pc[t]
        /\ pc[c] = "body"
        /\ \A s \in Sessions : ctlPc'[s] = IF s = on[c] THEN "pop" ELSE ctlPc[s]
    BY <1>3, <2>1 DEF MakeController
  <2>3. \A s \in Sessions : ctlMutex'[s] = s <=> ctlPc'[s] \in Handling
    BY <2>1, <2>2
  <2>4. \A t \in Threads : pc'[t] \in {"incontroller", "delete", "told"} =>
          t # c /\ pc'[t] = pc[t]
    BY <2>2
  <2>5. \A t \in Threads, s \in Sessions :
          ctlMutex[s] = t => \/ pc'[t] \in {"incontroller", "delete"} /\ on[t] = s
                             \/ pc'[t] = "told" /\ s \in alive'
    BY <2>2
  <2> QED
    BY <2>2, <2>3, <2>4, <2>5
<1>4. ASSUME NEW c \in Clients, UseController(c) PROVE CtlMutexOK'
  BY <1>4 DEF UseController, HasController
<1>5. ASSUME NEW c \in Clients, ControllerCall(c) PROVE CtlMutexOK'
  BY <1>5 DEF ControllerCall, unLockMutex
<1>6. ASSUME NEW c \in Clients, Eject(c) PROVE CtlMutexOK'
  BY <1>6 DEF Eject, unLockMutex
<1>7. ASSUME NEW c \in Clients, DeleteController(c) PROVE CtlMutexOK'
  BY <1>7 DEF DeleteController, HasController
<1>8. ASSUME NEW c \in Clients, Joined(c) PROVE CtlMutexOK'
  BY <1>8 DEF Joined, lockMutex
<1>9. ASSUME NEW c \in Clients, Deleted(c) PROVE CtlMutexOK'
  BY <1>9 DEF Deleted, unLockMutex
<1>10. ASSUME NEW c \in Clients, DestroySession(c) PROVE CtlMutexOK'
  BY <1>10 DEF DestroySession
<1>11. ASSUME NEW t \in Threads, lockplayermutex(t) PROVE CtlMutexOK'
  BY <1>11 DEF lockplayermutex
<1>12. ASSUME NEW t \in Threads, unlockplayermutex(t) PROVE CtlMutexOK'
  BY <1>12 DEF unlockplayermutex
<1>13. ASSUME NEW t \in Threads, Refuse(t) PROVE CtlMutexOK'
  BY <1>13 DEF Refuse
<1>14. ASSUME NEW t \in Threads, AskController(t) PROVE CtlMutexOK'
  BY <1>14 DEF AskController
<1>15. ASSUME NEW t \in Threads, StartSweep(t) PROVE CtlMutexOK'
  BY <1>15 DEF StartSweep, HasController
<1>16. ASSUME NEW t \in Threads, NEW s \in Sessions, SweepLock(t, s) PROVE CtlMutexOK'
  BY <1>16 DEF SweepLock, lockMutex
<1>17. ASSUME NEW t \in Threads, NEW s \in Sessions, SweepUnlock(t, s) PROVE CtlMutexOK'
  BY <1>17 DEF SweepUnlock, unLockMutex
<1>18. ASSUME NEW t \in Threads, SweepDone(t) PROVE CtlMutexOK'
  BY <1>18 DEF SweepDone
<1>19. ASSUME NEW t \in Threads, LockController(t) PROVE CtlMutexOK'
  BY <1>19 DEF LockController, lockMutex
<1>20. ASSUME NEW s \in Sessions, PostWork(s) PROVE CtlMutexOK'
  BY <1>20 DEF PostWork
<1>21. ASSUME NEW s \in Sessions, CtlPop(s) PROVE CtlMutexOK'
  BY <1>21 DEF CtlPop
<1>22. ASSUME NEW s \in Sessions, CtlLock(s) PROVE CtlMutexOK'
  BY <1>22 DEF CtlLock, lockMutex
<1>23. ASSUME NEW s \in Sessions, CtlHandle(s) PROVE CtlMutexOK'
  BY <1>23 DEF CtlHandle, unLockMutex
<1>24. ASSUME NEW s \in Sessions, CtlExit(s) PROVE CtlMutexOK'
  BY <1>24 DEF CtlExit, unLockMutex
<1>25. ASSUME PlayerPop PROVE CtlMutexOK'
  BY <1>25 DEF PlayerPop
<1> QED
  BY <1>1, <1>2, <1>3, <1>4, <1>5, <1>6, <1>7, <1>8, <1>9, <1>10, <1>11, <1>12, <1>13, <1>14,
     <1>15, <1>16, <1>17, <1>18, <1>19, <1>20, <1>21, <1>22, <1>23, <1>24, <1>25
     DEF Next, Client, Locking, Controller

\* Only who holds the player mutex deletes a controller, which is the one of its call.
LEMMA UsedKept ==
    ASSUME IInv, Next
    PROVE  UsedOK'
<1> USE PlayerAssumption, SessionsAssumption, NoneAssumption
        DEF IInv, LockTypes, Inside, Threads, table, calls, ctls, Goto,
            PlayerMutexOK, CtlMutexOK, UsedOK
<1>1. ASSUME NEW c \in Clients, NEW o \in ApiCalls, NEW s \in Sessions, CallApi(c, o, s)
      PROVE  UsedOK'
  BY <1>1 DEF CallApi
<1>2. ASSUME NEW c \in Clients, Create(c) PROVE UsedOK'
  BY <1>2 DEF Create
<1>3. ASSUME NEW c \in Clients, MakeController(c) PROVE UsedOK'
  BY <1>3 DEF MakeController, HasController, IsSessionRegistered
<1>4. ASSUME NEW c \in Clients, UseController(c) PROVE UsedOK'
  BY <1>4 DEF UseController, HasController
<1>5. ASSUME NEW c \in Clients, ControllerCall(c) PROVE UsedOK'
  BY <1>5 DEF ControllerCall, unLockMutex
<1>6. ASSUME NEW c \in Clients, Eject(c) PROVE UsedOK'
  BY <1>6 DEF Eject, unLockMutex
<1>7. ASSUME NEW c \in Clients, DeleteController(c) PROVE UsedOK'
  BY <1>7 DEF DeleteController, HasController
<1>8. ASSUME NEW c \in Clients, Joined(c) PROVE UsedOK'
  BY <1>8 DEF Joined, lockMutex
<1>9. ASSUME NEW c \in Clients, Deleted(c) PROVE UsedOK'
  BY <1>9 DEF Deleted, unLockMutex
<1>10. ASSUME NEW c \in Clients, DestroySession(c) PROVE UsedOK'
  BY <1>10 DEF DestroySession
<1>11. ASSUME NEW t \in Threads, lockplayermutex(t) PROVE UsedOK'
  BY <1>11 DEF lockplayermutex
<1>12. ASSUME NEW t \in Threads, unlockplayermutex(t) PROVE UsedOK'
  BY <1>12 DEF unlockplayermutex
<1>13. ASSUME NEW t \in Threads, Refuse(t) PROVE UsedOK'
  BY <1>13 DEF Refuse
<1>14. ASSUME NEW t \in Threads, AskController(t) PROVE UsedOK'
  BY <1>14 DEF AskController
<1>15. ASSUME NEW t \in Threads, StartSweep(t) PROVE UsedOK'
  BY <1>15 DEF StartSweep, HasController
<1>16. ASSUME NEW t \in Threads, NEW s \in Sessions, SweepLock(t, s) PROVE UsedOK'
  BY <1>16 DEF SweepLock, lockMutex
<1>17. ASSUME NEW t \in Threads, NEW s \in Sessions, SweepUnlock(t, s) PROVE UsedOK'
  BY <1>17 DEF SweepUnlock, unLockMutex
<1>18. ASSUME NEW t \in Threads, SweepDone(t) PROVE UsedOK'
  BY <1>18 DEF SweepDone
<1>19. ASSUME NEW t \in Threads, LockController(t) PROVE UsedOK'
  BY <1>19 DEF LockController, lockMutex
<1>20. ASSUME NEW s \in Sessions, PostWork(s) PROVE UsedOK'
  BY <1>20 DEF PostWork
<1>21. ASSUME NEW s \in Sessions, CtlPop(s) PROVE UsedOK'
  BY <1>21 DEF CtlPop
<1>22. ASSUME NEW s \in Sessions, CtlLock(s) PROVE UsedOK'
  BY <1>22 DEF CtlLock, lockMutex
<1>23. ASSUME NEW s \in Sessions, CtlHandle(s) PROVE UsedOK'
  BY <1>23 DEF CtlHandle, unLockMutex
<1>24. ASSUME NEW s \in Sessions, CtlExit(s) PROVE UsedOK'
  BY <1>24 DEF CtlExit, unLockMutex
<1>25. ASSUME PlayerPop PROVE UsedOK'
  BY <1>25 DEF PlayerPop
<1> QED
  BY <1>1, <1>2, <1>3, <1>4, <1>5, <1>6, <1>7, <1>8, <1>9, <1>10, <1>11, <1>12, <1>13, <1>14,
     <1>15, <1>16, <1>17, <1>18, <1>19, <1>20, <1>21, <1>22, <1>23, <1>24, <1>25
     DEF Next, Client, Locking, Controller

\* A controller is deleted after the join.
LEMMA EndedKept ==
    ASSUME IInv, Next
    PROVE  EndedOK'
<1> USE PlayerAssumption, SessionsAssumption, NoneAssumption
        DEF IInv, LockTypes, Inside, Threads, table, calls, ctls, Goto,
            PlayerMutexOK, CtlMutexOK, UsedOK, EndedOK, Handling
<1>1. ASSUME NEW c \in Clients, NEW o \in ApiCalls, NEW s \in Sessions, CallApi(c, o, s)
      PROVE  EndedOK'
  BY <1>1 DEF CallApi
<1>2. ASSUME NEW c \in Clients, Create(c) PROVE EndedOK'
  BY <1>2 DEF Create
<1>3. ASSUME NEW c \in Clients, MakeController(c) PROVE EndedOK'
  BY <1>3 DEF MakeController, HasController, IsSessionRegistered
<1>4. ASSUME NEW c \in Clients, UseController(c) PROVE EndedOK'
  BY <1>4 DEF UseController, HasController
<1>5. ASSUME NEW c \in Clients, ControllerCall(c) PROVE EndedOK'
  BY <1>5 DEF ControllerCall, unLockMutex
<1>6. ASSUME NEW c \in Clients, Eject(c) PROVE EndedOK'
  BY <1>6 DEF Eject, unLockMutex
<1>7. ASSUME NEW c \in Clients, DeleteController(c) PROVE EndedOK'
  BY <1>7 DEF DeleteController, HasController
<1>8. ASSUME NEW c \in Clients, Joined(c) PROVE EndedOK'
  BY <1>8 DEF Joined, lockMutex
<1>9. ASSUME NEW c \in Clients, Deleted(c) PROVE EndedOK'
  BY <1>9 DEF Deleted, unLockMutex
<1>10. ASSUME NEW c \in Clients, DestroySession(c) PROVE EndedOK'
  BY <1>10 DEF DestroySession
<1>11. ASSUME NEW t \in Threads, lockplayermutex(t) PROVE EndedOK'
  BY <1>11 DEF lockplayermutex
<1>12. ASSUME NEW t \in Threads, unlockplayermutex(t) PROVE EndedOK'
  BY <1>12 DEF unlockplayermutex
<1>13. ASSUME NEW t \in Threads, Refuse(t) PROVE EndedOK'
  BY <1>13 DEF Refuse
<1>14. ASSUME NEW t \in Threads, AskController(t) PROVE EndedOK'
  BY <1>14 DEF AskController
<1>15. ASSUME NEW t \in Threads, StartSweep(t) PROVE EndedOK'
  BY <1>15 DEF StartSweep, HasController
<1>16. ASSUME NEW t \in Threads, NEW s \in Sessions, SweepLock(t, s) PROVE EndedOK'
  BY <1>16 DEF SweepLock, lockMutex
<1>17. ASSUME NEW t \in Threads, NEW s \in Sessions, SweepUnlock(t, s) PROVE EndedOK'
  BY <1>17 DEF SweepUnlock, unLockMutex
<1>18. ASSUME NEW t \in Threads, SweepDone(t) PROVE EndedOK'
  BY <1>18 DEF SweepDone
<1>19. ASSUME NEW t \in Threads, LockController(t) PROVE EndedOK'
  BY <1>19 DEF LockController, lockMutex
<1>20. ASSUME NEW s \in Sessions, PostWork(s) PROVE EndedOK'
  BY <1>20 DEF PostWork
<1>21. ASSUME NEW s \in Sessions, CtlPop(s) PROVE EndedOK'
  BY <1>21 DEF CtlPop
<1>22. ASSUME NEW s \in Sessions, CtlLock(s) PROVE EndedOK'
  BY <1>22 DEF CtlLock, lockMutex
<1>23. ASSUME NEW s \in Sessions, CtlHandle(s) PROVE EndedOK'
  BY <1>23 DEF CtlHandle, unLockMutex
<1>24. ASSUME NEW s \in Sessions, CtlExit(s) PROVE EndedOK'
  BY <1>24 DEF CtlExit, unLockMutex
<1>25. ASSUME PlayerPop PROVE EndedOK'
  BY <1>25 DEF PlayerPop
<1> QED
  BY <1>1, <1>2, <1>3, <1>4, <1>5, <1>6, <1>7, <1>8, <1>9, <1>10, <1>11, <1>12, <1>13, <1>14,
     <1>15, <1>16, <1>17, <1>18, <1>19, <1>20, <1>21, <1>22, <1>23, <1>24, <1>25
     DEF Next, Client, Locking, Controller
LEMMA InitIInv == Init => IInv
<1> SUFFICES ASSUME Init PROVE IInv
  OBVIOUS
<1> USE PlayerAssumption, SessionsAssumption, NoneAssumption DEF Init, Inside, Threads
<1>1. LockTypes
  BY DEF LockTypes
<1>2. PlayerMutexOK /\ CtlMutexOK /\ UsedOK /\ EndedOK
  BY DEF PlayerMutexOK, CtlMutexOK, UsedOK, EndedOK, Handling
<1> QED
  BY <1>1, <1>2 DEF IInv

LEMMA NextIInv == IInv /\ [Next]_vars => IInv'
<1> SUFFICES ASSUME IInv, [Next]_vars PROVE IInv'
  OBVIOUS
<1>1. CASE Next
  BY <1>1, TypesKept, PlayerMutexKept, CtlMutexKept, UsedKept, EndedKept DEF IInv
<1>2. CASE UNCHANGED vars
  BY <1>2 DEF vars, table, calls, ctls, IInv, LockTypes, PlayerMutexOK, CtlMutexOK, UsedOK,
              EndedOK
<1> QED
  BY <1>1, <1>2

\* The invariant that the theorems rest on.
THEOREM InductiveInvariant == Spec => []IInv
BY InitIInv, NextIInv, PTL DEF Spec

------------------------------------------------------------------------------
(* The theorems *)

\* No thread is left with a controller that another has deleted, and no
\* controller is deleted before its thread is done with it
\* (IMediaPlayer.cpp:159, zapper.cpp:975).
THEOREM ControllersStayAlive == Spec => []ControllersAreLive
<1>1. IInv => UsesLiveController
  <2> SUFFICES ASSUME IInv, NEW t \in Threads, NEW s \in Sessions, Uses(t, s)
               PROVE  s \in alive
    BY DEF UsesLiveController
  <2>1. pc[t] \notin {"unlockedlock", "unlockeduse"}
    BY DEF IInv, LockTypes, Inside
  <2> QED
    BY <2>1 DEF Uses, IInv, CtlMutexOK, UsedOK
<1>2. IInv => ThreadEndsBeforeController
  BY DEF IInv, EndedOK, ThreadEndsBeforeController
<1>3. IInv => ControllersAreLive
  BY <1>1, <1>2 DEF ControllersAreLive
<1> QED
  BY <1>3, InductiveInvariant, PTL

\* A thread in a controller, or at the end of its wait for one, waits for nobody.
LEMMA InControllerWaitsForNobody ==
    ASSUME IInv, NEW s \in Sessions, ctlMutex[s] \in Threads, NEW y
    PROVE  ~WaitsFor(ctlMutex[s], y)
<1> DEFINE x == ctlMutex[s]
<1>1. x \in Threads /\ x \notin Sessions
  BY SessionsAssumption DEF Threads
<1>2. pc[x] \in {"incontroller", "delete", "told"}
  BY <1>1 DEF IInv, CtlMutexOK
<1> HIDE DEF x
<1>3. ~WaitsFor(x, y)
  BY <1>1, <1>2 DEF WaitsFor
<1> QED
  BY <1>3 DEF x

\* The thread of a controller waits for nobody that waits.
LEMMA ControllerWaitsLast ==
    ASSUME IInv, NEW x \in Sessions, NEW y \in Threads \cup Sessions, WaitsFor(x, y),
           NEW z
    PROVE  ~WaitsFor(y, z)
<1>1. ctlPc[x] \in {"lockwork", "lockexit"} /\ ctlMutex[x] = y
  BY SessionsAssumption DEF WaitsFor, Threads
<1>2. y \notin Sessions
  BY <1>1 DEF IInv, CtlMutexOK, Handling
<1> QED
  BY <1>1, <1>2, InControllerWaitsForNobody

\* A thread that waits for another thread waits for the player mutex, and the
\* holder of that one does not.
LEMMA ThreadWaitsForHolder ==
    ASSUME IInv, NEW x \in Threads, NEW y \in Threads, WaitsFor(x, y)
    PROVE  pc[x] = "lockplayer" /\ pc[y] \in Inside
<1>1. x \notin Sessions /\ y \notin Sessions /\ pc[x] \notin {"unlockedlock", "unlockeduse"}
  BY SessionsAssumption DEF Threads, IInv, LockTypes, Inside
<1>2. ASSUME pc[x] \in {"lockctl", "join", "sweep"}, NEW s \in Sessions, ctlMutex[s] = y
      PROVE  FALSE
  <2>1. playerMutex = x /\ pc[y] \in {"incontroller", "delete", "told"}
    BY <1>2 DEF IInv, PlayerMutexOK, CtlMutexOK, Inside
  <2>2. playerMutex = y
    BY <2>1 DEF IInv, PlayerMutexOK, Inside
  <2> QED
    BY <1>2, <2>1, <2>2
<1>3. pc[x] \in {"lockctl", "join"} => on[x] \in Sessions
  BY DEF IInv, PlayerMutexOK
<1>4. \A s : s \in sweep[x] => s \in Sessions
  BY DEF IInv, LockTypes
<1>5. pc[x] = "lockplayer" /\ playerMutex = y
  BY <1>1, <1>2, <1>3, <1>4 DEF WaitsFor
<1> QED
  BY <1>5 DEF IInv, PlayerMutexOK

\* The player mutex, the controllers' mutexes and the join of a controller's
\* thread never close a circle of threads that wait for one another
\* (IMediaPlayer.cpp:159, zapper.cpp:975).
THEOREM NobodyWaitsInACircle == Spec => []NoCircularWait
<1>1. IInv => NoCircularWait
  <2> SUFFICES ASSUME IInv, NEW S \in SUBSET (Threads \cup Sessions), S # {},
                      \A x \in S : \E y \in S : WaitsFor(x, y)
               PROVE  FALSE
    BY DEF NoCircularWait
  <2>1. S \cap Sessions = {}
    <3> SUFFICES ASSUME NEW x \in S, x \in Sessions PROVE FALSE
      OBVIOUS
    <3>1. PICK y \in S : WaitsFor(x, y)
      OBVIOUS
    <3>2. PICK z \in S : WaitsFor(y, z)
      OBVIOUS
    <3> QED
      BY <3>1, <3>2, ControllerWaitsLast
  <2>2. PICK x \in S : TRUE
    OBVIOUS
  <2>3. PICK y \in S : WaitsFor(x, y)
    OBVIOUS
  <2>4. PICK z \in S : WaitsFor(y, z)
    OBVIOUS
  <2>5. x \in Threads /\ y \in Threads /\ z \in Threads
    BY <2>1
  <2>6. pc[y] \in Inside /\ pc[y] = "lockplayer"
    BY <2>3, <2>4, <2>5, ThreadWaitsForHolder
  <2> QED
    BY <2>6 DEF Inside
<1> QED
  BY <1>1, InductiveInvariant, PTL
=============================================================================
