---------------------------- MODULE Players_proofs ----------------------------
(***************************************************************************)
(* The two players that MCPlayers composes, for any number of sessions,    *)
(* calls and events.                                                       *)
(*                                                                         *)
(* The player of the gateway: every controller knows whether EAS audio is  *)
(* active, and the last CCI byte of a session wins.                        *)
(*                                                                         *)
(* The controllers of an IP client: what a source reported is handled for  *)
(* that source, a session of the gateway's is closed, the sound follows an *)
(* alert, and speeds, positions and Play are carried out or answered.      *)
(* Each promise is owed to something that is still to come: what is queued *)
(* for the thread, or what CGMI has still to report.  The invariant says   *)
(* what that is, for each of them.                                         *)
(***************************************************************************)
EXTENDS MediaPlayer, IpZapper, SequenceTheorems, TLAPS

------------------------------------------------------------------------------
(* The player of the gateway *)

\* The last byte pending for a session is at i.
LastPending(i, s) ==
    /\ i \in 1..Len(threadEventQueue)
    /\ threadEventQueue[i].type = "CCIUpdated" /\ threadEventQueue[i].session = s
    /\ \A j \in i + 1..Len(threadEventQueue) :
          ~(threadEventQueue[j].type = "CCIUpdated" /\ threadEventQueue[j].session = s)

\* The last byte is on its way, or there; and there is a controller to let it
\* in, so that it is not dropped when it gets there.
LastByteArrives ==
    \A s \in Sessions :
        lastCCI[s] # None =>
            /\ mController[s] # None
            /\ \A i \in Nat : LastPending(i, s) => threadEventQueue[i].cci = lastCCI[s]
            /\ ~PendingCCI(s) => mCCI[s] = lastCCI[s]

IInv ==
    /\ TypeOK
    /\ EasAudioFlagsAgree
    /\ LastByteArrives

------------------------------------------------------------------------------
(* Lists, events and the values of the copy control *)

\* What an event that carries a byte carries.
LEMMA EventFields ==
    ASSUME NEW e \in Events, e.type = "CCIUpdated"
    PROVE  e.session \in Sessions /\ e.cci \in Emis
BY DEF Events

\* Taking one element off a list without duplicates.
LEMMA RemoveAtOnce ==
    ASSUME NEW S, NEW q \in Seq(S), NEW k \in 1..Len(q),
           \A i, j \in 1..Len(q) : q[i] = q[j] => i = j
    PROVE  LET r == RemoveAt(q, k)
           IN  /\ r \in Seq(S)
               /\ \A i, j \in 1..Len(r) : r[i] = r[j] => i = j
               /\ Range(r) = Range(q) \ {q[k]}
<1> DEFINE front == SubSeq(q, 1, k - 1)
           back == SubSeq(q, k + 1, Len(q))
           r == front \o back
<1>1. /\ Len(q) \in Nat /\ k \in Nat /\ k >= 1 /\ k <= Len(q)
      /\ \A i \in 1..Len(q) : q[i] \in S
  BY LenProperties, ElementOfSeq
<1>2. /\ front \in Seq(S) /\ Len(front) = k - 1
      /\ \A i \in 1..k - 1 : front[i] = q[i]
  BY <1>1, SubSeqProperties
<1>3. /\ back \in Seq(S) /\ Len(back) = Len(q) - k
      /\ \A i \in 1..Len(q) - k : back[i] = q[k + i]
  BY <1>1, SubSeqProperties
<1>4. /\ r \in Seq(S) /\ Len(r) = Len(q) - 1
      /\ \A i \in 1..Len(q) - 1 : r[i] = IF i < k THEN q[i] ELSE q[i + 1]
  <2> HIDE DEF front, back
  <2>1. /\ r \in Seq(S) /\ Len(r) = Len(front) + Len(back)
        /\ \A i \in 1..Len(front) + Len(back) :
              r[i] = IF i <= Len(front) THEN front[i] ELSE back[i - Len(front)]
    BY <1>2, <1>3, ConcatProperties, ZenonT(40)
  <2> HIDE DEF r
  <2>2. ASSUME NEW i \in 1..Len(q) - 1
        PROVE  r[i] = IF i < k THEN q[i] ELSE q[i + 1]
    <3>1. CASE i < k
      <4>1. i \in 1..k - 1 /\ i <= Len(front) /\ i \in 1..Len(front) + Len(back)
        BY <3>1, <1>1, <1>2, <1>3
      <4> QED BY <4>1, <3>1, <2>1, <1>2
    <3>2. CASE i >= k
      <4>1. /\ i - Len(front) = i - k + 1 /\ i - k + 1 \in 1..Len(q) - k
            /\ ~(i <= Len(front)) /\ i \in 1..Len(front) + Len(back)
            /\ k + (i - k + 1) = i + 1
        BY <3>2, <1>1, <1>2, <1>3
      <4>2. r[i] = back[i - k + 1] /\ back[i - k + 1] = q[k + (i - k + 1)]
        BY <4>1, <2>1, <1>3
      <4> QED BY <4>1, <4>2, <3>2, <1>1
    <3> QED BY <3>1, <3>2, <1>1
  <2> QED BY <2>1, <2>2, <1>1, <1>2, <1>3
<1>5. \A i, j \in 1..Len(r) : r[i] = r[j] => i = j
  <2> HIDE DEF r
  <2> QED BY <1>1, <1>4
<1>6. Range(r) = Range(q) \ {q[k]}
  <2> HIDE DEF r
  <2>1. Range(r) = {r[i] : i \in 1..Len(r)} /\ Range(q) = {q[i] : i \in 1..Len(q)}
    BY <1>4, RangeEquality
  <2>2. ASSUME NEW i \in 1..Len(r)
        PROVE  r[i] \in Range(q) \ {q[k]}
    BY <2>1, <1>1, <1>4
  <2>3. ASSUME NEW i \in 1..Len(q), q[i] # q[k]
        PROVE  q[i] \in Range(r)
    <3>1. CASE i < k
      BY <3>1, <2>1, <1>1, <1>4
    <3>2. CASE i > k
      <4>1. i - 1 \in 1..Len(r) /\ r[i - 1] = q[i]
        BY <3>2, <1>1, <1>4
      <4> QED BY <4>1, <2>1
    <3> QED BY <3>1, <3>2, <2>3, <1>1
  <2> QED BY <2>1, <2>2, <2>3
<1> QED
  BY <1>4, <1>5, <1>6 DEF RemoveAt

\* The highest of a set of emi values is one, and none of them is above it.
LEMMA EmiMaxIsEmi ==
    ASSUME NEW floor \in Emis, NEW emis \in SUBSET Emis
    PROVE  /\ EmiMax(floor, emis) \in Emis
           /\ \A f \in emis \cup {floor} : f <= EmiMax(floor, emis)
<1> DEFINE all == emis \cup {floor}
<1>1. \E e \in all : \A f \in all : f <= e
  <2>1. all \subseteq {0, 1, 2, 3} /\ all # {}
    BY DEF Emis, COPY_FREELY, COPY_NO_MORE, COPY_ONCE, COPY_NEVER
  <2> HIDE DEF all
  <2>2. CASE 3 \in all
    BY <2>1, <2>2
  <2>3. CASE 3 \notin all /\ 2 \in all
    BY <2>1, <2>3
  <2>4. CASE 3 \notin all /\ 2 \notin all /\ 1 \in all
    BY <2>1, <2>4
  <2>5. CASE all = {0}
    BY <2>1, <2>5
  <2> QED BY <2>1, <2>2, <2>3, <2>4, <2>5
<1> QED
  BY <1>1 DEF EmiMax

\* What updateCCI finds is a value for the box.
LEMMA UpdateCCIType ==
    ASSUME NEW list \in Seq(Sessions), NEW ctrl, NEW cci \in [Sessions -> Emis]
    PROVE  updateCCI(list, ctrl, cci) \in [emi : Emis, soc : BOOLEAN]
<1> DEFINE foreground == {i \in 1..Len(list) : Foreground(ctrl[list[i]])}
           sets == {i \in foreground :
                       cci[list[i]] = COPY_ONCE /\ isRecordingPlayback(ctrl[list[i]])}
           raises == {i \in foreground \ sets : \A j \in sets : j < i}
           floor == IF sets = {} THEN COPY_FREELY ELSE COPY_NO_MORE
           emis == {cci[list[i]] : i \in raises}
<1>1. floor \in Emis
  BY DEF Emis
<1>2. emis \subseteq Emis
  BY ElementOfSeq
<1>3. EmiMax(floor, emis) \in Emis
  <2> HIDE DEF floor, emis
  <2> QED BY <1>1, <1>2, EmiMaxIsEmi
<1> QED
  BY <1>3 DEF updateCCI

\* updateCCI counts every session in the foreground: the box is not free to
\* copy when one is not, and has SOC when one is at COPY_NO_MORE.
LEMMA UpdateRestricts ==
    ASSUME NEW list \in Seq(Sessions), NEW ctrl, NEW cci \in [Sessions -> Emis],
           NEW t \in Range(list), Foreground(ctrl[t])
    PROVE  /\ cci[t] # COPY_FREELY => updateCCI(list, ctrl, cci).emi # COPY_FREELY
           /\ cci[t] = COPY_NO_MORE => updateCCI(list, ctrl, cci).soc
<1> DEFINE foreground == {i \in 1..Len(list) : Foreground(ctrl[list[i]])}
           sets == {i \in foreground :
                       cci[list[i]] = COPY_ONCE /\ isRecordingPlayback(ctrl[list[i]])}
           raises == {i \in foreground \ sets : \A j \in sets : j < i}
           floor == IF sets = {} THEN COPY_FREELY ELSE COPY_NO_MORE
           emis == {cci[list[i]] : i \in raises}
<1>1. PICK k \in 1..Len(list) : list[k] = t
  BY RangeEquality
<1>2. k \in foreground
  BY <1>1
<1>3. updateCCI(list, ctrl, cci).emi = EmiMax(floor, emis)
  BY DEF updateCCI
<1>4. floor \in Emis /\ emis \subseteq Emis
  BY ElementOfSeq DEF Emis
<1>5. /\ EmiMax(floor, emis) \in Emis
      /\ \A f \in emis \cup {floor} : f <= EmiMax(floor, emis)
  <2> HIDE DEF floor, emis
  <2> QED BY <1>4, EmiMaxIsEmi
<1>6. ASSUME cci[t] # COPY_FREELY
      PROVE  \E f \in emis \cup {floor} : f \in Emis /\ f # COPY_FREELY
  <2>1. CASE sets = {}
    <3>1. k \in raises
      BY <2>1, <1>2
    <3>2. cci[t] \in emis
      BY <3>1, <1>1
    <3> HIDE DEF emis, floor
    <3> QED BY <3>2, <1>4, <1>6
  <2>2. CASE sets # {}
    <3>1. floor = COPY_NO_MORE
      BY <2>2
    <3> HIDE DEF emis, floor
    <3> QED BY <3>1, <1>4 DEF COPY_NO_MORE, COPY_FREELY
  <2> QED BY <2>1, <2>2
<1>7. cci[t] # COPY_FREELY => EmiMax(floor, emis) # COPY_FREELY
  <2> HIDE DEF emis, floor
  <2> QED
    BY <1>5, <1>6 DEF Emis, COPY_FREELY, COPY_NO_MORE, COPY_ONCE, COPY_NEVER
<1>8. cci[t] = COPY_NO_MORE => updateCCI(list, ctrl, cci).soc
  BY <1>1, <1>2 DEF updateCCI
<1> QED
  BY <1>3, <1>7, <1>8

------------------------------------------------------------------------------
(* Controllers *)

\* SetEasAudioActive reaches every controller, and changes only the flag.
LEMMA EasAudioReachesAll ==
    ASSUME NEW ctrl \in [Sessions -> Controllers \cup {None}], NEW active \in BOOLEAN,
           \A s \in Sessions : ~IsSessionRegistered(s) => ctrl[s] = None
    PROVE  LET told == WithEasAudio(ctrl, active)
           IN  /\ told \in [Sessions -> Controllers \cup {None}]
               /\ \A s \in Sessions : told[s] = None <=> ctrl[s] = None
               /\ \A s \in Sessions : told[s] # None => told[s].eas = active
<1> DEFINE told == WithEasAudio(ctrl, active)
<1>1. ASSUME NEW s \in Sessions, ctrl[s] # None
      PROVE  /\ told[s] \in Controllers /\ told[s].eas = active
             /\ told[s] # None
  <2>1. ctrl[s] \in Controllers /\ IsSessionRegistered(s)
    BY <1>1
  <2>2. told[s] = [ctrl[s] EXCEPT !.eas = active]
    BY <2>1, <1>1 DEF WithEasAudio
  <2>3. [ctrl[s] EXCEPT !.eas = active] \in Controllers
    BY <2>1 DEF Controllers
  <2>4. [ctrl[s] EXCEPT !.eas = active].eas = active
    BY <2>1 DEF Controllers
  <2> QED BY <2>2, <2>3, <2>4, NoneAssumption
<1>2. ASSUME NEW s \in Sessions, ctrl[s] = None
      PROVE  told[s] = None
  BY <1>2 DEF WithEasAudio
<1>3. told = [s \in Sessions |-> told[s]]
  BY DEF WithEasAudio
<1>4. told \in [Sessions -> Controllers \cup {None}]
  <2> HIDE DEF told
  <2> QED BY <1>1, <1>2, <1>3
<1> QED
  BY <1>1, <1>2, <1>4

\* A new controller is one, and knows of EAS audio.
LEMMA NewControllerType ==
    ASSUME NEW type \in ControllerTypes \ {"Unknown"}, mEasAudioActive \in BOOLEAN
    PROVE  /\ NewController(type) \in Controllers
           /\ NewController(type).eas = mEasAudioActive
           /\ NewController(type) # None
<1>1. NewController(type) \in Controllers
  BY DEF NewController, Controllers
<1>2. NewController(type).eas = mEasAudioActive
  BY DEF NewController
<1> QED
  BY <1>1, <1>2, NoneAssumption

\* What Load finds or makes for a session leaves the other sessions alone, and
\* knows of EAS audio if they do.
LEMMA ControllerForType ==
    ASSUME TypeOK, EasAudioFlagsAgree, NEW s \in Sessions, NEW u \in Urls
    PROVE  LET ctrl == ControllerFor(s, u)
           IN  /\ ctrl \in [Sessions -> Controllers \cup {None}]
               /\ \A t \in Sessions : t # s => ctrl[t] = mController[t]
               /\ \A t \in Sessions : ctrl[t] # None => ctrl[t].eas = mEasAudioActive
               /\ Reusable(mController[s], u) => ctrl = mController
<1>1. CASE Reusable(mController[s], u)
  BY <1>1 DEF ControllerFor, TypeOK, EasAudioFlagsAgree
<1>2. CASE ~Reusable(mController[s], u)
  <2> DEFINE new == IF ControllerType[u] = "Unknown" THEN None
                    ELSE NewController(ControllerType[u])
  <2>1. new \in Controllers \cup {None} /\ (new # None => new.eas = mEasAudioActive)
    BY UrlsAssumption, NewControllerType DEF TypeOK
  <2>2. ControllerFor(s, u) = [mController EXCEPT ![s] = new]
    BY <1>2 DEF ControllerFor
  <2> HIDE DEF new
  <2> QED BY <2>1, <2>2, <1>2 DEF TypeOK, EasAudioFlagsAgree
<1> QED
  BY <1>1, <1>2

------------------------------------------------------------------------------
(* The bytes on the queue *)

\* Without a byte that is put or taken, what is pending stays so.
LEMMA ArrivesWithSameQueue ==
    ASSUME LastByteArrives, UNCHANGED threadEventQueue,
           \A s \in Sessions : lastCCI'[s] # None =>
               /\ lastCCI'[s] = lastCCI[s]
               /\ mController'[s] # None
               /\ mCCI'[s] = mCCI[s]
    PROVE  LastByteArrives'
BY DEF LastByteArrives, LastPending, PendingCCI

\* Another event behind them changes nothing either.
LEMMA ArrivesWithOtherEvent ==
    ASSUME TypeOK, LastByteArrives, NEW e \in Events, e.type # "CCIUpdated",
           threadEventQueue' = Append(threadEventQueue, e),
           UNCHANGED <<mController, mCCI, lastCCI>>
    PROVE  LastByteArrives'
<1>1. /\ Len(threadEventQueue) \in Nat
      /\ Len(threadEventQueue') = Len(threadEventQueue) + 1
      /\ \A i \in 1..Len(threadEventQueue) : threadEventQueue'[i] = threadEventQueue[i]
      /\ threadEventQueue'[Len(threadEventQueue) + 1] = e
  BY AppendProperties, LenProperties DEF TypeOK
<1>2. ASSUME NEW s \in Sessions, NEW i \in Nat, LastPending(i, s)'
      PROVE  LastPending(i, s)
  BY <1>1, <1>2 DEF LastPending
<1>3. ASSUME NEW s \in Sessions, PendingCCI(s)
      PROVE  PendingCCI(s)'
  BY <1>1, <1>3 DEF PendingCCI
<1>4. ASSUME NEW s \in Sessions, NEW i \in Nat, LastPending(i, s)
      PROVE  threadEventQueue'[i] = threadEventQueue[i]
  BY <1>1, <1>4 DEF LastPending
<1> QED
  BY <1>2, <1>3, <1>4 DEF LastByteArrives

\* A byte that is put on the queue is the last one of its session, and no
\* other session's.
LEMMA ArrivesWithNewByte ==
    ASSUME TypeOK, LastByteArrives, NEW s \in Sessions, NEW byte \in Emis,
           mController[s] # None,
           threadEventQueue' = Append(threadEventQueue,
               [type |-> "CCIUpdated", session |-> s, cci |-> byte]),
           lastCCI' = [lastCCI EXCEPT ![s] = byte],
           UNCHANGED <<mController, mCCI>>
    PROVE  LastByteArrives'
<1> DEFINE e == [type |-> "CCIUpdated", session |-> s, cci |-> byte]
<1>1. /\ Len(threadEventQueue) \in Nat
      /\ Len(threadEventQueue') = Len(threadEventQueue) + 1
      /\ \A i \in 1..Len(threadEventQueue) : threadEventQueue'[i] = threadEventQueue[i]
      /\ threadEventQueue'[Len(threadEventQueue) + 1] = e
  <2>1. e \in Events
    BY DEF Events
  <2> QED BY <2>1, AppendProperties, LenProperties DEF TypeOK
<1>2. e.type = "CCIUpdated" /\ e.session = s /\ e.cci = byte
  OBVIOUS
<1> HIDE DEF e
<1>3. ASSUME NEW i \in Nat, LastPending(i, s)'
      PROVE  threadEventQueue'[i].cci = lastCCI'[s]
  <2>1. i = Len(threadEventQueue) + 1
    BY <1>1, <1>2, <1>3 DEF LastPending
  <2> QED BY <2>1, <1>1, <1>2 DEF TypeOK
<1>4. PendingCCI(s)'
  BY <1>1, <1>2 DEF PendingCCI
<1>5. ASSUME NEW t \in Sessions, t # s
      PROVE  /\ lastCCI'[t] = lastCCI[t]
             /\ \A i \in Nat : LastPending(i, t)' =>
                   LastPending(i, t) /\ threadEventQueue'[i] = threadEventQueue[i]
             /\ PendingCCI(t) => PendingCCI(t)'
  <2>1. lastCCI'[t] = lastCCI[t]
    BY <1>5 DEF TypeOK
  <2>2. ASSUME NEW i \in Nat, LastPending(i, t)'
        PROVE  LastPending(i, t) /\ threadEventQueue'[i] = threadEventQueue[i]
    BY <1>1, <1>2, <1>5, <2>2 DEF LastPending
  <2>3. PendingCCI(t) => PendingCCI(t)'
    BY <1>1 DEF PendingCCI
  <2> QED BY <2>1, <2>2, <2>3
<1>6. ASSUME NEW t \in Sessions, lastCCI'[t] # None
      PROVE  /\ mController'[t] # None
             /\ \A i \in Nat : LastPending(i, t)' => threadEventQueue'[i].cci = lastCCI'[t]
             /\ ~PendingCCI(t)' => mCCI'[t] = lastCCI'[t]
  <2>1. CASE t = s
    BY <2>1, <1>3, <1>4 DEF LastPending, PendingCCI
  <2>2. CASE t # s
    <3>1. /\ lastCCI[t] # None /\ lastCCI'[t] = lastCCI[t]
          /\ mController'[t] = mController[t] /\ mCCI'[t] = mCCI[t]
      BY <2>2, <1>5, <1>6
    <3>2. ASSUME NEW i \in Nat, LastPending(i, t)'
          PROVE  threadEventQueue'[i].cci = lastCCI'[t]
      <4>1. LastPending(i, t) /\ threadEventQueue'[i] = threadEventQueue[i]
        BY <2>2, <3>2, <1>5
      <4> QED BY <4>1, <3>1 DEF LastByteArrives
    <3>3. ASSUME ~PendingCCI(t)'
          PROVE  mCCI'[t] = lastCCI'[t]
      <4>1. ~PendingCCI(t)
        BY <2>2, <3>3, <1>5
      <4> QED BY <4>1, <3>1 DEF LastByteArrives
    <3>4. mController'[t] # None
      BY <3>1 DEF LastByteArrives
    <3> QED BY <3>2, <3>3, <3>4
  <2> QED BY <2>1, <2>2
<1> QED
  BY <1>6 DEF LastByteArrives

\* The front of the queue is taken; if it was the last byte of its session,
\* the session has it now.
LEMMA ArrivesWithPop ==
    ASSUME TypeOK, LastByteArrives, threadEventQueue # <<>>,
           threadEventQueue' = Tail(threadEventQueue), UNCHANGED lastCCI,
           \A s \in Sessions : mController'[s] = None <=> mController[s] = None,
           \A s \in Sessions : mController[s] # None =>
               mCCI'[s] = IF /\ Head(threadEventQueue).type = "CCIUpdated"
                             /\ Head(threadEventQueue).session = s
                            THEN Head(threadEventQueue).cci ELSE mCCI[s]
    PROVE  LastByteArrives'
<1>1. /\ Len(threadEventQueue) \in Nat \ {0}
      /\ Len(threadEventQueue') = Len(threadEventQueue) - 1
      /\ \A i \in 1..Len(threadEventQueue') :
            threadEventQueue'[i] = threadEventQueue[i + 1]
      /\ Head(threadEventQueue) = threadEventQueue[1]
  BY HeadTailProperties, EmptySeq DEF TypeOK
<1>2. ASSUME NEW s \in Sessions, NEW i \in Nat, LastPending(i, s)'
      PROVE  LastPending(i + 1, s) /\ threadEventQueue'[i] = threadEventQueue[i + 1]
  <2>1. /\ i + 1 \in 1..Len(threadEventQueue)
        /\ threadEventQueue'[i] = threadEventQueue[i + 1]
        /\ threadEventQueue[i + 1].type = "CCIUpdated"
        /\ threadEventQueue[i + 1].session = s
    BY <1>1, <1>2 DEF LastPending
  <2>2. ASSUME NEW j \in (i + 1) + 1..Len(threadEventQueue)
        PROVE  ~(threadEventQueue[j].type = "CCIUpdated"
                   /\ threadEventQueue[j].session = s)
    <3>1. /\ j - 1 \in i + 1..Len(threadEventQueue')
          /\ threadEventQueue'[j - 1] = threadEventQueue[j]
      BY <1>1, <2>1
    <3> QED BY <3>1, <1>2 DEF LastPending
  <2> QED BY <2>1, <2>2 DEF LastPending
<1>3. ASSUME NEW s \in Sessions, lastCCI[s] # None, ~PendingCCI(s)'
      PROVE  mCCI'[s] = lastCCI[s]
  <2>1. ASSUME NEW j \in 2..Len(threadEventQueue)
        PROVE  ~(threadEventQueue[j].type = "CCIUpdated"
                   /\ threadEventQueue[j].session = s)
    <3>1. /\ j - 1 \in 1..Len(threadEventQueue')
          /\ threadEventQueue'[j - 1] = threadEventQueue[j]
      BY <1>1
    <3> QED BY <3>1, <1>3 DEF PendingCCI
  <2>2. CASE threadEventQueue[1].type = "CCIUpdated" /\ threadEventQueue[1].session = s
    <3>1. LastPending(1, s)
      BY <1>1, <2>1, <2>2 DEF LastPending
    <3> QED BY <3>1, <2>2, <1>1, <1>3 DEF LastByteArrives
  <2>3. CASE ~(threadEventQueue[1].type = "CCIUpdated" /\ threadEventQueue[1].session = s)
    <3>1. ~PendingCCI(s)
      BY <1>1, <2>1, <2>3 DEF PendingCCI
    <3> QED BY <3>1, <2>3, <1>1, <1>3 DEF LastByteArrives
  <2> QED BY <2>2, <2>3
<1>4. ASSUME NEW s \in Sessions, lastCCI[s] # None
      PROVE  /\ mController'[s] # None
             /\ \A i \in Nat : LastPending(i, s)' => threadEventQueue'[i].cci = lastCCI[s]
  <2>1. mController'[s] # None
    BY <1>4 DEF LastByteArrives
  <2>2. ASSUME NEW i \in Nat, LastPending(i, s)'
        PROVE  threadEventQueue'[i].cci = lastCCI[s]
    <3>1. LastPending(i + 1, s) /\ threadEventQueue'[i] = threadEventQueue[i + 1]
      BY <2>2, <1>2
    <3>2. i + 1 \in Nat
      OBVIOUS
    <3> QED BY <3>1, <3>2, <1>4, ZenonT(40) DEF LastByteArrives
  <2> QED BY <2>1, <2>2
<1> QED
  BY <1>3, <1>4 DEF LastByteArrives

------------------------------------------------------------------------------
(* The invariant is inductive *)

LEMMA InitIInv == Init => IInv
<1> SUFFICES ASSUME Init
             PROVE  IInv
  OBVIOUS
<1>1. mSessionList = <<>> /\ threadEventQueue = <<>> /\ Len(mSessionList) = 0
  BY EmptySeq DEF Init
<1>2. TypeOK
  <2>1. COPY_FREELY \in Emis
    BY DEF Emis
  <2>2. mSessionList \in Seq(Sessions) /\ threadEventQueue \in Seq(Events)
    BY <1>1, EmptySeq
  <2>3. masterCCI \in [emi : Emis, soc : BOOLEAN]
    BY <2>1 DEF Init
  <2>4. /\ mController \in [Sessions -> Controllers \cup {None}]
        /\ mCCI \in [Sessions -> Emis] /\ lastCCI \in [Sessions -> Emis \cup {None}]
        /\ mEasAudioActive \in BOOLEAN
        /\ \A s \in Sessions : mController[s] = None /\ mCCI[s] = COPY_FREELY
    BY <2>1 DEF Init
  <2>5. \A i, j \in 1..Len(mSessionList) : mSessionList[i] = mSessionList[j] => i = j
    BY <1>1
  <2> QED BY <2>2, <2>3, <2>4, <2>5 DEF TypeOK
<1>3. EasAudioFlagsAgree
  BY DEF Init, EasAudioFlagsAgree
<1>4. LastByteArrives
  BY DEF Init, LastByteArrives
<1> QED
  BY <1>2, <1>3, <1>4 DEF IInv

\* A session is on the list of sessions, or is not, whatever the list is made of.
LEMMA CreateKeepsIInv ==
    ASSUME IInv, NEW s \in Sessions, IMediaPlayerSession_Create(s)
    PROVE  IInv'
<1>1. /\ mSessionList' \in Seq(Sessions)
      /\ Len(mSessionList) \in Nat /\ Len(mSessionList') = Len(mSessionList) + 1
      /\ \A i \in 1..Len(mSessionList) : mSessionList'[i] = mSessionList[i]
      /\ mSessionList'[Len(mSessionList) + 1] = s
  BY AppendProperties, LenProperties DEF IInv, TypeOK, IMediaPlayerSession_Create
<1>2. /\ Range(mSessionList) = {mSessionList[i] : i \in 1..Len(mSessionList)}
      /\ Range(mSessionList') = {mSessionList'[i] : i \in 1..Len(mSessionList')}
  BY <1>1, RangeEquality DEF IInv, TypeOK
<1>3. Range(mSessionList) \subseteq Range(mSessionList')
  BY <1>1, <1>2
<1>4. \A i \in 1..Len(mSessionList) : mSessionList[i] # s
  BY <1>2 DEF IMediaPlayerSession_Create, IsSessionRegistered
<1>5. \A i, j \in 1..Len(mSessionList') :
          mSessionList'[i] = mSessionList'[j] => i = j
  BY <1>1, <1>4, SMTT(30) DEF IInv, TypeOK
<1>6. TypeOK'
  BY <1>1, <1>3, <1>5
     DEF IInv, TypeOK, IMediaPlayerSession_Create, IsSessionRegistered
<1>7. EasAudioFlagsAgree'
  BY DEF IInv, EasAudioFlagsAgree, IMediaPlayerSession_Create
<1>8. LastByteArrives'
  BY ArrivesWithSameQueue
     DEF IInv, LastByteArrives, IMediaPlayerSession_Create
<1> QED
  BY <1>6, <1>7, <1>8 DEF IInv

LEMMA DestroyKeepsIInv ==
    ASSUME IInv, NEW s \in Sessions, IMediaPlayerSession_Destroy(s)
    PROVE  IInv'
<1> DEFINE k == CHOOSE i \in 1..Len(mSessionList) : mSessionList[i] = s
<1>1. Range(mSessionList) = {mSessionList[i] : i \in 1..Len(mSessionList)}
  BY RangeEquality DEF IInv, TypeOK
<1>2. k \in 1..Len(mSessionList) /\ mSessionList[k] = s
  BY <1>1 DEF IMediaPlayerSession_Destroy, IsSessionRegistered
<1>3. mSessionList' = RemoveAt(mSessionList, k)
  BY DEF IMediaPlayerSession_Destroy
<1> HIDE DEF k
<1>4. /\ mSessionList' \in Seq(Sessions)
      /\ \A i, j \in 1..Len(mSessionList') :
            mSessionList'[i] = mSessionList'[j] => i = j
      /\ Range(mSessionList') = Range(mSessionList) \ {s}
  BY <1>2, <1>3, RemoveAtOnce DEF IInv, TypeOK
<1>5. /\ mController' = [mController EXCEPT ![s] = None]
      /\ mCCI' = [mCCI EXCEPT ![s] = COPY_FREELY]
      /\ lastCCI' = [lastCCI EXCEPT ![s] = None]
      /\ UNCHANGED <<masterCCI, mEasAudioActive, threadEventQueue>>
  BY DEF IMediaPlayerSession_Destroy
<1>6. \A t \in Sessions :
          ~IsSessionRegistered(t)' => mController'[t] = None /\ mCCI'[t] = COPY_FREELY
  BY <1>4, <1>5 DEF IInv, TypeOK, IsSessionRegistered
<1>7. COPY_FREELY \in Emis
  BY DEF Emis
<1>8. TypeOK'
  BY <1>4, <1>5, <1>6, <1>7 DEF IInv, TypeOK
<1>9. EasAudioFlagsAgree'
  BY <1>5 DEF IInv, TypeOK, EasAudioFlagsAgree
<1>10. LastByteArrives'
  <2>1. ASSUME NEW t \in Sessions, lastCCI'[t] # None
        PROVE  t # s
    BY <2>1, <1>5 DEF IInv, TypeOK
  <2> QED
    BY <2>1, <1>5, ArrivesWithSameQueue DEF IInv, TypeOK, LastByteArrives
<1> QED
  BY <1>8, <1>9, <1>10 DEF IInv

\* ProcessCCIUpdated gives the session a byte, and the box one of its own.
LEMMA ProcessCCIUpdatedType ==
    ASSUME TypeOK, NEW s \in Sessions, NEW byte \in Emis, NEW ctrl,
           ProcessCCIUpdated(s, byte, ctrl)
    PROVE  /\ mCCI' \in [Sessions -> Emis]
           /\ masterCCI' \in [emi : Emis, soc : BOOLEAN]
           /\ \A t \in Sessions : mCCI'[t] = IF t = s /\ ctrl[s] # None THEN byte
                                             ELSE mCCI[t]
<1>1. CASE ctrl[s] = None
  BY <1>1 DEF ProcessCCIUpdated, TypeOK
<1>2. CASE ctrl[s] # None
  <2>1. mCCI' = [mCCI EXCEPT ![s] = byte]
    BY <1>2 DEF ProcessCCIUpdated
  <2>2. mCCI' \in [Sessions -> Emis]
    BY <2>1 DEF TypeOK
  <2>3. updateCCI(mSessionList, ctrl, mCCI') \in [emi : Emis, soc : BOOLEAN]
    BY <2>2, UpdateCCIType DEF TypeOK
  <2>4. masterCCI' \in [emi : Emis, soc : BOOLEAN]
    BY <1>2, <2>3 DEF ProcessCCIUpdated, TypeOK
  <2> QED BY <1>2, <2>1, <2>2, <2>4 DEF TypeOK
<1> QED
  BY <1>1, <1>2

LEMMA LoadKeepsIInv ==
    ASSUME IInv, NEW s \in Sessions, NEW u \in Urls,
           \/ LoadInvalidURL(s, u)
           \/ LoadConflict(s, u)
           \/ IMediaPlayerSession_Load(s, u)
    PROVE  IInv'
<1> DEFINE ctrl == ControllerFor(s, u)
<1>1. /\ ctrl \in [Sessions -> Controllers \cup {None}]
      /\ \A t \in Sessions : t # s => ctrl[t] = mController[t]
      /\ \A t \in Sessions : ctrl[t] # None => ctrl[t].eas = mEasAudioActive
      /\ Reusable(mController[s], u) => ctrl = mController
  BY ControllerForType DEF IInv
<1>2. IsSessionRegistered(s) /\ UNCHANGED <<mSessionList, mEasAudioActive,
                                           threadEventQueue>>
  BY DEF LoadInvalidURL, LoadConflict, IMediaPlayerSession_Load
<1>3. \/ lastCCI' = [lastCCI EXCEPT ![s] = None]
      \/ lastCCI' = lastCCI /\ mController' = mController /\ mCCI' = mCCI
  <2>1. CASE LoadInvalidURL(s, u) \/ IMediaPlayerSession_Load(s, u)
    BY <2>1 DEF LoadInvalidURL, IMediaPlayerSession_Load
  <2>2. CASE LoadConflict(s, u) /\ Reusable(mController[s], u)
    <3>1. lastCCI' = lastCCI /\ mController' = ctrl /\ UNCHANGED mCCI
      BY <2>2 DEF LoadConflict
    <3> QED BY <3>1, <2>2, <1>1
  <2>3. CASE LoadConflict(s, u) /\ ~Reusable(mController[s], u)
    BY <2>3 DEF LoadConflict
  <2> QED BY <2>1, <2>2, <2>3
<1>4. \/ mController' = ctrl
      \/ mController' = [ctrl EXCEPT ![s].url = u] /\ ctrl[s] # None
  BY DEF LoadInvalidURL, LoadConflict, IMediaPlayerSession_Load
<1>5. /\ mCCI' \in [Sessions -> Emis]
      /\ masterCCI' \in [emi : Emis, soc : BOOLEAN]
      /\ \A t \in Sessions : t # s => mCCI'[t] = mCCI[t]
  <2>1. CASE LoadInvalidURL(s, u) \/ LoadConflict(s, u)
    BY <2>1 DEF LoadInvalidURL, LoadConflict, IInv, TypeOK
  <2>2. CASE IMediaPlayerSession_Load(s, u)
    <3> DEFINE byte == IF u \in Files THEN DEFAULT_RESTRICTIVE_CCI ELSE COPY_FREELY
    <3>1. byte \in Emis /\ ProcessCCIUpdated(s, byte, mController')
      BY <2>2 DEF IMediaPlayerSession_Load, Emis, DEFAULT_RESTRICTIVE_CCI
    <3> HIDE DEF byte
    <3> QED BY <3>1, ProcessCCIUpdatedType DEF IInv
  <2> QED BY <2>1, <2>2 DEF LoadInvalidURL, LoadConflict, IMediaPlayerSession_Load
<1> HIDE DEF ctrl
<1>6. /\ mController' \in [Sessions -> Controllers \cup {None}]
      /\ \A t \in Sessions : t # s => mController'[t] = mController[t]
      /\ \A t \in Sessions : mController'[t] # None =>
            mController'[t].eas = mEasAudioActive
  <2>1. CASE mController' = ctrl
    BY <2>1, <1>1
  <2>2. CASE mController' = [ctrl EXCEPT ![s].url = u] /\ ctrl[s] # None
    <3>1. ctrl[s] \in Controllers
      BY <1>1, <2>2
    <3>2. /\ [ctrl[s] EXCEPT !.url = u] \in Controllers
          /\ [ctrl[s] EXCEPT !.url = u].eas = ctrl[s].eas
      BY <3>1 DEF Controllers
    <3>3. mController' = [ctrl EXCEPT ![s] = [ctrl[s] EXCEPT !.url = u]]
      BY <2>2
    <3> QED BY <3>2, <3>3, <1>1, <2>2
  <2> QED BY <2>1, <2>2, <1>4
<1>7. TypeOK'
  <2>1. lastCCI' \in [Sessions -> Emis \cup {None}]
    BY <1>3 DEF IInv, TypeOK
  <2>2. \A t \in Sessions : ~IsSessionRegistered(t)' =>
            mController'[t] = None /\ mCCI'[t] = COPY_FREELY
    BY <1>2, <1>5, <1>6 DEF IInv, TypeOK, IsSessionRegistered
  <2> QED BY <2>1, <2>2, <1>2, <1>5, <1>6 DEF IInv, TypeOK
<1>8. EasAudioFlagsAgree'
  BY <1>2, <1>6 DEF EasAudioFlagsAgree
<1>9. LastByteArrives'
  <2>1. CASE lastCCI' = [lastCCI EXCEPT ![s] = None]
    <3>1. ASSUME NEW t \in Sessions, lastCCI'[t] # None
          PROVE  t # s /\ lastCCI'[t] = lastCCI[t]
      BY <3>1, <2>1 DEF IInv, TypeOK
    <3> QED
      BY <3>1, <1>2, <1>5, <1>6, ArrivesWithSameQueue DEF IInv, LastByteArrives
  <2>2. CASE lastCCI' = lastCCI /\ mController' = mController /\ mCCI' = mCCI
    BY <2>2, <1>2, ArrivesWithSameQueue DEF IInv, LastByteArrives
  <2> QED BY <2>1, <2>2, <1>3
<1> QED
  BY <1>7, <1>8, <1>9 DEF IInv

LEMMA EjectKeepsIInv ==
    ASSUME IInv, NEW s \in Sessions, IMediaPlayerSession_Eject(s)
    PROVE  IInv'
<1> DEFINE c == mController[s]
           easEnds == c # None /\ c.url # None /\ ControllerType[c.url] = "Audio"
           ctrl == IF easEnds THEN WithEasAudio(mController, FALSE) ELSE mController
<1>1. /\ IsSessionRegistered(s)
      /\ mCCI' = [mCCI EXCEPT ![s] = COPY_FREELY]
      /\ mEasAudioActive' = (mEasAudioActive /\ ~easEnds)
      /\ mController' = [ctrl EXCEPT ![s] = None]
      /\ masterCCI' = IF Foreground(c) THEN updateCCI(mSessionList, mController', mCCI')
                      ELSE masterCCI
      /\ lastCCI' = [lastCCI EXCEPT ![s] = None]
      /\ UNCHANGED <<mSessionList, threadEventQueue>>
  BY DEF IMediaPlayerSession_Eject
<1>2. /\ ctrl \in [Sessions -> Controllers \cup {None}]
      /\ \A t \in Sessions : ctrl[t] = None <=> mController[t] = None
      /\ \A t \in Sessions : ctrl[t] # None => ctrl[t].eas = mEasAudioActive'
  <2>1. CASE easEnds
    <3>1. ctrl = WithEasAudio(mController, FALSE) /\ mEasAudioActive' = FALSE
      BY <2>1, <1>1
    <3> DEFINE told == WithEasAudio(mController, FALSE)
    <3>2. /\ told \in [Sessions -> Controllers \cup {None}]
          /\ \A t \in Sessions : told[t] = None <=> mController[t] = None
          /\ \A t \in Sessions : told[t] # None => told[t].eas = FALSE
      <4>1. /\ mController \in [Sessions -> Controllers \cup {None}]
            /\ \A t \in Sessions : ~IsSessionRegistered(t) => mController[t] = None
            /\ FALSE \in BOOLEAN
        BY DEF IInv, TypeOK
      <4> QED BY <4>1, EasAudioReachesAll
    <3> HIDE DEF ctrl, told
    <3> QED BY <3>1, <3>2 DEF told
  <2>2. CASE ~easEnds
    <3>1. ctrl = mController /\ mEasAudioActive' = mEasAudioActive
      BY <2>2, <1>1 DEF IInv, TypeOK
    <3> HIDE DEF ctrl
    <3> QED BY <3>1 DEF IInv, TypeOK, EasAudioFlagsAgree
  <2> QED BY <2>1, <2>2
<1>3. mEasAudioActive' \in BOOLEAN
  BY <1>1
<1> HIDE DEF c, easEnds, ctrl
<1>4. /\ mController' \in [Sessions -> Controllers \cup {None}]
      /\ \A t \in Sessions : t # s => mController'[t] = ctrl[t]
      /\ mController'[s] = None
  BY <1>1, <1>2
<1>5. /\ mCCI' \in [Sessions -> Emis]
      /\ \A t \in Sessions : t # s => mCCI'[t] = mCCI[t]
      /\ mCCI'[s] = COPY_FREELY
  <2>1. COPY_FREELY \in Emis
    BY DEF Emis
  <2> QED BY <2>1, <1>1 DEF IInv, TypeOK
<1>6. masterCCI' \in [emi : Emis, soc : BOOLEAN]
  <2>1. updateCCI(mSessionList, mController', mCCI') \in [emi : Emis, soc : BOOLEAN]
    BY <1>5, UpdateCCIType DEF IInv, TypeOK
  <2> QED BY <2>1, <1>1 DEF IInv, TypeOK
<1>7. /\ lastCCI' \in [Sessions -> Emis \cup {None}]
      /\ \A t \in Sessions : t # s => lastCCI'[t] = lastCCI[t]
      /\ lastCCI'[s] = None
  BY <1>1 DEF IInv, TypeOK
<1>8. TypeOK'
  <2>1. \A t \in Sessions : ~IsSessionRegistered(t)' =>
            mController'[t] = None /\ mCCI'[t] = COPY_FREELY
    BY <1>1, <1>2, <1>4, <1>5 DEF IInv, TypeOK, IsSessionRegistered
  <2> QED BY <2>1, <1>1, <1>3, <1>4, <1>5, <1>6, <1>7 DEF IInv, TypeOK
<1>9. EasAudioFlagsAgree'
  BY <1>2, <1>4 DEF EasAudioFlagsAgree
<1>10. LastByteArrives'
  <2>1. ASSUME NEW t \in Sessions, lastCCI'[t] # None
        PROVE  /\ t # s /\ lastCCI'[t] = lastCCI[t] /\ mCCI'[t] = mCCI[t]
               /\ mController'[t] # None
    <3>1. t # s /\ lastCCI'[t] = lastCCI[t] /\ mCCI'[t] = mCCI[t]
      BY <2>1, <1>5, <1>7
    <3>2. mController[t] # None
      BY <2>1, <3>1 DEF IInv, LastByteArrives
    <3> QED BY <3>1, <3>2, <1>2, <1>4
  <2> QED
    BY <2>1, <1>1, ArrivesWithSameQueue DEF IInv
<1> QED
  BY <1>8, <1>9, <1>10 DEF IInv

\* Play, PersistentRecord and Stop change what a controller does, not whether
\* it is there nor what it knows of EAS audio.
LEMMA ControllerCallKeepsIInv ==
    ASSUME IInv, NEW s \in Sessions, IsSessionRegistered(s), mController[s] # None,
           NEW c \in Controllers, c.eas = mController[s].eas,
           mController' = [mController EXCEPT ![s] = c],
           UNCHANGED <<mSessionList, mCCI, masterCCI, mEasAudioActive,
                       threadEventQueue, lastCCI>>
    PROVE  IInv'
<1>1. TypeOK'
  BY DEF IInv, TypeOK, IsSessionRegistered
<1>2. EasAudioFlagsAgree'
  BY DEF IInv, TypeOK, EasAudioFlagsAgree
<1>3. LastByteArrives'
  <2>1. \A t \in Sessions : mController[t] # None => mController'[t] # None
    BY NoneAssumption DEF IInv, TypeOK
  <2> QED BY <2>1, ArrivesWithSameQueue DEF IInv, LastByteArrives
<1> QED
  BY <1>1, <1>2, <1>3 DEF IInv

LEMMA PlayRecordStopKeepIInv ==
    ASSUME IInv, NEW s \in Sessions,
           \/ \E decoder \in BOOLEAN : IMediaPlayerSession_Play(s, decoder)
           \/ IMediaPlayerSession_PersistentRecord(s)
           \/ \E play, record \in BOOLEAN : IMediaPlayerSession_Stop(s, play, record)
    PROVE  IInv'
<1>1. /\ IsSessionRegistered(s) /\ mController[s] # None
      /\ UNCHANGED <<mSessionList, mCCI, masterCCI, mEasAudioActive,
                     threadEventQueue, lastCCI>>
  BY DEF IMediaPlayerSession_Play, IMediaPlayerSession_PersistentRecord,
         IMediaPlayerSession_Stop
<1> DEFINE c == mController[s]
<1>2. c \in Controllers
  BY <1>1 DEF IInv, TypeOK
<1>3. \E p, r, b \in BOOLEAN :
          mController' = [mController EXCEPT
              ![s] = [c EXCEPT !.playing = p, !.recording = r, !.background = b]]
  <2>1. c.playing \in BOOLEAN /\ c.recording \in BOOLEAN /\ c.background \in BOOLEAN
    BY <1>2 DEF Controllers
  <2>2. /\ [c EXCEPT !.playing = c.playing] = c
        /\ [c EXCEPT !.recording = c.recording] = c
    BY <1>2 DEF Controllers
  <2>3. ASSUME NEW decoder \in BOOLEAN, IMediaPlayerSession_Play(s, decoder)
        PROVE  mController' = [mController EXCEPT
                   ![s] = [c EXCEPT !.playing = TRUE, !.recording = c.recording,
                                    !.background = c.background /\ ~decoder]]
    BY <2>3, <1>2, <1>1 DEF IMediaPlayerSession_Play, IInv, TypeOK, Controllers
  <2>4. ASSUME IMediaPlayerSession_PersistentRecord(s)
        PROVE  mController' = [mController EXCEPT
                   ![s] = [c EXCEPT !.playing = c.playing, !.recording = TRUE,
                                    !.background = c.background \/ ~c.playing]]
    BY <2>4, <1>2, <1>1 DEF IMediaPlayerSession_PersistentRecord, IInv, TypeOK, Controllers
  <2>5. ASSUME NEW play \in BOOLEAN, NEW record \in BOOLEAN,
               IMediaPlayerSession_Stop(s, play, record)
        PROVE  mController' = [mController EXCEPT
                   ![s] = [c EXCEPT !.playing = c.playing /\ ~play,
                                    !.recording = c.recording /\ ~record,
                                    !.background = c.background
                                        \/ (play /\ c.recording /\ ~record)]]
    <3> DEFINE p == c.playing /\ ~play
               r == c.recording /\ ~record
               b == c.background \/ (play /\ c.recording /\ ~record)
    <3>1. mController' = [mController EXCEPT
              ![s] = [c EXCEPT !.recording = r, !.playing = p, !.background = b]]
      BY <2>5, <1>2, <1>1 DEF IMediaPlayerSession_Stop, IInv, TypeOK, Controllers
    <3>2. [c EXCEPT !.recording = r, !.playing = p, !.background = b]
            = [c EXCEPT !.playing = p, !.recording = r, !.background = b]
      <4> HIDE DEF p, r, b
      <4> QED BY <1>2 DEF Controllers
    <3> QED BY <3>1, <3>2
  <2> HIDE DEF c
  <2> QED BY <2>1, <2>3, <2>4, <2>5
<1> HIDE DEF c
<1>4. PICK p, r, b \in BOOLEAN :
          mController' = [mController EXCEPT
              ![s] = [c EXCEPT !.playing = p, !.recording = r, !.background = b]]
  BY <1>3
<1> DEFINE d == [c EXCEPT !.playing = p, !.recording = r, !.background = b]
<1>5. d \in Controllers /\ d.eas = c.eas
  BY <1>2 DEF Controllers
<1>6. mController' = [mController EXCEPT ![s] = d]
  BY <1>4
<1> HIDE DEF d
<1> QED
  BY <1>1, <1>5, <1>6, ControllerCallKeepsIInv DEF c

LEMMA ControllerThreadsKeepIInv ==
    ASSUME IInv, NEW s \in Sessions, ControllerThreads(s)
    PROVE  IInv'
<1>1. ASSUME NEW e \in Events, threadEventQueue' = Append(threadEventQueue, e),
             lastCCI' \in [Sessions -> Emis \cup {None}],
             UNCHANGED <<mSessionList, mController, mCCI, masterCCI, mEasAudioActive>>
      PROVE  TypeOK' /\ EasAudioFlagsAgree'
  <2>1. threadEventQueue' \in Seq(Events)
    BY <1>1, AppendProperties DEF IInv, TypeOK
  <2>2. TypeOK'
    BY <2>1, <1>1 DEF IInv, TypeOK, IsSessionRegistered
  <2>3. EasAudioFlagsAgree'
    BY <1>1 DEF IInv, EasAudioFlagsAgree
  <2> QED BY <2>2, <2>3
<1>2. ASSUME NEW byte \in CABytes, CCIUpdated(s, byte)
      PROVE  IInv'
  <2> DEFINE e == [type |-> "CCIUpdated", session |-> s, cci |-> byte]
  <2>1. byte \in Emis
    BY BytesAssumption
  <2>2. e \in Events
    BY <2>1 DEF Events
  <2>3. /\ threadEventQueue' = Append(threadEventQueue, e)
        /\ lastCCI' = [lastCCI EXCEPT ![s] = byte]
        /\ mController[s] # None
        /\ UNCHANGED <<mSessionList, mController, mCCI, masterCCI, mEasAudioActive>>
    BY <1>2 DEF CCIUpdated, queueEvent
  <2>4. lastCCI' \in [Sessions -> Emis \cup {None}]
    BY <2>1, <2>3 DEF IInv, TypeOK
  <2>5. LastByteArrives'
    BY <2>1, <2>3, ArrivesWithNewByte DEF IInv
  <2> HIDE DEF e
  <2> QED BY <2>2, <2>3, <2>4, <2>5, <1>1 DEF IInv
<1>3. ASSUME NEW e \in Events, e.type # "CCIUpdated",
             threadEventQueue' = Append(threadEventQueue, e),
             UNCHANGED <<mSessionList, mController, mCCI, masterCCI,
                         mEasAudioActive, lastCCI>>
      PROVE  IInv'
  <2>1. lastCCI' \in [Sessions -> Emis \cup {None}]
    BY <1>3 DEF IInv, TypeOK
  <2>2. LastByteArrives'
    BY <1>3, ArrivesWithOtherEvent DEF IInv
  <2> QED BY <2>1, <2>2, <1>1, <1>3 DEF IInv
<1>4. CASE StopInFocusAudioAndStartEasAudio(s)
  <2> DEFINE e == [type |-> "StopPrimAudioAndStartEas", session |-> s]
  <2>1. e \in Events /\ e.type # "CCIUpdated"
    BY DEF Events
  <2>2. threadEventQueue' = Append(threadEventQueue, e)
    BY <1>4 DEF StopInFocusAudioAndStartEasAudio, queueEvent
  <2>3. UNCHANGED <<mSessionList, mController, mCCI, masterCCI, mEasAudioActive, lastCCI>>
    BY <1>4 DEF StopInFocusAudioAndStartEasAudio
  <2> HIDE DEF e
  <2> QED BY <2>1, <2>2, <2>3, <1>3
<1>5. CASE RestartInFocusAudio(s)
  <2> DEFINE e == [type |-> "StartPrimAudio"]
  <2>1. e \in Events /\ e.type # "CCIUpdated"
    BY DEF Events
  <2>2. threadEventQueue' = Append(threadEventQueue, e)
    BY <1>5 DEF RestartInFocusAudio, queueEvent
  <2>3. UNCHANGED <<mSessionList, mController, mCCI, masterCCI, mEasAudioActive, lastCCI>>
    BY <1>5 DEF RestartInFocusAudio
  <2> HIDE DEF e
  <2> QED BY <2>1, <2>2, <2>3, <1>3
<1> QED
  BY <1>2, <1>4, <1>5 DEF ControllerThreads

\* The event thread takes an event: what it does to the sessions is what the
\* last byte needs.
LEMMA EventThreadKeepsIInv ==
    ASSUME IInv, EventThread
    PROVE  IInv'
<1>1. /\ threadEventQueue # <<>> /\ threadEventQueue' = Tail(threadEventQueue)
      /\ UNCHANGED <<mSessionList, lastCCI>>
  BY DEF EventThread, HandleCCIUpdated, ProcessStopInFocusAudioAndStartEasAudio,
         ProcessRestartInFocusAudio, popEventQueue
<1>2. /\ threadEventQueue' \in Seq(Events)
      /\ Head(threadEventQueue) \in Events
  BY <1>1, HeadTailProperties DEF IInv, TypeOK
<1> DEFINE e == Head(threadEventQueue)
<1>3. CASE HandleCCIUpdated
  <2>1. /\ e.type = "CCIUpdated"
        /\ IF IsSessionRegistered(e.session)
             THEN ProcessCCIUpdated(e.session, e.cci, mController)
             ELSE UNCHANGED <<mCCI, masterCCI>>
        /\ UNCHANGED <<mController, mEasAudioActive>>
    BY <1>3 DEF HandleCCIUpdated, popEventQueue
  <2>2. e.session \in Sessions /\ e.cci \in Emis
    BY <2>1, <1>2, EventFields
  <2> HIDE DEF e
  <2>3. /\ mCCI' \in [Sessions -> Emis]
        /\ masterCCI' \in [emi : Emis, soc : BOOLEAN]
        /\ \A t \in Sessions :
              mCCI'[t] = IF t = e.session /\ mController[t] # None THEN e.cci
                         ELSE mCCI[t]
    <3>1. CASE IsSessionRegistered(e.session)
      <4>1. ProcessCCIUpdated(e.session, e.cci, mController)
        BY <3>1, <2>1
      <4> QED BY <4>1, <2>2, ProcessCCIUpdatedType DEF IInv
    <3>2. CASE ~IsSessionRegistered(e.session)
      BY <3>2, <2>1, <2>2 DEF IInv, TypeOK
    <3> QED BY <3>1, <3>2
  <2>4. TypeOK'
    <3>1. \A t \in Sessions : ~IsSessionRegistered(t)' =>
              mController'[t] = None /\ mCCI'[t] = COPY_FREELY
      BY <1>1, <2>1, <2>3 DEF IInv, TypeOK, IsSessionRegistered
    <3> QED BY <3>1, <1>1, <1>2, <2>1, <2>3 DEF IInv, TypeOK
  <2>5. EasAudioFlagsAgree'
    BY <2>1 DEF IInv, EasAudioFlagsAgree
  <2>6. LastByteArrives'
    <3>1. \A t \in Sessions : mController[t] # None =>
              mCCI'[t] = IF e.type = "CCIUpdated" /\ e.session = t THEN e.cci
                         ELSE mCCI[t]
      BY <2>1, <2>3
    <3> QED BY <3>1, <1>1, <2>1, ArrivesWithPop DEF IInv, e
  <2> QED BY <2>4, <2>5, <2>6 DEF IInv
<1>4. ASSUME e.type # "CCIUpdated", UNCHANGED <<mCCI, masterCCI>>,
             mEasAudioActive' \in BOOLEAN,
             mController' \in [Sessions -> Controllers \cup {None}],
             \A t \in Sessions : mController'[t] = None <=> mController[t] = None,
             \A t \in Sessions : mController'[t] # None =>
                 mController'[t].eas = mEasAudioActive'
      PROVE  IInv'
  <2> HIDE DEF e
  <2>1. TypeOK'
    BY <1>1, <1>2, <1>4 DEF IInv, TypeOK, IsSessionRegistered
  <2>2. EasAudioFlagsAgree'
    BY <1>4 DEF EasAudioFlagsAgree
  <2>3. LastByteArrives'
    BY <1>1, <1>4, ArrivesWithPop DEF IInv, e
  <2> QED BY <2>1, <2>2, <2>3 DEF IInv
<1>5. ASSUME NEW active \in BOOLEAN
      PROVE  LET told == WithEasAudio(mController, active)
             IN  /\ told \in [Sessions -> Controllers \cup {None}]
                 /\ \A t \in Sessions : told[t] = None <=> mController[t] = None
                 /\ \A t \in Sessions : told[t] # None => told[t].eas = active
  <2>1. /\ mController \in [Sessions -> Controllers \cup {None}]
        /\ \A t \in Sessions : ~IsSessionRegistered(t) => mController[t] = None
    BY DEF IInv, TypeOK
  <2> QED BY <2>1, EasAudioReachesAll
<1>6. CASE ProcessStopInFocusAudioAndStartEasAudio
  <2>1. e.type # "CCIUpdated" /\ UNCHANGED <<mCCI, masterCCI>>
    BY <1>6 DEF ProcessStopInFocusAudioAndStartEasAudio, popEventQueue
  <2>2. \/ mEasAudioActive' = TRUE /\ mController' = WithEasAudio(mController, TRUE)
        \/ UNCHANGED <<mEasAudioActive, mController>>
    BY <1>6 DEF ProcessStopInFocusAudioAndStartEasAudio
  <2> HIDE DEF e
  <2>3. CASE mEasAudioActive' = TRUE /\ mController' = WithEasAudio(mController, TRUE)
    <3> DEFINE told == WithEasAudio(mController, TRUE)
    <3>1. /\ told \in [Sessions -> Controllers \cup {None}]
          /\ \A t \in Sessions : told[t] = None <=> mController[t] = None
          /\ \A t \in Sessions : told[t] # None => told[t].eas = TRUE
      BY <1>5
    <3>2. mController' = told
      BY <2>3
    <3> HIDE DEF told
    <3> QED BY <3>1, <3>2, <2>1, <2>3, <1>4
  <2>4. CASE UNCHANGED <<mEasAudioActive, mController>>
    BY <2>1, <2>4, <1>4 DEF IInv, TypeOK, EasAudioFlagsAgree
  <2> QED BY <2>2, <2>3, <2>4
<1>7. CASE ProcessRestartInFocusAudio
  <2>1. e.type # "CCIUpdated" /\ UNCHANGED <<mCCI, masterCCI>>
    BY <1>7 DEF ProcessRestartInFocusAudio, popEventQueue
  <2> DEFINE told == WithEasAudio(mController, FALSE)
  <2>2. mEasAudioActive' = FALSE /\ mController' = told
    BY <1>7 DEF ProcessRestartInFocusAudio
  <2> HIDE DEF e
  <2>3. /\ told \in [Sessions -> Controllers \cup {None}]
        /\ \A t \in Sessions : told[t] = None <=> mController[t] = None
        /\ \A t \in Sessions : told[t] # None => told[t].eas = FALSE
    BY <1>5
  <2> HIDE DEF told
  <2> QED BY <2>1, <2>2, <2>3, <1>4
<1> QED
  BY <1>3, <1>6, <1>7 DEF EventThread

LEMMA StutterKeepsIInv ==
    ASSUME IInv, UNCHANGED vars
    PROVE  IInv'
<1>1. TypeOK'
  BY DEF vars, IInv, TypeOK, IsSessionRegistered
<1>2. EasAudioFlagsAgree'
  BY DEF vars, IInv, EasAudioFlagsAgree
<1>3. LastByteArrives'
  BY ArrivesWithSameQueue DEF vars, IInv, LastByteArrives
<1> QED
  BY <1>1, <1>2, <1>3 DEF IInv

\* In every reachable state of the player the invariant holds.
THEOREM IInvHolds == Spec => []IInv
<1>1. Init => IInv
  BY InitIInv
<1>2. IInv /\ [Next]_vars => IInv'
  <2> SUFFICES ASSUME IInv, [Next]_vars
               PROVE  IInv'
    OBVIOUS
  <2>1. ASSUME NEW s \in Sessions, Api(s)
        PROVE  IInv'
    BY <2>1, CreateKeepsIInv, DestroyKeepsIInv, LoadKeepsIInv, EjectKeepsIInv,
       PlayRecordStopKeepIInv DEF Api
  <2>2. ASSUME NEW s \in Sessions, ControllerThreads(s)
        PROVE  IInv'
    BY <2>2, ControllerThreadsKeepIInv
  <2>3. CASE EventThread
    BY <2>3, EventThreadKeepsIInv
  <2>4. CASE UNCHANGED vars
    BY <2>4, StutterKeepsIInv
  <2> QED BY <2>1, <2>2, <2>3, <2>4 DEF Next
<1> QED
  BY <1>1, <1>2, PTL DEF Spec

\* The sessions on the list are different, only they have controllers, and what
\* is on the player's queue are events: the types of IMediaPlayer's state.
THEOREM TypeCorrect == Spec => []TypeOK
<1>1. IInv => TypeOK
  BY DEF IInv
<1> QED
  BY <1>1, IInvHolds, PTL

\* Every controller knows whether EAS audio is active, however many there are
\* and whenever they were made (IMediaPlayer::SetEasAudioActive).
THEOREM FlagsAgree == Spec => []EasAudioFlagsAgree
<1>1. IInv => EasAudioFlagsAgree
  BY DEF IInv
<1> QED
  BY <1>1, IInvHolds, PTL

\* Once no byte for it is pending, a session has the last byte the CA gave
\* since its Load, for any length of the queue and any reuse of addresses
\* (IMediaPlayer::ProcessCCIUpdated).
THEOREM LastByteWins == Spec => []LastCCIWins
<1>1. IInv => LastCCIWins
  BY DEF IInv, LastByteArrives, LastCCIWins
<1> QED
  BY <1>1, IInvHolds, PTL

------------------------------------------------------------------------------
(* What a change of a byte leaves the box at *)

\* ProcessCCIUpdated gives one session the byte, and has updateCCI find the
\* value for the box if that session is in the foreground.
LEMMA ProcessUpdatesTheBox ==
    ASSUME TypeOK, NEW s \in Sessions, NEW byte \in Emis, NEW ctrl,
           ProcessCCIUpdated(s, byte, ctrl),
           NEW t \in Sessions, Foreground(ctrl[t]), mCCI'[t] # mCCI[t]
    PROVE  /\ mCCI' \in [Sessions -> Emis]
           /\ masterCCI' = updateCCI(mSessionList, ctrl, mCCI')
<1>1. ctrl[s] # None /\ mCCI' = [mCCI EXCEPT ![s] = byte]
  BY DEF ProcessCCIUpdated
<1>2. t = s
  BY <1>1 DEF TypeOK
<1>3. masterCCI' = updateCCI(mSessionList, ctrl, mCCI')
  BY <1>1, <1>2 DEF ProcessCCIUpdated
<1> QED
  BY <1>1, <1>3 DEF TypeOK

\* Whatever step changes the byte of a session that is in the foreground after
\* it has the value for the box found again: Load and the callback of the CA
\* do, and Eject leaves the session without a controller.
LEMMA ChangeUpdatesTheBox ==
    ASSUME TypeOK, Next, NEW t \in Sessions,
           IsSessionRegistered(t)', Foreground(mController'[t]), mCCI'[t] # mCCI[t]
    PROVE  /\ UNCHANGED mSessionList
           /\ mCCI' \in [Sessions -> Emis]
           /\ masterCCI' = updateCCI(mSessionList, mController', mCCI')
<1>1. ASSUME NEW s \in Sessions, Api(s)
      PROVE  /\ UNCHANGED mSessionList
             /\ mCCI' \in [Sessions -> Emis]
             /\ masterCCI' = updateCCI(mSessionList, mController', mCCI')
  <2>1. ~UNCHANGED mCCI
    OBVIOUS
  <2>2. CASE IMediaPlayerSession_Create(s)
    BY <2>1, <2>2 DEF IMediaPlayerSession_Create
  <2>3. CASE IMediaPlayerSession_Destroy(s)
    <3>1. mController'[s] = None /\ mCCI' = [mCCI EXCEPT ![s] = COPY_FREELY]
      BY <2>3 DEF IMediaPlayerSession_Destroy, TypeOK
    <3>2. t # s
      BY <3>1 DEF Foreground
    <3> QED BY <3>1, <3>2 DEF TypeOK
  <2>4. ASSUME NEW u \in Urls, LoadInvalidURL(s, u) \/ LoadConflict(s, u)
        PROVE  FALSE
    BY <2>1, <2>4 DEF LoadInvalidURL, LoadConflict
  <2>5. ASSUME NEW u \in Urls, IMediaPlayerSession_Load(s, u)
        PROVE  /\ UNCHANGED mSessionList
               /\ mCCI' \in [Sessions -> Emis]
               /\ masterCCI' = updateCCI(mSessionList, mController', mCCI')
    <3>1. UNCHANGED mSessionList
      BY <2>5 DEF IMediaPlayerSession_Load
    <3>2. PICK byte \in Emis : ProcessCCIUpdated(s, byte, mController')
      BY <2>5 DEF IMediaPlayerSession_Load, Emis, DEFAULT_RESTRICTIVE_CCI
    <3> QED BY <3>1, <3>2, ProcessUpdatesTheBox
  <2>6. CASE IMediaPlayerSession_Eject(s)
    <3>1. mCCI' = [mCCI EXCEPT ![s] = COPY_FREELY]
      BY <2>6 DEF IMediaPlayerSession_Eject
    <3>2. PICK ctrl \in {mController, WithEasAudio(mController, FALSE)} :
            mController' = [ctrl EXCEPT ![s] = None]
      BY <2>6 DEF IMediaPlayerSession_Eject
    <3>3. mController'[s] = None
      BY <3>2 DEF TypeOK, WithEasAudio
    <3>4. t # s
      BY <3>3 DEF Foreground
    <3> QED BY <3>1, <3>4 DEF TypeOK
  <2>7. ASSUME NEW decoder \in BOOLEAN, IMediaPlayerSession_Play(s, decoder)
        PROVE  FALSE
    BY <2>1, <2>7 DEF IMediaPlayerSession_Play
  <2>8. CASE IMediaPlayerSession_PersistentRecord(s)
    BY <2>1, <2>8 DEF IMediaPlayerSession_PersistentRecord
  <2>9. ASSUME NEW play \in BOOLEAN, NEW record \in BOOLEAN,
               IMediaPlayerSession_Stop(s, play, record)
        PROVE  FALSE
    BY <2>1, <2>9 DEF IMediaPlayerSession_Stop
  <2> QED
    BY <1>1, <2>2, <2>3, <2>4, <2>5, <2>6, <2>7, <2>8, <2>9 DEF Api
<1>2. ASSUME NEW s \in Sessions, ControllerThreads(s)
      PROVE  FALSE
  BY <1>2 DEF ControllerThreads, CCIUpdated, StopInFocusAudioAndStartEasAudio,
              RestartInFocusAudio
<1>3. CASE EventThread
  <2>1. HandleCCIUpdated
    BY <1>3 DEF EventThread, ProcessStopInFocusAudioAndStartEasAudio,
                ProcessRestartInFocusAudio
  <2>2. PICK e \in Events :
          /\ e.type = "CCIUpdated"
          /\ ProcessCCIUpdated(e.session, e.cci, mController)
    <3>1. Head(threadEventQueue) \in Events
      BY <2>1, HeadTailProperties DEF HandleCCIUpdated, popEventQueue, TypeOK
    <3> QED BY <2>1, <3>1 DEF HandleCCIUpdated, popEventQueue
  <2>3. UNCHANGED <<mSessionList, mController>>
    BY <2>1 DEF HandleCCIUpdated
  <2>4. e.session \in Sessions /\ e.cci \in Emis
    BY <2>2, EventFields
  <2> QED BY <2>2, <2>3, <2>4, ProcessUpdatesTheBox
<1> QED
  BY <1>1, <1>2, <1>3 DEF Next

\* A byte that changes a session in the foreground leaves the box restricted,
\* and with SOC, if any session in the foreground asks for it, for any number
\* of sessions in any order (IMediaPlayer::updateCCI).
THEOREM ChangesKeepTheBoxRestricted == Spec => ChangeKeepsTheBoxRestricted
<1> DEFINE Restricted ==
      \A s \in ForegroundSessions' :
         mCCI'[s] # mCCI[s] =>
            \A t \in ForegroundSessions' :
                /\ mCCI'[t] # COPY_FREELY => masterCCI'.emi # COPY_FREELY
                /\ mCCI'[t] = COPY_NO_MORE => masterCCI'.soc
<1>1. IInv /\ [Next]_vars => [Restricted]_vars
  <2> SUFFICES ASSUME IInv, Next,
                      NEW s \in ForegroundSessions', mCCI'[s] # mCCI[s],
                      NEW t \in ForegroundSessions'
               PROVE  /\ mCCI'[t] # COPY_FREELY => masterCCI'.emi # COPY_FREELY
                      /\ mCCI'[t] = COPY_NO_MORE => masterCCI'.soc
    OBVIOUS
  <2>1. /\ s \in Sessions /\ IsSessionRegistered(s)' /\ Foreground(mController'[s])
        /\ t \in Sessions /\ t \in Range(mSessionList)' /\ Foreground(mController'[t])
    BY DEF ForegroundSessions, Foreground, IsSessionRegistered
  <2>2. /\ UNCHANGED mSessionList
        /\ mCCI' \in [Sessions -> Emis]
        /\ masterCCI' = updateCCI(mSessionList, mController', mCCI')
    BY <2>1, ChangeUpdatesTheBox DEF IInv
  <2>3. t \in Range(mSessionList) /\ mSessionList \in Seq(Sessions)
    BY <2>1, <2>2 DEF IInv, TypeOK
  <2>4. /\ mCCI'[t] # COPY_FREELY =>
             updateCCI(mSessionList, mController', mCCI').emi # COPY_FREELY
        /\ mCCI'[t] = COPY_NO_MORE => updateCCI(mSessionList, mController', mCCI').soc
    BY <2>1, <2>2, <2>3, UpdateRestricts
  <2> QED BY <2>2, <2>4
<1> QED
  BY <1>1, IInvHolds, PTL DEF Spec, ChangeKeepsTheBoxRestricted

------------------------------------------------------------------------------
(* The controllers of an IP client *)

\* MCPlayers composes these steps with those of the gateway's player.
IpSpec == IpInit /\ [][IpNext]_ipVars

IpEvents == FromSource \cup FromPpv \cup
              {"Play", "Lang", "Retry", "RTTRetry", "Revoked", "DeAuthorized", "Authorized", "Exit"}

EventSet == [e : IpEvents, n : Nat]

\* The records have their fields; sources are counted.
IpTypeOK ==
    /\ DOMAIN ip = {"isMrdvr", "mState", "mSessionState", "mIsVodPlay", "kind", "source", "num",
                    "pos", "open", "sse", "rtt", "rttCalls", "busy", "retried", "played",
                    "waits", "asked", "sought", "left"}
    /\ DOMAIN http = {"kind", "num", "pendingPause", "pendingPlay", "pendingSetSpeed",
                      "pendingSetPosition", "pmt", "hasAudioPid", "ppv", "dead", "off"}
    /\ DOMAIN cg = {"st", "rate", "pos", "due", "tables", "frame", "pids", "sound", "relit"}
    /\ ip.source \in Nat
    /\ ip.busy \in {"no", "load", "eject", "exited", "gone"}
    /\ ipq \in Seq(EventSet)

\* What a source reported is handled for that source.
OfTheSource ==
    \A v \in Range(ipq) : v.e \in FromSource =>
        v.n = ip.source \/ ip.retried \/ ip.busy = "gone"

Queued(e) == \E v \in Range(ipq) : v.e = e

\* A queue in which nothing of the PPV manager comes behind a Play.
PpvFirst(q) ==
    \A i, j \in 1 .. Len(q) : i < j /\ q[i].e = "Play" => q[j].e \notin FromPpv

\* What is loaded, and what is not: a controller without a source has nothing
\* queued, and one whose source is being replaced nothing of the source.
LoadOK ==
    /\ ip.busy = "load" => /\ cg = NoSession
                           /\ ip.mState \in {"Idle", "Stop"}
                           /\ ~ip.waits
                           /\ \A v \in Range(ipq) : v.e \notin FromSource \cup {"Play"}
    /\ ip.source = 0 =>
          /\ ip.busy # "load" /\ cg = NoSession
          /\ ip.busy # "gone" =>
               /\ ip.mState \in {"Idle", "Stop"} /\ http.ppv = "Idle" /\ http.kind = "live"
               /\ ~http.dead /\ ~ip.mIsVodPlay
               /\ ~ip.sse /\ ~ip.rtt /\ ~ip.rttCalls /\ ~ip.open
               /\ \A v \in Range(ipq) : v.e \in {"Play", "Exit"}

\* Of which kind the source is.
KindOK ==
    /\ ip.busy \in {"no", "eject", "exited"} => http.kind = ip.kind
    /\ http.ppv # "Idle" => http.kind = "ppv"
    /\ ip.isMrdvr => ip.kind \in {"live", "recording"} /\ http.kind \in {"live", "recording"}
    /\ http.kind = "ppv" /\ http.ppv \in {"Idle", "Loading"} => cg.st = "none"

\* A controller's own source told nothing of PPV unless it is one for PPV.
PpvOK ==
    \/ ip.kind = "ppv"
    \/ /\ PpvFirst(ipq)
       /\ \A v \in Range(ipq) : v.e \in FromPpv => cg.st # "playing" /\ ~ip.isMrdvr

\* A stream that is not there has nothing to report, and no sound.
CgOK ==
    /\ cg.st = "none" => cg = NoSession
    /\ cg.tables # {} => cg.st = "playing" \/ http.dead
    /\ cg.frame => cg.pids
    /\ cg.sound \/ cg.pids => cg.st # "none" /\ http.hasAudioPid

\* The speed that CGMI has been asked for is the one the source believes in,
\* and is the only one it has still to report.
SpeedOK ==
    ~http.off /\ cg.st # "none" =>
        /\ cg.due = <<>> \/ cg.due = <<cg.rate>>
        /\ cg.due = <<>> => ~Pending
        /\ http.pendingPause => cg.rate = 0
        /\ http.pendingPlay => cg.rate # 0
        /\ http.num = cg.rate

\* A request that was accepted has been passed on, or is kept by the source, or
\* waits in the queue.
RequestsOK ==
    /\ ip.asked \/ ip.sought => ip.mState = "Rendering" /\ ~ip.mIsVodPlay /\ cg.st # "none"
    /\ ip.asked /\ ~http.off => \/ ip.num = http.num
                                \/ http.pendingSetSpeed /\ Pending
                                \/ Queued("PendingSpeed")
    /\ ip.sought => \/ cg.pos = ip.pos
                    \/ http.pendingSetPosition /\ Pending
                    \/ Queued("PendingPosition")

\* Whom Play's answer is owed by.
AnswerComes ==
    \/ Queued("Play") \/ Queued("Problem") \/ Queued("FirstFrame")
    \/ cg.st = "playing" /\ ("PSI" \in cg.tables \/ Queued("PSIReady") \/ cg.frame)

PlayOK ==
    ip.waits /\ ~http.dead /\ ip.kind # "ppv" /\ ip.busy = "no" =>
        /\ AnswerComes
        /\ ip.mSessionState = "DeAuthorized" /\ ~ip.isMrdvr => Queued("Play")

IpIInv == /\ IpTypeOK /\ LoadOK /\ KindOK /\ PpvOK /\ CgOK
        /\ OfTheSource /\ GatewaySessionsAreClosed /\ SoundFollowsTheAlert
        /\ SpeedOK /\ RequestsOK /\ PlayOK

------------------------------------------------------------------------------
(* The queue *)

LEMMA QEmpty == Range(<<>>) = {} /\ PpvFirst(<<>>) /\ <<>> \in Seq(EventSet)
BY EmptySeq DEF Range, PpvFirst

LEMMA QTail ==
    ASSUME NEW q \in Seq(EventSet), q # <<>>
    PROVE  /\ Head(q) \in EventSet /\ Head(q) \in Range(q)
           /\ Tail(q) \in Seq(EventSet)
           /\ \A v \in Range(Tail(q)) : v \in Range(q)
           /\ \A v \in Range(q) : v = Head(q) \/ v \in Range(Tail(q))
           /\ PpvFirst(q) => PpvFirst(Tail(q))
           /\ PpvFirst(q) /\ Head(q).e = "Play" =>
                 \A v \in Range(Tail(q)) : v.e \notin FromPpv
<1> DEFINE n == Len(q)
           r == Tail(q)
<1>1. n \in Nat \ {0}
  BY EmptySeq
<1>2. /\ Head(q) = q[1] /\ Head(q) \in EventSet
      /\ r \in Seq(EventSet) /\ Len(r) = n - 1
      /\ \A i \in 1 .. n - 1 : r[i] = q[i + 1]
  BY HeadTailProperties
<1>3. /\ Range(q) = {q[i] : i \in 1 .. n}
      /\ Range(r) = {r[i] : i \in 1 .. n - 1}
  BY <1>2, RangeEquality, ZenonT(40)
<1>4. PpvFirst(q) <=> \A i, j \in 1 .. n : i < j /\ q[i].e = "Play" => q[j].e \notin FromPpv
  BY DEF PpvFirst
<1>5. PpvFirst(r) <=> \A i, j \in 1 .. n - 1 : i < j /\ r[i].e = "Play" => r[j].e \notin FromPpv
  BY <1>2 DEF PpvFirst
<1> HIDE DEF n, r
<1>6. \A i \in 1 .. n - 1 : i + 1 \in 1 .. n /\ 1 < i + 1
  BY <1>1
<1>7. 1 \in 1 .. n /\ \A i \in 1 .. n : i # 1 => i - 1 \in 1 .. n - 1 /\ (i - 1) + 1 = i
  BY <1>1
<1>8. \A v \in Range(r) : v \in Range(q)
  <2> TAKE v \in Range(r)
  <2>1. PICK i \in 1 .. n - 1 : v = r[i]
    BY <1>3
  <2> QED
    BY <1>2, <1>3, <1>6, <2>1
<1>9. \A v \in Range(q) : v = Head(q) \/ v \in Range(r)
  <2> TAKE v \in Range(q)
  <2>1. PICK i \in 1 .. n : v = q[i]
    BY <1>3
  <2>2. CASE i # 1
    <3>1. i - 1 \in 1 .. n - 1 /\ r[i - 1] = v
      BY <1>2, <1>7, <2>1, <2>2
    <3> QED
      BY <1>3, <3>1
  <2> QED
    BY <1>2, <2>1, <2>2
<1>10. ASSUME PpvFirst(q) PROVE PpvFirst(r)
  <2>1. ASSUME NEW i \in 1 .. n - 1, NEW j \in 1 .. n - 1, i < j, r[i].e = "Play"
        PROVE  r[j].e \notin FromPpv
    <3>1. i + 1 < j + 1 /\ q[i + 1].e = "Play" /\ r[j] = q[j + 1]
      BY <1>1, <1>2, <2>1
    <3> QED
      BY <1>4, <1>6, <1>10, <3>1
  <2> QED
    BY <1>5, <2>1
<1>11. ASSUME PpvFirst(q), Head(q).e = "Play", NEW v \in Range(r)
       PROVE  v.e \notin FromPpv
  <2>1. PICK i \in 1 .. n - 1 : v = r[i]
    BY <1>3
  <2> QED
    BY <1>2, <1>4, <1>6, <1>7, <1>11, <2>1
<1> QED
  BY <1>2, <1>3, <1>7, <1>8, <1>9, <1>10, <1>11 DEF r

LEMMA QAppend ==
    ASSUME NEW q \in Seq(EventSet), NEW v \in EventSet
    PROVE  /\ Append(q, v) \in Seq(EventSet)
           /\ \A u : u \in Range(Append(q, v)) <=> u = v \/ u \in Range(q)
           /\ PpvFirst(q) /\ (v.e \in FromPpv => \A u \in Range(q) : u.e # "Play") =>
                 PpvFirst(Append(q, v))
<1> DEFINE n == Len(q)
           r == Append(q, v)
<1>1. n \in Nat
  BY LenProperties
<1>2. /\ r \in Seq(EventSet) /\ Len(r) = n + 1
      /\ \A i \in 1 .. n : r[i] = q[i]
      /\ r[n + 1] = v
  BY AppendProperties
<1>3. /\ Range(q) = {q[i] : i \in 1 .. n}
      /\ Range(r) = {r[i] : i \in 1 .. n + 1}
  BY <1>2, RangeEquality
<1>4. PpvFirst(q) <=> \A i, j \in 1 .. n : i < j /\ q[i].e = "Play" => q[j].e \notin FromPpv
  BY DEF PpvFirst
<1>5. PpvFirst(r) <=> \A i, j \in 1 .. n + 1 : i < j /\ r[i].e = "Play" => r[j].e \notin FromPpv
  BY <1>2 DEF PpvFirst
<1> HIDE DEF n, r
<1>6. \A i : i \in 1 .. n + 1 <=> i \in 1 .. n \/ i = n + 1
  BY <1>1
<1>7. \A u : u \in Range(r) <=> u = v \/ u \in Range(q)
  BY <1>2, <1>3, <1>6
<1>8. ASSUME PpvFirst(q), v.e \in FromPpv => \A u \in Range(q) : u.e # "Play"
      PROVE  PpvFirst(r)
  <2>1. ASSUME NEW i \in 1 .. n + 1, NEW j \in 1 .. n + 1, i < j, r[i].e = "Play"
        PROVE  r[j].e \notin FromPpv
    <3>1. i \in 1 .. n
      BY <1>1, <2>1
    <3>2. r[i] = q[i] /\ q[i] \in Range(q)
      BY <1>2, <1>3, <3>1
    <3>3. CASE j \in 1 .. n
      BY <1>2, <1>4, <1>8, <2>1, <3>1, <3>2, <3>3
    <3>4. CASE j = n + 1
      BY <1>2, <1>8, <2>1, <3>2, <3>4
    <3> QED
      BY <1>6, <3>3, <3>4
  <2> QED
    BY <1>5, <2>1
<1> QED
  BY <1>2, <1>7, <1>8 DEF r

LEMMA QConcat ==
    ASSUME NEW q \in Seq(EventSet), NEW s \in Seq(EventSet), \A v \in Range(s) : v.e \notin FromPpv
    PROVE  /\ q \o s \in Seq(EventSet)
           /\ \A v : v \in Range(q \o s) <=> v \in Range(q) \/ v \in Range(s)
           /\ PpvFirst(q) => PpvFirst(q \o s)
<1> DEFINE n == Len(q)
           m == Len(s)
           r == q \o s
<1>1. n \in Nat /\ m \in Nat
  BY LenProperties
<1>2. /\ r \in Seq(EventSet) /\ Len(r) = n + m
      /\ \A i \in 1 .. n + m : r[i] = IF i <= n THEN q[i] ELSE s[i - n]
  BY ConcatProperties
<1>3. Range(r) = Range(q) \cup Range(s)
  BY RangeConcatenation
<1>4. PpvFirst(q) <=> \A i, j \in 1 .. n : i < j /\ q[i].e = "Play" => q[j].e \notin FromPpv
  BY DEF PpvFirst
<1>5. PpvFirst(r) <=> \A i, j \in 1 .. n + m : i < j /\ r[i].e = "Play" => r[j].e \notin FromPpv
  BY <1>2 DEF PpvFirst
<1>6. Range(s) = {s[i] : i \in 1 .. m}
  BY RangeEquality
<1> HIDE DEF n, m, r
<1>7. ASSUME PpvFirst(q) PROVE PpvFirst(r)
  <2>1. ASSUME NEW i \in 1 .. n + m, NEW j \in 1 .. n + m, i < j, r[i].e = "Play"
        PROVE  r[j].e \notin FromPpv
    <3>1. CASE j <= n
      <4>1. i \in 1 .. n /\ j \in 1 .. n /\ i <= n
        BY <1>1, <2>1, <3>1
      <4>2. r[i] = q[i] /\ r[j] = q[j]
        BY <1>2, <2>1, <3>1, <4>1
      <4> QED
        BY <1>4, <1>7, <2>1, <4>1, <4>2
    <3>2. CASE j > n
      <4>1. j - n \in 1 .. m /\ ~(j <= n)
        BY <1>1, <3>2
      <4>2. r[j] = s[j - n] /\ s[j - n] \in Range(s)
        BY <1>2, <1>6, <4>1
      <4> QED
        BY <4>2
    <3> QED
      BY <1>1, <3>1, <3>2
  <2> QED
    BY <1>5, <2>1
<1> QED
  BY <1>2, <1>3, <1>7 DEF r

LEMMA QOne ==
    ASSUME NEW v \in EventSet
    PROVE  <<v>> \in Seq(EventSet) /\ \A u : u \in Range(<<v>>) <=> u = v
BY RangeEquality DEF Range

LEMMA AppendEv ==
    ASSUME NEW q \in Seq(EventSet), NEW v \in EventSet
    PROVE  q \o <<>> = q /\ q \o <<v>> = Append(q, v)
BY ConcatEmptySeq, AppendIsConcat

LEMMA EventIsOfTheSource ==
    ASSUME IpTypeOK, NEW e \in IpEvents
    PROVE  Ev(e) \in EventSet /\ Ev(e).e = e /\ Ev(e).n = ip.source
BY DEF IpTypeOK, EventSet, Ev

\* What a step does to the queue, as the invariants see it.
LEMMA Put ==
    ASSUME IpTypeOK, NEW e \in IpEvents, ipq' = Append(ipq, Ev(e))
    PROVE  /\ ipq' \in Seq(EventSet)
           /\ \A v \in Range(ipq') : v \in Range(ipq) \/ (v.e = e /\ v.n = ip.source)
           /\ \A v \in Range(ipq) : v \in Range(ipq')
           /\ \E v \in Range(ipq') : v.e = e
           /\ PpvFirst(ipq) /\ (e \in FromPpv => ~Queued("Play")) => PpvFirst(ipq')
<1>1. ipq \in Seq(EventSet)
  BY DEF IpTypeOK
<1>2. Ev(e) \in EventSet /\ Ev(e).e = e /\ Ev(e).n = ip.source
  BY EventIsOfTheSource
<1>3. /\ ipq' \in Seq(EventSet)
      /\ \A u : u \in Range(ipq') <=> u = Ev(e) \/ u \in Range(ipq)
      /\ PpvFirst(ipq) /\ (Ev(e).e \in FromPpv => \A u \in Range(ipq) : u.e # "Play") =>
            PpvFirst(ipq')
  BY <1>1, <1>2, QAppend
<1>4. Ev(e) \in Range(ipq')
  BY <1>3
<1>5. ~Queued("Play") => \A u \in Range(ipq) : u.e # "Play"
  BY DEF Queued
<1>6. PpvFirst(ipq) /\ (e \in FromPpv => ~Queued("Play")) => PpvFirst(ipq')
  BY <1>2, <1>3, <1>5
<1>7. ASSUME NEW v \in Range(ipq') PROVE v \in Range(ipq) \/ (v.e = e /\ v.n = ip.source)
  <2>1. CASE v = Ev(e)
    BY <1>2, <2>1
  <2>2. CASE v \in Range(ipq)
    BY <2>2
  <2> QED
    BY <1>3, <1>7, <2>1, <2>2
<1> QED
  BY <1>3, <1>4, <1>2, <1>6, <1>7

LEMMA PutOther ==
    ASSUME IpTypeOK, NEW e \in IpEvents \ FromPpv, ipq' = Append(ipq, Ev(e))
    PROVE  /\ ipq' \in Seq(EventSet)
           /\ \A v \in Range(ipq') : v \in Range(ipq) \/ (v.e = e /\ v.n = ip.source)
           /\ \A v \in Range(ipq) : v \in Range(ipq')
           /\ \E v \in Range(ipq') : v.e = e
           /\ PpvFirst(ipq) => PpvFirst(ipq')
BY Put

LEMMA Pop ==
    ASSUME IpTypeOK, ipq # <<>>, ipq' = Tail(ipq)
    PROVE  /\ ipq' \in Seq(EventSet)
           /\ Head(ipq) \in Range(ipq)
           /\ \A v \in Range(ipq') : v \in Range(ipq)
           /\ \A v \in Range(ipq) : v = Head(ipq) \/ v \in Range(ipq')
           /\ PpvFirst(ipq) => PpvFirst(ipq')
           /\ PpvFirst(ipq) /\ Head(ipq).e = "Play" => \A v \in Range(ipq') : v.e \notin FromPpv
BY QTail DEF IpTypeOK

LEMMA PopPut ==
    ASSUME IpTypeOK, ipq # <<>>, NEW e \in IpEvents \ FromPpv, ipq' = Append(Tail(ipq), Ev(e))
    PROVE  /\ ipq' \in Seq(EventSet)
           /\ Head(ipq) \in Range(ipq)
           /\ \A v \in Range(ipq') : v \in Range(ipq) \/ (v.e = e /\ v.n = ip.source)
           /\ \A v \in Range(ipq) : v = Head(ipq) \/ v \in Range(ipq')
           /\ \E v \in Range(ipq') : v.e = e
           /\ PpvFirst(ipq) => PpvFirst(ipq')
<1>1. ipq \in Seq(EventSet)
  BY DEF IpTypeOK
<1>2. Ev(e) \in EventSet /\ Ev(e).e = e /\ Ev(e).n = ip.source
  BY EventIsOfTheSource
<1>3. /\ Tail(ipq) \in Seq(EventSet)
      /\ Head(ipq) \in Range(ipq)
      /\ \A v \in Range(Tail(ipq)) : v \in Range(ipq)
      /\ \A v \in Range(ipq) : v = Head(ipq) \/ v \in Range(Tail(ipq))
      /\ PpvFirst(ipq) => PpvFirst(Tail(ipq))
  BY <1>1, QTail
<1>4. /\ ipq' \in Seq(EventSet)
      /\ \A u : u \in Range(ipq') <=> u = Ev(e) \/ u \in Range(Tail(ipq))
      /\ PpvFirst(Tail(ipq)) => PpvFirst(ipq')
  BY <1>2, <1>3, QAppend
<1>5. Ev(e) \in Range(ipq')
  BY <1>4
<1>6. ASSUME NEW v \in Range(ipq') PROVE v \in Range(ipq) \/ (v.e = e /\ v.n = ip.source)
  <2>1. CASE v = Ev(e)
    BY <1>2, <2>1
  <2>2. CASE v \in Range(Tail(ipq))
    BY <1>3, <2>2
  <2> QED
    BY <1>4, <1>6, <2>1, <2>2
<1>7. \A v \in Range(ipq) : v = Head(ipq) \/ v \in Range(ipq')
  BY <1>3, <1>4
<1> QED
  BY <1>2, <1>3, <1>4, <1>5, <1>6, <1>7

\* A request that was kept is handled: what else is queued stays.
KeepsAllBut(e) ==
    /\ ipq' \in Seq(EventSet)
    /\ \A v \in Range(ipq') : v \in Range(ipq)
    /\ \A v \in Range(ipq) : v.e = e \/ v \in Range(ipq')
    /\ PpvFirst(ipq) => PpvFirst(ipq')

LEMMA KeptOrHandled ==
    ASSUME IpTypeOK, NEW e, ipq' = ipq \/ (IpPopped(e) /\ ipq' = Tail(ipq))
    PROVE  KeepsAllBut(e)
<1>1. CASE ipq' = ipq
  BY <1>1 DEF KeepsAllBut, IpTypeOK
<1>2. CASE IpPopped(e) /\ ipq' = Tail(ipq)
  BY <1>2, Pop DEF KeepsAllBut, IpPopped
<1> QED
  BY <1>1, <1>2

------------------------------------------------------------------------------
(* The actions *)

USE DEF IpIInv, IpTypeOK, NoSession, FromSource, FromPpv, PpvStates, Pending, Queued, AnswerComes

\* Loading.
LEMMA LoadStopsIInv ==
    ASSUME IpIInv,
           NEW kind \in IpKinds, kind = "recording" <=> ip.isMrdvr, LoadStops(kind)
    PROVE  IpIInv'
<1> USE DEF LoadStops, IpCall, Told, FlushedByLoad
<1>1. ipq' = <<>> /\ Range(ipq') = {} /\ PpvFirst(ipq') /\ ipq' \in Seq(EventSet)
  BY QEmpty
<1>2. IpTypeOK' BY <1>1
<1>3. LoadOK' BY <1>1 DEF LoadOK
<1>4. KindOK' BY <1>1 DEF KindOK, LoadOK
<1>5. PpvOK' BY <1>1 DEF PpvOK, KindOK, LoadOK, CgOK
<1>6. CgOK' BY <1>1 DEF CgOK, LoadOK
<1>7. OfTheSource' BY <1>1 DEF OfTheSource, LoadOK
<1>8. GatewaySessionsAreClosed' BY <1>1 DEF GatewaySessionsAreClosed, LoadOK
<1>9. SoundFollowsTheAlert' BY <1>1 DEF SoundFollowsTheAlert, CgOK, LoadOK, EasAudioActive
<1>10. SpeedOK' BY <1>1 DEF SpeedOK, CgOK, LoadOK
<1>11. RequestsOK' BY <1>1 DEF RequestsOK, SpeedOK, CgOK, LoadOK, KindOK
<1>12. PlayOK' BY <1>1 DEF PlayOK, PpvOK, CgOK, LoadOK, KindOK
<1> QED BY <1>2, <1>3, <1>4, <1>5, <1>6, <1>7, <1>8, <1>9, <1>10, <1>11, <1>12

LEMMA FirstLoadIInv ==
    ASSUME IpIInv,
           NEW kind \in IpKinds, kind = "recording" <=> ip.isMrdvr, NEW ok \in BOOLEAN,
           ip.busy = "no", ip.mState \in {"Idle", "Stop"}, ip.source = 0,
           LET i == [ip EXCEPT !.mIsVodPlay = (kind = "vod"), !.kind = kind]
           IN  ip' = WithSource(i, ok) /\ cg' = LoadedSession(i, ok),
           http' = NewHttpSource(kind), UNCHANGED <<ipq, alert>>
    PROVE  IpIInv'
<1> USE DEF WithSource, Loads, LoadedSession, NewHttpSource, Created, Told
<1>1. ipq' = ipq /\ Range(ipq') = Range(ipq) /\ PpvFirst(ipq') = PpvFirst(ipq)
  OBVIOUS
<1>2. ip'.kind = kind /\ ip'.isMrdvr = ip.isMrdvr /\ ip'.busy = "no" /\ ip'.source = 1 OBVIOUS
<1>3. http'.kind = kind /\ http'.ppv = "Idle" /\ (kind = "ppv" => cg' = NoSession) OBVIOUS
<1>4. (ip'.waits => ip.waits) /\ ip'.mSessionState = ip.mSessionState OBVIOUS
<1>5. ~ip'.asked /\ ~ip'.sought /\ ip'.mState \in {"Idle", "Stop"} /\ ~ip'.open BY DEF LoadOK
<1>6. cg' \in {NoSession, Created} OBVIOUS
<1>7. IpTypeOK' BY <1>1, <1>2, <1>3, <1>4, <1>5, <1>6
<1>8. LoadOK' BY <1>1, <1>2, <1>3, <1>4, <1>5, <1>6 DEF LoadOK
<1>9. KindOK' BY <1>2, <1>3, <1>6 DEF KindOK
<1>10. PpvOK' BY <1>1, <1>2, <1>3, <1>4, <1>5, <1>6 DEF PpvOK, KindOK, LoadOK, CgOK
<1>11. CgOK' BY <1>1, <1>2, <1>3, <1>4, <1>5, <1>6 DEF CgOK, LoadOK
<1>12. OfTheSource' BY <1>1, <1>2, <1>3, <1>4, <1>5, <1>6 DEF OfTheSource, LoadOK
<1>13. GatewaySessionsAreClosed'
  BY <1>1, <1>2, <1>3, <1>4, <1>5, <1>6 DEF GatewaySessionsAreClosed, LoadOK
<1>14. SoundFollowsTheAlert'
  BY <1>1, <1>2, <1>3, <1>4, <1>5, <1>6 DEF SoundFollowsTheAlert, CgOK, LoadOK,
      EasAudioActive
<1>15. SpeedOK' BY <1>1, <1>2, <1>3, <1>4, <1>5, <1>6 DEF SpeedOK, CgOK, LoadOK
<1>16. RequestsOK'
  BY <1>1, <1>2, <1>3, <1>4, <1>5, <1>6 DEF RequestsOK, SpeedOK, CgOK, LoadOK,
      KindOK
<1>17. PlayOK' BY <1>1, <1>2, <1>3, <1>4 DEF PlayOK, LoadOK, KindOK
<1> QED BY <1>7, <1>8, <1>9, <1>10, <1>11, <1>12, <1>13, <1>14, <1>15, <1>16, <1>17

LEMMA LoadReplacesIInv ==
    ASSUME IpIInv,
           LoadReplaces
    PROVE  IpIInv'
<1> USE DEF LoadReplaces, WithSource, Loads, LoadedSession, NewHttpSource, Created, Told
<1>1. ipq' = ipq /\ Range(ipq') = Range(ipq) /\ PpvFirst(ipq') = PpvFirst(ipq)
  OBVIOUS
<1>2. IpTypeOK' BY <1>1
<1>3. LoadOK' BY <1>1 DEF LoadOK
<1>4. KindOK' BY <1>1 DEF KindOK, LoadOK
<1>5. PpvOK' BY <1>1 DEF PpvOK, KindOK, LoadOK, CgOK
<1>6. CgOK' BY <1>1 DEF CgOK, LoadOK
<1>7. OfTheSource' BY <1>1 DEF OfTheSource, LoadOK
<1>8. GatewaySessionsAreClosed' BY <1>1 DEF GatewaySessionsAreClosed, LoadOK
<1>9. SoundFollowsTheAlert' BY <1>1 DEF SoundFollowsTheAlert, CgOK, LoadOK, EasAudioActive
<1>10. SpeedOK' BY <1>1 DEF SpeedOK, CgOK, LoadOK
<1>11. RequestsOK' BY <1>1 DEF RequestsOK, SpeedOK, CgOK, LoadOK, KindOK
<1>12. PlayOK' BY <1>1 DEF PlayOK, PpvOK, CgOK, LoadOK, KindOK
<1> QED BY <1>2, <1>3, <1>4, <1>5, <1>6, <1>7, <1>8, <1>9, <1>10, <1>11, <1>12

\* Playing, stopping, ejecting.
LEMMA PlayStreamIInv ==
    ASSUME IpIInv,
           ip.busy = "no", ip.mState = "Stop", UNCHANGED alert, ~ip.isMrdvr, PlayStream,
           UNCHANGED <<http, cg>>
    PROVE  IpIInv'
<1> USE DEF PlayStream
<1>1. ipq' = Append(ipq, Ev("Play"))
  OBVIOUS
<1>2. /\ ipq' \in Seq(EventSet)
      /\ \A v \in Range(ipq') : v \in Range(ipq) \/ (v.e = "Play" /\ v.n = ip.source)
      /\ \A v \in Range(ipq) : v \in Range(ipq')
      /\ \E v \in Range(ipq') : v.e = "Play"
      /\ PpvFirst(ipq) => PpvFirst(ipq')
  BY <1>1, PutOther DEF IpEvents
<1>3. IpTypeOK' BY <1>1, <1>2
<1>4. LoadOK' BY <1>1, <1>2 DEF LoadOK
<1>5. KindOK' BY <1>1, <1>2 DEF KindOK, LoadOK
<1>6. PpvOK' BY <1>1, <1>2 DEF PpvOK, KindOK, LoadOK, CgOK
<1>7. CgOK' BY <1>1, <1>2 DEF CgOK, LoadOK
<1>8. OfTheSource' BY <1>1, <1>2 DEF OfTheSource, LoadOK
<1>9. GatewaySessionsAreClosed' BY <1>1, <1>2 DEF GatewaySessionsAreClosed, LoadOK
<1>10. SoundFollowsTheAlert'
  BY <1>1, <1>2 DEF SoundFollowsTheAlert, CgOK, LoadOK, EasAudioActive
<1>11. SpeedOK' BY <1>1, <1>2 DEF SpeedOK, CgOK, LoadOK
<1>12. RequestsOK' BY <1>1, <1>2 DEF RequestsOK, SpeedOK, CgOK, LoadOK, KindOK
<1>13. PlayOK' BY <1>1, <1>2 DEF PlayOK, PpvOK, CgOK, LoadOK, KindOK
<1> QED BY <1>3, <1>4, <1>5, <1>6, <1>7, <1>8, <1>9, <1>10, <1>11, <1>12, <1>13

LEMMA PlayFilmStartsIInv ==
    ASSUME IpIInv,
           ip.busy = "no", ip.mState = "Stop", UNCHANGED alert, ~ip.isMrdvr, ip.mIsVodPlay,
           ip' = [ip EXCEPT !.open = TRUE, !.left = @ \/ ip.open, !.played = TRUE,
                            !.waits = TRUE],
           ipq' = Append(ipq, Ev("Play")), UNCHANGED <<http, cg>>
    PROVE  IpIInv'
<1>1. ipq' = Append(ipq, Ev("Play"))
  OBVIOUS
<1>2. /\ ipq' \in Seq(EventSet)
      /\ \A v \in Range(ipq') : v \in Range(ipq) \/ (v.e = "Play" /\ v.n = ip.source)
      /\ \A v \in Range(ipq) : v \in Range(ipq')
      /\ \E v \in Range(ipq') : v.e = "Play"
      /\ PpvFirst(ipq) => PpvFirst(ipq')
  BY <1>1, PutOther DEF IpEvents
<1>3. IpTypeOK' BY <1>1, <1>2
<1>4. LoadOK' BY <1>1, <1>2 DEF LoadOK
<1>5. KindOK' BY <1>1, <1>2 DEF KindOK, LoadOK
<1>6. PpvOK' BY <1>1, <1>2 DEF PpvOK, KindOK, LoadOK, CgOK
<1>7. CgOK' BY <1>1, <1>2 DEF CgOK, LoadOK
<1>8. OfTheSource' BY <1>1, <1>2 DEF OfTheSource, LoadOK
<1>9. GatewaySessionsAreClosed' BY <1>1, <1>2 DEF GatewaySessionsAreClosed, LoadOK
<1>10. SoundFollowsTheAlert'
  BY <1>1, <1>2 DEF SoundFollowsTheAlert, CgOK, LoadOK, EasAudioActive
<1>11. SpeedOK' BY <1>1, <1>2 DEF SpeedOK, CgOK, LoadOK
<1>12. RequestsOK' BY <1>1, <1>2 DEF RequestsOK, SpeedOK, CgOK, LoadOK, KindOK
<1>13. PlayOK' BY <1>1, <1>2 DEF PlayOK, PpvOK, CgOK, LoadOK, KindOK
<1> QED BY <1>3, <1>4, <1>5, <1>6, <1>7, <1>8, <1>9, <1>10, <1>11, <1>12, <1>13

LEMMA PlayFilmFailsIInv ==
    ASSUME IpIInv,
           ip.busy = "no", ip.mState = "Stop", UNCHANGED alert, ~ip.isMrdvr, ip.mIsVodPlay,
           ip' = [ip EXCEPT !.open = TRUE, !.left = @ \/ ip.open, !.played = TRUE,
                            !.waits = FALSE],
           UNCHANGED <<ipq, http, cg>>
    PROVE  IpIInv'
<1>1. ipq' = ipq /\ Range(ipq') = Range(ipq) /\ PpvFirst(ipq') = PpvFirst(ipq)
  OBVIOUS
<1>2. IpTypeOK' BY <1>1
<1>3. LoadOK' BY <1>1 DEF LoadOK
<1>4. KindOK' BY <1>1 DEF KindOK, LoadOK
<1>5. PpvOK' BY <1>1 DEF PpvOK, KindOK, LoadOK, CgOK
<1>6. CgOK' BY <1>1 DEF CgOK, LoadOK
<1>7. OfTheSource' BY <1>1 DEF OfTheSource, LoadOK
<1>8. GatewaySessionsAreClosed' BY <1>1 DEF GatewaySessionsAreClosed, LoadOK
<1>9. SoundFollowsTheAlert' BY <1>1 DEF SoundFollowsTheAlert, CgOK, LoadOK, EasAudioActive
<1>10. SpeedOK' BY <1>1 DEF SpeedOK, CgOK, LoadOK
<1>11. RequestsOK' BY <1>1 DEF RequestsOK, SpeedOK, CgOK, LoadOK, KindOK
<1>12. PlayOK' BY <1>1 DEF PlayOK, PpvOK, CgOK, LoadOK, KindOK
<1> QED BY <1>2, <1>3, <1>4, <1>5, <1>6, <1>7, <1>8, <1>9, <1>10, <1>11, <1>12

LEMMA PlayRecordedIInv ==
    ASSUME IpIInv,
           ip.busy = "no", ip.mState = "Stop", UNCHANGED alert, ip.isMrdvr, cg.st # "none",
           ip' = [ip EXCEPT !.waits = TRUE, !.played = TRUE], cg' = Streaming(cg),
           http' = StartedOver, UNCHANGED ipq
    PROVE  IpIInv'
<1> USE DEF Streaming, StartedOver
<1>1. ipq' = ipq /\ Range(ipq') = Range(ipq) /\ PpvFirst(ipq') = PpvFirst(ipq)
  OBVIOUS
<1>2. IpTypeOK' BY <1>1
<1>3. LoadOK' BY <1>1 DEF LoadOK
<1>4. KindOK' BY <1>1 DEF KindOK, LoadOK
<1>5. PpvOK' BY <1>1 DEF PpvOK, KindOK, LoadOK, CgOK
<1>6. CgOK' BY <1>1 DEF CgOK, LoadOK
<1>7. OfTheSource' BY <1>1 DEF OfTheSource, LoadOK
<1>8. GatewaySessionsAreClosed' BY <1>1 DEF GatewaySessionsAreClosed, LoadOK
<1>9. SoundFollowsTheAlert' BY <1>1 DEF SoundFollowsTheAlert, CgOK, LoadOK, EasAudioActive
<1>10. SpeedOK' BY <1>1 DEF SpeedOK, CgOK, LoadOK
<1>11. RequestsOK' BY <1>1 DEF RequestsOK, SpeedOK, CgOK, LoadOK, KindOK
<1>12. PlayOK' BY <1>1 DEF PlayOK, PpvOK, CgOK, LoadOK, KindOK
<1> QED BY <1>2, <1>3, <1>4, <1>5, <1>6, <1>7, <1>8, <1>9, <1>10, <1>11, <1>12

LEMMA PlayFailsIInv ==
    ASSUME IpIInv,
           ip.busy = "no", ip.mState = "Stop", UNCHANGED alert, ip' = Told(ip),
           UNCHANGED <<ipq, http, cg>>
    PROVE  IpIInv'
<1> USE DEF Told
<1>1. ipq' = ipq /\ Range(ipq') = Range(ipq) /\ PpvFirst(ipq') = PpvFirst(ipq)
  OBVIOUS
<1>2. IpTypeOK' BY <1>1
<1>3. LoadOK' BY <1>1 DEF LoadOK
<1>4. KindOK' BY <1>1 DEF KindOK, LoadOK
<1>5. PpvOK' BY <1>1 DEF PpvOK, KindOK, LoadOK, CgOK
<1>6. CgOK' BY <1>1 DEF CgOK, LoadOK
<1>7. OfTheSource' BY <1>1 DEF OfTheSource, LoadOK
<1>8. GatewaySessionsAreClosed' BY <1>1 DEF GatewaySessionsAreClosed, LoadOK
<1>9. SoundFollowsTheAlert' BY <1>1 DEF SoundFollowsTheAlert, CgOK, LoadOK, EasAudioActive
<1>10. SpeedOK' BY <1>1 DEF SpeedOK, CgOK, LoadOK
<1>11. RequestsOK' BY <1>1 DEF RequestsOK, SpeedOK, CgOK, LoadOK, KindOK
<1>12. PlayOK' BY <1>1 DEF PlayOK, PpvOK, CgOK, LoadOK, KindOK
<1> QED BY <1>2, <1>3, <1>4, <1>5, <1>6, <1>7, <1>8, <1>9, <1>10, <1>11, <1>12

LEMMA IpStopIInv ==
    ASSUME IpIInv,
           NEW ok \in BOOLEAN, ip.busy = "no",
           ip' = [Told(ip) EXCEPT !.mState = "Stop", !.mSessionState = "Idle",
                                  !.rtt = FALSE, !.open = @ /\ ~(ok /\ ClosedByStop),
                                  !.left = @ \/ (~ok /\ ip.open), !.asked = FALSE,
                                  !.sought = FALSE, !.played = FALSE],
           ipq' = <<>>, UNCHANGED <<http, cg, alert>>
    PROVE  IpIInv'
<1> USE DEF Told, ClosedByStop
<1>1. ipq' = <<>> /\ Range(ipq') = {} /\ PpvFirst(ipq') /\ ipq' \in Seq(EventSet)
  BY QEmpty
<1>2. IpTypeOK' BY <1>1
<1>3. LoadOK' BY <1>1 DEF LoadOK
<1>4. KindOK' BY <1>1 DEF KindOK, LoadOK
<1>5. PpvOK' BY <1>1 DEF PpvOK, KindOK, LoadOK, CgOK
<1>6. CgOK' BY <1>1 DEF CgOK, LoadOK
<1>7. OfTheSource' BY <1>1 DEF OfTheSource, LoadOK
<1>8. GatewaySessionsAreClosed' BY <1>1 DEF GatewaySessionsAreClosed, LoadOK
<1>9. SoundFollowsTheAlert' BY <1>1 DEF SoundFollowsTheAlert, CgOK, LoadOK, EasAudioActive
<1>10. SpeedOK' BY <1>1 DEF SpeedOK, CgOK, LoadOK
<1>11. RequestsOK' BY <1>1 DEF RequestsOK, SpeedOK, CgOK, LoadOK, KindOK
<1>12. PlayOK' BY <1>1 DEF PlayOK, PpvOK, CgOK, LoadOK, KindOK
<1> QED BY <1>2, <1>3, <1>4, <1>5, <1>6, <1>7, <1>8, <1>9, <1>10, <1>11, <1>12

LEMMA EjectIdleIInv ==
    ASSUME IpIInv,
           ip.busy = "no", ip.mState = "Idle", ip' = [Told(ip) EXCEPT !.busy = "gone"],
           UNCHANGED <<ipq, http, cg, alert>>
    PROVE  IpIInv'
<1> USE DEF Told
<1>1. ipq' = ipq /\ Range(ipq') = Range(ipq) /\ PpvFirst(ipq') = PpvFirst(ipq)
  OBVIOUS
<1>2. IpTypeOK' BY <1>1
<1>3. LoadOK' BY <1>1 DEF LoadOK
<1>4. KindOK' BY <1>1 DEF KindOK, LoadOK
<1>5. PpvOK' BY <1>1 DEF PpvOK, KindOK, LoadOK, CgOK
<1>6. CgOK' BY <1>1 DEF CgOK, LoadOK
<1>7. OfTheSource' BY <1>1 DEF OfTheSource, LoadOK
<1>8. GatewaySessionsAreClosed' BY <1>1 DEF GatewaySessionsAreClosed, LoadOK
<1>9. SoundFollowsTheAlert' BY <1>1 DEF SoundFollowsTheAlert, CgOK, LoadOK, EasAudioActive
<1>10. SpeedOK' BY <1>1 DEF SpeedOK, CgOK, LoadOK
<1>11. RequestsOK' BY <1>1 DEF RequestsOK, SpeedOK, CgOK, LoadOK, KindOK
<1>12. PlayOK' BY <1>1 DEF PlayOK, PpvOK, CgOK, LoadOK, KindOK
<1> QED BY <1>2, <1>3, <1>4, <1>5, <1>6, <1>7, <1>8, <1>9, <1>10, <1>11, <1>12

LEMMA EjectQueuedIInv ==
    ASSUME IpIInv,
           ip.busy = "no", ip.mState # "Idle", ip' = [ip EXCEPT !.busy = "eject"],
           ipq' = Append(ipq, Ev("Exit")), UNCHANGED <<http, cg, alert>>
    PROVE  IpIInv'
<1>1. ipq' = Append(ipq, Ev("Exit"))
  OBVIOUS
<1>2. /\ ipq' \in Seq(EventSet)
      /\ \A v \in Range(ipq') : v \in Range(ipq) \/ (v.e = "Exit" /\ v.n = ip.source)
      /\ \A v \in Range(ipq) : v \in Range(ipq')
      /\ \E v \in Range(ipq') : v.e = "Exit"
      /\ PpvFirst(ipq) => PpvFirst(ipq')
  BY <1>1, PutOther DEF IpEvents
<1>3. IpTypeOK' BY <1>1, <1>2
<1>4. LoadOK' BY <1>1, <1>2 DEF LoadOK
<1>5. KindOK' BY <1>1, <1>2 DEF KindOK, LoadOK
<1>6. PpvOK' BY <1>1, <1>2 DEF PpvOK, KindOK, LoadOK, CgOK
<1>7. CgOK' BY <1>1, <1>2 DEF CgOK, LoadOK
<1>8. OfTheSource' BY <1>1, <1>2 DEF OfTheSource, LoadOK
<1>9. GatewaySessionsAreClosed' BY <1>1, <1>2 DEF GatewaySessionsAreClosed, LoadOK
<1>10. SoundFollowsTheAlert'
  BY <1>1, <1>2 DEF SoundFollowsTheAlert, CgOK, LoadOK, EasAudioActive
<1>11. SpeedOK' BY <1>1, <1>2 DEF SpeedOK, CgOK, LoadOK
<1>12. RequestsOK' BY <1>1, <1>2 DEF RequestsOK, SpeedOK, CgOK, LoadOK, KindOK
<1>13. PlayOK' BY <1>1, <1>2 DEF PlayOK, PpvOK, CgOK, LoadOK, KindOK
<1> QED BY <1>3, <1>4, <1>5, <1>6, <1>7, <1>8, <1>9, <1>10, <1>11, <1>12, <1>13

LEMMA IpTearDownIInv ==
    ASSUME IpIInv,
           IpTearDown
    PROVE  IpIInv'
<1> USE DEF IpTearDown, Told
<1>1. ipq' = ipq /\ Range(ipq') = Range(ipq) /\ PpvFirst(ipq') = PpvFirst(ipq)
  OBVIOUS
<1>2. IpTypeOK' BY <1>1
<1>3. LoadOK' BY <1>1 DEF LoadOK
<1>4. KindOK' BY <1>1 DEF KindOK, LoadOK
<1>5. PpvOK' BY <1>1 DEF PpvOK, KindOK, LoadOK, CgOK
<1>6. CgOK' BY <1>1 DEF CgOK, LoadOK
<1>7. OfTheSource' BY <1>1 DEF OfTheSource, LoadOK
<1>8. GatewaySessionsAreClosed' BY <1>1 DEF GatewaySessionsAreClosed, LoadOK
<1>9. SoundFollowsTheAlert' BY <1>1 DEF SoundFollowsTheAlert, CgOK, LoadOK, EasAudioActive
<1>10. SpeedOK' BY <1>1 DEF SpeedOK, CgOK, LoadOK
<1>11. RequestsOK' BY <1>1 DEF RequestsOK, SpeedOK, CgOK, LoadOK, KindOK
<1>12. PlayOK' BY <1>1 DEF PlayOK, PpvOK, CgOK, LoadOK, KindOK
<1> QED BY <1>2, <1>3, <1>4, <1>5, <1>6, <1>7, <1>8, <1>9, <1>10, <1>11, <1>12

LEMMA IpSetAudioPidIInv ==
    ASSUME IpIInv,
           IpSetAudioPid
    PROVE  IpIInv'
<1> USE DEF IpSetAudioPid, IpCall, IpHappens, SoundSelected, WithAudioPid, EasAudioActive
<1>1. ipq' = ipq /\ Range(ipq') = Range(ipq) /\ PpvFirst(ipq') = PpvFirst(ipq)
  OBVIOUS
<1>2. IpTypeOK' BY <1>1
<1>3. LoadOK' BY <1>1 DEF LoadOK
<1>4. KindOK' BY <1>1 DEF KindOK, LoadOK
<1>5. PpvOK' BY <1>1 DEF PpvOK, KindOK, LoadOK, CgOK
<1>6. CgOK' BY <1>1 DEF CgOK, LoadOK
<1>7. OfTheSource' BY <1>1 DEF OfTheSource, LoadOK
<1>8. GatewaySessionsAreClosed' BY <1>1 DEF GatewaySessionsAreClosed, LoadOK
<1>9. SoundFollowsTheAlert' BY <1>1 DEF SoundFollowsTheAlert, CgOK, LoadOK
<1>10. SpeedOK' BY <1>1 DEF SpeedOK, CgOK, LoadOK
<1>11. RequestsOK' BY <1>1 DEF RequestsOK, SpeedOK, CgOK, LoadOK, KindOK
<1>12. PlayOK' BY <1>1 DEF PlayOK, PpvOK, CgOK, LoadOK, KindOK
<1> QED BY <1>2, <1>3, <1>4, <1>5, <1>6, <1>7, <1>8, <1>9, <1>10, <1>11, <1>12

\* The events that are handled.
LEMMA OnPlayWaitsIInv ==
    ASSUME IpIInv,
           IpPopped("Play"), ipq' = Tail(ipq), OnPlayWaits
    PROVE  IpIInv'
<1> USE DEF IpPopped, OnPlayWaits
<1>1. ipq # <<>> /\ ipq' = Tail(ipq) /\ Head(ipq).e = "Play"
  OBVIOUS
<1>2. /\ ipq' \in Seq(EventSet)
      /\ Head(ipq) \in Range(ipq)
      /\ \A v \in Range(ipq') : v \in Range(ipq)
      /\ \A v \in Range(ipq) : v = Head(ipq) \/ v \in Range(ipq')
      /\ PpvFirst(ipq) => PpvFirst(ipq')
      /\ PpvFirst(ipq) => \A v \in Range(ipq') : v.e \notin FromPpv
  BY <1>1, Pop
<1>3. IpTypeOK' BY <1>1, <1>2
<1>4. LoadOK' BY <1>1, <1>2 DEF LoadOK
<1>5. KindOK' BY <1>1, <1>2 DEF KindOK, LoadOK
<1>6. PpvOK' BY <1>1, <1>2 DEF PpvOK, KindOK, LoadOK, CgOK
<1>7. CgOK' BY <1>1, <1>2 DEF CgOK, LoadOK
<1>8. OfTheSource' BY <1>1, <1>2 DEF OfTheSource, LoadOK
<1>9. GatewaySessionsAreClosed' BY <1>1, <1>2 DEF GatewaySessionsAreClosed, LoadOK
<1>10. SoundFollowsTheAlert'
  BY <1>1, <1>2 DEF SoundFollowsTheAlert, CgOK, LoadOK, EasAudioActive
<1>11. SpeedOK' BY <1>1, <1>2 DEF SpeedOK, CgOK, LoadOK
<1>12. RequestsOK' BY <1>1, <1>2 DEF RequestsOK, SpeedOK, CgOK, LoadOK, KindOK
<1>13. PlayOK' BY <1>1, <1>2 DEF PlayOK, PpvOK, CgOK, LoadOK, KindOK
<1> QED BY <1>3, <1>4, <1>5, <1>6, <1>7, <1>8, <1>9, <1>10, <1>11, <1>12, <1>13

LEMMA OnPlayStreamsIInv ==
    ASSUME IpIInv,
           IpPopped("Play"), ipq' = Tail(ipq), http.kind = "ppv" => PpvOpen,
           http.kind # "ppv" => cg.st # "none", cg' = Streaming(cg),
           http' = [StartedOver EXCEPT !.dead = FALSE],
           ip' = [ip EXCEPT !.mSessionState = "Loading", !.asked = FALSE, !.sought = FALSE]
    PROVE  IpIInv'
<1> USE DEF IpPopped, PpvOpen, Streaming, StartedOver
<1>1. ipq # <<>> /\ ipq' = Tail(ipq) /\ Head(ipq).e = "Play"
  OBVIOUS
<1>2. /\ ipq' \in Seq(EventSet)
      /\ Head(ipq) \in Range(ipq)
      /\ \A v \in Range(ipq') : v \in Range(ipq)
      /\ \A v \in Range(ipq) : v = Head(ipq) \/ v \in Range(ipq')
      /\ PpvFirst(ipq) => PpvFirst(ipq')
      /\ PpvFirst(ipq) => \A v \in Range(ipq') : v.e \notin FromPpv
  BY <1>1, Pop
<1>3. IpTypeOK' BY <1>1, <1>2
<1>4. LoadOK' BY <1>1, <1>2 DEF LoadOK
<1>5. KindOK' BY <1>1, <1>2 DEF KindOK, LoadOK
<1>6. PpvOK' BY <1>1, <1>2 DEF PpvOK, KindOK, LoadOK, CgOK
<1>7. CgOK' BY <1>1, <1>2 DEF CgOK, LoadOK
<1>8. OfTheSource' BY <1>1, <1>2 DEF OfTheSource, LoadOK
<1>9. GatewaySessionsAreClosed' BY <1>1, <1>2 DEF GatewaySessionsAreClosed, LoadOK
<1>10. SoundFollowsTheAlert'
  BY <1>1, <1>2 DEF SoundFollowsTheAlert, CgOK, LoadOK, EasAudioActive
<1>11. SpeedOK' BY <1>1, <1>2 DEF SpeedOK, CgOK, LoadOK
<1>12. RequestsOK' BY <1>1, <1>2 DEF RequestsOK, SpeedOK, CgOK, LoadOK, KindOK
<1>13. PlayOK' BY <1>1, <1>2 DEF PlayOK, PpvOK, CgOK, LoadOK, KindOK
<1> QED BY <1>3, <1>4, <1>5, <1>6, <1>7, <1>8, <1>9, <1>10, <1>11, <1>12, <1>13

LEMMA OnPlayStartFailsIInv ==
    ASSUME IpIInv,
           IpPopped("Play"), ipq' = Tail(ipq), http.kind = "ppv" => PpvOpen,
           http.kind # "ppv" => cg.st # "none", cg' = [cg EXCEPT !.st = "created"],
           http' = [StartedOver EXCEPT !.dead = TRUE],
           ip' = [ip EXCEPT !.asked = FALSE, !.sought = FALSE]
    PROVE  IpIInv'
<1> USE DEF IpPopped, PpvOpen, StartedOver
<1>1. ipq # <<>> /\ ipq' = Tail(ipq) /\ Head(ipq).e = "Play"
  OBVIOUS
<1>2. /\ ipq' \in Seq(EventSet)
      /\ Head(ipq) \in Range(ipq)
      /\ \A v \in Range(ipq') : v \in Range(ipq)
      /\ \A v \in Range(ipq) : v = Head(ipq) \/ v \in Range(ipq')
      /\ PpvFirst(ipq) => PpvFirst(ipq')
      /\ PpvFirst(ipq) => \A v \in Range(ipq') : v.e \notin FromPpv
  BY <1>1, Pop
<1>3. cg.st = "none" => cg.due = <<>> /\ cg.rate = 100 BY DEF CgOK
<1>4. http'.num = http.num /\ (~http'.off => ~http.off /\ ~Pending /\ ~Pending' /\ http.num = 100)
  OBVIOUS
<1>5. cg'.due = cg.due /\ cg'.rate = cg.rate OBVIOUS
<1>6. IpTypeOK' BY <1>1, <1>2, <1>3, <1>4, <1>5
<1>7. LoadOK' BY <1>1, <1>2, <1>3, <1>4, <1>5 DEF LoadOK
<1>8. KindOK' BY <1>1, <1>2, <1>3, <1>4, <1>5 DEF KindOK, LoadOK
<1>9. PpvOK' BY <1>1, <1>2, <1>3, <1>4, <1>5 DEF PpvOK, KindOK, LoadOK, CgOK
<1>10. CgOK' BY <1>1, <1>2, <1>3, <1>4, <1>5 DEF CgOK, LoadOK
<1>11. OfTheSource' BY <1>1, <1>2, <1>3, <1>4, <1>5 DEF OfTheSource, LoadOK
<1>12. GatewaySessionsAreClosed'
  BY <1>1, <1>2, <1>3, <1>4, <1>5 DEF GatewaySessionsAreClosed, LoadOK
<1>13. SoundFollowsTheAlert'
  BY <1>1, <1>2, <1>3, <1>4, <1>5 DEF SoundFollowsTheAlert, CgOK, LoadOK,
      EasAudioActive
<1>14. SpeedOK' BY <1>1, <1>2, <1>3, <1>4, <1>5 DEF SpeedOK, CgOK, LoadOK
<1>15. RequestsOK' BY <1>1, <1>2, <1>3, <1>4, <1>5 DEF RequestsOK, SpeedOK, CgOK, LoadOK, KindOK
<1>16. PlayOK' BY <1>1, <1>2, <1>3, <1>4, <1>5 DEF PlayOK, PpvOK, CgOK, LoadOK, KindOK
<1> QED BY <1>6, <1>7, <1>8, <1>9, <1>10, <1>11, <1>12, <1>13, <1>14, <1>15, <1>16

LEMMA OnPlayFailsIInv ==
    ASSUME IpIInv,
           IpPopped("Play"), ipq' = Tail(ipq), OnPlayFails
    PROVE  IpIInv'
<1> USE DEF IpPopped, OnPlayFails, Told
<1>1. ipq # <<>> /\ ipq' = Tail(ipq) /\ Head(ipq).e = "Play"
  OBVIOUS
<1>2. /\ ipq' \in Seq(EventSet)
      /\ Head(ipq) \in Range(ipq)
      /\ \A v \in Range(ipq') : v \in Range(ipq)
      /\ \A v \in Range(ipq) : v = Head(ipq) \/ v \in Range(ipq')
      /\ PpvFirst(ipq) => PpvFirst(ipq')
      /\ PpvFirst(ipq) => \A v \in Range(ipq') : v.e \notin FromPpv
  BY <1>1, Pop
<1>3. IpTypeOK' BY <1>1, <1>2
<1>4. LoadOK' BY <1>1, <1>2 DEF LoadOK
<1>5. KindOK' BY <1>1, <1>2 DEF KindOK, LoadOK
<1>6. PpvOK' BY <1>1, <1>2 DEF PpvOK, KindOK, LoadOK, CgOK
<1>7. CgOK' BY <1>1, <1>2 DEF CgOK, LoadOK
<1>8. OfTheSource' BY <1>1, <1>2 DEF OfTheSource, LoadOK
<1>9. GatewaySessionsAreClosed' BY <1>1, <1>2 DEF GatewaySessionsAreClosed, LoadOK
<1>10. SoundFollowsTheAlert'
  BY <1>1, <1>2 DEF SoundFollowsTheAlert, CgOK, LoadOK, EasAudioActive
<1>11. SpeedOK' BY <1>1, <1>2 DEF SpeedOK, CgOK, LoadOK
<1>12. RequestsOK' BY <1>1, <1>2 DEF RequestsOK, SpeedOK, CgOK, LoadOK, KindOK
<1>13. PlayOK' BY <1>1, <1>2 DEF PlayOK, PpvOK, CgOK, LoadOK, KindOK
<1> QED BY <1>3, <1>4, <1>5, <1>6, <1>7, <1>8, <1>9, <1>10, <1>11, <1>12, <1>13

LEMMA PSIReadyFailsIInv ==
    ASSUME IpIInv,
           IpPopped("PSIReady"), ip' = Told(ip), ipq' = Tail(ipq), UNCHANGED <<http, cg>>
    PROVE  IpIInv'
<1> USE DEF IpPopped, Told
<1>1. ipq # <<>> /\ ipq' = Tail(ipq) /\ Head(ipq).e = "PSIReady"
  OBVIOUS
<1>2. /\ ipq' \in Seq(EventSet)
      /\ Head(ipq) \in Range(ipq)
      /\ \A v \in Range(ipq') : v \in Range(ipq)
      /\ \A v \in Range(ipq) : v = Head(ipq) \/ v \in Range(ipq')
      /\ PpvFirst(ipq) => PpvFirst(ipq')
  BY <1>1, Pop
<1>3. IpTypeOK' BY <1>1, <1>2
<1>4. LoadOK' BY <1>1, <1>2 DEF LoadOK
<1>5. KindOK' BY <1>1, <1>2 DEF KindOK, LoadOK
<1>6. PpvOK' BY <1>1, <1>2 DEF PpvOK, KindOK, LoadOK, CgOK
<1>7. CgOK' BY <1>1, <1>2 DEF CgOK, LoadOK
<1>8. OfTheSource' BY <1>1, <1>2 DEF OfTheSource, LoadOK
<1>9. GatewaySessionsAreClosed' BY <1>1, <1>2 DEF GatewaySessionsAreClosed, LoadOK
<1>10. SoundFollowsTheAlert'
  BY <1>1, <1>2 DEF SoundFollowsTheAlert, CgOK, LoadOK, EasAudioActive
<1>11. SpeedOK' BY <1>1, <1>2 DEF SpeedOK, CgOK, LoadOK
<1>12. RequestsOK' BY <1>1, <1>2 DEF RequestsOK, SpeedOK, CgOK, LoadOK, KindOK
<1>13. PlayOK' BY <1>1, <1>2 DEF PlayOK, PpvOK, CgOK, LoadOK, KindOK
<1> QED BY <1>3, <1>4, <1>5, <1>6, <1>7, <1>8, <1>9, <1>10, <1>11, <1>12, <1>13

LEMMA SelectsIInv ==
    ASSUME IpIInv,
           IpPopped("PSIReady"), http.kind # "music", ipq' = Tail(ipq), TablesAreRead,
           cg' = Selected(cg), http' = [http EXCEPT !.hasAudioPid = TRUE], UNCHANGED ip
    PROVE  IpIInv'
<1> USE DEF IpPopped, TablesAreRead, Selected, EasAudioActive
<1>1. ipq # <<>> /\ ipq' = Tail(ipq) /\ Head(ipq).e = "PSIReady"
  OBVIOUS
<1>2. /\ ipq' \in Seq(EventSet)
      /\ Head(ipq) \in Range(ipq)
      /\ \A v \in Range(ipq') : v \in Range(ipq)
      /\ \A v \in Range(ipq) : v = Head(ipq) \/ v \in Range(ipq')
      /\ PpvFirst(ipq) => PpvFirst(ipq')
  BY <1>1, Pop
<1>3. IpTypeOK' BY <1>1, <1>2
<1>4. LoadOK' BY <1>1, <1>2 DEF LoadOK
<1>5. KindOK' BY <1>1, <1>2 DEF KindOK, LoadOK
<1>6. PpvOK' BY <1>1, <1>2 DEF PpvOK, KindOK, LoadOK, CgOK
<1>7. CgOK' BY <1>1, <1>2 DEF CgOK, LoadOK
<1>8. OfTheSource' BY <1>1, <1>2 DEF OfTheSource, LoadOK
<1>9. GatewaySessionsAreClosed' BY <1>1, <1>2 DEF GatewaySessionsAreClosed, LoadOK
<1>10. SoundFollowsTheAlert' BY <1>1, <1>2 DEF SoundFollowsTheAlert, CgOK, LoadOK
<1>11. SpeedOK' BY <1>1, <1>2 DEF SpeedOK, CgOK, LoadOK
<1>12. RequestsOK' BY <1>1, <1>2 DEF RequestsOK, SpeedOK, CgOK, LoadOK, KindOK
<1>13. PlayOK' BY <1>1, <1>2 DEF PlayOK, PpvOK, CgOK, LoadOK, KindOK
<1> QED BY <1>3, <1>4, <1>5, <1>6, <1>7, <1>8, <1>9, <1>10, <1>11, <1>12, <1>13

LEMMA SelectsMusicIInv ==
    ASSUME IpIInv,
           IpPopped("PSIReady"), http.kind = "music",
           ipq' = Append(Tail(ipq), Ev("FirstFrame")), TablesAreRead, cg' = Selected(cg),
           http' = [http EXCEPT !.hasAudioPid = TRUE], UNCHANGED ip
    PROVE  IpIInv'
<1> USE DEF IpPopped, TablesAreRead, Selected, EasAudioActive
<1>1. ipq # <<>> /\ ipq' = Append(Tail(ipq), Ev("FirstFrame"))
  OBVIOUS
<1>2. /\ ipq' \in Seq(EventSet)
      /\ Head(ipq) \in Range(ipq)
      /\ \A v \in Range(ipq') : v \in Range(ipq) \/ (v.e = "FirstFrame" /\ v.n = ip.source)
      /\ \A v \in Range(ipq) : v = Head(ipq) \/ v \in Range(ipq')
      /\ \E v \in Range(ipq') : v.e = "FirstFrame"
      /\ PpvFirst(ipq) => PpvFirst(ipq')
  BY <1>1, PopPut DEF IpEvents
<1>3. IpTypeOK' BY <1>1, <1>2
<1>4. LoadOK' BY <1>1, <1>2 DEF LoadOK
<1>5. KindOK' BY <1>1, <1>2 DEF KindOK, LoadOK
<1>6. PpvOK' BY <1>1, <1>2 DEF PpvOK, KindOK, LoadOK, CgOK
<1>7. CgOK' BY <1>1, <1>2 DEF CgOK, LoadOK
<1>8. OfTheSource' BY <1>1, <1>2 DEF OfTheSource, LoadOK
<1>9. GatewaySessionsAreClosed' BY <1>1, <1>2 DEF GatewaySessionsAreClosed, LoadOK
<1>10. SoundFollowsTheAlert' BY <1>1, <1>2 DEF SoundFollowsTheAlert, CgOK, LoadOK
<1>11. SpeedOK' BY <1>1, <1>2 DEF SpeedOK, CgOK, LoadOK
<1>12. RequestsOK' BY <1>1, <1>2 DEF RequestsOK, SpeedOK, CgOK, LoadOK, KindOK
<1>13. PlayOK' BY <1>1, <1>2 DEF PlayOK, PpvOK, CgOK, LoadOK, KindOK
<1> QED BY <1>3, <1>4, <1>5, <1>6, <1>7, <1>8, <1>9, <1>10, <1>11, <1>12, <1>13

LEMMA OnFirstFrameIInv ==
    ASSUME IpIInv,
           OnFirstFrame
    PROVE  IpIInv'
<1> USE DEF OnFirstFrame, IpPopped, Told
<1>1. ipq # <<>> /\ ipq' = Tail(ipq) /\ Head(ipq).e = "FirstFrame"
  OBVIOUS
<1>2. /\ ipq' \in Seq(EventSet)
      /\ Head(ipq) \in Range(ipq)
      /\ \A v \in Range(ipq') : v \in Range(ipq)
      /\ \A v \in Range(ipq) : v = Head(ipq) \/ v \in Range(ipq')
      /\ PpvFirst(ipq) => PpvFirst(ipq')
  BY <1>1, Pop
<1>3. IpTypeOK' BY <1>1, <1>2
<1>4. LoadOK' BY <1>1, <1>2 DEF LoadOK
<1>5. KindOK' BY <1>1, <1>2 DEF KindOK, LoadOK
<1>6. PpvOK' BY <1>1, <1>2 DEF PpvOK, KindOK, LoadOK, CgOK
<1>7. CgOK' BY <1>1, <1>2 DEF CgOK, LoadOK
<1>8. OfTheSource' BY <1>1, <1>2 DEF OfTheSource, LoadOK
<1>9. GatewaySessionsAreClosed' BY <1>1, <1>2 DEF GatewaySessionsAreClosed, LoadOK
<1>10. SoundFollowsTheAlert'
  BY <1>1, <1>2 DEF SoundFollowsTheAlert, CgOK, LoadOK, EasAudioActive
<1>11. SpeedOK' BY <1>1, <1>2 DEF SpeedOK, CgOK, LoadOK
<1>12. RequestsOK' BY <1>1, <1>2 DEF RequestsOK, SpeedOK, CgOK, LoadOK, KindOK
<1>13. PlayOK' BY <1>1, <1>2 DEF PlayOK, PpvOK, CgOK, LoadOK, KindOK
<1> QED BY <1>3, <1>4, <1>5, <1>6, <1>7, <1>8, <1>9, <1>10, <1>11, <1>12, <1>13

LEMMA OnToldOnlyIInv ==
    ASSUME IpIInv,
           OnToldOnly
    PROVE  IpIInv'
<1> USE DEF OnToldOnly, IpPopped, Told
<1>1. ipq # <<>> /\ ipq' = Tail(ipq)
  OBVIOUS
<1>2. /\ ipq' \in Seq(EventSet)
      /\ Head(ipq) \in Range(ipq)
      /\ \A v \in Range(ipq') : v \in Range(ipq)
      /\ \A v \in Range(ipq) : v = Head(ipq) \/ v \in Range(ipq')
      /\ PpvFirst(ipq) => PpvFirst(ipq')
  BY <1>1, Pop
<1>3. IpTypeOK' BY <1>1, <1>2
<1>4. LoadOK' BY <1>1, <1>2 DEF LoadOK
<1>5. KindOK' BY <1>1, <1>2 DEF KindOK, LoadOK
<1>6. PpvOK' BY <1>1, <1>2 DEF PpvOK, KindOK, LoadOK, CgOK
<1>7. CgOK' BY <1>1, <1>2 DEF CgOK, LoadOK
<1>8. OfTheSource' BY <1>1, <1>2 DEF OfTheSource, LoadOK
<1>9. GatewaySessionsAreClosed' BY <1>1, <1>2 DEF GatewaySessionsAreClosed, LoadOK
<1>10. SoundFollowsTheAlert'
  BY <1>1, <1>2 DEF SoundFollowsTheAlert, CgOK, LoadOK, EasAudioActive
<1>11. SpeedOK' BY <1>1, <1>2 DEF SpeedOK, CgOK, LoadOK
<1>12. RequestsOK' BY <1>1, <1>2 DEF RequestsOK, SpeedOK, CgOK, LoadOK, KindOK
<1>13. PlayOK' BY <1>1, <1>2 DEF PlayOK, PpvOK, CgOK, LoadOK, KindOK
<1> QED BY <1>3, <1>4, <1>5, <1>6, <1>7, <1>8, <1>9, <1>10, <1>11, <1>12, <1>13

LEMMA OnLanguageIInv ==
    ASSUME IpIInv,
           OnLanguage
    PROVE  IpIInv'
<1> USE DEF OnLanguage, IpPopped, SoundSelected, WithAudioPid, EasAudioActive
<1>1. ipq # <<>> /\ ipq' = Tail(ipq) /\ Head(ipq).e = "Lang"
  OBVIOUS
<1>2. /\ ipq' \in Seq(EventSet)
      /\ Head(ipq) \in Range(ipq)
      /\ \A v \in Range(ipq') : v \in Range(ipq)
      /\ \A v \in Range(ipq) : v = Head(ipq) \/ v \in Range(ipq')
      /\ PpvFirst(ipq) => PpvFirst(ipq')
  BY <1>1, Pop
<1>3. IpTypeOK' BY <1>1, <1>2
<1>4. LoadOK' BY <1>1, <1>2 DEF LoadOK
<1>5. KindOK' BY <1>1, <1>2 DEF KindOK, LoadOK
<1>6. PpvOK' BY <1>1, <1>2 DEF PpvOK, KindOK, LoadOK, CgOK
<1>7. CgOK' BY <1>1, <1>2 DEF CgOK, LoadOK
<1>8. OfTheSource' BY <1>1, <1>2 DEF OfTheSource, LoadOK
<1>9. GatewaySessionsAreClosed' BY <1>1, <1>2 DEF GatewaySessionsAreClosed, LoadOK
<1>10. SoundFollowsTheAlert' BY <1>1, <1>2 DEF SoundFollowsTheAlert, CgOK, LoadOK
<1>11. SpeedOK' BY <1>1, <1>2 DEF SpeedOK, CgOK, LoadOK
<1>12. RequestsOK' BY <1>1, <1>2 DEF RequestsOK, SpeedOK, CgOK, LoadOK, KindOK
<1>13. PlayOK' BY <1>1, <1>2 DEF PlayOK, PpvOK, CgOK, LoadOK, KindOK
<1> QED BY <1>3, <1>4, <1>5, <1>6, <1>7, <1>8, <1>9, <1>10, <1>11, <1>12, <1>13

LEMMA OnGatewayIInv ==
    ASSUME IpIInv,
           OnGateway
    PROVE  IpIInv'
<1> USE DEF OnGateway, IpPopped, Told
<1>1. ipq # <<>> /\ ipq' = Tail(ipq)
  OBVIOUS
<1>2. /\ ipq' \in Seq(EventSet)
      /\ Head(ipq) \in Range(ipq)
      /\ \A v \in Range(ipq') : v \in Range(ipq)
      /\ \A v \in Range(ipq) : v = Head(ipq) \/ v \in Range(ipq')
      /\ PpvFirst(ipq) => PpvFirst(ipq')
  BY <1>1, Pop
<1>3. IpTypeOK' BY <1>1, <1>2
<1>4. LoadOK' BY <1>1, <1>2 DEF LoadOK
<1>5. KindOK' BY <1>1, <1>2 DEF KindOK, LoadOK
<1>6. PpvOK' BY <1>1, <1>2 DEF PpvOK, KindOK, LoadOK, CgOK
<1>7. CgOK' BY <1>1, <1>2 DEF CgOK, LoadOK
<1>8. OfTheSource' BY <1>1, <1>2 DEF OfTheSource, LoadOK
<1>9. GatewaySessionsAreClosed' BY <1>1, <1>2 DEF GatewaySessionsAreClosed, LoadOK
<1>10. SoundFollowsTheAlert'
  BY <1>1, <1>2 DEF SoundFollowsTheAlert, CgOK, LoadOK, EasAudioActive
<1>11. SpeedOK' BY <1>1, <1>2 DEF SpeedOK, CgOK, LoadOK
<1>12. RequestsOK' BY <1>1, <1>2 DEF RequestsOK, SpeedOK, CgOK, LoadOK, KindOK
<1>13. PlayOK' BY <1>1, <1>2 DEF PlayOK, PpvOK, CgOK, LoadOK, KindOK
<1> QED BY <1>3, <1>4, <1>5, <1>6, <1>7, <1>8, <1>9, <1>10, <1>11, <1>12, <1>13

LEMMA RetriesIInv ==
    ASSUME IpIInv,
           NEW ok \in BOOLEAN, ip.busy \in {"no", "eject"}, ipq # <<>>,
           Head(ipq).e \in {"Retry", "RTTRetry"},
           LET i == [ip EXCEPT !.mState = "Stop", !.rtt = FALSE, !.retried = TRUE]
           IN  ip' = WithSource(i, ok) /\ cg' = LoadedSession(i, ok),
           http' = NewHttpSource(ip.kind), ipq' = Append(Tail(ipq), Ev("Play")),
           UNCHANGED alert
    PROVE  IpIInv'
<1> USE DEF WithSource, Loads, LoadedSession, NewHttpSource, Created, Told
<1>1. ipq # <<>> /\ ipq' = Append(Tail(ipq), Ev("Play"))
  OBVIOUS
<1>2. /\ ipq' \in Seq(EventSet)
      /\ Head(ipq) \in Range(ipq)
      /\ \A v \in Range(ipq') : v \in Range(ipq) \/ (v.e = "Play" /\ v.n = ip.source)
      /\ \A v \in Range(ipq) : v = Head(ipq) \/ v \in Range(ipq')
      /\ \E v \in Range(ipq') : v.e = "Play"
      /\ PpvFirst(ipq) => PpvFirst(ipq')
  BY <1>1, PopPut DEF IpEvents
<1>3. /\ ip'.kind = ip.kind /\ ip'.isMrdvr = ip.isMrdvr /\ ip'.busy = ip.busy
      /\ ip'.source = ip.source + 1 /\ ip'.retried
  OBVIOUS
<1>4. Head(ipq).e \notin {"Play", "Exit"} OBVIOUS
<1>5. ip.source # 0 BY <1>2, <1>4 DEF LoadOK
<1>6. ip.source + 1 \in Nat /\ ip.source + 1 # 0 BY <1>5
<1>7. http'.kind = ip.kind /\ http'.ppv = "Idle" /\ (ip.kind = "ppv" => cg' = NoSession) OBVIOUS
<1>8. (ip'.waits => ip.waits) /\ ip'.mSessionState = ip.mSessionState OBVIOUS
<1>9. ~ip'.asked /\ ~ip'.sought /\ ip'.mState = "Stop" OBVIOUS
<1>10. cg' \in {NoSession, Created} OBVIOUS
<1>11. IpTypeOK' BY <1>1, <1>2, <1>3, <1>4, <1>5, <1>6, <1>7, <1>8, <1>9, <1>10
<1>12. LoadOK' BY <1>1, <1>2, <1>3, <1>4, <1>5, <1>6, <1>7, <1>8, <1>9, <1>10 DEF LoadOK
<1>13. KindOK' BY <1>1, <1>2, <1>3, <1>4, <1>5, <1>6, <1>7, <1>8, <1>9, <1>10 DEF KindOK, LoadOK
<1>14. PpvOK'
  BY <1>1, <1>2, <1>3, <1>4, <1>5, <1>6, <1>7, <1>8, <1>9, <1>10 DEF PpvOK,
      KindOK, LoadOK, CgOK
<1>15. CgOK' BY <1>1, <1>2, <1>3, <1>4, <1>5, <1>6, <1>7, <1>8, <1>9, <1>10 DEF CgOK, LoadOK
<1>16. OfTheSource'
  BY <1>1, <1>2, <1>3, <1>4, <1>5, <1>6, <1>7, <1>8, <1>9, <1>10 DEF
      OfTheSource, LoadOK
<1>17. GatewaySessionsAreClosed'
  BY <1>1, <1>2, <1>3, <1>4, <1>5, <1>6, <1>7, <1>8, <1>9, <1>10 DEF
      GatewaySessionsAreClosed, LoadOK
<1>18. SoundFollowsTheAlert'
  BY <1>1, <1>2, <1>3, <1>4, <1>5, <1>6, <1>7, <1>8, <1>9, <1>10 DEF
      SoundFollowsTheAlert, CgOK, LoadOK, EasAudioActive
<1>19. SpeedOK'
  BY <1>1, <1>2, <1>3, <1>4, <1>5, <1>6, <1>7, <1>8, <1>9, <1>10 DEF SpeedOK,
      CgOK, LoadOK
<1>20. RequestsOK'
  BY <1>1, <1>2, <1>3, <1>4, <1>5, <1>6, <1>7, <1>8, <1>9, <1>10 DEF RequestsOK,
      SpeedOK, CgOK, LoadOK, KindOK
<1>21. PlayOK'
  BY <1>1, <1>2, <1>3, <1>4, <1>5, <1>6, <1>7, <1>8, <1>9, <1>10 DEF PlayOK,
      PpvOK, CgOK, LoadOK, KindOK
<1> QED BY <1>11, <1>12, <1>13, <1>14, <1>15, <1>16, <1>17, <1>18, <1>19, <1>20, <1>21

LEMMA TearsDownIInv ==
    ASSUME IpIInv,
           NEW e \in FromPpv, IpPopped(e), UNCHANGED http,
           ip' = [ip EXCEPT !.mState = "Stop", !.asked = FALSE, !.sought = FALSE],
           cg' = NoSession, ipq' = Tail(ipq)
    PROVE  IpIInv'
<1> USE DEF IpPopped
<1>1. ipq # <<>> /\ ipq' = Tail(ipq)
  OBVIOUS
<1>2. /\ ipq' \in Seq(EventSet)
      /\ Head(ipq) \in Range(ipq)
      /\ \A v \in Range(ipq') : v \in Range(ipq)
      /\ \A v \in Range(ipq) : v = Head(ipq) \/ v \in Range(ipq')
      /\ PpvFirst(ipq) => PpvFirst(ipq')
  BY <1>1, Pop
<1>3. IpTypeOK' BY <1>1, <1>2
<1>4. LoadOK' BY <1>1, <1>2 DEF LoadOK
<1>5. KindOK' BY <1>1, <1>2 DEF KindOK, LoadOK
<1>6. PpvOK' BY <1>1, <1>2 DEF PpvOK, KindOK, LoadOK, CgOK
<1>7. CgOK' BY <1>1, <1>2 DEF CgOK, LoadOK
<1>8. OfTheSource' BY <1>1, <1>2 DEF OfTheSource, LoadOK
<1>9. GatewaySessionsAreClosed' BY <1>1, <1>2 DEF GatewaySessionsAreClosed, LoadOK
<1>10. SoundFollowsTheAlert'
  BY <1>1, <1>2 DEF SoundFollowsTheAlert, CgOK, LoadOK, EasAudioActive
<1>11. SpeedOK' BY <1>1, <1>2 DEF SpeedOK, CgOK, LoadOK
<1>12. RequestsOK' BY <1>1, <1>2 DEF RequestsOK, SpeedOK, CgOK, LoadOK, KindOK
<1>13. PlayOK' BY <1>1, <1>2 DEF PlayOK, PpvOK, CgOK, LoadOK, KindOK
<1> QED BY <1>3, <1>4, <1>5, <1>6, <1>7, <1>8, <1>9, <1>10, <1>11, <1>12, <1>13

LEMMA TearsDownAndPlaysIInv ==
    ASSUME IpIInv,
           NEW e \in FromPpv, IpPopped(e), UNCHANGED http,
           ip' = [ip EXCEPT !.mState = "Stop", !.asked = FALSE, !.sought = FALSE],
           cg' = NoSession, ipq' = Append(Tail(ipq), Ev("Play"))
    PROVE  IpIInv'
<1> USE DEF IpPopped
<1>1. ipq # <<>> /\ ipq' = Append(Tail(ipq), Ev("Play"))
  OBVIOUS
<1>2. /\ ipq' \in Seq(EventSet)
      /\ Head(ipq) \in Range(ipq)
      /\ \A v \in Range(ipq') : v \in Range(ipq) \/ (v.e = "Play" /\ v.n = ip.source)
      /\ \A v \in Range(ipq) : v = Head(ipq) \/ v \in Range(ipq')
      /\ \E v \in Range(ipq') : v.e = "Play"
      /\ PpvFirst(ipq) => PpvFirst(ipq')
  BY <1>1, PopPut DEF IpEvents
<1>3. IpTypeOK' BY <1>1, <1>2
<1>4. LoadOK' BY <1>1, <1>2 DEF LoadOK
<1>5. KindOK' BY <1>1, <1>2 DEF KindOK, LoadOK
<1>6. PpvOK' BY <1>1, <1>2 DEF PpvOK, KindOK, LoadOK, CgOK
<1>7. CgOK' BY <1>1, <1>2 DEF CgOK, LoadOK
<1>8. OfTheSource' BY <1>1, <1>2 DEF OfTheSource, LoadOK
<1>9. GatewaySessionsAreClosed' BY <1>1, <1>2 DEF GatewaySessionsAreClosed, LoadOK
<1>10. SoundFollowsTheAlert'
  BY <1>1, <1>2 DEF SoundFollowsTheAlert, CgOK, LoadOK, EasAudioActive
<1>11. SpeedOK' BY <1>1, <1>2 DEF SpeedOK, CgOK, LoadOK
<1>12. RequestsOK' BY <1>1, <1>2 DEF RequestsOK, SpeedOK, CgOK, LoadOK, KindOK
<1>13. PlayOK' BY <1>1, <1>2 DEF PlayOK, PpvOK, CgOK, LoadOK, KindOK
<1> QED BY <1>3, <1>4, <1>5, <1>6, <1>7, <1>8, <1>9, <1>10, <1>11, <1>12, <1>13

LEMMA PpvToldIInv ==
    ASSUME IpIInv,
           NEW e \in FromPpv, IpPopped(e), UNCHANGED <<http, ip, cg>>, ipq' = Tail(ipq)
    PROVE  IpIInv'
<1> USE DEF IpPopped
<1>1. ipq # <<>> /\ ipq' = Tail(ipq)
  OBVIOUS
<1>2. /\ ipq' \in Seq(EventSet)
      /\ Head(ipq) \in Range(ipq)
      /\ \A v \in Range(ipq') : v \in Range(ipq)
      /\ \A v \in Range(ipq) : v = Head(ipq) \/ v \in Range(ipq')
      /\ PpvFirst(ipq) => PpvFirst(ipq')
  BY <1>1, Pop
<1>3. IpTypeOK' BY <1>1, <1>2
<1>4. LoadOK' BY <1>1, <1>2 DEF LoadOK
<1>5. KindOK' BY <1>1, <1>2 DEF KindOK, LoadOK
<1>6. PpvOK' BY <1>1, <1>2 DEF PpvOK, KindOK, LoadOK, CgOK
<1>7. CgOK' BY <1>1, <1>2 DEF CgOK, LoadOK
<1>8. OfTheSource' BY <1>1, <1>2 DEF OfTheSource, LoadOK
<1>9. GatewaySessionsAreClosed' BY <1>1, <1>2 DEF GatewaySessionsAreClosed, LoadOK
<1>10. SoundFollowsTheAlert'
  BY <1>1, <1>2 DEF SoundFollowsTheAlert, CgOK, LoadOK, EasAudioActive
<1>11. SpeedOK' BY <1>1, <1>2 DEF SpeedOK, CgOK, LoadOK
<1>12. RequestsOK' BY <1>1, <1>2 DEF RequestsOK, SpeedOK, CgOK, LoadOK, KindOK
<1>13. PlayOK' BY <1>1, <1>2 DEF PlayOK, PpvOK, CgOK, LoadOK, KindOK
<1> QED BY <1>3, <1>4, <1>5, <1>6, <1>7, <1>8, <1>9, <1>10, <1>11, <1>12, <1>13

LEMMA OnExitIInv ==
    ASSUME IpIInv,
           OnExit
    PROVE  IpIInv'
<1> USE DEF OnExit, IpPopped
<1>1. ipq # <<>> /\ ipq' = Tail(ipq) /\ Head(ipq).e = "Exit"
  OBVIOUS
<1>2. /\ ipq' \in Seq(EventSet)
      /\ Head(ipq) \in Range(ipq)
      /\ \A v \in Range(ipq') : v \in Range(ipq)
      /\ \A v \in Range(ipq) : v = Head(ipq) \/ v \in Range(ipq')
      /\ PpvFirst(ipq) => PpvFirst(ipq')
  BY <1>1, Pop
<1>3. IpTypeOK' BY <1>1, <1>2
<1>4. LoadOK' BY <1>1, <1>2 DEF LoadOK
<1>5. KindOK' BY <1>1, <1>2 DEF KindOK, LoadOK
<1>6. PpvOK' BY <1>1, <1>2 DEF PpvOK, KindOK, LoadOK, CgOK
<1>7. CgOK' BY <1>1, <1>2 DEF CgOK, LoadOK
<1>8. OfTheSource' BY <1>1, <1>2 DEF OfTheSource, LoadOK
<1>9. GatewaySessionsAreClosed' BY <1>1, <1>2 DEF GatewaySessionsAreClosed, LoadOK
<1>10. SoundFollowsTheAlert'
  BY <1>1, <1>2 DEF SoundFollowsTheAlert, CgOK, LoadOK, EasAudioActive
<1>11. SpeedOK' BY <1>1, <1>2 DEF SpeedOK, CgOK, LoadOK
<1>12. RequestsOK' BY <1>1, <1>2 DEF RequestsOK, SpeedOK, CgOK, LoadOK, KindOK
<1>13. PlayOK' BY <1>1, <1>2 DEF PlayOK, PpvOK, CgOK, LoadOK, KindOK
<1> QED BY <1>3, <1>4, <1>5, <1>6, <1>7, <1>8, <1>9, <1>10, <1>11, <1>12, <1>13

\* What CGMI and the others tell.
LEMMA PMTReadyIInv ==
    ASSUME IpIInv,
           "PMT" \in cg.tables, cg' = [cg EXCEPT !.tables = @ \ {"PMT"}],
           http' = [http EXCEPT !.pmt = TRUE], UNCHANGED <<ipq, ip, alert>>
    PROVE  IpIInv'
<1>1. ipq' = ipq /\ Range(ipq') = Range(ipq) /\ PpvFirst(ipq') = PpvFirst(ipq)
  OBVIOUS
<1>2. IpTypeOK' BY <1>1
<1>3. LoadOK' BY <1>1 DEF LoadOK
<1>4. KindOK' BY <1>1 DEF KindOK, LoadOK
<1>5. PpvOK' BY <1>1 DEF PpvOK, KindOK, LoadOK, CgOK
<1>6. CgOK' BY <1>1 DEF CgOK, LoadOK
<1>7. OfTheSource' BY <1>1 DEF OfTheSource, LoadOK
<1>8. GatewaySessionsAreClosed' BY <1>1 DEF GatewaySessionsAreClosed, LoadOK
<1>9. SoundFollowsTheAlert' BY <1>1 DEF SoundFollowsTheAlert, CgOK, LoadOK, EasAudioActive
<1>10. SpeedOK' BY <1>1 DEF SpeedOK, CgOK, LoadOK
<1>11. RequestsOK' BY <1>1 DEF RequestsOK, SpeedOK, CgOK, LoadOK, KindOK
<1>12. PlayOK' BY <1>1 DEF PlayOK, PpvOK, CgOK, LoadOK, KindOK
<1> QED BY <1>2, <1>3, <1>4, <1>5, <1>6, <1>7, <1>8, <1>9, <1>10, <1>11, <1>12

LEMMA OtherTableIInv ==
    ASSUME IpIInv,
           NEW t \in cg.tables, t \notin {"PMT", "PSI"}, cg' = [cg EXCEPT !.tables = @ \ {t}],
           UNCHANGED <<http, ipq, ip, alert>>
    PROVE  IpIInv'
<1>1. ipq' = ipq /\ Range(ipq') = Range(ipq) /\ PpvFirst(ipq') = PpvFirst(ipq)
  OBVIOUS
<1>2. IpTypeOK' BY <1>1
<1>3. LoadOK' BY <1>1 DEF LoadOK
<1>4. KindOK' BY <1>1 DEF KindOK, LoadOK
<1>5. PpvOK' BY <1>1 DEF PpvOK, KindOK, LoadOK, CgOK
<1>6. CgOK' BY <1>1 DEF CgOK, LoadOK
<1>7. OfTheSource' BY <1>1 DEF OfTheSource, LoadOK
<1>8. GatewaySessionsAreClosed' BY <1>1 DEF GatewaySessionsAreClosed, LoadOK
<1>9. SoundFollowsTheAlert' BY <1>1 DEF SoundFollowsTheAlert, CgOK, LoadOK, EasAudioActive
<1>10. SpeedOK' BY <1>1 DEF SpeedOK, CgOK, LoadOK
<1>11. RequestsOK' BY <1>1 DEF RequestsOK, SpeedOK, CgOK, LoadOK, KindOK
<1>12. PlayOK' BY <1>1 DEF PlayOK, PpvOK, CgOK, LoadOK, KindOK
<1> QED BY <1>2, <1>3, <1>4, <1>5, <1>6, <1>7, <1>8, <1>9, <1>10, <1>11, <1>12

LEMMA PSIReadyIInv ==
    ASSUME IpIInv,
           "PSI" \in cg.tables, cg' = [cg EXCEPT !.tables = @ \ {"PSI"}],
           ipq' = Append(ipq, Ev("PSIReady")), UNCHANGED <<http, ip, alert>>
    PROVE  IpIInv'
<1>1. ipq' = Append(ipq, Ev("PSIReady"))
  OBVIOUS
<1>2. /\ ipq' \in Seq(EventSet)
      /\ \A v \in Range(ipq') : v \in Range(ipq) \/ (v.e = "PSIReady" /\ v.n = ip.source)
      /\ \A v \in Range(ipq) : v \in Range(ipq')
      /\ \E v \in Range(ipq') : v.e = "PSIReady"
      /\ PpvFirst(ipq) => PpvFirst(ipq')
  BY <1>1, PutOther DEF IpEvents
<1>3. IpTypeOK' BY <1>1, <1>2
<1>4. LoadOK' BY <1>1, <1>2 DEF LoadOK
<1>5. KindOK' BY <1>1, <1>2 DEF KindOK, LoadOK
<1>6. PpvOK' BY <1>1, <1>2 DEF PpvOK, KindOK, LoadOK, CgOK
<1>7. CgOK' BY <1>1, <1>2 DEF CgOK, LoadOK
<1>8. OfTheSource' BY <1>1, <1>2 DEF OfTheSource, LoadOK
<1>9. GatewaySessionsAreClosed' BY <1>1, <1>2 DEF GatewaySessionsAreClosed, LoadOK
<1>10. SoundFollowsTheAlert'
  BY <1>1, <1>2 DEF SoundFollowsTheAlert, CgOK, LoadOK, EasAudioActive
<1>11. SpeedOK' BY <1>1, <1>2 DEF SpeedOK, CgOK, LoadOK
<1>12. RequestsOK' BY <1>1, <1>2 DEF RequestsOK, SpeedOK, CgOK, LoadOK, KindOK
<1>13. PlayOK' BY <1>1, <1>2 DEF PlayOK, PpvOK, CgOK, LoadOK, KindOK
<1> QED BY <1>3, <1>4, <1>5, <1>6, <1>7, <1>8, <1>9, <1>10, <1>11, <1>12, <1>13

LEMMA CgReportsFrameIInv ==
    ASSUME IpIInv,
           CgReportsFrame
    PROVE  IpIInv'
<1> USE DEF CgReportsFrame
<1>1. ipq' = Append(ipq, Ev("FirstFrame"))
  OBVIOUS
<1>2. /\ ipq' \in Seq(EventSet)
      /\ \A v \in Range(ipq') : v \in Range(ipq) \/ (v.e = "FirstFrame" /\ v.n = ip.source)
      /\ \A v \in Range(ipq) : v \in Range(ipq')
      /\ \E v \in Range(ipq') : v.e = "FirstFrame"
      /\ PpvFirst(ipq) => PpvFirst(ipq')
  BY <1>1, PutOther DEF IpEvents
<1>3. IpTypeOK' BY <1>1, <1>2
<1>4. LoadOK' BY <1>1, <1>2 DEF LoadOK
<1>5. KindOK' BY <1>1, <1>2 DEF KindOK, LoadOK
<1>6. PpvOK' BY <1>1, <1>2 DEF PpvOK, KindOK, LoadOK, CgOK
<1>7. CgOK' BY <1>1, <1>2 DEF CgOK, LoadOK
<1>8. OfTheSource' BY <1>1, <1>2 DEF OfTheSource, LoadOK
<1>9. GatewaySessionsAreClosed' BY <1>1, <1>2 DEF GatewaySessionsAreClosed, LoadOK
<1>10. SoundFollowsTheAlert'
  BY <1>1, <1>2 DEF SoundFollowsTheAlert, CgOK, LoadOK, EasAudioActive
<1>11. SpeedOK' BY <1>1, <1>2 DEF SpeedOK, CgOK, LoadOK
<1>12. RequestsOK' BY <1>1, <1>2 DEF RequestsOK, SpeedOK, CgOK, LoadOK, KindOK
<1>13. PlayOK' BY <1>1, <1>2 DEF PlayOK, PpvOK, CgOK, LoadOK, KindOK
<1> QED BY <1>3, <1>4, <1>5, <1>6, <1>7, <1>8, <1>9, <1>10, <1>11, <1>12, <1>13

LEMMA StreamEndsIInv ==
    ASSUME IpIInv,
           StreamEnds
    PROVE  IpIInv'
<1> USE DEF StreamEnds, IpHappens, Cleared
<1>1. PICK e \in {"BOF", "EOF"} : ipq' = Append(ipq, Ev(e))
  OBVIOUS
<1>2. /\ ipq' \in Seq(EventSet)
      /\ \A v \in Range(ipq') : v \in Range(ipq) \/ (v.e = e /\ v.n = ip.source)
      /\ \A v \in Range(ipq) : v \in Range(ipq')
      /\ \E v \in Range(ipq') : v.e = e
      /\ PpvFirst(ipq) => PpvFirst(ipq')
  BY <1>1, PutOther DEF IpEvents
<1>3. IpTypeOK' BY <1>1, <1>2
<1>4. LoadOK' BY <1>1, <1>2 DEF LoadOK
<1>5. KindOK' BY <1>1, <1>2 DEF KindOK, LoadOK
<1>6. PpvOK' BY <1>1, <1>2 DEF PpvOK, KindOK, LoadOK, CgOK
<1>7. CgOK' BY <1>1, <1>2 DEF CgOK, LoadOK
<1>8. OfTheSource' BY <1>1, <1>2 DEF OfTheSource, LoadOK
<1>9. GatewaySessionsAreClosed' BY <1>1, <1>2 DEF GatewaySessionsAreClosed, LoadOK
<1>10. SoundFollowsTheAlert'
  BY <1>1, <1>2 DEF SoundFollowsTheAlert, CgOK, LoadOK, EasAudioActive
<1>11. SpeedOK' BY <1>1, <1>2 DEF SpeedOK, CgOK, LoadOK
<1>12. RequestsOK' BY <1>1, <1>2 DEF RequestsOK, SpeedOK, CgOK, LoadOK, KindOK
<1>13. PlayOK' BY <1>1, <1>2 DEF PlayOK, PpvOK, CgOK, LoadOK, KindOK
<1> QED BY <1>3, <1>4, <1>5, <1>6, <1>7, <1>8, <1>9, <1>10, <1>11, <1>12, <1>13

LEMMA StreamFailsToldIInv ==
    ASSUME IpIInv,
           cg.st = "playing",
           cg' = [cg EXCEPT !.tables = {}, !.frame = FALSE, !.st = "failed", !.due = <<>>],
           ip' = [ip EXCEPT !.asked = FALSE, !.sought = FALSE], UNCHANGED alert, ip.isMrdvr,
           ipq' = Append(ipq, Ev("Problem")),
           http' = [http EXCEPT !.dead = FALSE, !.off = TRUE]
    PROVE  IpIInv'
<1>1. ipq' = Append(ipq, Ev("Problem"))
  OBVIOUS
<1>2. /\ ipq' \in Seq(EventSet)
      /\ \A v \in Range(ipq') : v \in Range(ipq) \/ (v.e = "Problem" /\ v.n = ip.source)
      /\ \A v \in Range(ipq) : v \in Range(ipq')
      /\ \E v \in Range(ipq') : v.e = "Problem"
      /\ PpvFirst(ipq) => PpvFirst(ipq')
  BY <1>1, PutOther DEF IpEvents
<1>3. IpTypeOK' BY <1>1, <1>2
<1>4. LoadOK' BY <1>1, <1>2 DEF LoadOK
<1>5. KindOK' BY <1>1, <1>2 DEF KindOK, LoadOK
<1>6. PpvOK' BY <1>1, <1>2 DEF PpvOK, KindOK, LoadOK, CgOK
<1>7. CgOK' BY <1>1, <1>2 DEF CgOK, LoadOK
<1>8. OfTheSource' BY <1>1, <1>2 DEF OfTheSource, LoadOK
<1>9. GatewaySessionsAreClosed' BY <1>1, <1>2 DEF GatewaySessionsAreClosed, LoadOK
<1>10. SoundFollowsTheAlert'
  BY <1>1, <1>2 DEF SoundFollowsTheAlert, CgOK, LoadOK, EasAudioActive
<1>11. SpeedOK' BY <1>1, <1>2 DEF SpeedOK, CgOK, LoadOK
<1>12. RequestsOK' BY <1>1, <1>2 DEF RequestsOK, SpeedOK, CgOK, LoadOK, KindOK
<1>13. PlayOK' BY <1>1, <1>2 DEF PlayOK, PpvOK, CgOK, LoadOK, KindOK
<1> QED BY <1>3, <1>4, <1>5, <1>6, <1>7, <1>8, <1>9, <1>10, <1>11, <1>12, <1>13

LEMMA StreamFailsUntoldIInv ==
    ASSUME IpIInv,
           cg.st = "playing",
           cg' = [cg EXCEPT !.tables = {}, !.frame = FALSE, !.st = "failed", !.due = <<>>],
           ip' = [ip EXCEPT !.asked = FALSE, !.sought = FALSE], UNCHANGED alert, UNCHANGED ipq,
           http' = [http EXCEPT !.dead = TRUE, !.off = TRUE]
    PROVE  IpIInv'
<1>1. ipq' = ipq /\ Range(ipq') = Range(ipq) /\ PpvFirst(ipq') = PpvFirst(ipq)
  OBVIOUS
<1>2. IpTypeOK' BY <1>1
<1>3. LoadOK' BY <1>1 DEF LoadOK
<1>4. KindOK' BY <1>1 DEF KindOK, LoadOK
<1>5. PpvOK' BY <1>1 DEF PpvOK, KindOK, LoadOK, CgOK
<1>6. CgOK' BY <1>1 DEF CgOK, LoadOK
<1>7. OfTheSource' BY <1>1 DEF OfTheSource, LoadOK
<1>8. GatewaySessionsAreClosed' BY <1>1 DEF GatewaySessionsAreClosed, LoadOK
<1>9. SoundFollowsTheAlert' BY <1>1 DEF SoundFollowsTheAlert, CgOK, LoadOK, EasAudioActive
<1>10. SpeedOK' BY <1>1 DEF SpeedOK, CgOK, LoadOK
<1>11. RequestsOK' BY <1>1 DEF RequestsOK, SpeedOK, CgOK, LoadOK, KindOK
<1>12. PlayOK' BY <1>1 DEF PlayOK, PpvOK, CgOK, LoadOK, KindOK
<1> QED BY <1>2, <1>3, <1>4, <1>5, <1>6, <1>7, <1>8, <1>9, <1>10, <1>11, <1>12

LEMMA GatewayTellsIInv ==
    ASSUME IpIInv,
           GatewayTells
    PROVE  IpIInv'
<1> USE DEF GatewayTells, IpHappens
<1>1. PICK e \in {"Retry", "Revoked", "DeAuthorized", "Authorized"} : ipq' = Append(ipq, Ev(e))
  OBVIOUS
<1>2. /\ ipq' \in Seq(EventSet)
      /\ \A v \in Range(ipq') : v \in Range(ipq) \/ (v.e = e /\ v.n = ip.source)
      /\ \A v \in Range(ipq) : v \in Range(ipq')
      /\ \E v \in Range(ipq') : v.e = e
      /\ PpvFirst(ipq) => PpvFirst(ipq')
  BY <1>1, PutOther DEF IpEvents
<1>3. IpTypeOK' BY <1>1, <1>2
<1>4. LoadOK' BY <1>1, <1>2 DEF LoadOK
<1>5. KindOK' BY <1>1, <1>2 DEF KindOK, LoadOK
<1>6. PpvOK' BY <1>1, <1>2 DEF PpvOK, KindOK, LoadOK, CgOK
<1>7. CgOK' BY <1>1, <1>2 DEF CgOK, LoadOK
<1>8. OfTheSource' BY <1>1, <1>2 DEF OfTheSource, LoadOK
<1>9. GatewaySessionsAreClosed' BY <1>1, <1>2 DEF GatewaySessionsAreClosed, LoadOK
<1>10. SoundFollowsTheAlert'
  BY <1>1, <1>2 DEF SoundFollowsTheAlert, CgOK, LoadOK, EasAudioActive
<1>11. SpeedOK' BY <1>1, <1>2 DEF SpeedOK, CgOK, LoadOK
<1>12. RequestsOK' BY <1>1, <1>2 DEF RequestsOK, SpeedOK, CgOK, LoadOK, KindOK
<1>13. PlayOK' BY <1>1, <1>2 DEF PlayOK, PpvOK, CgOK, LoadOK, KindOK
<1> QED BY <1>3, <1>4, <1>5, <1>6, <1>7, <1>8, <1>9, <1>10, <1>11, <1>12, <1>13

LEMMA PpvTellsIInv ==
    ASSUME IpIInv,
           NEW e \in FromPpv, ip.source # 0, http.ppv # "Idle", ip.busy # "gone",
           http' = [http EXCEPT !.ppv = e], ipq' = Append(ipq, Ev(e)),
           UNCHANGED <<ip, cg, alert>>
    PROVE  IpIInv'
<1>1. ipq' = Append(ipq, Ev(e))
  OBVIOUS
<1>2. /\ ipq' \in Seq(EventSet)
      /\ \A v \in Range(ipq') : v \in Range(ipq) \/ (v.e = e /\ v.n = ip.source)
      /\ \A v \in Range(ipq) : v \in Range(ipq')
      /\ \E v \in Range(ipq') : v.e = e
      /\ PpvFirst(ipq) /\ ~Queued("Play") => PpvFirst(ipq')
  BY <1>1, Put DEF IpEvents
<1>3. ip.kind # "ppv" => ~Queued("Play") /\ cg = NoSession /\ ~ip.isMrdvr BY DEF KindOK, LoadOK
<1>4. IpTypeOK' BY <1>1, <1>2, <1>3
<1>5. LoadOK' BY <1>1, <1>2, <1>3 DEF LoadOK
<1>6. KindOK' BY <1>1, <1>2, <1>3 DEF KindOK, LoadOK
<1>7. PpvOK' BY <1>1, <1>2, <1>3 DEF PpvOK
<1>8. CgOK' BY <1>1, <1>2, <1>3 DEF CgOK, LoadOK
<1>9. OfTheSource' BY <1>1, <1>2, <1>3 DEF OfTheSource, LoadOK
<1>10. GatewaySessionsAreClosed' BY <1>1, <1>2, <1>3 DEF GatewaySessionsAreClosed, LoadOK
<1>11. SoundFollowsTheAlert'
  BY <1>1, <1>2, <1>3 DEF SoundFollowsTheAlert, CgOK, LoadOK, EasAudioActive
<1>12. SpeedOK' BY <1>1, <1>2, <1>3 DEF SpeedOK, CgOK, LoadOK
<1>13. RequestsOK' BY <1>1, <1>2, <1>3 DEF RequestsOK, SpeedOK, CgOK, LoadOK, KindOK
<1>14. PlayOK' BY <1>1, <1>2, <1>3 DEF PlayOK, PpvOK, CgOK, LoadOK, KindOK
<1> QED BY <1>4, <1>5, <1>6, <1>7, <1>8, <1>9, <1>10, <1>11, <1>12, <1>13, <1>14

LEMMA RttChecksIInv ==
    ASSUME IpIInv,
           RttChecks
    PROVE  IpIInv'
<1> USE DEF RttChecks, IpHappens
<1>1. ipq' = ipq /\ Range(ipq') = Range(ipq) /\ PpvFirst(ipq') = PpvFirst(ipq)
  OBVIOUS
<1>2. IpTypeOK' BY <1>1
<1>3. LoadOK' BY <1>1 DEF LoadOK
<1>4. KindOK' BY <1>1 DEF KindOK, LoadOK
<1>5. PpvOK' BY <1>1 DEF PpvOK, KindOK, LoadOK, CgOK
<1>6. CgOK' BY <1>1 DEF CgOK, LoadOK
<1>7. OfTheSource' BY <1>1 DEF OfTheSource, LoadOK
<1>8. GatewaySessionsAreClosed' BY <1>1 DEF GatewaySessionsAreClosed, LoadOK
<1>9. SoundFollowsTheAlert' BY <1>1 DEF SoundFollowsTheAlert, CgOK, LoadOK, EasAudioActive
<1>10. SpeedOK' BY <1>1 DEF SpeedOK, CgOK, LoadOK
<1>11. RequestsOK' BY <1>1 DEF RequestsOK, SpeedOK, CgOK, LoadOK, KindOK
<1>12. PlayOK' BY <1>1 DEF PlayOK, PpvOK, CgOK, LoadOK, KindOK
<1> QED BY <1>2, <1>3, <1>4, <1>5, <1>6, <1>7, <1>8, <1>9, <1>10, <1>11, <1>12

LEMMA RttRetriesIInv ==
    ASSUME IpIInv,
           RttRetries
    PROVE  IpIInv'
<1> USE DEF RttRetries
<1>1. ipq' = Append(ipq, Ev("RTTRetry"))
  OBVIOUS
<1>2. /\ ipq' \in Seq(EventSet)
      /\ \A v \in Range(ipq') : v \in Range(ipq) \/ (v.e = "RTTRetry" /\ v.n = ip.source)
      /\ \A v \in Range(ipq) : v \in Range(ipq')
      /\ \E v \in Range(ipq') : v.e = "RTTRetry"
      /\ PpvFirst(ipq) => PpvFirst(ipq')
  BY <1>1, PutOther DEF IpEvents
<1>3. IpTypeOK' BY <1>1, <1>2
<1>4. LoadOK' BY <1>1, <1>2 DEF LoadOK
<1>5. KindOK' BY <1>1, <1>2 DEF KindOK, LoadOK
<1>6. PpvOK' BY <1>1, <1>2 DEF PpvOK, KindOK, LoadOK, CgOK
<1>7. CgOK' BY <1>1, <1>2 DEF CgOK, LoadOK
<1>8. OfTheSource' BY <1>1, <1>2 DEF OfTheSource, LoadOK
<1>9. GatewaySessionsAreClosed' BY <1>1, <1>2 DEF GatewaySessionsAreClosed, LoadOK
<1>10. SoundFollowsTheAlert'
  BY <1>1, <1>2 DEF SoundFollowsTheAlert, CgOK, LoadOK, EasAudioActive
<1>11. SpeedOK' BY <1>1, <1>2 DEF SpeedOK, CgOK, LoadOK
<1>12. RequestsOK' BY <1>1, <1>2 DEF RequestsOK, SpeedOK, CgOK, LoadOK, KindOK
<1>13. PlayOK' BY <1>1, <1>2 DEF PlayOK, PpvOK, CgOK, LoadOK, KindOK
<1> QED BY <1>3, <1>4, <1>5, <1>6, <1>7, <1>8, <1>9, <1>10, <1>11, <1>12, <1>13

LEMMA LanguageChangesIInv ==
    ASSUME IpIInv,
           LanguageChanges
    PROVE  IpIInv'
<1> USE DEF LanguageChanges, IpHappens
<1>1. ipq' = Append(ipq, Ev("Lang"))
  OBVIOUS
<1>2. /\ ipq' \in Seq(EventSet)
      /\ \A v \in Range(ipq') : v \in Range(ipq) \/ (v.e = "Lang" /\ v.n = ip.source)
      /\ \A v \in Range(ipq) : v \in Range(ipq')
      /\ \E v \in Range(ipq') : v.e = "Lang"
      /\ PpvFirst(ipq) => PpvFirst(ipq')
  BY <1>1, PutOther DEF IpEvents
<1>3. IpTypeOK' BY <1>1, <1>2
<1>4. LoadOK' BY <1>1, <1>2 DEF LoadOK
<1>5. KindOK' BY <1>1, <1>2 DEF KindOK, LoadOK
<1>6. PpvOK' BY <1>1, <1>2 DEF PpvOK, KindOK, LoadOK, CgOK
<1>7. CgOK' BY <1>1, <1>2 DEF CgOK, LoadOK
<1>8. OfTheSource' BY <1>1, <1>2 DEF OfTheSource, LoadOK
<1>9. GatewaySessionsAreClosed' BY <1>1, <1>2 DEF GatewaySessionsAreClosed, LoadOK
<1>10. SoundFollowsTheAlert'
  BY <1>1, <1>2 DEF SoundFollowsTheAlert, CgOK, LoadOK, EasAudioActive
<1>11. SpeedOK' BY <1>1, <1>2 DEF SpeedOK, CgOK, LoadOK
<1>12. RequestsOK' BY <1>1, <1>2 DEF RequestsOK, SpeedOK, CgOK, LoadOK, KindOK
<1>13. PlayOK' BY <1>1, <1>2 DEF PlayOK, PpvOK, CgOK, LoadOK, KindOK
<1> QED BY <1>3, <1>4, <1>5, <1>6, <1>7, <1>8, <1>9, <1>10, <1>11, <1>12, <1>13

LEMMA AlertStartsIInv ==
    ASSUME IpIInv,
           AlertStarts
    PROVE  IpIInv'
<1> USE DEF AlertStarts, IpHappens
<1>1. ipq' = ipq /\ Range(ipq') = Range(ipq) /\ PpvFirst(ipq') = PpvFirst(ipq)
  OBVIOUS
<1>2. IpTypeOK' BY <1>1
<1>3. LoadOK' BY <1>1 DEF LoadOK
<1>4. KindOK' BY <1>1 DEF KindOK, LoadOK
<1>5. PpvOK' BY <1>1 DEF PpvOK, KindOK, LoadOK, CgOK
<1>6. CgOK' BY <1>1 DEF CgOK, LoadOK
<1>7. OfTheSource' BY <1>1 DEF OfTheSource, LoadOK
<1>8. GatewaySessionsAreClosed' BY <1>1 DEF GatewaySessionsAreClosed, LoadOK
<1>9. SoundFollowsTheAlert' BY <1>1 DEF SoundFollowsTheAlert, CgOK, LoadOK, EasAudioActive
<1>10. SpeedOK' BY <1>1 DEF SpeedOK, CgOK, LoadOK
<1>11. RequestsOK' BY <1>1 DEF RequestsOK, SpeedOK, CgOK, LoadOK, KindOK
<1>12. PlayOK' BY <1>1 DEF PlayOK, PpvOK, CgOK, LoadOK, KindOK
<1> QED BY <1>2, <1>3, <1>4, <1>5, <1>6, <1>7, <1>8, <1>9, <1>10, <1>11, <1>12

LEMMA AlertEndsIInv ==
    ASSUME IpIInv,
           AlertEnds
    PROVE  IpIInv'
<1> USE DEF AlertEnds
<1>1. ipq' = ipq /\ Range(ipq') = Range(ipq) /\ PpvFirst(ipq') = PpvFirst(ipq)
  OBVIOUS
<1>2. IpTypeOK' BY <1>1
<1>3. LoadOK' BY <1>1 DEF LoadOK
<1>4. KindOK' BY <1>1 DEF KindOK, LoadOK
<1>5. PpvOK' BY <1>1 DEF PpvOK, KindOK, LoadOK, CgOK
<1>6. CgOK' BY <1>1 DEF CgOK, LoadOK
<1>7. OfTheSource' BY <1>1 DEF OfTheSource, LoadOK
<1>8. GatewaySessionsAreClosed' BY <1>1 DEF GatewaySessionsAreClosed, LoadOK
<1>9. SoundFollowsTheAlert' BY <1>1 DEF SoundFollowsTheAlert, CgOK, LoadOK, EasAudioActive
<1>10. SpeedOK' BY <1>1 DEF SpeedOK, CgOK, LoadOK
<1>11. RequestsOK' BY <1>1 DEF RequestsOK, SpeedOK, CgOK, LoadOK, KindOK
<1>12. PlayOK' BY <1>1 DEF PlayOK, PpvOK, CgOK, LoadOK, KindOK
<1> QED BY <1>2, <1>3, <1>4, <1>5, <1>6, <1>7, <1>8, <1>9, <1>10, <1>11, <1>12

\* An alert's sound.
LEMMA SoundTakenIInv ==
    ASSUME IpIInv,
           cg.st # "none", http.hasAudioPid, alert' = "on",
           cg' = [cg EXCEPT !.sound = FALSE, !.relit = FALSE], UNCHANGED <<ip, http, ipq>>
    PROVE  IpIInv'
<1>1. ipq' = ipq /\ Range(ipq') = Range(ipq) /\ PpvFirst(ipq') = PpvFirst(ipq)
  OBVIOUS
<1>2. IpTypeOK' BY <1>1
<1>3. LoadOK' BY <1>1 DEF LoadOK
<1>4. KindOK' BY <1>1 DEF KindOK, LoadOK
<1>5. PpvOK' BY <1>1 DEF PpvOK, KindOK, LoadOK, CgOK
<1>6. CgOK' BY <1>1 DEF CgOK, LoadOK
<1>7. OfTheSource' BY <1>1 DEF OfTheSource, LoadOK
<1>8. GatewaySessionsAreClosed' BY <1>1 DEF GatewaySessionsAreClosed, LoadOK
<1>9. SoundFollowsTheAlert' BY <1>1 DEF SoundFollowsTheAlert, CgOK, LoadOK, EasAudioActive
<1>10. SpeedOK' BY <1>1 DEF SpeedOK, CgOK, LoadOK
<1>11. RequestsOK' BY <1>1 DEF RequestsOK, SpeedOK, CgOK, LoadOK, KindOK
<1>12. PlayOK' BY <1>1 DEF PlayOK, PpvOK, CgOK, LoadOK, KindOK
<1> QED BY <1>2, <1>3, <1>4, <1>5, <1>6, <1>7, <1>8, <1>9, <1>10, <1>11, <1>12

LEMMA SoundGivenBackIInv ==
    ASSUME IpIInv,
           cg.st # "none", http.hasAudioPid, alert' = "no",
           cg' = [cg EXCEPT !.sound = TRUE, !.relit = FALSE], UNCHANGED <<ip, http, ipq>>
    PROVE  IpIInv'
<1>1. ipq' = ipq /\ Range(ipq') = Range(ipq) /\ PpvFirst(ipq') = PpvFirst(ipq)
  OBVIOUS
<1>2. IpTypeOK' BY <1>1
<1>3. LoadOK' BY <1>1 DEF LoadOK
<1>4. KindOK' BY <1>1 DEF KindOK, LoadOK
<1>5. PpvOK' BY <1>1 DEF PpvOK, KindOK, LoadOK, CgOK
<1>6. CgOK' BY <1>1 DEF CgOK, LoadOK
<1>7. OfTheSource' BY <1>1 DEF OfTheSource, LoadOK
<1>8. GatewaySessionsAreClosed' BY <1>1 DEF GatewaySessionsAreClosed, LoadOK
<1>9. SoundFollowsTheAlert' BY <1>1 DEF SoundFollowsTheAlert, CgOK, LoadOK, EasAudioActive
<1>10. SpeedOK' BY <1>1 DEF SpeedOK, CgOK, LoadOK
<1>11. RequestsOK' BY <1>1 DEF RequestsOK, SpeedOK, CgOK, LoadOK, KindOK
<1>12. PlayOK' BY <1>1 DEF PlayOK, PpvOK, CgOK, LoadOK, KindOK
<1> QED BY <1>2, <1>3, <1>4, <1>5, <1>6, <1>7, <1>8, <1>9, <1>10, <1>11, <1>12

LEMMA NoSoundToTakeIInv ==
    ASSUME IpIInv,
           cg.st = "none" \/ ~http.hasAudioPid, UNCHANGED <<ip, http, cg, ipq>>
    PROVE  IpIInv'
<1>1. ipq' = ipq /\ Range(ipq') = Range(ipq) /\ PpvFirst(ipq') = PpvFirst(ipq)
  OBVIOUS
<1>2. IpTypeOK' BY <1>1
<1>3. LoadOK' BY <1>1 DEF LoadOK
<1>4. KindOK' BY <1>1 DEF KindOK, LoadOK
<1>5. PpvOK' BY <1>1 DEF PpvOK, KindOK, LoadOK, CgOK
<1>6. CgOK' BY <1>1 DEF CgOK, LoadOK
<1>7. OfTheSource' BY <1>1 DEF OfTheSource, LoadOK
<1>8. GatewaySessionsAreClosed' BY <1>1 DEF GatewaySessionsAreClosed, LoadOK
<1>9. SoundFollowsTheAlert' BY <1>1 DEF SoundFollowsTheAlert, CgOK, LoadOK, EasAudioActive
<1>10. SpeedOK' BY <1>1 DEF SpeedOK, CgOK, LoadOK
<1>11. RequestsOK' BY <1>1 DEF RequestsOK, SpeedOK, CgOK, LoadOK, KindOK
<1>12. PlayOK' BY <1>1 DEF PlayOK, PpvOK, CgOK, LoadOK, KindOK
<1> QED BY <1>2, <1>3, <1>4, <1>5, <1>6, <1>7, <1>8, <1>9, <1>10, <1>11, <1>12

LEMMA NothingHappensIInv ==
    ASSUME IpIInv,
           UNCHANGED <<ip, http, cg, ipq, alert>>
    PROVE  IpIInv'
<1>1. ipq' = ipq /\ Range(ipq') = Range(ipq) /\ PpvFirst(ipq') = PpvFirst(ipq)
  OBVIOUS
<1>2. IpTypeOK' BY <1>1
<1>3. LoadOK' BY <1>1 DEF LoadOK
<1>4. KindOK' BY <1>1 DEF KindOK, LoadOK
<1>5. PpvOK' BY <1>1 DEF PpvOK, KindOK, LoadOK, CgOK
<1>6. CgOK' BY <1>1 DEF CgOK, LoadOK
<1>7. OfTheSource' BY <1>1 DEF OfTheSource, LoadOK
<1>8. GatewaySessionsAreClosed' BY <1>1 DEF GatewaySessionsAreClosed, LoadOK
<1>9. SoundFollowsTheAlert' BY <1>1 DEF SoundFollowsTheAlert, CgOK, LoadOK, EasAudioActive
<1>10. SpeedOK' BY <1>1 DEF SpeedOK, CgOK, LoadOK
<1>11. RequestsOK' BY <1>1 DEF RequestsOK, SpeedOK, CgOK, LoadOK, KindOK
<1>12. PlayOK' BY <1>1 DEF PlayOK, PpvOK, CgOK, LoadOK, KindOK
<1> QED BY <1>2, <1>3, <1>4, <1>5, <1>6, <1>7, <1>8, <1>9, <1>10, <1>11, <1>12

\* Speeds and positions, asked for or kept: the rest of the queue stays.
LEMMA RequestDroppedIInv ==
    ASSUME IpIInv,
           ip.mState # "Rendering" \/ ip.mIsVodPlay,
           NEW e \in {"PendingSpeed", "PendingPosition"}, KeepsAllBut(e),
           UNCHANGED <<ip, http, cg, alert>>
    PROVE  IpIInv'
<1> USE DEF KeepsAllBut
<1>1. IpTypeOK' OBVIOUS
<1>2. LoadOK' BY DEF LoadOK
<1>3. KindOK' BY DEF KindOK, LoadOK
<1>4. PpvOK' BY DEF PpvOK, KindOK, LoadOK, CgOK
<1>5. CgOK' BY DEF CgOK, LoadOK
<1>6. OfTheSource' BY DEF OfTheSource, LoadOK
<1>7. GatewaySessionsAreClosed' BY DEF GatewaySessionsAreClosed, LoadOK
<1>8. SoundFollowsTheAlert' BY DEF SoundFollowsTheAlert, CgOK, LoadOK, EasAudioActive
<1>9. SpeedOK' BY DEF SpeedOK, CgOK, LoadOK
<1>10. RequestsOK' BY DEF RequestsOK, SpeedOK, CgOK, LoadOK, KindOK
<1>11. PlayOK' BY DEF PlayOK, PpvOK, CgOK, LoadOK, KindOK
<1> QED BY <1>1, <1>2, <1>3, <1>4, <1>5, <1>6, <1>7, <1>8, <1>9, <1>10, <1>11

LEMMA FilmSpeedIInv ==
    ASSUME IpIInv,
           NEW r, KeepsAllBut("PendingSpeed"), UNCHANGED alert, ip.mIsVodPlay,
           ip' = [ip EXCEPT !.num = r], UNCHANGED <<http, cg>>
    PROVE  IpIInv'
<1> USE DEF KeepsAllBut
<1>1. IpTypeOK' OBVIOUS
<1>2. LoadOK' BY DEF LoadOK
<1>3. KindOK' BY DEF KindOK, LoadOK
<1>4. PpvOK' BY DEF PpvOK, KindOK, LoadOK, CgOK
<1>5. CgOK' BY DEF CgOK, LoadOK
<1>6. OfTheSource' BY DEF OfTheSource, LoadOK
<1>7. GatewaySessionsAreClosed' BY DEF GatewaySessionsAreClosed, LoadOK
<1>8. SoundFollowsTheAlert' BY DEF SoundFollowsTheAlert, CgOK, LoadOK, EasAudioActive
<1>9. SpeedOK' BY DEF SpeedOK, CgOK, LoadOK
<1>10. RequestsOK' BY DEF RequestsOK, SpeedOK, CgOK, LoadOK, KindOK
<1>11. PlayOK' BY DEF PlayOK, PpvOK, CgOK, LoadOK, KindOK
<1> QED BY <1>1, <1>2, <1>3, <1>4, <1>5, <1>6, <1>7, <1>8, <1>9, <1>10, <1>11

LEMMA NoSpeedIInv ==
    ASSUME IpIInv,
           NEW r, KeepsAllBut("PendingSpeed"), UNCHANGED alert, ip.mState = "Rendering",
           ~ip.mIsVodPlay, cg.st = "none", ip' = [ip EXCEPT !.num = r, !.asked = FALSE],
           UNCHANGED <<http, cg>>
    PROVE  IpIInv'
<1> USE DEF KeepsAllBut
<1>1. IpTypeOK' OBVIOUS
<1>2. LoadOK' BY DEF LoadOK
<1>3. KindOK' BY DEF KindOK, LoadOK
<1>4. PpvOK' BY DEF PpvOK, KindOK, LoadOK, CgOK
<1>5. CgOK' BY DEF CgOK, LoadOK
<1>6. OfTheSource' BY DEF OfTheSource, LoadOK
<1>7. GatewaySessionsAreClosed' BY DEF GatewaySessionsAreClosed, LoadOK
<1>8. SoundFollowsTheAlert' BY DEF SoundFollowsTheAlert, CgOK, LoadOK, EasAudioActive
<1>9. SpeedOK' BY DEF SpeedOK, CgOK, LoadOK
<1>10. RequestsOK' BY DEF RequestsOK, SpeedOK, CgOK, LoadOK, KindOK
<1>11. PlayOK' BY DEF PlayOK, PpvOK, CgOK, LoadOK, KindOK
<1> QED BY <1>1, <1>2, <1>3, <1>4, <1>5, <1>6, <1>7, <1>8, <1>9, <1>10, <1>11

LEMMA SameSpeedIInv ==
    ASSUME IpIInv,
           NEW r, KeepsAllBut("PendingSpeed"), UNCHANGED alert, ip.mState = "Rendering",
           ~ip.mIsVodPlay, cg.st # "none", http.num = r,
           ip' = [ip EXCEPT !.num = r, !.asked = TRUE], UNCHANGED <<http, cg>>
    PROVE  IpIInv'
<1> USE DEF KeepsAllBut
<1>1. IpTypeOK' OBVIOUS
<1>2. LoadOK' BY DEF LoadOK
<1>3. KindOK' BY DEF KindOK, LoadOK
<1>4. PpvOK' BY DEF PpvOK, KindOK, LoadOK, CgOK
<1>5. CgOK' BY DEF CgOK, LoadOK
<1>6. OfTheSource' BY DEF OfTheSource, LoadOK
<1>7. GatewaySessionsAreClosed' BY DEF GatewaySessionsAreClosed, LoadOK
<1>8. SoundFollowsTheAlert' BY DEF SoundFollowsTheAlert, CgOK, LoadOK, EasAudioActive
<1>9. SpeedOK' BY DEF SpeedOK, CgOK, LoadOK
<1>10. RequestsOK' BY DEF RequestsOK, SpeedOK, CgOK, LoadOK, KindOK
<1>11. PlayOK' BY DEF PlayOK, PpvOK, CgOK, LoadOK, KindOK
<1> QED BY <1>1, <1>2, <1>3, <1>4, <1>5, <1>6, <1>7, <1>8, <1>9, <1>10, <1>11

LEMMA SpeedIsKeptIInv ==
    ASSUME IpIInv,
           NEW r, KeepsAllBut("PendingSpeed"), UNCHANGED alert, ip.mState = "Rendering",
           ~ip.mIsVodPlay, cg.st # "none", http.num # r, Pending,
           ip' = [ip EXCEPT !.num = r, !.asked = TRUE],
           http' = [http EXCEPT !.pendingSetSpeed = TRUE], UNCHANGED cg
    PROVE  IpIInv'
<1> USE DEF KeepsAllBut
<1>1. IpTypeOK' OBVIOUS
<1>2. LoadOK' BY DEF LoadOK
<1>3. KindOK' BY DEF KindOK, LoadOK
<1>4. PpvOK' BY DEF PpvOK, KindOK, LoadOK, CgOK
<1>5. CgOK' BY DEF CgOK, LoadOK
<1>6. OfTheSource' BY DEF OfTheSource, LoadOK
<1>7. GatewaySessionsAreClosed' BY DEF GatewaySessionsAreClosed, LoadOK
<1>8. SoundFollowsTheAlert' BY DEF SoundFollowsTheAlert, CgOK, LoadOK, EasAudioActive
<1>9. SpeedOK' BY DEF SpeedOK, CgOK, LoadOK
<1>10. RequestsOK' BY DEF RequestsOK, SpeedOK, CgOK, LoadOK, KindOK
<1>11. PlayOK' BY DEF PlayOK, PpvOK, CgOK, LoadOK, KindOK
<1> QED BY <1>1, <1>2, <1>3, <1>4, <1>5, <1>6, <1>7, <1>8, <1>9, <1>10, <1>11

LEMMA SpeedIsPassedIInv ==
    ASSUME IpIInv,
           NEW r, KeepsAllBut("PendingSpeed"), UNCHANGED alert, ip.mState = "Rendering",
           ~ip.mIsVodPlay, cg.st # "none", http.num # r, ~Pending,
           ip' = [ip EXCEPT !.num = r, !.asked = TRUE],
           http' = [http EXCEPT !.num = r, !.pendingPause = (r = 0),
                                !.pendingPlay = (r # 0), !.off = cg.due # <<>>],
           cg' = [cg EXCEPT !.rate = r, !.due = Append(@, r)]
    PROVE  IpIInv'
<1> USE DEF KeepsAllBut
<1>1. cg.due = <<>> => cg'.due = <<r>> OBVIOUS
<1>2. cg'.rate = r /\ http'.num = r /\ (~http'.off => cg.due = <<>>) OBVIOUS
<1>3. IpTypeOK' BY <1>1, <1>2
<1>4. LoadOK' BY <1>1, <1>2 DEF LoadOK
<1>5. KindOK' BY <1>1, <1>2 DEF KindOK, LoadOK
<1>6. PpvOK' BY <1>1, <1>2 DEF PpvOK, KindOK, LoadOK, CgOK
<1>7. CgOK' BY <1>1, <1>2 DEF CgOK, LoadOK
<1>8. OfTheSource' BY <1>1, <1>2 DEF OfTheSource, LoadOK
<1>9. GatewaySessionsAreClosed' BY <1>1, <1>2 DEF GatewaySessionsAreClosed, LoadOK
<1>10. SoundFollowsTheAlert'
  BY <1>1, <1>2 DEF SoundFollowsTheAlert, CgOK, LoadOK, EasAudioActive
<1>11. SpeedOK' BY <1>1, <1>2 DEF SpeedOK, CgOK, LoadOK
<1>12. RequestsOK' BY <1>1, <1>2 DEF RequestsOK, SpeedOK, CgOK, LoadOK, KindOK
<1>13. PlayOK' BY <1>1, <1>2 DEF PlayOK, PpvOK, CgOK, LoadOK, KindOK
<1> QED BY <1>3, <1>4, <1>5, <1>6, <1>7, <1>8, <1>9, <1>10, <1>11, <1>12, <1>13

LEMMA SpeedIsRefusedIInv ==
    ASSUME IpIInv,
           NEW r, KeepsAllBut("PendingSpeed"), UNCHANGED alert, ip.mState = "Rendering",
           ~ip.mIsVodPlay, cg.st # "none", http.num # r, ~Pending,
           ip' = [ip EXCEPT !.num = r, !.asked = FALSE],
           http' = [http EXCEPT !.num = r, !.pendingSetSpeed = FALSE, !.off = TRUE],
           UNCHANGED cg
    PROVE  IpIInv'
<1> USE DEF KeepsAllBut
<1>1. IpTypeOK' OBVIOUS
<1>2. LoadOK' BY DEF LoadOK
<1>3. KindOK' BY DEF KindOK, LoadOK
<1>4. PpvOK' BY DEF PpvOK, KindOK, LoadOK, CgOK
<1>5. CgOK' BY DEF CgOK, LoadOK
<1>6. OfTheSource' BY DEF OfTheSource, LoadOK
<1>7. GatewaySessionsAreClosed' BY DEF GatewaySessionsAreClosed, LoadOK
<1>8. SoundFollowsTheAlert' BY DEF SoundFollowsTheAlert, CgOK, LoadOK, EasAudioActive
<1>9. SpeedOK' BY DEF SpeedOK, CgOK, LoadOK
<1>10. RequestsOK' BY DEF RequestsOK, SpeedOK, CgOK, LoadOK, KindOK
<1>11. PlayOK' BY DEF PlayOK, PpvOK, CgOK, LoadOK, KindOK
<1> QED BY <1>1, <1>2, <1>3, <1>4, <1>5, <1>6, <1>7, <1>8, <1>9, <1>10, <1>11

LEMMA NoPositionIInv ==
    ASSUME IpIInv,
           NEW p, KeepsAllBut("PendingPosition"), UNCHANGED alert, ip.mState = "Rendering",
           ~ip.mIsVodPlay, cg.st = "none", ip' = [ip EXCEPT !.pos = p, !.sought = FALSE],
           UNCHANGED <<http, cg>>
    PROVE  IpIInv'
<1> USE DEF KeepsAllBut
<1>1. IpTypeOK' OBVIOUS
<1>2. LoadOK' BY DEF LoadOK
<1>3. KindOK' BY DEF KindOK, LoadOK
<1>4. PpvOK' BY DEF PpvOK, KindOK, LoadOK, CgOK
<1>5. CgOK' BY DEF CgOK, LoadOK
<1>6. OfTheSource' BY DEF OfTheSource, LoadOK
<1>7. GatewaySessionsAreClosed' BY DEF GatewaySessionsAreClosed, LoadOK
<1>8. SoundFollowsTheAlert' BY DEF SoundFollowsTheAlert, CgOK, LoadOK, EasAudioActive
<1>9. SpeedOK' BY DEF SpeedOK, CgOK, LoadOK
<1>10. RequestsOK' BY DEF RequestsOK, SpeedOK, CgOK, LoadOK, KindOK
<1>11. PlayOK' BY DEF PlayOK, PpvOK, CgOK, LoadOK, KindOK
<1> QED BY <1>1, <1>2, <1>3, <1>4, <1>5, <1>6, <1>7, <1>8, <1>9, <1>10, <1>11

LEMMA PositionIsKeptIInv ==
    ASSUME IpIInv,
           NEW p, KeepsAllBut("PendingPosition"), UNCHANGED alert, ip.mState = "Rendering",
           ~ip.mIsVodPlay, cg.st # "none", Pending,
           ip' = [ip EXCEPT !.pos = p, !.sought = TRUE],
           http' = [http EXCEPT !.pendingSetPosition = TRUE], UNCHANGED cg
    PROVE  IpIInv'
<1> USE DEF KeepsAllBut
<1>1. IpTypeOK' OBVIOUS
<1>2. LoadOK' BY DEF LoadOK
<1>3. KindOK' BY DEF KindOK, LoadOK
<1>4. PpvOK' BY DEF PpvOK, KindOK, LoadOK, CgOK
<1>5. CgOK' BY DEF CgOK, LoadOK
<1>6. OfTheSource' BY DEF OfTheSource, LoadOK
<1>7. GatewaySessionsAreClosed' BY DEF GatewaySessionsAreClosed, LoadOK
<1>8. SoundFollowsTheAlert' BY DEF SoundFollowsTheAlert, CgOK, LoadOK, EasAudioActive
<1>9. SpeedOK' BY DEF SpeedOK, CgOK, LoadOK
<1>10. RequestsOK' BY DEF RequestsOK, SpeedOK, CgOK, LoadOK, KindOK
<1>11. PlayOK' BY DEF PlayOK, PpvOK, CgOK, LoadOK, KindOK
<1> QED BY <1>1, <1>2, <1>3, <1>4, <1>5, <1>6, <1>7, <1>8, <1>9, <1>10, <1>11

LEMMA PositionIsPassedIInv ==
    ASSUME IpIInv,
           NEW p, KeepsAllBut("PendingPosition"), UNCHANGED alert, ip.mState = "Rendering",
           ~ip.mIsVodPlay, cg.st # "none", ~Pending,
           ip' = [ip EXCEPT !.pos = p, !.sought = TRUE],
           cg' = [cg EXCEPT !.pos = p, !.frame = cg.pids], UNCHANGED http
    PROVE  IpIInv'
<1> USE DEF KeepsAllBut
<1>1. IpTypeOK' OBVIOUS
<1>2. LoadOK' BY DEF LoadOK
<1>3. KindOK' BY DEF KindOK, LoadOK
<1>4. PpvOK' BY DEF PpvOK, KindOK, LoadOK, CgOK
<1>5. CgOK' BY DEF CgOK, LoadOK
<1>6. OfTheSource' BY DEF OfTheSource, LoadOK
<1>7. GatewaySessionsAreClosed' BY DEF GatewaySessionsAreClosed, LoadOK
<1>8. SoundFollowsTheAlert' BY DEF SoundFollowsTheAlert, CgOK, LoadOK, EasAudioActive
<1>9. SpeedOK' BY DEF SpeedOK, CgOK, LoadOK
<1>10. RequestsOK' BY DEF RequestsOK, SpeedOK, CgOK, LoadOK, KindOK
<1>11. PlayOK' BY DEF PlayOK, PpvOK, CgOK, LoadOK, KindOK
<1> QED BY <1>1, <1>2, <1>3, <1>4, <1>5, <1>6, <1>7, <1>8, <1>9, <1>10, <1>11

LEMMA PositionIsRefusedIInv ==
    ASSUME IpIInv,
           NEW p, KeepsAllBut("PendingPosition"), UNCHANGED alert, ip.mState = "Rendering",
           ~ip.mIsVodPlay, cg.st # "none", ~Pending,
           ip' = [ip EXCEPT !.pos = p, !.sought = FALSE],
           http' = [http EXCEPT !.pendingSetPosition = FALSE], UNCHANGED cg
    PROVE  IpIInv'
<1> USE DEF KeepsAllBut
<1>1. IpTypeOK' OBVIOUS
<1>2. LoadOK' BY DEF LoadOK
<1>3. KindOK' BY DEF KindOK, LoadOK
<1>4. PpvOK' BY DEF PpvOK, KindOK, LoadOK, CgOK
<1>5. CgOK' BY DEF CgOK, LoadOK
<1>6. OfTheSource' BY DEF OfTheSource, LoadOK
<1>7. GatewaySessionsAreClosed' BY DEF GatewaySessionsAreClosed, LoadOK
<1>8. SoundFollowsTheAlert' BY DEF SoundFollowsTheAlert, CgOK, LoadOK, EasAudioActive
<1>9. SpeedOK' BY DEF SpeedOK, CgOK, LoadOK
<1>10. RequestsOK' BY DEF RequestsOK, SpeedOK, CgOK, LoadOK, KindOK
<1>11. PlayOK' BY DEF PlayOK, PpvOK, CgOK, LoadOK, KindOK
<1> QED BY <1>1, <1>2, <1>3, <1>4, <1>5, <1>6, <1>7, <1>8, <1>9, <1>10, <1>11

HIDE DEF IpIInv, IpTypeOK, NoSession, FromSource, FromPpv, PpvStates, Pending, Queued, AnswerComes

\* The end of the stream that CGMI's state tells, and what was kept for it, are queued.
LEMMA CgReportsStateIInv ==
    ASSUME IpIInv, CgReportsState
    PROVE  IpIInv'
<1> DEFINE r == Head(cg.due)
           ends == EndsReached(r)
           h == IF ends = <<Ev("BOF")>> THEN Cleared(http) ELSE http
           position == IF h.pendingSetPosition THEN <<Ev("PendingPosition")>> ELSE <<>>
           speed == IF h.pendingSetSpeed THEN <<Ev("PendingSpeed")>> ELSE <<>>
<1>1. ipq \in Seq(EventSet) /\ IpTypeOK
  BY DEF IpIInv, IpTypeOK
<1>2. \A e \in {"EOF", "BOF", "PendingPosition", "PendingSpeed"} :
          Ev(e) \in EventSet /\ Ev(e).e = e /\ Ev(e).n = ip.source /\ e \notin FromPpv
  BY <1>1, EventIsOfTheSource DEF IpEvents, FromSource, FromPpv, PpvStates
<1>3. /\ ends \in Seq(EventSet)
      /\ \A v \in Range(ends) : v.e \in {"EOF", "BOF"} /\ v.n = ip.source
  <2>1. ends = <<>> \/ ends = <<Ev("EOF")>> \/ ends = <<Ev("BOF")>>
    BY DEF EndsReached
  <2>2. CASE ends = <<>>
    BY <2>2, QEmpty
  <2>3. CASE ends = <<Ev("EOF")>>
    BY <1>2, <2>3, QOne
  <2>4. CASE ends = <<Ev("BOF")>>
    BY <1>2, <2>4, QOne
  <2> QED
    BY <2>1, <2>2, <2>3, <2>4
<1>4. /\ position \in Seq(EventSet)
      /\ \A v \in Range(position) : v.e = "PendingPosition" /\ v.n = ip.source
      /\ h.pendingSetPosition => \E v \in Range(position) : v.e = "PendingPosition"
  <2>1. CASE h.pendingSetPosition
    <3>1. position = <<Ev("PendingPosition")>>
      BY <2>1
    <3> HIDE DEF position
    <3> QED
      BY <1>2, <3>1, QOne
  <2>2. CASE ~h.pendingSetPosition
    <3>1. position = <<>>
      BY <2>2
    <3> QED
      BY <2>2, <3>1, QEmpty
  <2> QED
    BY <2>1, <2>2
<1>5. /\ speed \in Seq(EventSet)
      /\ \A v \in Range(speed) : v.e = "PendingSpeed" /\ v.n = ip.source
      /\ h.pendingSetSpeed => \E v \in Range(speed) : v.e = "PendingSpeed"
  <2>1. CASE h.pendingSetSpeed
    <3>1. speed = <<Ev("PendingSpeed")>>
      BY <2>1
    <3> HIDE DEF speed
    <3> QED
      BY <1>2, <3>1, QOne
  <2>2. CASE ~h.pendingSetSpeed
    <3>1. speed = <<>>
      BY <2>2
    <3> QED
      BY <2>2, <3>1, QEmpty
  <2> QED
    BY <2>1, <2>2
<1>6. ipq' = (ipq \o ends) \o (position \o speed)
  BY DEF CgReportsState, KeptRequests
<1>7. /\ cg.due # <<>> /\ UNCHANGED <<alert, ipBudget>>
      /\ http' = [h EXCEPT !.pendingSetPosition = FALSE, !.pendingSetSpeed = FALSE,
                           !.pendingPlay = @ /\ r = 0, !.pendingPause = @ /\ r # 0, !.num = r]
      /\ cg' = [cg EXCEPT !.due = Tail(@)]
      /\ ip' = [ip EXCEPT !.asked = @ /\ ends = <<>>, !.sought = @ /\ ends = <<>>]
  BY DEF CgReportsState
<1>8. /\ DOMAIN h = DOMAIN http /\ h.kind = http.kind /\ h.ppv = http.ppv /\ h.dead = http.dead
      /\ h.off = http.off /\ h.hasAudioPid = http.hasAudioPid
      /\ (h.pendingPlay => http.pendingPlay) /\ (h.pendingPause => http.pendingPause)
      /\ ends = <<>> => h = http
  <2>1. CASE ends = <<Ev("BOF")>>
    <3>1. ends # <<>> /\ h = Cleared(http)
      BY <2>1
    <3> HIDE DEF ends, h
    <3> QED
      BY <1>1, <3>1 DEF IpTypeOK, Cleared
  <2>2. CASE ends # <<Ev("BOF")>>
    <3>1. h = http
      BY <2>2
    <3> QED
      BY <3>1
  <2> QED
    BY <2>1, <2>2
<1> HIDE DEF r, ends, h, position, speed
<1>9. /\ ipq' \in Seq(EventSet)
      /\ \A v \in Range(ipq') : \/ v \in Range(ipq)
                                \/ /\ v.e \in {"EOF", "BOF", "PendingPosition", "PendingSpeed"}
                                   /\ v.n = ip.source
      /\ \A v \in Range(ipq) : v \in Range(ipq')
      /\ h.pendingSetPosition => \E v \in Range(ipq') : v.e = "PendingPosition"
      /\ h.pendingSetSpeed => \E v \in Range(ipq') : v.e = "PendingSpeed"
      /\ PpvFirst(ipq) => PpvFirst(ipq')
  <2>1. /\ ipq \o ends \in Seq(EventSet)
        /\ \A v : v \in Range(ipq \o ends) <=> v \in Range(ipq) \/ v \in Range(ends)
        /\ PpvFirst(ipq) => PpvFirst(ipq \o ends)
    BY <1>1, <1>2, <1>3, QConcat
  <2>2. /\ position \o speed \in Seq(EventSet)
        /\ \A v : v \in Range(position \o speed) <=> v \in Range(position) \/ v \in Range(speed)
    BY <1>2, <1>4, <1>5, QConcat
  <2>3. \A v \in Range(position \o speed) :
            v.e \in {"PendingPosition", "PendingSpeed"} /\ v.n = ip.source /\ v.e \notin FromPpv
    BY <1>2, <1>4, <1>5, <2>2
  <2>4. /\ ipq' \in Seq(EventSet)
        /\ \A v : v \in Range(ipq') <=> v \in Range(ipq \o ends) \/ v \in Range(position \o speed)
        /\ PpvFirst(ipq \o ends) => PpvFirst(ipq')
    BY <1>6, <2>1, <2>2, <2>3, QConcat
  <2> QED
    BY <1>3, <1>4, <1>5, <2>1, <2>2, <2>3, <2>4
<1>10. /\ ip'.asked => ip.asked /\ h = http
       /\ ip'.sought => ip.sought /\ h = http
       /\ \A f \in DOMAIN ip \ {"asked", "sought"} : ip'[f] = ip[f]
       /\ DOMAIN ip' = DOMAIN ip
  BY <1>1, <1>7, <1>8 DEF IpTypeOK
<1>11. /\ DOMAIN http' = DOMAIN http /\ http'.num = r
       /\ http'.kind = http.kind /\ http'.ppv = http.ppv /\ http'.dead = http.dead
       /\ http'.off = http.off /\ http'.hasAudioPid = http.hasAudioPid
       /\ http'.pendingPlay => http.pendingPlay /\ r = 0
       /\ http'.pendingPause => http.pendingPause /\ r # 0
  BY <1>1, <1>7, <1>8 DEF IpTypeOK
<1>12. /\ DOMAIN cg' = DOMAIN cg
       /\ \A f \in DOMAIN cg \ {"due"} : cg'[f] = cg[f]
       /\ cg'.due = Tail(cg.due)
  BY <1>1, <1>7 DEF IpTypeOK
<1>13. cg.st # "none"
  BY <1>7 DEF IpIInv, CgOK, NoSession
<1>14. ~http.off => /\ cg.due = <<cg.rate>> /\ r = cg.rate /\ cg'.due = <<>>
                    /\ http.num = cg.rate /\ ~Pending'
  <2>1. ASSUME ~http.off
        PROVE  /\ cg.due = <<cg.rate>> /\ http.num = cg.rate
               /\ http.pendingPause => cg.rate = 0
               /\ http.pendingPlay => cg.rate # 0
    BY <1>7, <1>13, <2>1 DEF IpIInv, SpeedOK
  <2>2. ASSUME cg.due = <<cg.rate>> PROVE r = cg.rate /\ Tail(cg.due) = <<>>
    BY <2>2 DEF r
  <2>3. ASSUME ~http.off PROVE ~http'.pendingPlay /\ ~http'.pendingPause
    BY <1>11, <2>1, <2>2, <2>3
  <2> QED
    BY <1>12, <2>1, <2>2, <2>3 DEF Pending
<1>15. ip'.source = ip.source /\ ip'.retried = ip.retried /\ ip'.busy = ip.busy
  BY <1>1, <1>10 DEF IpTypeOK
<1>16. IpTypeOK'
  BY <1>9, <1>10, <1>11, <1>12, <1>15 DEF IpIInv, IpTypeOK
<1>17. LoadOK'
  BY <1>1, <1>7, <1>10, <1>13 DEF IpIInv, LoadOK, NoSession
<1>18. KindOK'
  BY <1>1, <1>10, <1>11, <1>12 DEF IpIInv, KindOK, IpTypeOK
<1>19. PpvOK'
  BY <1>1, <1>2, <1>9, <1>10, <1>12 DEF IpIInv, PpvOK, IpTypeOK
<1>20. CgOK'
  BY <1>1, <1>11, <1>12, <1>13 DEF IpIInv, CgOK, IpTypeOK
<1>21. OfTheSource'
  BY <1>9, <1>15 DEF IpIInv, OfTheSource
<1>22. GatewaySessionsAreClosed'
  BY <1>1, <1>10 DEF IpIInv, GatewaySessionsAreClosed, IpTypeOK
<1>23. SoundFollowsTheAlert'
  BY <1>1, <1>7, <1>12 DEF IpIInv, SoundFollowsTheAlert, IpTypeOK
<1>24. SpeedOK'
  BY <1>1, <1>11, <1>12, <1>14 DEF IpIInv, SpeedOK, Pending, IpTypeOK
<1>25. RequestsOK'
  BY <1>1, <1>9, <1>10, <1>11, <1>12, <1>13, <1>14, SMTT(30) DEF IpIInv, RequestsOK, Queued, IpTypeOK
<1>26. PlayOK'
  BY <1>1, <1>9, <1>10, <1>11, <1>12, SMTT(30) DEF IpIInv, PlayOK, AnswerComes, Queued, IpTypeOK
<1> QED
  BY <1>16, <1>17, <1>18, <1>19, <1>20, <1>21, <1>22, <1>23, <1>24, <1>25, <1>26 DEF IpIInv

------------------------------------------------------------------------------
(* The operations, of their steps *)

LEMMA InitIpIInv ==
    ASSUME IpInit
    PROVE  IpIInv
<1>1. PICK isMrdvr \in BOOLEAN : ip = NewIp(isMrdvr)
  BY DEF IpInit
<1>2. /\ ip.mState = "Idle" /\ ip.mSessionState = "Idle" /\ ~ip.mIsVodPlay /\ ip.kind = "live"
      /\ ip.source = 0 /\ ip.num = 100 /\ ip.pos = 0 /\ ~ip.open /\ ~ip.sse /\ ~ip.rtt
      /\ ~ip.rttCalls /\ ip.busy = "no" /\ ~ip.retried /\ ~ip.waits /\ ~ip.asked /\ ~ip.sought
  BY <1>1 DEF NewIp
<1>3. /\ http = NewHttpSource("live") /\ cg = NoSession /\ ipq = <<>> /\ alert = "no"
      /\ Range(ipq) = {} /\ PpvFirst(ipq) /\ ipq \in Seq(EventSet)
  BY QEmpty DEF IpInit
<1>4. IpTypeOK
  BY <1>1, <1>2, <1>3 DEF IpTypeOK, NewIp, NewHttpSource, NoSession
<1>5. LoadOK /\ KindOK /\ PpvOK /\ OfTheSource /\ GatewaySessionsAreClosed
  BY <1>2, <1>3 DEF LoadOK, KindOK, PpvOK, OfTheSource, GatewaySessionsAreClosed, NewHttpSource,
     NoSession
<1>6. CgOK /\ SoundFollowsTheAlert /\ SpeedOK /\ RequestsOK /\ PlayOK
  BY <1>2, <1>3 DEF CgOK, SoundFollowsTheAlert, SpeedOK, RequestsOK, PlayOK, NoSession
<1> QED
  BY <1>4, <1>5, <1>6 DEF IpIInv

LEMMA IpLoadIInv == ASSUME IpIInv, IpLoad PROVE IpIInv'
<1>1. PICK kind \in IpKinds : /\ kind = "recording" <=> ip.isMrdvr
                              /\ LoadStops(kind) \/ FirstLoad(kind)
  BY DEF IpLoad
<1>2. CASE LoadStops(kind)
  BY <1>1, <1>2, LoadStopsIInv
<1>3. CASE FirstLoad(kind)
  <2>1. PICK ok \in BOOLEAN :
            LET i == [ip EXCEPT !.mIsVodPlay = (kind = "vod"), !.kind = kind]
            IN  ip' = WithSource(i, ok) /\ cg' = LoadedSession(i, ok)
    BY <1>3 DEF FirstLoad
  <2>2. /\ ip.busy = "no" /\ ip.mState \in {"Idle", "Stop"} /\ ip.source = 0
        /\ http' = NewHttpSource(kind) /\ UNCHANGED <<ipq, alert>>
    BY <1>3 DEF FirstLoad, IpCall
  <2> QED
    BY <1>1, <2>1, <2>2, FirstLoadIInv
<1> QED
  BY <1>1, <1>2, <1>3

LEMMA IpPlayIInv == ASSUME IpIInv, IpPlay PROVE IpIInv'
<1>1. ip.busy = "no" /\ ip.mState = "Stop" /\ UNCHANGED alert
  BY DEF IpPlay, IpCall
<1>2. CASE ip.isMrdvr /\ PlayRecorded
  <2>1. CASE /\ cg.st # "none" /\ ip' = [ip EXCEPT !.waits = TRUE, !.played = TRUE]
             /\ cg' = Streaming(cg) /\ http' = StartedOver
    BY <1>1, <1>2, <2>1, PlayRecordedIInv DEF PlayRecorded
  <2>2. CASE ip' = Told(ip) /\ UNCHANGED <<http, cg>>
    BY <1>1, <1>2, <2>2, PlayFailsIInv DEF PlayRecorded
  <2> QED
    BY <1>2, <2>1, <2>2 DEF PlayRecorded
<1>3. CASE ~ip.isMrdvr /\ PlayStream /\ UNCHANGED <<http, cg>>
  BY <1>1, <1>3, PlayStreamIInv
<1>4. CASE ~ip.isMrdvr /\ PlayFilm /\ UNCHANGED <<http, cg>>
  <2>1. PICK setUp \in BOOLEAN, known \in BOOLEAN :
            IF ~setUp
            THEN UNCHANGED <<ip, ipq>>
            ELSE /\ ip' = [ip EXCEPT !.open = TRUE, !.left = @ \/ ip.open,
                                     !.played = TRUE, !.waits = known]
                 /\ ipq' = IF known THEN Append(ipq, Ev("Play")) ELSE ipq
    BY <1>4 DEF PlayFilm
  <2>2. ip.mIsVodPlay
    BY <1>4 DEF PlayFilm
  <2>3. CASE ~setUp
    BY <1>1, <1>4, <2>1, <2>3, NothingHappensIInv
  <2>4. CASE setUp /\ known = TRUE
    BY <1>1, <1>4, <2>1, <2>2, <2>4, PlayFilmStartsIInv
  <2>5. CASE setUp /\ known = FALSE
    BY <1>1, <1>4, <2>1, <2>2, <2>5, PlayFilmFailsIInv
  <2> QED
    BY <2>3, <2>4, <2>5
<1> QED
  BY <1>2, <1>3, <1>4 DEF IpPlay

LEMMA StopEjectIInv == ASSUME IpIInv, IpStop \/ IpEject PROVE IpIInv'
<1>1. CASE IpStop
  <2>1. PICK ok \in BOOLEAN :
            ip' = [Told(ip) EXCEPT !.mState = "Stop", !.mSessionState = "Idle", !.rtt = FALSE,
                                   !.open = @ /\ ~(ok /\ ClosedByStop),
                                   !.left = @ \/ (~ok /\ ip.open),
                                   !.asked = FALSE, !.sought = FALSE, !.played = FALSE]
    BY <1>1 DEF IpStop
  <2>2. ip.busy = "no" /\ ipq' = <<>> /\ UNCHANGED <<http, cg, alert>>
    BY <1>1 DEF IpStop, IpCall
  <2> QED
    BY <2>1, <2>2, IpStopIInv
<1>2. CASE IpEject
  <2>1. ip.busy = "no" /\ UNCHANGED <<http, cg, alert>>
    BY <1>2 DEF IpEject, IpCall
  <2>2. CASE ip.mState = "Idle"
    BY <1>2, <2>1, <2>2, EjectIdleIInv DEF IpEject
  <2>3. CASE ip.mState # "Idle"
    BY <1>2, <2>1, <2>3, EjectQueuedIInv DEF IpEject
  <2> QED
    BY <2>2, <2>3
<1> QED
  BY <1>1, <1>2

LEMMA SetSpeedIInv ==
    ASSUME IpIInv, NEW r, SetSpeed(r), KeepsAllBut("PendingSpeed"), UNCHANGED alert
    PROVE  IpIInv'
<1>1. CASE ip.mState # "Rendering"
  BY <1>1, RequestDroppedIInv DEF SetSpeed
<1>2. CASE ip.mState = "Rendering" /\ ip.mIsVodPlay
  BY <1>2, FilmSpeedIInv DEF SetSpeed
<1>3. CASE ip.mState = "Rendering" /\ ~ip.mIsVodPlay
  <2>1. SourceSpeed(r)
    BY <1>3 DEF SetSpeed
  <2>2. CASE /\ cg.st = "none" /\ ip' = [ip EXCEPT !.num = r, !.asked = FALSE]
             /\ UNCHANGED <<http, cg>>
    BY <1>3, <2>2, NoSpeedIInv
  <2>3. CASE /\ cg.st # "none" /\ http.num = r
             /\ ip' = [ip EXCEPT !.num = r, !.asked = TRUE] /\ UNCHANGED <<http, cg>>
    BY <1>3, <2>3, SameSpeedIInv
  <2>4. CASE /\ cg.st # "none" /\ http.num # r /\ Pending
             /\ ip' = [ip EXCEPT !.num = r, !.asked = TRUE]
             /\ http' = [http EXCEPT !.pendingSetSpeed = TRUE] /\ UNCHANGED cg
    BY <1>3, <2>4, SpeedIsKeptIInv
  <2>5. CASE /\ cg.st # "none" /\ http.num # r /\ ~Pending
             /\ ip' = [ip EXCEPT !.num = r, !.asked = TRUE]
             /\ http' = [http EXCEPT !.num = r, !.pendingPause = (r = 0), !.pendingPlay = (r # 0),
                                     !.off = cg.due # <<>>]
             /\ cg' = [cg EXCEPT !.rate = r, !.due = Append(@, r)]
    BY <1>3, <2>5, SpeedIsPassedIInv
  <2>6. CASE /\ cg.st # "none" /\ http.num # r /\ ~Pending
             /\ ip' = [ip EXCEPT !.num = r, !.asked = FALSE]
             /\ http' = [http EXCEPT !.num = r, !.pendingSetSpeed = FALSE, !.off = TRUE]
             /\ UNCHANGED cg
    BY <1>3, <2>6, SpeedIsRefusedIInv
  <2> QED
    BY <2>1, <2>2, <2>3, <2>4, <2>5, <2>6 DEF SourceSpeed
<1> QED
  BY <1>1, <1>2, <1>3

LEMMA SetPositionIInv ==
    ASSUME IpIInv, NEW p, SetPosition(p), KeepsAllBut("PendingPosition"), UNCHANGED alert
    PROVE  IpIInv'
<1>1. CASE ip.mState # "Rendering" \/ ip.mIsVodPlay
  BY <1>1, RequestDroppedIInv DEF SetPosition
<1>2. CASE ip.mState = "Rendering" /\ ~ip.mIsVodPlay
  <2>1. SourcePosition(p)
    BY <1>2 DEF SetPosition
  <2>2. CASE /\ cg.st = "none" /\ ip' = [ip EXCEPT !.pos = p, !.sought = FALSE]
             /\ UNCHANGED <<http, cg>>
    BY <1>2, <2>2, NoPositionIInv
  <2>3. CASE /\ cg.st # "none" /\ Pending
             /\ ip' = [ip EXCEPT !.pos = p, !.sought = TRUE]
             /\ http' = [http EXCEPT !.pendingSetPosition = TRUE] /\ UNCHANGED cg
    BY <1>2, <2>3, PositionIsKeptIInv
  <2>4. CASE /\ cg.st # "none" /\ ~Pending
             /\ ip' = [ip EXCEPT !.pos = p, !.sought = TRUE]
             /\ cg' = [cg EXCEPT !.pos = p, !.frame = cg.pids] /\ UNCHANGED http
    BY <1>2, <2>4, PositionIsPassedIInv
  <2>5. CASE /\ cg.st # "none" /\ ~Pending
             /\ ip' = [ip EXCEPT !.pos = p, !.sought = FALSE]
             /\ http' = [http EXCEPT !.pendingSetPosition = FALSE] /\ UNCHANGED cg
    BY <1>2, <2>5, PositionIsRefusedIInv
  <2> QED
    BY <2>1, <2>2, <2>3, <2>4, <2>5 DEF SourcePosition
<1> QED
  BY <1>1, <1>2

LEMMA RequestsIInv ==
    ASSUME IpIInv, IpSetSpeed \/ IpSetPosition \/ OnPendingSpeed \/ OnPendingPosition
    PROVE  IpIInv'
<1>1. IpTypeOK
  BY DEF IpIInv
<1>2. CASE IpSetSpeed
  BY <1>1, <1>2, KeptOrHandled, SetSpeedIInv DEF IpSetSpeed
<1>3. CASE IpSetPosition
  BY <1>1, <1>3, KeptOrHandled, SetPositionIInv DEF IpSetPosition
<1>4. CASE OnPendingSpeed
  <2>1. UNCHANGED alert
    BY <1>4 DEF OnPendingSpeed, IpPopped
  <2> QED
    BY <1>1, <1>4, <2>1, KeptOrHandled, SetSpeedIInv DEF OnPendingSpeed
<1>5. CASE OnPendingPosition
  <2>1. UNCHANGED alert
    BY <1>5 DEF OnPendingPosition, IpPopped
  <2> QED
    BY <1>1, <1>5, <2>1, KeptOrHandled, SetPositionIInv DEF OnPendingPosition
<1> QED
  BY <1>2, <1>3, <1>4, <1>5

LEMMA OnPlayIInv == ASSUME IpIInv, OnPlay PROVE IpIInv'
<1>1. IpPopped("Play") /\ ipq' = Tail(ipq)
  BY DEF OnPlay
<1>2. CASE OnPlayWaits
  BY <1>1, <1>2, OnPlayWaitsIInv
<1>3. CASE OnPlayStreams
  <2>1. /\ http.kind = "ppv" => PpvOpen
        /\ http.kind # "ppv" => cg.st # "none"
    BY <1>3 DEF OnPlayStreams
  <2>2. PICK ok \in BOOLEAN :
            /\ cg' = IF ok THEN Streaming(cg) ELSE [cg EXCEPT !.st = "created"]
            /\ http' = [StartedOver EXCEPT !.dead = ~ok]
            /\ ip' = [ip EXCEPT !.mSessionState = IF ok THEN "Loading" ELSE @,
                                !.asked = FALSE, !.sought = FALSE]
    BY <1>3 DEF OnPlayStreams
  <2>3. CASE ok = TRUE
    BY <1>1, <2>1, <2>2, <2>3, OnPlayStreamsIInv
  <2>4. CASE ok = FALSE
    <3>1. ip' = [ip EXCEPT !.asked = FALSE, !.sought = FALSE]
      BY <2>2, <2>4 DEF IpIInv, IpTypeOK
    <3> QED
      BY <1>1, <2>1, <2>2, <2>4, <3>1, OnPlayStartFailsIInv
  <2> QED
    BY <2>3, <2>4
<1>4. CASE OnPlayFails
  BY <1>1, <1>4, OnPlayFailsIInv
<1> QED
  BY <1>2, <1>3, <1>4 DEF OnPlay

LEMMA OnPSIReadyIInv == ASSUME IpIInv, OnPSIReady PROVE IpIInv'
<1>1. IpPopped("PSIReady")
  BY DEF OnPSIReady
<1>2. CASE /\ TablesAreRead /\ cg' = Selected(cg)
           /\ http' = [http EXCEPT !.hasAudioPid = TRUE]
           /\ ipq' = Tail(ipq) \o (IF http.kind = "music" THEN <<Ev("FirstFrame")>> ELSE <<>>)
           /\ UNCHANGED ip
  <2>1. Tail(ipq) \in Seq(EventSet) /\ Ev("FirstFrame") \in EventSet
    BY <1>1, QTail, EventIsOfTheSource DEF IpIInv, IpTypeOK, IpPopped, IpEvents, FromSource
  <2>2. CASE http.kind = "music"
    BY <1>1, <1>2, <2>1, <2>2, AppendEv, SelectsMusicIInv
  <2>3. CASE http.kind # "music"
    BY <1>1, <1>2, <2>1, <2>3, AppendEv, SelectsIInv
  <2> QED
    BY <2>2, <2>3
<1>3. CASE ip' = Told(ip) /\ ipq' = Tail(ipq) /\ UNCHANGED <<http, cg>>
  BY <1>1, <1>3, PSIReadyFailsIInv
<1> QED
  BY <1>2, <1>3 DEF OnPSIReady

LEMMA OnRetryIInv == ASSUME IpIInv, OnRetry PROVE IpIInv'
<1>1. /\ ip.busy \in {"no", "eject"} /\ ipq # <<>> /\ Head(ipq).e \in {"Retry", "RTTRetry"}
      /\ UNCHANGED alert
  BY DEF OnRetry, IpPopped
<1>2. PICK ok \in BOOLEAN :
          LET i == [ip EXCEPT !.mState = "Stop", !.rtt = FALSE, !.retried = TRUE]
          IN  ip' = WithSource(i, ok) /\ cg' = LoadedSession(i, ok)
  BY DEF OnRetry, IpRetry
<1>3. http' = NewHttpSource(ip.kind) /\ ipq' = Append(Tail(ipq), Ev("Play"))
  BY DEF OnRetry, IpRetry
<1> QED
  BY <1>1, <1>2, <1>3, RetriesIInv

LEMMA OnPpvIInv == ASSUME IpIInv, OnPpv PROVE IpIInv'
<1>1. PICK e \in FromPpv :
          /\ IpPopped(e)
          /\ IF \/ e \in {"InterstitialStart", "InterstitialStop", "StartVideo", "StopVideo"}
                \/ e = "Expired" /\ ip.mState = "Rendering"
             THEN tearDownToRetune
             ELSE UNCHANGED <<ip, cg>>
          /\ ipq' = Tail(ipq) \o (IF e \in {"InterstitialStart", "StartVideo"}
                                  THEN <<Ev("Play")>> ELSE <<>>)
  BY DEF OnPpv
<1>2. UNCHANGED http
  BY DEF OnPpv
<1>3. Tail(ipq) \in Seq(EventSet) /\ Ev("Play") \in EventSet
  BY <1>1, QTail, EventIsOfTheSource DEF IpIInv, IpTypeOK, IpPopped, IpEvents
<1>4. CASE e \in {"InterstitialStart", "StartVideo"}
  <2>1. tearDownToRetune /\ ipq' = Append(Tail(ipq), Ev("Play"))
    BY <1>1, <1>3, <1>4, AppendEv
  <2> QED
    BY <1>1, <1>2, <2>1, TearsDownAndPlaysIInv DEF tearDownToRetune
<1>5. CASE e \notin {"InterstitialStart", "StartVideo"}
  <2>1. ipq' = Tail(ipq)
    BY <1>1, <1>3, <1>5, AppendEv
  <2>2. CASE tearDownToRetune
    BY <1>1, <1>2, <2>1, <2>2, TearsDownIInv DEF tearDownToRetune
  <2>3. CASE UNCHANGED <<ip, cg>>
    BY <1>1, <1>2, <2>1, <2>3, PpvToldIInv
  <2> QED
    BY <1>1, <2>2, <2>3
<1> QED
  BY <1>4, <1>5

LEMMA CgReportsIInv == ASSUME IpIInv, CgReports PROVE IpIInv'
<1>1. CASE CgReportsTable
  <2>1. PICK t \in cg.tables :
            /\ cg' = [cg EXCEPT !.tables = @ \ {t}]
            /\ http' = IF t = "PMT" THEN [http EXCEPT !.pmt = TRUE] ELSE http
            /\ ipq' = IF t = "PSI" THEN Append(ipq, Ev("PSIReady")) ELSE ipq
    BY <1>1 DEF CgReportsTable
  <2>2. UNCHANGED <<ip, alert>>
    BY <1>1 DEF CgReportsTable
  <2>3. CASE t = "PMT"
    BY <2>1, <2>2, <2>3, PMTReadyIInv
  <2>4. CASE t = "PSI"
    BY <2>1, <2>2, <2>4, PSIReadyIInv
  <2>5. CASE t \notin {"PMT", "PSI"}
    BY <2>1, <2>2, <2>5, OtherTableIInv
  <2> QED
    BY <2>3, <2>4, <2>5
<1> QED
  BY <1>1, CgReportsStateIInv, CgReportsFrameIInv DEF CgReports

LEMMA StreamFailsIInv == ASSUME IpIInv, StreamFails PROVE IpIInv'
<1>1. /\ cg.st = "playing"
      /\ cg' = [cg EXCEPT !.tables = {}, !.frame = FALSE, !.st = "failed", !.due = <<>>]
      /\ ip' = [ip EXCEPT !.asked = FALSE, !.sought = FALSE] /\ UNCHANGED alert
  BY DEF StreamFails
<1>2. PICK urlFails \in BOOLEAN :
          LET told == ~urlFails /\ ip.isMrdvr
          IN  /\ ipq' = IF told THEN Append(ipq, Ev("Problem")) ELSE ipq
              /\ http' = [http EXCEPT !.dead = ~told, !.off = TRUE]
  BY DEF StreamFails
<1>3. CASE ~urlFails /\ ip.isMrdvr
  <2>1. ipq' = Append(ipq, Ev("Problem")) /\ http' = [http EXCEPT !.dead = FALSE, !.off = TRUE]
    BY <1>2, <1>3
  <2> QED
    BY <1>1, <1>3, <2>1, StreamFailsToldIInv
<1>4. CASE ~(~urlFails /\ ip.isMrdvr)
  <2>1. ipq' = ipq /\ http' = [http EXCEPT !.dead = TRUE, !.off = TRUE]
    BY <1>2, <1>4
  <2> QED
    BY <1>1, <2>1, StreamFailsUntoldIInv
<1> QED
  BY <1>3, <1>4

LEMMA PpvTellsAtAllIInv == ASSUME IpIInv, PpvTells PROVE IpIInv'
<1>1. PICK e \in FromPpv : http' = [http EXCEPT !.ppv = e] /\ ipq' = Append(ipq, Ev(e))
  BY DEF PpvTells
<1> QED
  BY <1>1, PpvTellsIInv DEF PpvTells

LEMMA AlertTakesSoundIInv == ASSUME IpIInv, AlertTakesSound PROVE IpIInv'
<1>1. UNCHANGED <<ip, http, ipq>>
  BY DEF AlertTakesSound
<1>2. CASE cg.st = "none" \/ ~http.hasAudioPid
  BY <1>1, <1>2, NoSoundToTakeIInv DEF AlertTakesSound, Sounds
<1>3. CASE /\ cg.st # "none" /\ http.hasAudioPid /\ alert' = "on"
           /\ cg' = [cg EXCEPT !.sound = FALSE, !.relit = FALSE]
  BY <1>1, <1>3, SoundTakenIInv
<1>4. CASE /\ cg.st # "none" /\ http.hasAudioPid /\ alert' = "no"
           /\ cg' = [cg EXCEPT !.sound = TRUE, !.relit = FALSE]
  BY <1>1, <1>4, SoundGivenBackIInv
<1> QED
  BY <1>2, <1>3, <1>4 DEF AlertTakesSound, Sounds

LEMMA NextIInv ==
    ASSUME IpIInv, [IpNext]_ipVars
    PROVE  IpIInv'
<1>1. CASE IpCalls
  BY <1>1, IpLoadIInv, IpPlayIInv, StopEjectIInv, RequestsIInv, IpSetAudioPidIInv DEF IpCalls
<1>2. CASE LoadReplaces
  BY <1>2, LoadReplacesIInv
<1>3. CASE IpTearDown
  BY <1>3, IpTearDownIInv
<1>4. CASE IpThread
  BY <1>4, OnPlayIInv, OnPSIReadyIInv, OnFirstFrameIInv, OnToldOnlyIInv, RequestsIInv,
     OnLanguageIInv, OnGatewayIInv, OnRetryIInv, OnPpvIInv, OnExitIInv DEF IpThread
<1>5. CASE CgReports
  BY <1>5, CgReportsIInv
<1>6. CASE IpOthers
  BY <1>6, StreamEndsIInv, StreamFailsIInv, GatewayTellsIInv, PpvTellsAtAllIInv, RttChecksIInv,
     RttRetriesIInv, LanguageChangesIInv, AlertStartsIInv, AlertEndsIInv, AlertTakesSoundIInv
     DEF IpOthers
<1>7. CASE UNCHANGED ipVars
  BY <1>7, NothingHappensIInv DEF ipVars
<1> QED
  BY <1>1, <1>2, <1>3, <1>4, <1>5, <1>6, <1>7 DEF IpNext

------------------------------------------------------------------------------
(* The theorems *)

\* The induction, for any number of calls and of events.
THEOREM InductiveInvariant == IpSpec => []IpIInv
BY InitIpIInv, NextIInv, PTL DEF IpSpec

\* Load and Stop leave nothing in the queue that an earlier source reported
\* (zapper_ic.cpp), and Stop closes a film's session with the gateway.
THEOREM SessionIsKept == IpSpec => []IpSessionIsKept
<1>1. ASSUME IpIInv PROVE IpSessionIsKept
  <2>1. ipq \in Seq(EventSet) /\ OfTheSource /\ GatewaySessionsAreClosed
    BY <1>1 DEF IpIInv, IpTypeOK
  <2>2. \A i \in DOMAIN ipq : ipq[i] \in Range(ipq)
    BY <2>1 DEF Range
  <2>3. EventsAreOfTheSource
    BY <2>1, <2>2 DEF OfTheSource, EventsAreOfTheSource
  <2> QED
    BY <2>1, <2>3 DEF IpSessionIsKept
<1> QED
  BY <1>1, InductiveInvariant, PTL

\* SetAudio and the selection of the programme's components agree with an alert
\* that comes between any two of their steps.
THEOREM SoundAlwaysFollows == IpSpec => []SoundFollowsTheAlert
<1>1. IpIInv => SoundFollowsTheAlert
  BY DEF IpIInv
<1> QED
  BY <1>1, InductiveInvariant, PTL

\* The speed and the position that the client asked for are those that CGMI plays
\* at, once everything is handled, and Play has then been answered.
THEOREM ClientAlwaysServed == IpSpec => []ClientIsServed
<1>1. ASSUME IpIInv, AtRest PROVE ~Queued("Play") /\ \A e : ~Queued(e)
  BY <1>1, QEmpty DEF AtRest, Queued
<1>2. ASSUME IpIInv, AtRest, ~http.off
      PROVE  (ip.asked => cg.rate = ip.num) /\ (ip.sought => cg.pos = ip.pos)
  BY <1>1, <1>2 DEF IpIInv, AtRest, RequestsOK, SpeedOK, CgOK
<1>3. ASSUME IpIInv, AtRest PROVE ~ip.waits \/ http.dead \/ ip.kind = "ppv"
  BY <1>1, <1>3 DEF IpIInv, AtRest, PlayOK, AnswerComes, CgOK
<1>4. IpIInv => ClientIsServed
  BY <1>2, <1>3 DEF ClientIsServed, RequestsAreCarriedOut, IpPlayIsAnswered
<1> QED
  BY <1>4, InductiveInvariant, PTL

=============================================================================
