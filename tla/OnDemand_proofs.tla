---------------------------- MODULE OnDemand_proofs ----------------------------
(***************************************************************************)
(* The parts of MCOnDemand for any constants: a movie of the box, a film   *)
(* of the gateway for an IP client, and the stream of a recording in the   *)
(* network.                                                                *)
(***************************************************************************)
EXTENDS MCOnDemand, SequenceTheorems, FiniteSetTheorems, WellFoundedInduction, TLAPS

------------------------------------------------------------------------------
(* The movie: its state, part by part *)

Messages == [trans : Nat, count : Nat]

SessionRecord == [id : Nat, trans : Nat, sends : SUBSET Messages, mistaken : BOOLEAN]

AnswerRecord == [type : {"SetUpConfirm", "ReleaseConfirm"}, session : Nat, trans : Nat, ok : BOOLEAN]

StreamRecord == [exists : BOOLEAN, set : BOOLEAN, socketFd : {"none", "open", "broken"},
                 numerator : Scales, retstatus : StreamStatuses, failCount : Nat,
                 cut : 0..ReplySize - 1, sent : Scales, moved : BOOLEAN, lost : BOOLEAN]

StreamMessages == [type : {"reply", "LSC_DONE"}, num : Scales, status : StreamStatuses]

ControllerRecord == [state : OnDemandStates, active : BOOLEAN, numerator : Speeds \cup {SpeedUnit},
                     pendingPlay : BOOLEAN, pendingSpeed : BOOLEAN, pendingPosition : BOOLEAN,
                     retries : 0..maxForwardCount, streamEvent : BOOLEAN, problem : BOOLEAN,
                     unreported : BOOLEAN]

QueueOK == queue \in Seq(OnDemandEvents) /\ spent \in 0..Budget

\* A session control that is there is that of the last session, and only it
\* waits for answers.
SessionOK ==
    /\ ses \in SessionRecord
    /\ mPrevVodSessionId \in 0..MaxSessions
    /\ ses.id \in {0, mPrevVodSessionId}
    /\ ses.id = 0 => ses.sends = {}
    /\ \A m \in ses.sends : m.trans \in 1..ses.trans /\ m.count \in 1..(messageRetryCount + 1)
    /\ IsABag(net)
    /\ \A m \in BagToSet(net) : m \in AnswerRecord /\ m.session \in 1..mPrevVodSessionId

\* What the controller and the stream control have of each other: a position,
\* which resets the speed, is sent before the movie streams, and then the speed
\* that is not pending is the one that was sent, or a position was.
Sends(num) == IF num = 0 THEN 0 ELSE Scale(num)

SpeedOK(c, s) ==
    s.exists =>
        /\ c.state \in {"ControlServerPending", "TunerPending"} => s.moved
        /\ c.state = "Streaming" /\ ~c.pendingSpeed => s.moved \/ s.sent = Sends(c.numerator)

Boxes == [ctl : ControllerRecord, strm : StreamRecord, out : Seq(Scales)]

BoxOK(b) ==
    /\ b \in Boxes
    /\ SpeedOK(b.ctl, b.strm)

StreamOK == fromStream \in Seq(StreamMessages) /\ streamer \in Scales

OneStop == \A i, j \in 1..Len(queue) :
              queue[i] = "StopController" /\ queue[j] = "StopController" => i = j

\* Who is where in the life of a movie: a controller that is not in the list is
\* not loaded, or waited for by Stop; the event that takes it off the list is
\* queued once, while it is on it.
LifeOK ==
    /\ call \in {"none", "Play", "Stop", "Stopping"}
    /\ tuner \in {"idle", "playing", "rendering"}
    /\ ctl.active <=> ses.id # 0
    /\ ~ctl.active => ctl.state = "None" \/ call = "Stopping"
    /\ ctl.state = "None" => ~ctl.active /\ call = "none"
    /\ call = "Play" => ctl.state = "PreparingToView" /\ ses.trans > 0
    /\ (\E i \in 1..Len(queue) : queue[i] = "StopController") => call = "Stopping" /\ ctl.active
    /\ OneStop

\* A session that was served has its release sent, or will when Stop comes;
\* what is on the way after Stop cannot serve it again, but for an error.
ReleaseOK ==
    /\ log \in [served : BOOLEAN, released : BOOLEAN, upset : BOOLEAN]
    /\ log.served =>
          \/ log.released \/ log.upset
          \/ /\ ctl.state \in SessionIsUp \ {"StopPending"}
             /\ ctl.active /\ call \notin {"Stop", "Stopping"}
    /\ call \in {"Stop", "Stopping"} => ctl.state \in {"StopPending", "Stopped"} \/ log.upset

MovieInv == QueueOK /\ SessionOK /\ BoxOK(Box) /\ StreamOK /\ LifeOK /\ ReleaseOK

------------------------------------------------------------------------------
(* The queue and the budget *)

LEMMA QueueFacts ==
    ASSUME NEW q \in Seq(OnDemandEvents)
    PROVE  /\ \A e \in OnDemandEvents :
                 /\ Append(q, e) \in Seq(OnDemandEvents)
                 /\ Len(Append(q, e)) = Len(q) + 1
                 /\ \A i \in 1..Len(q) : Append(q, e)[i] = q[i]
                 /\ Append(q, e)[Len(q) + 1] = e
           /\ q # <<>> =>
                 /\ Head(q) = q[1] /\ 1 \in 1..Len(q)
                 /\ Tail(q) \in Seq(OnDemandEvents) /\ Len(Tail(q)) = Len(q) - 1
                 /\ \A i \in 1..Len(q) - 1 : Tail(q)[i] = q[i + 1]
           /\ Len(q) \in Nat
BY AppendProperties, HeadTailProperties, EmptySeq, LenProperties

\* An event behind the others; one that stops the controller, if none did.
LEMMA Queues ==
    ASSUME QueueOK, OneStop, NEW e \in OnDemandEvents, queueEvent(e),
           e = "StopController" => \A i \in 1..Len(queue) : queue[i] # "StopController"
    PROVE  /\ queue' \in Seq(OnDemandEvents) /\ OneStop'
           /\ (\E i \in 1..Len(queue') : queue'[i] = "StopController") =>
                 \/ e = "StopController"
                 \/ \E i \in 1..Len(queue) : queue[i] = "StopController"
<1>1. /\ queue' \in Seq(OnDemandEvents) /\ Len(queue) \in Nat
      /\ Len(queue') = Len(queue) + 1
      /\ \A i \in 1..Len(queue) : queue'[i] = queue[i]
      /\ queue'[Len(queue) + 1] = e
  BY QueueFacts DEF queueEvent, QueueOK
<1>2. \A i \in 1..Len(queue') : i \in 1..Len(queue) \/ i = Len(queue) + 1
  BY <1>1
<1> QED
  BY <1>1, <1>2 DEF OneStop

\* The first event is taken; if it stops the controller, none other does.
LEMMA Unqueues ==
    ASSUME QueueOK, OneStop, queue # <<>>, queue' = Tail(queue)
    PROVE  /\ queue' \in Seq(OnDemandEvents) /\ OneStop'
           /\ Head(queue) \in OnDemandEvents
           /\ (\E i \in 1..Len(queue') : queue'[i] = "StopController") =>
                 /\ \E i \in 1..Len(queue) : queue[i] = "StopController"
                 /\ Head(queue) # "StopController"
           /\ Head(queue) = "StopController" =>
                 \E i \in 1..Len(queue) : queue[i] = "StopController"
<1>1. /\ Head(queue) = queue[1] /\ 1 \in 1..Len(queue) /\ Len(queue) \in Nat
      /\ queue' \in Seq(OnDemandEvents) /\ Len(queue') = Len(queue) - 1
      /\ \A i \in 1..Len(queue') : queue'[i] = queue[i + 1]
  BY QueueFacts DEF QueueOK
<1>2. queue[1] \in OnDemandEvents
  BY <1>1, ElementOfSeq DEF QueueOK
<1>3. \A i \in 1..Len(queue') : i + 1 \in 1..Len(queue) /\ i + 1 # 1
  BY <1>1
<1>4. OneStop'
  BY <1>1, <1>3 DEF OneStop
<1>5. ASSUME NEW i \in 1..Len(queue'), queue'[i] = "StopController"
      PROVE  /\ \E k \in 1..Len(queue) : queue[k] = "StopController"
             /\ Head(queue) # "StopController"
  BY <1>1, <1>3, <1>5 DEF OneStop
<1> QED
  BY <1>1, <1>2, <1>4, <1>5

LEMMA CostsSpent ==
    ASSUME spent \in 0..Budget, NEW bad, NEW worse, Costs(bad, worse)
    PROVE  spent' \in 0..Budget
BY OnDemandAssumption DEF Costs, Count

------------------------------------------------------------------------------
(* The session control *)

LEMMA BagAdds ==
    ASSUME NEW b, IsABag(b), NEW e
    PROVE  IsABag(b (+) SetToBag({e})) /\ BagToSet(b (+) SetToBag({e})) = BagToSet(b) \cup {e}
<1> DEFINE more(d) == (IF d \in DOMAIN b THEN b[d] ELSE 0) + (IF d \in {e} THEN 1 ELSE 0)
<1> DEFINE c == [d \in DOMAIN b \cup {e} |-> more(d)]
<1>1. b (+) SetToBag({e}) = c
  BY DEF (+), SetToBag
<1>2. \A d \in DOMAIN b : b[d] \in Nat /\ b[d] > 0
  BY DEF IsABag
<1>3. \A d \in DOMAIN b \cup {e} : more(d) \in {n \in Nat : n > 0}
  BY <1>2
<1> HIDE DEF more
<1>4. c \in [DOMAIN c -> {n \in Nat : n > 0}] /\ DOMAIN c = DOMAIN b \cup {e}
  BY <1>3
<1> HIDE DEF c
<1>5. IsABag(c)
  BY <1>4 DEF IsABag
<1> QED
  BY <1>1, <1>4, <1>5 DEF BagToSet

LEMMA BagRemoves ==
    ASSUME NEW b, IsABag(b), NEW e
    PROVE  IsABag(b (-) SetToBag({e})) /\ BagToSet(b (-) SetToBag({e})) \subseteq BagToSet(b)
<1> DEFINE c == [d \in DOMAIN b |-> IF d \in {e} THEN b[d] - 1 ELSE b[d]]
<1>1. b (-) SetToBag({e}) = [d \in {k \in DOMAIN c : c[k] > 0} |-> c[d]]
  BY DEF (-), SetToBag
<1>2. \A d \in DOMAIN b : b[d] \in Nat /\ b[d] > 0
  BY DEF IsABag
<1>3. DOMAIN c = DOMAIN b /\ \A d \in DOMAIN c : c[d] \in Int
  BY <1>2
<1> HIDE DEF c
<1> QED
  BY <1>1, <1>3 DEF IsABag, BagToSet

\* An answer that is sent to the session that is there.
LEMMA AnswerSent ==
    ASSUME SessionOK, ses.id # 0, NEW m \in AnswerRecord, m.session = ses.id
    PROVE  /\ IsABag(net (+) SetToBag({m}))
           /\ \A k \in BagToSet(net (+) SetToBag({m})) :
                 k \in AnswerRecord /\ k.session \in 1..mPrevVodSessionId
<1>1. ses.id \in 1..mPrevVodSessionId
  BY OnDemandAssumption DEF SessionOK
<1>2. /\ IsABag(net (+) SetToBag({m}))
      /\ BagToSet(net (+) SetToBag({m})) = BagToSet(net) \cup {m}
  <2>1. IsABag(net)
    BY DEF SessionOK
  <2> QED
    BY <2>1, BagAdds
<1>3. \A k \in BagToSet(net) : k \in AnswerRecord /\ k.session \in 1..mPrevVodSessionId
  BY DEF SessionOK
<1> QED
  BY <1>1, <1>2, <1>3

LEMMA SetUpSent ==
    ASSUME SessionOK, ses.id # 0, spent \in 0..Budget, NEW trans \in Nat, NEW late,
           SendSetUpRequest(trans, late)
    PROVE  /\ IsABag(net') /\ spent' \in 0..Budget
           /\ \A k \in BagToSet(net') : k \in AnswerRecord /\ k.session \in 1..mPrevVodSessionId
<1>1. spent' \in 0..Budget
  BY CostsSpent DEF SendSetUpRequest
<1>2. ASSUME NEW ok \in BOOLEAN
      PROVE  /\ Answer("SetUpConfirm", trans, ok) \in AnswerRecord
             /\ Answer("SetUpConfirm", trans, ok).session = ses.id
  BY DEF Answer, AnswerRecord, SessionOK, SessionRecord
<1>3. CASE UNCHANGED net
  BY <1>1, <1>3 DEF SessionOK
<1>4. ASSUME NEW ok \in BOOLEAN, net' = net (+) SetToBag({Answer("SetUpConfirm", trans, ok)})
      PROVE  /\ IsABag(net')
             /\ \A k \in BagToSet(net') : k \in AnswerRecord /\ k.session \in 1..mPrevVodSessionId
  BY <1>2, <1>4, AnswerSent
<1> QED
  BY <1>1, <1>3, <1>4 DEF SendSetUpRequest

\* A message is listed under the transaction of the session.
LEMMA MessageListed ==
    ASSUME NEW s \in SessionRecord, s.trans > 0,
           \A m \in s.sends : m.trans \in 1..s.trans /\ m.count \in 1..(messageRetryCount + 1)
    PROVE  LET t == AddMessageToSendList(s)
           IN  /\ t \in SessionRecord /\ t.id = s.id /\ t.trans = s.trans
               /\ \A m \in t.sends : m.trans \in 1..t.trans /\ m.count \in 1..(messageRetryCount + 1)
<1> DEFINE new == [trans |-> s.trans, count |-> messageRetryCount + 1]
           all == s.sends \cup {new}
<1>1. /\ new \in Messages /\ new.trans \in 1..s.trans /\ new.count \in 1..(messageRetryCount + 1)
  BY OnDemandAssumption DEF SessionRecord, Messages
<1>2. /\ all \in SUBSET Messages
      /\ \A m \in all : m.trans \in 1..s.trans /\ m.count \in 1..(messageRetryCount + 1)
  BY <1>1 DEF SessionRecord
<1>3. AddMessageToSendList(s) = [s EXCEPT !.sends = all]
  BY DEF AddMessageToSendList
<1> HIDE DEF all
<1> QED
  BY <1>2, <1>3 DEF SessionRecord

LEMMA TransactionBegun ==
    ASSUME NEW s \in SessionRecord
    PROVE  LET t == NextTransaction(s)
           IN  /\ t \in SessionRecord /\ t.id = s.id /\ t.trans = s.trans + 1 /\ t.trans > 0
               /\ t.sends = s.sends /\ t.mistaken = s.mistaken
BY DEF NextTransaction, SessionRecord

\* The session as it is read, resent and given up by the loop.
LEMMA ReadSessionKeeps ==
    ASSUME QueueOK, OneStop, SessionOK, ReadSessionSocketCallback
    PROVE  /\ SessionOK' /\ QueueOK' /\ OneStop' /\ ses'.id = ses.id /\ ses'.trans = ses.trans
           /\ (\E i \in 1..Len(queue') : queue'[i] = "StopController") =>
                 \E i \in 1..Len(queue) : queue[i] = "StopController"
<1>1. PICK m \in BagToSet(net) :
         /\ net' = net (-) SetToBag({m})
         /\ \/ HandleSessionConfirmResp(m)
            \/ HandleReleaseConfirmResp
  BY DEF ReadSessionSocketCallback
<1>2. UNCHANGED <<mPrevVodSessionId, spent>>
  BY DEF ReadSessionSocketCallback
<1>3. PICK e \in OnDemandEvents \ {"StopController"} : queueEvent(e)
  BY <1>1 DEF HandleSessionConfirmResp, HandleReleaseConfirmResp, OnDemandEvents
<1>4. /\ queue' \in Seq(OnDemandEvents) /\ OneStop'
      /\ (\E i \in 1..Len(queue') : queue'[i] = "StopController") =>
            \E i \in 1..Len(queue) : queue[i] = "StopController"
  BY <1>3, Queues
<1>5. /\ IsABag(net')
      /\ \A k \in BagToSet(net') : k \in AnswerRecord /\ k.session \in 1..mPrevVodSessionId
  BY <1>1, BagRemoves DEF SessionOK
<1>6. /\ ses' \in SessionRecord /\ ses'.id = ses.id /\ ses'.trans = ses.trans
      /\ ses'.sends \subseteq ses.sends
  <2>1. CASE ses' = RemoveMessageFromSendList(ses, m.trans)
    <3> DEFINE left == {k \in ses.sends : k.trans # m.trans}
               mistaken == ses.mistaken \/ \A k \in ses.sends : k.trans # m.trans
    <3>1. ses' = [ses EXCEPT !.sends = left, !.mistaken = mistaken]
      BY <2>1 DEF RemoveMessageFromSendList
    <3>2. left \in SUBSET Messages /\ left \subseteq ses.sends /\ mistaken \in BOOLEAN
      BY DEF SessionOK, SessionRecord
    <3> HIDE DEF left, mistaken
    <3> QED
      BY <3>1, <3>2 DEF SessionOK, SessionRecord
  <2>2. CASE UNCHANGED ses
    BY <2>2 DEF SessionOK
  <2> QED
    BY <1>1, <2>1, <2>2 DEF HandleSessionConfirmResp, HandleReleaseConfirmResp
<1>7. SessionOK'
  BY <1>2, <1>5, <1>6 DEF SessionOK
<1> QED
  BY <1>2, <1>4, <1>6, <1>7 DEF QueueOK

LEMMA ResendKeeps ==
    ASSUME QueueOK, SessionOK, NEW m \in ses.sends, Resend(m), UNCHANGED mPrevVodSessionId
    PROVE  SessionOK' /\ QueueOK' /\ UNCHANGED queue /\ ses'.id = ses.id /\ ses'.trans = ses.trans
<1> DEFINE again == [m EXCEPT !.count = @ - 1]
           all == (ses.sends \ {m}) \cup {again}
<1>1. /\ m \in Messages /\ m.trans \in 1..ses.trans /\ m.count \in 1..(messageRetryCount + 1)
      /\ ses.id # 0 /\ m.count > 1
  BY DEF SessionOK, SessionRecord, Resend
<1>2. /\ again \in Messages /\ again.trans = m.trans /\ again.count = m.count - 1
      /\ again.count \in 1..(messageRetryCount + 1)
  BY <1>1, OnDemandAssumption DEF Messages
<1> HIDE DEF again
<1>3. /\ all \in SUBSET Messages
      /\ \A k \in all : k.trans \in 1..ses.trans /\ k.count \in 1..(messageRetryCount + 1)
  BY <1>1, <1>2 DEF SessionOK, SessionRecord
<1>4. ses' = [ses EXCEPT !.sends = all]
  BY DEF Resend, again
<1> HIDE DEF all
<1>5. ses' \in SessionRecord /\ ses'.id = ses.id /\ ses'.trans = ses.trans /\ ses'.sends = all
  BY <1>3, <1>4 DEF SessionOK, SessionRecord
<1>6. m.trans \in Nat /\ SendSetUpRequest(m.trans, IsLate(m)) /\ UNCHANGED queue
  BY <1>1 DEF Resend, Messages
<1>7. /\ IsABag(net') /\ spent' \in 0..Budget
      /\ \A k \in BagToSet(net') : k \in AnswerRecord /\ k.session \in 1..mPrevVodSessionId
  BY <1>1, <1>6, SetUpSent DEF QueueOK
<1>8. SessionOK'
  BY <1>1, <1>3, <1>5, <1>7 DEF SessionOK
<1> QED
  BY <1>5, <1>6, <1>7, <1>8 DEF QueueOK

LEMMA GiveUpKeeps ==
    ASSUME QueueOK, OneStop, SessionOK, NEW m \in ses.sends, NEW kept, GiveUp(m, kept),
           UNCHANGED mPrevVodSessionId
    PROVE  /\ SessionOK' /\ QueueOK' /\ OneStop' /\ ses'.id = ses.id /\ ses'.trans = ses.trans
           /\ (\E i \in 1..Len(queue') : queue'[i] = "StopController") =>
                 \E i \in 1..Len(queue) : queue[i] = "StopController"
<1> DEFINE left == ses.sends \ {m}
<1>1. ses' = [ses EXCEPT !.sends = left] /\ UNCHANGED net
  BY DEF GiveUp
<1>2. left \in SUBSET Messages /\ left \subseteq ses.sends
  BY DEF SessionOK, SessionRecord
<1> HIDE DEF left
<1>3. ses' \in SessionRecord /\ ses'.id = ses.id /\ ses'.trans = ses.trans /\ ses'.sends = left
  BY <1>1, <1>2 DEF SessionOK, SessionRecord
<1>4. SessionOK'
  BY <1>1, <1>2, <1>3 DEF SessionOK
<1>5. spent' \in 0..Budget
  BY CostsSpent DEF GiveUp, QueueOK
<1>6. UNCHANGED queue \/ queueEvent("SessionError")
  BY DEF GiveUp
<1>7. "SessionError" \in OnDemandEvents
  BY DEF OnDemandEvents
<1>8. CASE UNCHANGED queue
  BY <1>3, <1>4, <1>5, <1>8 DEF QueueOK, OneStop
<1>9. CASE queueEvent("SessionError")
  BY <1>3, <1>4, <1>5, <1>7, <1>9, Queues DEF QueueOK
<1> QED
  BY <1>6, <1>8, <1>9

------------------------------------------------------------------------------
(* The speed *)

LEMMA ScaleType ==
    ASSUME NEW num \in Int
    PROVE  Scale(num) \in Scales
BY DEF Scale, Scales

LEMMA NumeratorType ==
    ASSUME NEW num \in Speeds \cup {SpeedUnit}
    PROVE  num \in Int
BY OnDemandAssumption DEF SpeedUnit

LEMMA BoxParts ==
    ASSUME NEW b \in Boxes
    PROVE  /\ b.ctl \in ControllerRecord /\ b.strm \in StreamRecord /\ b.out \in Seq(Scales)
           /\ b = [ctl |-> b.ctl, strm |-> b.strm, out |-> b.out]
BY DEF Boxes

\* A request is sent: only what is in flight changes.
LEMMA SendSends ==
    ASSUME NEW b \in Boxes, NEW num \in Scales
    PROVE  Send(b, num) \in Boxes /\ Send(b, num).ctl = b.ctl /\ Send(b, num).strm = b.strm
<1>1. Append(b.out, num) \in Seq(Scales)
  BY BoxParts, AppendProperties
<1>2. Send(b, num) \in {b, [b EXCEPT !.out = Append(b.out, num)]}
  BY DEF Send
<1> QED
  BY <1>1, <1>2 DEF Boxes

\* A request leaves the controller, and all that the speed depends on, alone.
LEMMA StreamPlaySends ==
    ASSUME NEW b \in Boxes, NEW connects
    PROVE  LET p == StreamPlay(b, connects)
           IN  /\ p \in Boxes
               /\ p.ctl = b.ctl /\ p.strm.exists = b.strm.exists
               /\ p.strm.sent = b.strm.sent /\ p.strm.moved = b.strm.moved
<1> DEFINE s == IF b.strm.set THEN b.strm
                ELSE [b.strm EXCEPT !.set = TRUE,
                                    !.socketFd = IF connects THEN "open" ELSE "none"]
           x == [b EXCEPT !.strm = s]
<1>1. StreamPlay(b, connects) = Send(x, s.numerator)
  BY DEF StreamPlay
<1>2. /\ s \in StreamRecord /\ s.exists = b.strm.exists /\ s.numerator \in Scales
      /\ s.sent = b.strm.sent /\ s.moved = b.strm.moved
  BY BoxParts DEF StreamRecord
<1> HIDE DEF s
<1>3. x \in Boxes /\ x.ctl = b.ctl /\ x.strm = s
  BY <1>2 DEF Boxes
<1> HIDE DEF x
<1> QED
  BY <1>1, <1>2, <1>3, SendSends

LEMMA StreamSetSpeedSends ==
    ASSUME NEW b \in Boxes, NEW num \in Int
    PROVE  LET p == StreamSetSpeed(b, num)
           IN  /\ p \in Boxes
               /\ p.ctl = b.ctl /\ p.strm.exists = b.strm.exists
               /\ p.strm.sent = Scale(num)
<1> DEFINE x == [b EXCEPT !.strm.numerator = Scale(num), !.strm.sent = Scale(num),
                          !.strm.moved = FALSE]
<1>1. StreamSetSpeed(b, num) = StreamPlay(x, TRUE)
  BY DEF StreamSetSpeed
<1>2. x \in Boxes /\ x.ctl = b.ctl /\ x.strm.exists = b.strm.exists /\ x.strm.sent = Scale(num)
  BY ScaleType DEF Boxes, StreamRecord
<1> HIDE DEF x
<1> QED
  BY <1>1, <1>2, StreamPlaySends, ZenonT(60)

LEMMA StreamPauseSends ==
    ASSUME NEW b \in Boxes
    PROVE  LET p == StreamPause(b)
           IN  /\ p \in Boxes
               /\ p.ctl = b.ctl /\ p.strm.exists = b.strm.exists
               /\ p.strm.sent = 0
<1> DEFINE x == [b EXCEPT !.strm.sent = 0, !.strm.moved = FALSE]
<1>1. StreamPause(b) = Send(x, 0)
  BY DEF StreamPause
<1>2. 0 \in Scales
  BY DEF Scales
<1>3. x \in Boxes /\ x.ctl = b.ctl /\ x.strm.exists = b.strm.exists /\ x.strm.sent = 0
  BY <1>2 DEF Boxes, StreamRecord
<1> HIDE DEF x
<1> QED
  BY <1>1, <1>2, <1>3, SendSends

LEMMA StreamSetNPTSends ==
    ASSUME NEW b \in Boxes, NEW connects
    PROVE  LET p == StreamSetNPT(b, connects)
           IN  /\ p \in Boxes
               /\ p.ctl = b.ctl /\ p.strm.exists = b.strm.exists /\ p.strm.moved
<1> DEFINE x == [b EXCEPT !.strm.numerator = SpeedUnit, !.strm.moved = TRUE]
<1>1. StreamSetNPT(b, connects) = StreamPlay(x, connects)
  BY DEF StreamSetNPT
<1>2. SpeedUnit \in Scales
  BY DEF Scales
<1>3. x \in Boxes /\ x.ctl = b.ctl /\ x.strm.exists = b.strm.exists /\ x.strm.moved
  BY <1>2 DEF Boxes, StreamRecord
<1> HIDE DEF x
<1> QED
  BY <1>1, <1>3, StreamPlaySends


\* SetSpeed: the speed is held back until the reply comes, or sent.
LEMMA SetSpeedKeeps ==
    ASSUME NEW b, BoxOK(b), NEW num \in Speeds \cup {SpeedUnit}
    PROVE  LET p == SetSpeedOf(b, num)
           IN  /\ BoxOK(p) /\ p.ctl.state = b.ctl.state /\ p.ctl.active = b.ctl.active
               /\ p.strm.exists = b.strm.exists
               /\ /\ b.ctl.state = "Streaming" /\ b.ctl.pendingSpeed /\ ~b.ctl.pendingPlay
                  /\ p.strm.exists
                  => p.strm.moved \/ p.strm.sent = Sends(p.ctl.numerator)
               /\ b.ctl.state # "Streaming" => p = b
               /\ b.ctl.pendingPlay => p.strm = b.strm
<1> DEFINE held == [b EXCEPT !.ctl.numerator = num, !.ctl.pendingSpeed = TRUE]
           x == [b EXCEPT !.ctl.numerator = num, !.ctl.pendingPlay = TRUE]
<1>1. b \in Boxes /\ SpeedOK(b.ctl, b.strm) /\ b.ctl \in ControllerRecord
  BY BoxParts DEF BoxOK
<1>2. /\ held \in Boxes /\ held.ctl.state = b.ctl.state /\ held.ctl.active = b.ctl.active
      /\ held.strm = b.strm /\ held.ctl.pendingSpeed
  BY <1>1 DEF Boxes, ControllerRecord
<1>3. /\ x \in Boxes /\ x.ctl.state = b.ctl.state /\ x.ctl.active = b.ctl.active
      /\ x.strm = b.strm /\ x.ctl.numerator = num
  BY <1>1 DEF Boxes, ControllerRecord
<1>4. num \in Int
  BY NumeratorType
<1>5. CASE \/ b.ctl.state # "Streaming"
           \/ ~b.ctl.pendingSpeed /\ num = b.ctl.numerator
  <2>1. SetSpeedOf(b, num) = b
    BY <1>5 DEF SetSpeedOf
  <2> QED
    BY <1>5, <2>1
<1>6. CASE b.ctl.state = "Streaming" /\ b.ctl.pendingPlay /\ (b.ctl.pendingSpeed \/ num # b.ctl.numerator)
  <2>1. SetSpeedOf(b, num) = held
    BY <1>6 DEF SetSpeedOf
  <2> HIDE DEF held, x
  <2> QED
    BY <1>1, <1>2, <1>6, <2>1 DEF BoxOK, SpeedOK
<1>7. CASE b.ctl.state = "Streaming" /\ ~b.ctl.pendingPlay /\ (b.ctl.pendingSpeed \/ num # b.ctl.numerator)
  <2>1. SetSpeedOf(b, num) = IF num = 0 THEN StreamPause(x) ELSE StreamSetSpeed(x, num)
    BY <1>7 DEF SetSpeedOf
  <2> HIDE DEF held, x
  <2>2. LET p == SetSpeedOf(b, num)
        IN  /\ p \in Boxes
            /\ p.ctl = x.ctl /\ p.strm.exists = b.strm.exists
            /\ p.strm.sent = Sends(num)
    BY <1>3, <1>4, <2>1, StreamPauseSends, StreamSetSpeedSends DEF Sends
  <2> QED
    BY <1>3, <1>7, <2>2 DEF BoxOK, SpeedOK
<1> QED
  BY <1>1, <1>5, <1>6, <1>7 DEF ControllerRecord

LEMMA SetPositionKeeps ==
    ASSUME NEW b, BoxOK(b)
    PROVE  LET p == SetPositionOf(b)
           IN  /\ BoxOK(p) /\ p.ctl.state = b.ctl.state /\ p.ctl.active = b.ctl.active
               /\ p.strm.exists = b.strm.exists
               /\ p.ctl.pendingSpeed = b.ctl.pendingSpeed /\ p.ctl.numerator = b.ctl.numerator
               /\ b.ctl.state = "Streaming" /\ ~b.ctl.pendingPlay => p.strm.moved
               /\ b.ctl.state # "Streaming" => p = b
<1> DEFINE held == [b EXCEPT !.ctl.pendingPosition = TRUE]
           x == [b EXCEPT !.ctl.pendingPlay = TRUE]
<1>1. b \in Boxes /\ SpeedOK(b.ctl, b.strm) /\ b.ctl \in ControllerRecord
  BY BoxParts DEF BoxOK
<1>2. /\ held \in Boxes /\ held.ctl.state = b.ctl.state /\ held.ctl.active = b.ctl.active
      /\ held.strm = b.strm /\ held.ctl.pendingSpeed = b.ctl.pendingSpeed
      /\ held.ctl.numerator = b.ctl.numerator
  BY <1>1 DEF Boxes, ControllerRecord
<1>3. /\ x \in Boxes /\ x.ctl.state = b.ctl.state /\ x.ctl.active = b.ctl.active
      /\ x.strm = b.strm /\ x.ctl.pendingSpeed = b.ctl.pendingSpeed
      /\ x.ctl.numerator = b.ctl.numerator
  BY <1>1 DEF Boxes, ControllerRecord
<1>4. CASE b.ctl.state # "Streaming"
  BY <1>4 DEF SetPositionOf
<1>5. CASE b.ctl.state = "Streaming" /\ b.ctl.pendingPlay
  <2>1. SetPositionOf(b) = held
    BY <1>5 DEF SetPositionOf
  <2> HIDE DEF held, x
  <2> QED
    BY <1>1, <1>2, <1>5, <2>1 DEF BoxOK, SpeedOK
<1>6. CASE b.ctl.state = "Streaming" /\ ~b.ctl.pendingPlay
  <2>1. SetPositionOf(b) = StreamSetNPT(x, TRUE)
    BY <1>6 DEF SetPositionOf
  <2> HIDE DEF held, x
  <2>2. LET p == SetPositionOf(b)
        IN  /\ p \in Boxes
            /\ p.ctl = x.ctl /\ p.strm.exists = b.strm.exists /\ p.strm.moved
    BY <1>3, <2>1, StreamSetNPTSends
  <2> QED
    BY <1>3, <1>6, <2>2 DEF BoxOK, SpeedOK
<1> QED
  BY <1>1, <1>4, <1>5, <1>6 DEF ControllerRecord

\* What is held back goes out after the reply: a position resets the speed, and
\* a speed behind it is not sent.
LEMMA AfterReplyKeeps ==
    ASSUME NEW b, BoxOK(b)
    PROVE  LET p == AfterReply(b)
           IN  /\ BoxOK(p) /\ p.ctl.state = b.ctl.state /\ p.ctl.active = b.ctl.active
               /\ p.strm.exists = b.strm.exists
<1> DEFINE first == [b EXCEPT !.ctl.pendingPlay = FALSE]
           asks == [first EXCEPT !.ctl.pendingPosition = FALSE]
           q == IF first.ctl.pendingPosition THEN SetPositionOf(asks) ELSE first
           r == SetSpeedOf(q, q.ctl.numerator)
           last == [r EXCEPT !.ctl.pendingSpeed = FALSE]
<1>1. b \in Boxes /\ SpeedOK(b.ctl, b.strm) /\ b.ctl \in ControllerRecord
  BY BoxParts DEF BoxOK
<1>2. /\ first \in Boxes /\ first.ctl.state = b.ctl.state /\ first.ctl.active = b.ctl.active
      /\ first.strm = b.strm /\ ~first.ctl.pendingPlay
      /\ first.ctl.pendingSpeed = b.ctl.pendingSpeed /\ first.ctl.numerator = b.ctl.numerator
  BY <1>1 DEF Boxes, ControllerRecord
<1>3. AfterReply(b) = IF q.ctl.pendingSpeed THEN last ELSE q
  BY DEF AfterReply
<1> HIDE DEF first
<1>4. /\ asks \in Boxes /\ asks.ctl.state = b.ctl.state /\ asks.ctl.active = b.ctl.active
      /\ asks.strm = b.strm /\ ~asks.ctl.pendingPlay
      /\ asks.ctl.pendingSpeed = b.ctl.pendingSpeed /\ asks.ctl.numerator = b.ctl.numerator
  BY <1>2 DEF Boxes, ControllerRecord
<1> HIDE DEF asks
<1>5. BoxOK(first) /\ BoxOK(asks)
  BY <1>1, <1>2, <1>4 DEF BoxOK, SpeedOK
<1>6. /\ BoxOK(q) /\ q.ctl.state = b.ctl.state /\ q.ctl.active = b.ctl.active
      /\ q.strm.exists = b.strm.exists
      /\ q.ctl.state = "Streaming" /\ q.ctl.pendingPlay => q.strm.moved
  BY <1>2, <1>4, <1>5, SetPositionKeeps
<1> HIDE DEF q
<1>7. q.ctl.numerator \in Speeds \cup {SpeedUnit} /\ q.ctl \in ControllerRecord
  BY <1>6, BoxParts DEF BoxOK, ControllerRecord
<1>8. /\ BoxOK(r) /\ r.ctl.state = b.ctl.state /\ r.ctl.active = b.ctl.active
      /\ r.strm.exists = b.strm.exists
      /\ /\ q.ctl.state = "Streaming" /\ q.ctl.pendingSpeed /\ ~q.ctl.pendingPlay
         /\ r.strm.exists
         => r.strm.moved \/ r.strm.sent = Sends(r.ctl.numerator)
      /\ q.ctl.pendingPlay => r.strm = q.strm
  BY <1>6, <1>7, SetSpeedKeeps
<1> HIDE DEF r
<1>9. CASE q.ctl.pendingSpeed
  <2>1. r \in Boxes /\ r.ctl \in ControllerRecord
    BY <1>8, BoxParts DEF BoxOK
  <2>2. /\ last \in Boxes /\ last.ctl.state = b.ctl.state /\ last.ctl.active = b.ctl.active
        /\ last.ctl.numerator = r.ctl.numerator /\ last.strm = r.strm
    BY <1>8, <2>1 DEF Boxes, ControllerRecord
  <2> HIDE DEF last
  <2>3. last.ctl.state = "Streaming" /\ last.strm.exists =>
           last.strm.moved \/ last.strm.sent = Sends(last.ctl.numerator)
    BY <1>6, <1>7, <1>8, <1>9, <2>2 DEF ControllerRecord
  <2>4. BoxOK(last)
    BY <1>8, <2>2, <2>3 DEF BoxOK, SpeedOK
  <2> QED
    BY <1>3, <1>8, <1>9, <2>2, <2>4
<1>10. CASE ~q.ctl.pendingSpeed
  BY <1>3, <1>6, <1>10
<1> QED
  BY <1>9, <1>10

------------------------------------------------------------------------------
(* The client's calls *)

\* A part of the state that is left alone stays as it is.
LEMMA QueueSame ==
    ASSUME QueueOK, OneStop, UNCHANGED queue
    PROVE  /\ queue' \in Seq(OnDemandEvents) /\ OneStop'
           /\ (\E i \in 1..Len(queue') : queue'[i] = "StopController") =>
                 \E i \in 1..Len(queue) : queue[i] = "StopController"
BY DEF QueueOK, OneStop

LEMMA SessionSame ==
    ASSUME SessionOK, UNCHANGED sessionVars
    PROVE  SessionOK'
BY DEF SessionOK, sessionVars

LEMMA BoxSame ==
    ASSUME BoxOK(Box), NEW c \in ControllerRecord, ctl' = c,
           UNCHANGED <<strm, toStream>>, SpeedOK(c, strm)
    PROVE  BoxOK(Box)'
<1>1. strm \in StreamRecord /\ toStream \in Seq(Scales)
  BY BoxParts DEF BoxOK, Box
<1>2. BoxOK([ctl |-> c, strm |-> strm, out |-> toStream])
  BY <1>1 DEF BoxOK, Boxes
<1> QED
  BY <1>2 DEF Box, BoxOK, SpeedOK

LEMMA BoxFacts ==
    ASSUME BoxOK(Box)
    PROVE  /\ ctl \in ControllerRecord /\ strm \in StreamRecord /\ toStream \in Seq(Scales)
           /\ SpeedOK(ctl, strm)
BY BoxParts DEF BoxOK, Box

LEMMA BoxBecomes ==
    ASSUME NEW b, BoxOK(b), BoxIs(b)
    PROVE  BoxOK(Box)' /\ ctl' = b.ctl
<1>1. b \in Boxes
  BY DEF BoxOK
<1>2. Box' = b
  BY <1>1 DEF BoxIs, Box, Boxes
<1>3. BoxOK(b)'
  BY DEF BoxOK, SpeedOK
<1> QED
  BY <1>2 DEF BoxOK, SpeedOK, BoxIs

LEMMA CutType == 0 \in 0..ReplySize - 1
BY DEF ReplySize, LSC_HEADER_SIZE

LEMMA NewStreamType ==
    NoStream \in StreamRecord /\ NewStream \in StreamRecord /\ ~NoStream.exists
<1>1. SpeedUnit \in Scales /\ "LSC_OK" \in StreamStatuses
  BY DEF Scales, StreamStatuses
<1>2. NoStream \in StreamRecord /\ ~NoStream.exists
  BY <1>1, CutType DEF NoStream, StreamRecord
<1>3. NewStream \in StreamRecord
  BY <1>2 DEF NewStream, StreamRecord
<1> QED
  BY <1>2, <1>3

LEMMA LoadKeeps ==
    ASSUME MovieInv, Load
    PROVE  MovieInv'
<1>1. /\ ~ctl.active /\ call = "none" /\ ses.id = 0 /\ mPrevVodSessionId \in 0..MaxSessions
      /\ ctl \in ControllerRecord
  BY BoxFacts DEF MovieInv, LifeOK, Load, SessionOK
<1>2. mPrevVodSessionId' \in 1..MaxSessions /\ mPrevVodSessionId' = mPrevVodSessionId + 1
  BY <1>1, OnDemandAssumption DEF Load
<1>3. /\ ses' \in SessionRecord /\ ses'.id = mPrevVodSessionId' /\ ses'.trans = 0 /\ ses'.sends = {}
  <2>1. PICK n \in Nat : n = mPrevVodSessionId'
    BY <1>2
  <2>2. PICK late \in BOOLEAN : late = (queue # <<>>)
    OBVIOUS
  <2>3. ses' = [id |-> n, trans |-> 0, sends |-> {}, mistaken |-> late]
    BY <2>1, <2>2 DEF Load, NewSession, NoSession
  <2> QED
    BY <2>1, <2>3 DEF SessionRecord
<1>4. SessionOK'
  <2>1. UNCHANGED net
    BY DEF Load
  <2> QED
    BY <1>1, <1>2, <1>3, <2>1 DEF MovieInv, SessionOK
<1>5. QueueOK' /\ OneStop' /\ UNCHANGED queue
  BY QueueSame, CostsSpent DEF Load, MovieInv, LifeOK, QueueOK, Cost
<1>6. PICK c : c = [ctl EXCEPT !.state = "PreparingToView", !.active = TRUE]
  OBVIOUS
<1>7. c \in ControllerRecord /\ c.state = "PreparingToView" /\ c.active /\ ctl' = c
  BY <1>1, <1>6 DEF ControllerRecord, OnDemandStates, Load
<1>8. BoxOK(Box)'
  <2>1. NewStream \in StreamRecord
    BY NewStreamType
  <2>2. BoxOK([ctl |-> c, strm |-> NewStream, out |-> toStream])
    BY <1>7, <2>1, BoxFacts DEF BoxOK, Boxes, SpeedOK, MovieInv
  <2> QED
    BY <1>7, <2>2, BoxBecomes DEF BoxIs, Load
<1>9. StreamOK'
  BY DEF Load, MovieInv, StreamOK
<1>10. LifeOK'
  BY <1>1, <1>2, <1>3, <1>5, <1>7 DEF LifeOK, MovieInv, Load
<1>11. ReleaseOK'
  BY <1>1, <1>7 DEF ReleaseOK, MovieInv, LifeOK, Load, SessionIsUp
<1> QED
  BY <1>4, <1>5, <1>8, <1>9, <1>10, <1>11 DEF MovieInv

LEMMA PlayFailsKeeps ==
    ASSUME MovieInv, PlayFails
    PROVE  MovieInv'
<1>1. PICK c : c = [ctl EXCEPT !.problem = TRUE]
  OBVIOUS
<1>2. /\ c \in ControllerRecord /\ c.state = ctl.state /\ c.active = ctl.active /\ ctl' = c
      /\ SpeedOK(c, strm)
  BY <1>1, BoxFacts DEF ControllerRecord, PlayFails, MovieInv, SpeedOK
<1>3. BoxOK(Box)' /\ SessionOK' /\ StreamOK'
  BY <1>2, BoxSame, SessionSame DEF PlayFails, MovieInv, streamVars, StreamOK
<1>4. QueueOK' /\ LifeOK' /\ ReleaseOK'
  BY <1>2, QueueSame DEF PlayFails, MovieInv, QueueOK, LifeOK, ReleaseOK, sessionVars
<1> QED
  BY <1>3, <1>4 DEF MovieInv

LEMMA PlayKeeps ==
    ASSUME MovieInv, Play
    PROVE  MovieInv'
<1>1. /\ ctl \in ControllerRecord /\ SpeedOK(ctl, strm) /\ ctl.active /\ ses.id # 0
      /\ ses \in SessionRecord
  BY BoxFacts DEF MovieInv, LifeOK, SessionOK, Play
<1>2. /\ ses' \in SessionRecord /\ ses'.id = ses.id /\ ses'.trans = ses.trans + 1 /\ ses'.trans > 0
      /\ ses'.sends = ses.sends /\ ses'.trans \in Nat /\ ses.trans \in Nat
  BY <1>1, TransactionBegun DEF Play, SessionRecord
<1>3. PICK t \in Nat : t = ses.trans + 1 /\ SendSetUpRequest(t, FALSE)
  BY <1>2 DEF Play
<1>4. /\ IsABag(net') /\ spent' \in 0..Budget
      /\ \A k \in BagToSet(net') : k \in AnswerRecord /\ k.session \in 1..mPrevVodSessionId
  BY <1>1, <1>3, SetUpSent DEF MovieInv, QueueOK
<1>5. SessionOK'
  BY <1>1, <1>2, <1>4 DEF SessionOK, MovieInv, Play
<1>6. PICK c : c = [ctl EXCEPT !.problem = FALSE]
  OBVIOUS
<1>7. /\ c \in ControllerRecord /\ c.state = ctl.state /\ c.active = ctl.active /\ ctl' = c
      /\ SpeedOK(c, strm)
  BY <1>1, <1>6 DEF ControllerRecord, Play, SpeedOK
<1>8. BoxOK(Box)' /\ StreamOK'
  BY <1>7, BoxSame DEF Play, MovieInv, streamVars, StreamOK
<1>9. QueueOK' /\ OneStop' /\ UNCHANGED queue
  BY <1>4, QueueSame DEF Play, MovieInv, QueueOK, LifeOK
<1>10. LifeOK'
  BY <1>1, <1>2, <1>7, <1>9 DEF LifeOK, Play, MovieInv
<1>11. ReleaseOK'
  BY <1>7 DEF ReleaseOK, Play, MovieInv, SessionIsUp
<1> QED
  BY <1>5, <1>8, <1>9, <1>10, <1>11 DEF MovieInv

LEMMA PlayReturnsKeeps ==
    ASSUME MovieInv, PlayReturns
    PROVE  MovieInv'
<1>1. /\ ctl \in ControllerRecord /\ ctl.active /\ ses.id # 0 /\ ctl.state = "PreparingToView"
      /\ ses \in SessionRecord /\ ses.trans > 0
  BY BoxFacts DEF MovieInv, LifeOK, SessionOK, PlayReturns
<1>2. /\ ses' \in SessionRecord /\ ses'.id = ses.id /\ ses'.trans = ses.trans
      /\ \A m \in ses'.sends : m.trans \in 1..ses'.trans /\ m.count \in 1..(messageRetryCount + 1)
  BY <1>1, MessageListed DEF PlayReturns, MovieInv, SessionOK
<1>3. SessionOK'
  BY <1>1, <1>2 DEF SessionOK, MovieInv, PlayReturns
<1>4. PICK c : c = [ctl EXCEPT !.state = "SessionPending"]
  OBVIOUS
<1>5. /\ c \in ControllerRecord /\ c.state = "SessionPending" /\ c.active /\ ctl' = c
      /\ SpeedOK(c, strm)
  BY <1>1, <1>4 DEF ControllerRecord, PlayReturns, SpeedOK, OnDemandStates
<1>6. BoxOK(Box)' /\ StreamOK'
  BY <1>5, BoxSame DEF PlayReturns, MovieInv, streamVars, StreamOK
<1>7. QueueOK' /\ OneStop' /\ UNCHANGED queue
  BY QueueSame DEF PlayReturns, MovieInv, QueueOK, LifeOK
<1>8. LifeOK'
  BY <1>1, <1>2, <1>5, <1>7 DEF LifeOK, PlayReturns, MovieInv
<1>9. ReleaseOK'
  BY <1>1, <1>5 DEF ReleaseOK, PlayReturns, MovieInv, SessionIsUp
<1> QED
  BY <1>3, <1>6, <1>7, <1>8, <1>9 DEF MovieInv

\* SetSpeed and SetPosition, whose box is one of the lemmas above.
LEMMA TrickKeeps ==
    ASSUME MovieInv, NEW b, BoxOK(b), b.ctl.state = ctl.state, b.ctl.active = ctl.active, Trick(b)
    PROVE  MovieInv'
<1>1. BoxOK(Box)' /\ ctl' = b.ctl
  BY BoxBecomes DEF Trick
<1>2. SessionOK' /\ StreamOK'
  BY SessionSame DEF Trick, MovieInv, StreamOK
<1>3. QueueOK' /\ OneStop' /\ UNCHANGED queue
  BY QueueSame, CostsSpent DEF Trick, Cost, MovieInv, QueueOK, LifeOK
<1>4. LifeOK' /\ ReleaseOK'
  BY <1>1, <1>3 DEF LifeOK, ReleaseOK, Trick, MovieInv, sessionVars
<1> QED
  BY <1>1, <1>2, <1>3, <1>4 DEF MovieInv

LEMMA SetSpeedActionKeeps ==
    ASSUME MovieInv, SetSpeed
    PROVE  MovieInv'
<1>1. PICK num \in Speeds : Trick(SetSpeedOf(Box, num))
  BY DEF SetSpeed
<1>2. Box.ctl = ctl
  BY DEF Box
<1> QED
  BY <1>1, <1>2, SetSpeedKeeps, TrickKeeps DEF MovieInv

LEMMA SetPositionActionKeeps ==
    ASSUME MovieInv, SetPosition
    PROVE  MovieInv'
<1>1. Box.ctl = ctl
  BY DEF Box
<1> QED
  BY <1>1, SetPositionKeeps, TrickKeeps DEF MovieInv, SetPosition

LEMMA StopKeeps ==
    ASSUME MovieInv, Stop
    PROVE  MovieInv'
<1>1. /\ ctl \in ControllerRecord /\ ctl.active /\ ses.id # 0 /\ call = "none"
      /\ ses \in SessionRecord /\ strm \in StreamRecord
  BY BoxFacts DEF MovieInv, LifeOK, SessionOK, Stop
<1>2. SessionOK' /\ UNCHANGED ses
  <2>1. CASE UNCHANGED net
    BY <2>1, SessionSame DEF Stop, sessionVars, MovieInv
  <2>2. CASE SendReleaseRequest
    <3>1. PICK m : m = Answer("ReleaseConfirm", 0, TRUE) /\ net' = net (+) SetToBag({m})
      BY <2>2 DEF SendReleaseRequest
    <3>2. m \in AnswerRecord /\ m.session = ses.id
      BY <1>1, <3>1 DEF Answer, AnswerRecord, SessionRecord
    <3>3. /\ IsABag(net')
          /\ \A k \in BagToSet(net') : k \in AnswerRecord /\ k.session \in 1..mPrevVodSessionId
      BY <1>1, <3>1, <3>2, AnswerSent DEF MovieInv
    <3> QED
      BY <3>3 DEF SessionOK, MovieInv, Stop
  <2> QED
    BY <2>1, <2>2 DEF Stop
<1>3. PICK c : c = [ctl EXCEPT !.state = "StopPending"]
  OBVIOUS
<1>4. c \in ControllerRecord /\ c.state = "StopPending" /\ c.active /\ ctl' = c
  BY <1>1, <1>3 DEF ControllerRecord, Stop, OnDemandStates
<1>5. BoxOK(Box)' /\ StreamOK'
  <2>1. PICK s : s = [strm EXCEPT !.socketFd = "none", !.cut = 0]
    OBVIOUS
  <2>2. s \in StreamRecord
    BY <1>1, <2>1, CutType DEF StreamRecord
  <2>3. BoxOK([ctl |-> c, strm |-> s, out |-> <<>>])
    BY <1>4, <2>2, EmptySeq DEF BoxOK, Boxes, SpeedOK
  <2>4. BoxOK(Box)'
    BY <1>4, <2>1, <2>3, BoxBecomes DEF BoxIs, Stop, StreamTearDown
  <2> QED
    BY <2>4, EmptySeq DEF StreamOK, Stop, StreamTearDown, Scales
<1>6. QueueOK' /\ OneStop' /\ UNCHANGED queue
  BY QueueSame DEF Stop, MovieInv, QueueOK, LifeOK
<1>7. LifeOK'
  BY <1>1, <1>2, <1>4, <1>6 DEF LifeOK, Stop, MovieInv
<1>8. ReleaseOK'
  <2>1. CASE ctl.state \in SessionIsUp
    BY <1>4, <2>1 DEF ReleaseOK, Stop, MovieInv
  <2>2. CASE ctl.state \notin SessionIsUp
    BY <1>4, <2>2 DEF ReleaseOK, Stop, MovieInv
  <2> QED
    BY <2>1, <2>2
<1> QED
  BY <1>2, <1>5, <1>6, <1>7, <1>8 DEF MovieInv

LEMMA stopEventThreadKeeps ==
    ASSUME MovieInv, stopEventThread
    PROVE  MovieInv'
<1>1. ctl.active /\ \A i \in 1..Len(queue) : queue[i] # "StopController"
  BY DEF MovieInv, LifeOK, stopEventThread
<1>2. "StopController" \in OnDemandEvents
  BY DEF OnDemandEvents
<1>3. QueueOK' /\ OneStop'
  BY <1>1, <1>2, Queues DEF stopEventThread, MovieInv, QueueOK, LifeOK
<1>4. SessionOK' /\ StreamOK' /\ BoxOK(Box)'
  BY SessionSame, BoxSame, BoxFacts DEF stopEventThread, MovieInv, StreamOK, streamVars
<1>5. LifeOK' /\ ReleaseOK'
  BY <1>1, <1>3 DEF LifeOK, ReleaseOK, stopEventThread, MovieInv, sessionVars
<1> QED
  BY <1>3, <1>4, <1>5 DEF MovieInv

LEMMA NoControllerType == NoController \in ControllerRecord
BY OnDemandAssumption DEF NoController, ControllerRecord, OnDemandStates, SpeedUnit

LEMMA EjectKeeps ==
    ASSUME MovieInv, Eject
    PROVE  MovieInv'
<1>1. ctl' \in ControllerRecord /\ ctl' = NoController /\ SpeedOK(NoController, strm)
  BY NoControllerType DEF Eject, SpeedOK, NoController
<1>2. SessionOK' /\ StreamOK' /\ BoxOK(Box)'
  BY <1>1, NoControllerType, SessionSame, BoxSame DEF Eject, MovieInv, StreamOK, streamVars
<1>3. QueueOK' /\ OneStop' /\ UNCHANGED queue
  BY QueueSame DEF Eject, MovieInv, QueueOK, LifeOK
<1>4. LifeOK' /\ ReleaseOK'
  BY <1>1, <1>3 DEF LifeOK, ReleaseOK, Eject, MovieInv, sessionVars, NoController, NoLog
<1> QED
  BY <1>2, <1>3, <1>4 DEF MovieInv

------------------------------------------------------------------------------
(* The loop handles an event *)

LEMMA HandlesTakes ==
    ASSUME MovieInv, NEW e \in OnDemandEvents, Handles(e)
    PROVE  /\ queue' \in Seq(OnDemandEvents) /\ OneStop' /\ call # "Play"
           /\ (\E i \in 1..Len(queue') : queue'[i] = "StopController") =>
                 /\ \E i \in 1..Len(queue) : queue[i] = "StopController"
                 /\ e # "StopController"
           /\ e = "StopController" => call = "Stopping"
BY Unqueues DEF Handles, MovieInv, LifeOK

\* An event that changes the controller, not where it is in the list.
LEMMA HandledKeeps ==
    ASSUME MovieInv, NEW e \in OnDemandEvents, Handles(e), spent' \in 0..Budget,
           SessionOK', BoxOK(Box)', StreamOK', ses'.id = ses.id, UNCHANGED call,
           ctl'.active = ctl.active, ctl.active, ctl'.state \notin {"None"},
           tuner' \in {"idle", "playing", "rendering"}
    PROVE  QueueOK' /\ LifeOK'
<1>1. /\ queue' \in Seq(OnDemandEvents) /\ OneStop' /\ call # "Play"
      /\ (\E i \in 1..Len(queue') : queue'[i] = "StopController") =>
            \E i \in 1..Len(queue) : queue[i] = "StopController"
  BY HandlesTakes
<1> QED
  BY <1>1 DEF QueueOK, LifeOK, MovieInv

LEMMA DropEventKeeps ==
    ASSUME MovieInv, DropEvent
    PROVE  MovieInv'
<1>1. PICK e \in OnDemandEvents : Handles(e)
  BY DEF DropEvent
<1>2. /\ queue' \in Seq(OnDemandEvents) /\ OneStop'
      /\ (\E i \in 1..Len(queue') : queue'[i] = "StopController") =>
            \E i \in 1..Len(queue) : queue[i] = "StopController"
  BY <1>1, HandlesTakes
<1>3. SessionOK' /\ StreamOK' /\ BoxOK(Box)'
  BY SessionSame, BoxSame, BoxFacts DEF DropEvent, MovieInv, StreamOK, streamVars
<1>4. QueueOK' /\ LifeOK' /\ ReleaseOK'
  BY <1>2 DEF QueueOK, LifeOK, ReleaseOK, DropEvent, MovieInv, sessionVars
<1> QED
  BY <1>3, <1>4 DEF MovieInv

LEMMA ControllerState ==
    ASSUME NEW c \in ControllerRecord, NEW state \in OnDemandStates
    PROVE  LET d == [c EXCEPT !.state = state]
           IN  d \in ControllerRecord /\ d.state = state /\ d.active = c.active
BY DEF ControllerRecord

LEMMA ActiveFacts ==
    ASSUME MovieInv, ctl.active
    PROVE  /\ ctl.state # "None" /\ ses.id # 0
           /\ ctl \in ControllerRecord /\ strm \in StreamRecord /\ toStream \in Seq(Scales)
           /\ SpeedOK(ctl, strm)
BY BoxFacts DEF MovieInv, LifeOK

\* The tuner is loaded and a position is sent.
LEMMA LoadTuningKeeps ==
    ASSUME MovieInv, NEW connects \in BOOLEAN
    PROVE  LET p == [loadTuningParamsAndPlay(connects) EXCEPT !.ctl.state = "ControlServerPending"]
           IN  BoxOK(p) /\ p.ctl.state = "ControlServerPending" /\ p.ctl.active = ctl.active
<1> DEFINE q == StreamSetNPT(Box, connects)
           r == [q EXCEPT !.ctl.streamEvent = TRUE,
                          !.ctl.unreported = q.ctl.unreported \/ ~connects]
           p == [r EXCEPT !.ctl.state = "ControlServerPending"]
<1>1. Box \in Boxes /\ Box.ctl = ctl
  BY DEF MovieInv, BoxOK, Box
<1>2. q \in Boxes /\ q.ctl = ctl /\ q.strm.moved
  BY <1>1, StreamSetNPTSends
<1>3. loadTuningParamsAndPlay(connects) = r
  BY DEF loadTuningParamsAndPlay
<1> HIDE DEF q
<1>4. r \in Boxes /\ r.ctl.active = ctl.active /\ r.strm.moved
  BY <1>2 DEF Boxes, ControllerRecord
<1> HIDE DEF r
<1>5. /\ p \in Boxes /\ p.ctl.active = ctl.active /\ p.strm.moved
      /\ p.ctl.state = "ControlServerPending"
  BY <1>4 DEF Boxes, ControllerRecord, OnDemandStates
<1> HIDE DEF p
<1>6. BoxOK(p)
  BY <1>5 DEF BoxOK, SpeedOK
<1> QED
  BY <1>3, <1>5, <1>6 DEF p

LEMMA SetupRespKeeps ==
    ASSUME MovieInv, SetupResp
    PROVE  MovieInv'
<1>1. /\ Handles("SetupResp") /\ ctl.active /\ "SetupResp" \in OnDemandEvents
      /\ UNCHANGED <<sessionVars, call, tuner>>
  BY DEF SetupResp, OnDemandEvents
<1>2. /\ ctl.state # "None" /\ ctl \in ControllerRecord /\ SpeedOK(ctl, strm)
      /\ tuner \in {"idle", "playing", "rendering"}
  BY <1>1, ActiveFacts DEF MovieInv, LifeOK
<1>3. SessionOK' /\ ses' = ses
  BY <1>1, SessionSame DEF MovieInv, sessionVars
<1>4. CASE ctl.state # "SessionPending"
  <2>1. UNCHANGED <<spent, streamVars, ctl, log>>
    BY <1>4 DEF SetupResp
  <2>2. BoxOK(Box)' /\ StreamOK'
    BY <1>2, <2>1, BoxSame DEF MovieInv, StreamOK, streamVars
  <2>3. QueueOK' /\ LifeOK'
    BY <1>1, <1>2, <1>3, <2>1, <2>2, HandledKeeps DEF MovieInv, QueueOK
  <2>4. ReleaseOK'
    BY <1>1, <2>1 DEF ReleaseOK, MovieInv
  <2> QED
    BY <1>3, <2>2, <2>3, <2>4 DEF MovieInv
<1>5. ASSUME ctl.state = "SessionPending", BoxOK(Box)', StreamOK', spent' \in 0..Budget,
             ctl'.active = ctl.active, ctl'.state \in {"ServerReady", "ControlServerPending"},
             log' = [log EXCEPT !.served = TRUE]
      PROVE  MovieInv'
  <2>1. QueueOK' /\ LifeOK'
    BY <1>1, <1>2, <1>3, <1>5, HandledKeeps
  <2>2. log \in [served : BOOLEAN, released : BOOLEAN, upset : BOOLEAN]
    BY DEF MovieInv, ReleaseOK
  <2>3. /\ log' \in [served : BOOLEAN, released : BOOLEAN, upset : BOOLEAN]
        /\ log'.released = log.released /\ log'.upset = log.upset
    BY <1>5, <2>2
  <2>4. ReleaseOK'
    BY <1>1, <1>5, <2>3 DEF ReleaseOK, MovieInv, SessionIsUp
  <2> QED
    BY <1>3, <1>5, <2>1, <2>4 DEF MovieInv
<1>6. CASE /\ ctl.state = "SessionPending"
           /\ ctl' = [ctl EXCEPT !.state = "ServerReady", !.unreported = TRUE]
           /\ log' = [log EXCEPT !.served = TRUE]
           /\ Cost(TRUE)
           /\ UNCHANGED streamVars
  <2>1. PICK c : c = [ctl EXCEPT !.state = "ServerReady", !.unreported = TRUE]
    OBVIOUS
  <2>2. /\ c \in ControllerRecord /\ c.state = "ServerReady" /\ c.active = ctl.active /\ ctl' = c
        /\ SpeedOK(c, strm)
    BY <1>2, <1>6, <2>1 DEF ControllerRecord, OnDemandStates, SpeedOK
  <2>3. BoxOK(Box)' /\ StreamOK' /\ spent' \in 0..Budget
    BY <1>6, <2>2, BoxSame, CostsSpent DEF MovieInv, StreamOK, streamVars, QueueOK, Cost
  <2> QED
    BY <1>5, <1>6, <2>2, <2>3
<1>7. CASE /\ ctl.state = "SessionPending"
           /\ \E connects \in BOOLEAN :
                 /\ BoxIs([loadTuningParamsAndPlay(connects)
                              EXCEPT !.ctl.state = "ControlServerPending"])
                 /\ Cost(~connects)
                 /\ connects \/ ~strm.set
           /\ log' = [log EXCEPT !.served = TRUE]
           /\ UNCHANGED <<fromStream, streamer>>
  <2>1. PICK connects \in BOOLEAN :
                 /\ BoxIs([loadTuningParamsAndPlay(connects)
                              EXCEPT !.ctl.state = "ControlServerPending"])
                 /\ Cost(~connects)
    BY <1>7
  <2>2. PICK b : b = [loadTuningParamsAndPlay(connects) EXCEPT !.ctl.state = "ControlServerPending"]
    OBVIOUS
  <2>3. BoxOK(b) /\ b.ctl.state = "ControlServerPending" /\ b.ctl.active = ctl.active
    BY <2>2, LoadTuningKeeps
  <2>4. BoxOK(Box)' /\ ctl' = b.ctl
    BY <2>1, <2>2, <2>3, BoxBecomes
  <2>5. StreamOK' /\ spent' \in 0..Budget
    BY <1>7, <2>1, CostsSpent DEF MovieInv, StreamOK, QueueOK, Cost
  <2> QED
    BY <1>5, <1>7, <2>3, <2>4, <2>5
<1> QED
  BY <1>4, <1>6, <1>7 DEF SetupResp

LEMMA PlayRespKeeps ==
    ASSUME MovieInv, PlayResp
    PROVE  MovieInv'
<1>1. /\ Handles("PlayResp") /\ ctl.active /\ "PlayResp" \in OnDemandEvents
      /\ UNCHANGED <<sessionVars, fromStream, streamer, call, log>>
  BY DEF PlayResp, OnDemandEvents
<1>2. /\ ctl.state # "None" /\ ctl \in ControllerRecord /\ SpeedOK(ctl, strm)
      /\ tuner \in {"idle", "playing", "rendering"}
      /\ Box \in Boxes /\ Box.ctl = ctl /\ Box.strm = strm
  BY <1>1, ActiveFacts DEF MovieInv, LifeOK, BoxOK, Box
<1>3. SessionOK' /\ StreamOK' /\ ses' = ses
  BY <1>1, SessionSame DEF MovieInv, sessionVars, StreamOK
<1>4. PICK told : told = [Box EXCEPT !.ctl.problem = Box.ctl.problem \/ strm.retstatus = "LSC_SERVER_ERROR"]
  OBVIOUS
<1>5. /\ told \in Boxes /\ told.ctl.state = ctl.state /\ told.ctl.active = ctl.active
      /\ told.strm = strm /\ told.ctl.pendingSpeed = ctl.pendingSpeed
      /\ told.ctl.numerator = ctl.numerator /\ told.ctl.unreported \in BOOLEAN
  BY <1>2, <1>4 DEF Boxes, ControllerRecord
<1>6. BoxOK(told)
  BY <1>2, <1>5 DEF BoxOK, SpeedOK
<1>7. ASSUME NEW b, BoxOK(b), BoxIs(AfterReply(b)), b.ctl.active = ctl.active,
             \/ b.ctl.state = ctl.state
             \/ ctl.state = "ControlServerPending" /\ b.ctl.state = "TunerPending",
             spent' \in 0..Budget, tuner' \in {"idle", "playing", "rendering"}
      PROVE  MovieInv'
  <2>1. BoxOK(Box)' /\ ctl'.state = b.ctl.state /\ ctl'.active = ctl.active
    BY <1>7, AfterReplyKeeps, BoxBecomes
  <2>2. QueueOK' /\ LifeOK'
    BY <1>1, <1>2, <1>3, <1>7, <2>1, HandledKeeps
  <2>3. ReleaseOK'
    BY <1>1, <1>7, <2>1 DEF ReleaseOK, MovieInv, SessionIsUp
  <2> QED
    BY <1>3, <2>1, <2>2, <2>3 DEF MovieInv
<1>8. CASE ctl.state = "ControlServerPending"
  <2>1. PICK plays \in BOOLEAN :
           /\ tuner' = IF plays THEN "playing" ELSE tuner
           /\ Cost(~plays)
           /\ BoxIs(AfterReply([told EXCEPT !.ctl.state = "TunerPending",
                                            !.ctl.unreported = told.ctl.unreported \/ ~plays]))
    BY <1>4, <1>8 DEF PlayResp
  <2>2. PICK b : b = [told EXCEPT !.ctl.state = "TunerPending",
                                  !.ctl.unreported = told.ctl.unreported \/ ~plays]
    OBVIOUS
  <2>3. b \in Boxes /\ b.ctl.state = "TunerPending" /\ b.ctl.active = ctl.active /\ b.strm = strm
    BY <1>5, <2>2 DEF Boxes, ControllerRecord, OnDemandStates
  <2>4. BoxOK(b)
    BY <1>2, <1>8, <2>3 DEF BoxOK, SpeedOK
  <2>5. spent' \in 0..Budget /\ tuner' \in {"idle", "playing", "rendering"}
    BY <1>2, <2>1, CostsSpent DEF MovieInv, QueueOK, Cost
  <2> QED
    BY <1>7, <1>8, <2>1, <2>2, <2>3, <2>4, <2>5
<1>9. CASE ctl.state # "ControlServerPending"
  <2>1. BoxIs(AfterReply(told)) /\ UNCHANGED <<tuner, spent>>
    BY <1>4, <1>9 DEF PlayResp
  <2> QED
    BY <1>2, <1>5, <1>6, <1>7, <2>1 DEF MovieInv, QueueOK
<1> QED
  BY <1>8, <1>9

LEMMA PlayEndsKeeps ==
    ASSUME MovieInv, PlayEnds
    PROVE  MovieInv'
<1>1. PICK e \in OnDemandEvents : Handles(e)
  BY DEF PlayEnds, OnDemandEvents
<1>2. ctl.active /\ UNCHANGED <<spent, sessionVars, streamVars, ctl, call, tuner, log>>
  BY DEF PlayEnds
<1>3. SessionOK' /\ StreamOK' /\ BoxOK(Box)'
  BY <1>2, SessionSame, BoxSame, BoxFacts DEF MovieInv, StreamOK, streamVars
<1>4. QueueOK' /\ LifeOK'
  BY <1>1, <1>2, <1>3, ActiveFacts, HandledKeeps DEF MovieInv, QueueOK, LifeOK, sessionVars
<1>5. ReleaseOK'
  BY <1>2 DEF MovieInv, ReleaseOK
<1> QED
  BY <1>3, <1>4, <1>5 DEF MovieInv

LEMMA ReleaseRespKeeps ==
    ASSUME MovieInv, ReleaseResp
    PROVE  MovieInv'
<1>1. /\ Handles("ReleaseResp") /\ ctl.active /\ "ReleaseResp" \in OnDemandEvents
      /\ UNCHANGED <<spent, sessionVars, streamVars, call, tuner, log>>
  BY DEF ReleaseResp, OnDemandEvents
<1>2. ctl.state # "None" /\ ctl \in ControllerRecord /\ SpeedOK(ctl, strm)
  BY <1>1, ActiveFacts
<1>3. PICK c : c = IF ctl.state = "StopPending" THEN [ctl EXCEPT !.state = "Stopped"] ELSE ctl
  OBVIOUS
<1>4. /\ c \in ControllerRecord /\ c.active = ctl.active /\ ctl' = c /\ SpeedOK(c, strm)
      /\ c.state = IF ctl.state = "StopPending" THEN "Stopped" ELSE ctl.state
  BY <1>2, <1>3 DEF ControllerRecord, OnDemandStates, ReleaseResp, SpeedOK
<1>5. SessionOK' /\ StreamOK' /\ BoxOK(Box)'
  BY <1>1, <1>4, SessionSame, BoxSame DEF MovieInv, StreamOK, streamVars
<1>6. QueueOK' /\ LifeOK'
  BY <1>1, <1>2, <1>4, <1>5, HandledKeeps DEF MovieInv, QueueOK, LifeOK, sessionVars
<1>7. ReleaseOK'
  BY <1>1, <1>4 DEF MovieInv, ReleaseOK, SessionIsUp
<1> QED
  BY <1>5, <1>6, <1>7 DEF MovieInv

LEMMA DisplayRenderingKeeps ==
    ASSUME MovieInv, DisplayRendering
    PROVE  MovieInv'
<1>1. /\ Handles("DisplayRendering") /\ ctl.active /\ "DisplayRendering" \in OnDemandEvents
      /\ UNCHANGED <<spent, sessionVars, streamVars, call, tuner, log>>
  BY DEF DisplayRendering, OnDemandEvents
<1>2. ctl.state # "None" /\ ctl \in ControllerRecord /\ SpeedOK(ctl, strm)
  BY <1>1, ActiveFacts
<1>3. PICK c : c = IF ctl.state = "TunerPending" THEN [ctl EXCEPT !.state = "Streaming"] ELSE ctl
  OBVIOUS
<1>4. /\ c \in ControllerRecord /\ c.active = ctl.active /\ ctl' = c
      /\ c.state = IF ctl.state = "TunerPending" THEN "Streaming" ELSE ctl.state
      /\ ctl.state # "TunerPending" => c = ctl
  BY <1>2, <1>3 DEF ControllerRecord, OnDemandStates, DisplayRendering
<1>5. SpeedOK(c, strm)
  BY <1>2, <1>4 DEF SpeedOK
<1>6. SessionOK' /\ StreamOK' /\ BoxOK(Box)'
  BY <1>1, <1>4, <1>5, SessionSame, BoxSame DEF MovieInv, StreamOK, streamVars
<1>7. QueueOK' /\ LifeOK'
  BY <1>1, <1>2, <1>4, <1>6, HandledKeeps DEF MovieInv, QueueOK, LifeOK, sessionVars
<1>8. ReleaseOK'
  BY <1>1, <1>4 DEF MovieInv, ReleaseOK, SessionIsUp
<1> QED
  BY <1>6, <1>7, <1>8 DEF MovieInv

LEMMA SessionErrorKeeps ==
    ASSUME MovieInv, SessionError
    PROVE  MovieInv'
<1>1. /\ Handles("SessionError") /\ ctl.active /\ "SessionError" \in OnDemandEvents
      /\ UNCHANGED <<mPrevVodSessionId, streamVars, call, tuner>>
      /\ log' = IF ctl.state = "SessionPending" THEN log ELSE [log EXCEPT !.upset = TRUE]
  BY DEF SessionError, OnDemandEvents
<1>2. /\ ctl.state # "None" /\ ctl \in ControllerRecord /\ SpeedOK(ctl, strm) /\ ses.id # 0
      /\ tuner \in {"idle", "playing", "rendering"} /\ ctl.retries \in 0..maxForwardCount
  BY <1>1, ActiveFacts DEF MovieInv, LifeOK, ControllerRecord
<1>3. StreamOK'
  BY <1>1 DEF MovieInv, StreamOK, streamVars
<1>4. ASSUME NEW c \in ControllerRecord, ctl' = c, c.active = ctl.active,
             c.state \in {"SessionPending", ctl.state}, SpeedOK(c, strm),
             SessionOK', ses'.id = ses.id, spent' \in 0..Budget
      PROVE  MovieInv'
  <2>1. BoxOK(Box)'
    BY <1>1, <1>4, BoxSame DEF MovieInv, streamVars
  <2>2. QueueOK' /\ LifeOK'
    BY <1>1, <1>2, <1>3, <1>4, <2>1, HandledKeeps
  <2>3. log \in [served : BOOLEAN, released : BOOLEAN, upset : BOOLEAN]
    BY DEF MovieInv, ReleaseOK
  <2>4. /\ log' \in [served : BOOLEAN, released : BOOLEAN, upset : BOOLEAN]
        /\ log'.released = log.released /\ log'.served = log.served
        /\ log'.upset = (log.upset \/ ctl.state # "SessionPending")
    BY <1>1, <2>3
  <2>5. ReleaseOK'
    BY <1>1, <1>4, <2>4 DEF ReleaseOK, MovieInv, SessionIsUp
  <2> QED
    BY <1>3, <1>4, <2>1, <2>2, <2>5 DEF MovieInv
<1>5. CASE /\ ctl.retries < maxForwardCount
           /\ ses' = AddMessageToSendList(NextTransaction(ses))
           /\ SendSetUpRequest(ses'.trans, FALSE)
           /\ ctl' = [ctl EXCEPT !.state = "SessionPending", !.retries = @ + 1]
  <2>1. PICK c : c = [ctl EXCEPT !.state = "SessionPending", !.retries = ctl.retries + 1]
    OBVIOUS
  <2>2. ctl.retries + 1 \in 0..maxForwardCount
    BY <1>2, <1>5, OnDemandAssumption
  <2>3. /\ c \in ControllerRecord /\ c.state = "SessionPending" /\ c.active = ctl.active
        /\ ctl' = c
    BY <1>2, <1>5, <2>1, <2>2 DEF ControllerRecord, OnDemandStates
  <2>4. PICK s : s = NextTransaction(ses)
    OBVIOUS
  <2>5. /\ s \in SessionRecord /\ s.id = ses.id /\ s.trans = ses.trans + 1 /\ s.trans > 0
        /\ s.sends = ses.sends /\ ses.trans \in Nat /\ s.trans \in Nat
    BY <2>4, TransactionBegun DEF MovieInv, SessionOK, SessionRecord
  <2>6. \A m \in s.sends : m.trans \in 1..s.trans /\ m.count \in 1..(messageRetryCount + 1)
    BY <2>5 DEF MovieInv, SessionOK
  <2>7. /\ ses' \in SessionRecord /\ ses'.id = ses.id /\ ses'.trans = s.trans
        /\ \A m \in ses'.sends : m.trans \in 1..ses'.trans /\ m.count \in 1..(messageRetryCount + 1)
    BY <1>5, <2>4, <2>5, <2>6, MessageListed
  <2>8. SendSetUpRequest(s.trans, FALSE)
    BY <1>5, <2>7
  <2>9. /\ IsABag(net') /\ spent' \in 0..Budget
        /\ \A k \in BagToSet(net') : k \in AnswerRecord /\ k.session \in 1..mPrevVodSessionId
    BY <1>2, <2>5, <2>8, SetUpSent DEF MovieInv, QueueOK
  <2>10. SessionOK'
    BY <1>1, <1>2, <2>7, <2>9 DEF SessionOK, MovieInv
  <2>11. SpeedOK(c, strm)
    BY <2>3 DEF SpeedOK
  <2> QED
    BY <1>4, <2>3, <2>7, <2>9, <2>10, <2>11
<1>6. ASSUME UNCHANGED <<ses, net>>
      PROVE  SessionOK' /\ ses'.id = ses.id
  BY <1>1, <1>6, SessionSame DEF sessionVars, MovieInv
<1>7. CASE /\ ctl.retries < maxForwardCount
           /\ ctl' = [ctl EXCEPT !.retries = @ + 1, !.unreported = TRUE]
           /\ Cost(TRUE)
           /\ UNCHANGED <<ses, net>>
  <2>1. PICK c : c = [ctl EXCEPT !.retries = ctl.retries + 1, !.unreported = TRUE]
    OBVIOUS
  <2>2. ctl.retries + 1 \in 0..maxForwardCount
    BY <1>2, <1>7, OnDemandAssumption
  <2>3. /\ c \in ControllerRecord /\ c.state = ctl.state /\ c.active = ctl.active
        /\ ctl' = c /\ SpeedOK(c, strm)
    BY <1>2, <1>7, <2>1, <2>2 DEF ControllerRecord, OnDemandStates, SpeedOK
  <2>4. spent' \in 0..Budget
    BY <1>7, CostsSpent DEF MovieInv, QueueOK, Cost
  <2> QED
    BY <1>4, <1>6, <1>7, <2>3, <2>4
<1>8. CASE /\ ctl.retries >= maxForwardCount
           /\ ctl' = [ctl EXCEPT !.problem = TRUE]
           /\ UNCHANGED <<ses, net, spent>>
  <2>1. PICK c : c = [ctl EXCEPT !.problem = TRUE]
    OBVIOUS
  <2>2. /\ c \in ControllerRecord /\ c.state = ctl.state /\ c.active = ctl.active
        /\ ctl' = c /\ SpeedOK(c, strm)
    BY <1>2, <1>8, <2>1 DEF ControllerRecord, OnDemandStates, SpeedOK
  <2> QED
    BY <1>4, <1>6, <1>8, <2>2 DEF MovieInv, QueueOK
<1> QED
  BY <1>5, <1>7, <1>8 DEF SessionError

LEMMA StreamErrorKeeps ==
    ASSUME MovieInv, StreamError
    PROVE  MovieInv'
<1>1. /\ Handles("StreamError") /\ ctl.active /\ "StreamError" \in OnDemandEvents
      /\ UNCHANGED <<spent, sessionVars, streamVars, call, tuner>>
  BY DEF StreamError, OnDemandEvents
<1>2. ctl \in ControllerRecord /\ log \in [served : BOOLEAN, released : BOOLEAN, upset : BOOLEAN]
  BY <1>1, ActiveFacts DEF MovieInv, ReleaseOK
<1>3. PICK c : c = [ctl EXCEPT !.state = "Stopped", !.problem = TRUE, !.streamEvent = FALSE]
  OBVIOUS
<1>4. /\ c \in ControllerRecord /\ c.active = ctl.active /\ ctl' = c /\ SpeedOK(c, strm)
      /\ c.state = "Stopped"
  BY <1>2, <1>3 DEF ControllerRecord, OnDemandStates, StreamError, SpeedOK
<1>5. SessionOK' /\ StreamOK' /\ BoxOK(Box)'
  BY <1>1, <1>4, SessionSame, BoxSame DEF MovieInv, StreamOK, streamVars
<1>6. QueueOK' /\ LifeOK'
  BY <1>1, <1>4, <1>5, HandledKeeps DEF MovieInv, QueueOK, LifeOK, sessionVars
<1>7. /\ log' \in [served : BOOLEAN, released : BOOLEAN, upset : BOOLEAN]
      /\ log'.upset
  BY <1>2 DEF StreamError
<1>8. ReleaseOK'
  BY <1>1, <1>4, <1>7 DEF MovieInv, ReleaseOK
<1> QED
  BY <1>5, <1>6, <1>8 DEF MovieInv

LEMMA StopControllerKeeps ==
    ASSUME MovieInv, StopController
    PROVE  MovieInv'
<1>1. /\ Handles("StopController") /\ ctl.active /\ "StopController" \in OnDemandEvents
      /\ UNCHANGED <<spent, toStream, fromStream, streamer, call, tuner, log>>
  BY DEF StopController, OnDemandEvents
<1>2. /\ queue' \in Seq(OnDemandEvents) /\ OneStop' /\ call = "Stopping"
      /\ ~\E i \in 1..Len(queue') : queue'[i] = "StopController"
  BY <1>1, HandlesTakes
<1>3. PICK c : c = [ctl EXCEPT !.active = FALSE, !.streamEvent = FALSE]
  OBVIOUS
<1>4. /\ c \in ControllerRecord /\ ~c.active /\ ctl' = c /\ c.state = ctl.state
      /\ toStream \in Seq(Scales) /\ ctl.state # "None"
  BY <1>1, <1>3, ActiveFacts DEF ControllerRecord, StopController
<1>5. BoxOK(Box)' /\ StreamOK'
  <2>1. BoxOK([ctl |-> c, strm |-> NoStream, out |-> toStream])
    BY <1>4, NewStreamType DEF BoxOK, Boxes, SpeedOK
  <2>2. BoxOK(Box)'
    BY <1>1, <1>4, <2>1, BoxBecomes DEF BoxIs, StopController
  <2> QED
    BY <1>1, <2>2 DEF StreamOK, MovieInv
<1>6. SessionOK' /\ ses'.id = 0
  <2>1. NoSession \in SessionRecord /\ NoSession.id = 0 /\ NoSession.sends = {} /\ NoSession.trans = 0
    BY DEF NoSession, SessionRecord
  <2>2. IsABag(EmptyBag) /\ BagToSet(EmptyBag) = {}
    BY DEF EmptyBag, SetToBag, IsABag, BagToSet
  <2> QED
    BY <2>1, <2>2 DEF SessionOK, MovieInv, StopController, DeleteSessionControl
<1>7. QueueOK' /\ LifeOK'
  BY <1>1, <1>2, <1>4, <1>6 DEF MovieInv, QueueOK, LifeOK
<1>8. ReleaseOK'
  BY <1>1, <1>2, <1>4 DEF MovieInv, ReleaseOK
<1> QED
  BY <1>5, <1>6, <1>7, <1>8 DEF MovieInv

------------------------------------------------------------------------------
(* The loop reads the sockets and runs the timers; the tuner renders *)

LEMMA ReadSessionKeepsAll ==
    ASSUME MovieInv, ReadSession
    PROVE  MovieInv'
<1>1. ReadSessionSocketCallback /\ UNCHANGED <<streamVars, ctl, call, tuner, log>>
  BY DEF ReadSession
<1>2. /\ SessionOK' /\ QueueOK' /\ OneStop' /\ ses'.id = ses.id /\ ses'.trans = ses.trans
      /\ (\E i \in 1..Len(queue') : queue'[i] = "StopController") =>
            \E i \in 1..Len(queue) : queue[i] = "StopController"
  BY <1>1, ReadSessionKeeps DEF MovieInv, LifeOK
<1>3. BoxOK(Box)' /\ StreamOK'
  BY <1>1, BoxSame, BoxFacts DEF MovieInv, StreamOK, streamVars
<1>4. LifeOK' /\ ReleaseOK'
  BY <1>1, <1>2 DEF MovieInv, LifeOK, ReleaseOK
<1> QED
  BY <1>2, <1>3, <1>4 DEF MovieInv

LEMMA ProcessTimeoutKeeps ==
    ASSUME MovieInv, ProcessTimeout
    PROVE  MovieInv'
<1>1. UNCHANGED <<mPrevVodSessionId, streamVars, call, tuner, log>>
  BY DEF ProcessTimeout
<1>2. /\ ctl \in ControllerRecord /\ SpeedOK(ctl, strm)
  BY BoxFacts DEF MovieInv
<1>3. PICK m \in ses.sends :
          \/ Resend(m) /\ UNCHANGED ctl
          \/ \E kept \in BOOLEAN :
                /\ GiveUp(m, kept)
                /\ ctl' = [ctl EXCEPT !.unreported = ctl.unreported \/ ~kept]
  BY DEF ProcessTimeout
<1>4. /\ SessionOK' /\ QueueOK' /\ OneStop' /\ ses'.id = ses.id /\ ses'.trans = ses.trans
      /\ (\E i \in 1..Len(queue') : queue'[i] = "StopController") =>
            \E i \in 1..Len(queue) : queue[i] = "StopController"
  <2>1. CASE Resend(m)
    BY <1>1, <2>1, ResendKeeps, QueueSame DEF MovieInv, LifeOK
  <2>2. ASSUME NEW kept \in BOOLEAN, GiveUp(m, kept)
        PROVE  /\ SessionOK' /\ QueueOK' /\ OneStop' /\ ses'.id = ses.id /\ ses'.trans = ses.trans
               /\ (\E i \in 1..Len(queue') : queue'[i] = "StopController") =>
                     \E i \in 1..Len(queue) : queue[i] = "StopController"
    BY <1>1, <2>2, GiveUpKeeps DEF MovieInv, LifeOK
  <2> QED
    BY <1>3, <2>1, <2>2
<1>5. PICK c \in ControllerRecord :
         ctl' = c /\ c.state = ctl.state /\ c.active = ctl.active /\ SpeedOK(c, strm)
  <2>1. CASE UNCHANGED ctl
    BY <1>2, <2>1
  <2>2. ASSUME NEW kept \in BOOLEAN, ctl' = [ctl EXCEPT !.unreported = ctl.unreported \/ ~kept]
        PROVE  \E c \in ControllerRecord :
                  ctl' = c /\ c.state = ctl.state /\ c.active = ctl.active /\ SpeedOK(c, strm)
    <3>1. PICK c : c = [ctl EXCEPT !.unreported = ctl.unreported \/ ~kept]
      OBVIOUS
    <3>2. c \in ControllerRecord /\ c.state = ctl.state /\ c.active = ctl.active /\ SpeedOK(c, strm)
      BY <1>2, <3>1 DEF ControllerRecord, SpeedOK
    <3> QED
      BY <2>2, <3>1, <3>2
  <2> QED
    BY <1>3, <2>1, <2>2
<1>6. BoxOK(Box)' /\ StreamOK'
  BY <1>1, <1>5, BoxSame DEF MovieInv, StreamOK, streamVars
<1>7. LifeOK' /\ ReleaseOK'
  BY <1>1, <1>4, <1>5 DEF MovieInv, LifeOK, ReleaseOK
<1> QED
  BY <1>4, <1>6, <1>7 DEF MovieInv

\* What is of the stream alone: the speed that was sent is not touched.
LEMMA StreamStepKeeps ==
    ASSUME MovieInv, UNCHANGED <<sessionVars, ctl, call, tuner, log>>,
           NEW s \in StreamRecord, strm' = s,
           s.exists = strm.exists, s.sent = strm.sent, s.moved = strm.moved,
           toStream' \in Seq(Scales), StreamOK', spent' \in 0..Budget,
           \/ UNCHANGED queue
           \/ \E e \in OnDemandEvents \ {"StopController"} : queueEvent(e)
    PROVE  MovieInv'
<1>1. /\ queue' \in Seq(OnDemandEvents) /\ OneStop'
      /\ (\E i \in 1..Len(queue') : queue'[i] = "StopController") =>
            \E i \in 1..Len(queue) : queue[i] = "StopController"
  <2>1. CASE UNCHANGED queue
    BY <2>1, QueueSame DEF MovieInv, LifeOK
  <2>2. ASSUME NEW e \in OnDemandEvents \ {"StopController"}, queueEvent(e)
        PROVE  /\ queue' \in Seq(OnDemandEvents) /\ OneStop'
               /\ (\E i \in 1..Len(queue') : queue'[i] = "StopController") =>
                     \E i \in 1..Len(queue) : queue[i] = "StopController"
    BY <2>2, Queues DEF MovieInv, LifeOK
  <2> QED
    BY <2>1, <2>2
<1>2. BoxOK(Box)'
  <2>1. PICK o \in Seq(Scales) : o = toStream'
    OBVIOUS
  <2>2. ctl \in ControllerRecord /\ SpeedOK(ctl, strm)
    BY BoxFacts DEF MovieInv
  <2>3. BoxOK([ctl |-> ctl, strm |-> s, out |-> o])
    BY <2>2 DEF BoxOK, Boxes, SpeedOK
  <2> QED
    BY <2>1, <2>3, BoxBecomes DEF BoxIs
<1>3. SessionOK' /\ QueueOK' /\ LifeOK' /\ ReleaseOK'
  BY <1>1, SessionSame DEF MovieInv, QueueOK, LifeOK, ReleaseOK, sessionVars
<1> QED
  BY <1>2, <1>3 DEF MovieInv

LEMMA ReadType ==
    ASSUME strm \in StreamRecord, fromStream \in Seq(StreamMessages)
    PROVE  /\ BytesRead \in Nat /\ BytesRead % ReplySize \in 0..ReplySize - 1
           /\ BytesRead \div ReplySize \in Nat
           /\ SubSeq(fromStream, (BytesRead \div ReplySize) + 1, Len(fromStream))
                 \in Seq(StreamMessages)
<1>1. ReplySize = 17 /\ strm.cut \in 0..16 /\ Len(fromStream) \in Nat
  BY LenProperties DEF ReplySize, LSC_HEADER_SIZE, StreamRecord
<1>2. BytesRead \in Nat
  BY <1>1 DEF BytesRead, ReadSize
<1>3. BytesRead % ReplySize \in 0..ReplySize - 1 /\ BytesRead \div ReplySize \in Nat
  BY <1>1, <1>2
<1>4. PICK k \in Nat : k = (BytesRead \div ReplySize) + 1
  BY <1>3
<1>5. k > 0
  BY <1>3, <1>4
<1>6. SubSeq(fromStream, k, Len(fromStream)) \in Seq(StreamMessages)
  BY <1>1, <1>4, <1>5, SubSeqProperties
<1> QED
  BY <1>2, <1>3, <1>4, <1>6

LEMMA AfterReadType ==
    ASSUME strm \in StreamRecord, fromStream \in Seq(StreamMessages)
    PROVE  /\ AfterRead \in StreamRecord /\ AfterRead.exists = strm.exists
           /\ AfterRead.sent = strm.sent /\ AfterRead.moved = strm.moved
<1>1. PICK k \in 0..ReplySize - 1 : k = BytesRead % ReplySize
  BY ReadType
<1>2. AfterRead = [strm EXCEPT !.failCount = 0, !.cut = k, !.lost = strm.lost \/ k # 0]
  BY <1>1 DEF AfterRead
<1> QED
  BY <1>2 DEF StreamRecord

LEMMA ReadStreamKeeps ==
    ASSUME MovieInv, ReadStream
    PROVE  MovieInv'
<1>1. UNCHANGED <<sessionVars, ctl, call, tuner, log>> /\ (ReadMessage \/ ReadFails)
  BY DEF ReadStream, ReadStreamSocketData
<1>2. /\ strm \in StreamRecord /\ toStream \in Seq(Scales) /\ spent \in 0..Budget
      /\ fromStream \in Seq(StreamMessages) /\ streamer \in Scales
  BY BoxFacts DEF MovieInv, StreamOK, QueueOK
<1>3. CASE ReadMessage
  <2>1. fromStream # <<>> /\ UNCHANGED <<toStream, streamer, spent>>
    BY <1>3 DEF ReadMessage
  <2>2. StreamOK'
    BY <1>2, <1>3, <2>1, ReadType DEF ReadMessage, StreamOK
  <2>3. PICK m \in StreamMessages : m = Head(fromStream)
    BY <1>2, <2>1, HeadTailProperties
  <2>4. PICK r \in StreamRecord :
           r = AfterRead /\ r.exists = strm.exists /\ r.sent = strm.sent /\ r.moved = strm.moved
    BY <1>2, AfterReadType
  <2>5. CASE HandleDone(m)
    <3>1. PICK s : s = [r EXCEPT !.retstatus = m.status]
      OBVIOUS
    <3>2. /\ s \in StreamRecord /\ strm' = s
          /\ s.exists = strm.exists /\ s.sent = strm.sent /\ s.moved = strm.moved
      BY <2>3, <2>4, <2>5, <3>1 DEF StreamRecord, StreamMessages, HandleDone
    <3>3. \E e \in OnDemandEvents \ {"StopController"} : queueEvent(e)
      BY <2>5 DEF HandleDone, OnDemandEvents
    <3> QED
      BY <1>1, <1>2, <2>1, <2>2, <3>2, <3>3, StreamStepKeeps
  <2>6. CASE HandleReply(m)
    <3>1. PICK s : s = [r EXCEPT !.retstatus = m.status, !.numerator = m.num]
      OBVIOUS
    <3>2. /\ s \in StreamRecord /\ strm' = s
          /\ s.exists = strm.exists /\ s.sent = strm.sent /\ s.moved = strm.moved
      BY <2>3, <2>4, <2>6, <3>1 DEF StreamRecord, StreamMessages, HandleReply
    <3>3. \E e \in OnDemandEvents \ {"StopController"} : queueEvent(e)
      BY <2>6 DEF HandleReply, OnDemandEvents
    <3> QED
      BY <1>1, <1>2, <2>1, <2>2, <3>2, <3>3, StreamStepKeeps
  <2>7. CASE strm' = AfterRead /\ UNCHANGED queue
    BY <1>1, <1>2, <2>1, <2>2, <2>4, <2>7, StreamStepKeeps
  <2> QED
    BY <1>3, <2>3, <2>5, <2>6, <2>7 DEF ReadMessage
<1>4. CASE ReadFails
  <2>1. PICK s : s = [strm EXCEPT !.failCount = strm.failCount + 1]
    OBVIOUS
  <2>2. /\ s \in StreamRecord /\ strm' = s
        /\ s.exists = strm.exists /\ s.sent = strm.sent /\ s.moved = strm.moved
    BY <1>2, <1>4, <2>1 DEF StreamRecord, ReadFails
  <2>3. \/ UNCHANGED queue
        \/ \E e \in OnDemandEvents \ {"StopController"} : queueEvent(e)
    BY <1>4 DEF ReadFails, OnDemandEvents
  <2>4. UNCHANGED <<toStream, fromStream, streamer, spent>>
    BY <1>4 DEF ReadFails
  <2>5. StreamOK'
    BY <1>2, <2>4 DEF StreamOK
  <2> QED
    BY <1>1, <1>2, <2>2, <2>3, <2>4, <2>5, StreamStepKeeps
<1> QED
  BY <1>1, <1>3, <1>4

LEMMA TunerRendersKeeps ==
    ASSUME MovieInv, TunerRenders
    PROVE  MovieInv'
<1>1. /\ queueEvent("DisplayRendering") /\ tuner' = "rendering"
      /\ UNCHANGED <<spent, sessionVars, streamVars, ctl, call, log>>
      /\ "DisplayRendering" \in OnDemandEvents
  BY DEF TunerRenders, OnDemandEvents
<1>2. /\ queue' \in Seq(OnDemandEvents) /\ OneStop'
      /\ (\E i \in 1..Len(queue') : queue'[i] = "StopController") =>
            \E i \in 1..Len(queue) : queue[i] = "StopController"
  BY <1>1, Queues DEF MovieInv, LifeOK
<1>3. SessionOK' /\ StreamOK' /\ BoxOK(Box)'
  BY <1>1, SessionSame, BoxSame, BoxFacts DEF MovieInv, StreamOK, streamVars
<1>4. QueueOK' /\ LifeOK' /\ ReleaseOK'
  BY <1>1, <1>2 DEF MovieInv, QueueOK, LifeOK, ReleaseOK, sessionVars
<1> QED
  BY <1>3, <1>4 DEF MovieInv

LEMMA StreamServerKeeps ==
    ASSUME MovieInv, StreamServer
    PROVE  MovieInv'
<1>1. UNCHANGED <<sessionVars, ctl, call, tuner, log>>
  BY DEF StreamServer
<1>2. /\ strm \in StreamRecord /\ toStream \in Seq(Scales) /\ spent \in 0..Budget
      /\ fromStream \in Seq(StreamMessages) /\ streamer \in Scales
  BY BoxFacts DEF MovieInv, StreamOK, QueueOK
<1>3. CASE StreamerAnswers
  <2>1. toStream # <<>> /\ UNCHANGED <<strm, queue>> /\ toStream' = Tail(toStream)
    BY <1>3 DEF StreamerAnswers
  <2>2. toStream' \in Seq(Scales) /\ Head(toStream) \in Scales
    BY <1>2, <2>1, HeadTailProperties
  <2>3. PICK status \in StreamStatuses, speed \in Scales :
           /\ Cost(status # "LSC_OK") /\ streamer' = speed
           /\ fromStream' = Append(fromStream,
                                   [type |-> "reply", num |-> speed, status |-> status])
    BY <1>2, <1>3, <2>2 DEF StreamerAnswers
  <2>4. [type |-> "reply", num |-> speed, status |-> status] \in StreamMessages
    BY DEF StreamMessages
  <2>5. StreamOK' /\ spent' \in 0..Budget
    BY <1>2, <2>3, <2>4, AppendProperties, CostsSpent DEF StreamOK, Cost
  <2> QED
    BY <1>1, <1>2, <2>1, <2>2, <2>5, StreamStepKeeps
<1>4. CASE StreamerEnds
  <2>1. [type |-> "LSC_DONE", num |-> streamer, status |-> "LSC_OK"] \in StreamMessages
    BY <1>2 DEF StreamMessages, StreamStatuses
  <2>2. StreamOK' /\ spent' \in 0..Budget
    BY <1>2, <1>4, <2>1, AppendProperties, CostsSpent DEF StreamOK, Cost, StreamerEnds
  <2> QED
    BY <1>1, <1>2, <1>4, <2>2, StreamStepKeeps DEF StreamerEnds
<1>5. CASE ConnectionBreaks
  <2>1. PICK s : s = [strm EXCEPT !.socketFd = "broken"]
    OBVIOUS
  <2>2. /\ s \in StreamRecord /\ strm' = s
        /\ s.exists = strm.exists /\ s.sent = strm.sent /\ s.moved = strm.moved
    BY <1>2, <1>5, <2>1 DEF StreamRecord, ConnectionBreaks
  <2>3. /\ StreamOK' /\ spent' \in 0..Budget /\ toStream' \in Seq(Scales)
    BY <1>2, <1>5, EmptySeq, CostsSpent DEF StreamOK, Cost, ConnectionBreaks
  <2> QED
    BY <1>1, <1>5, <2>2, <2>3, StreamStepKeeps DEF ConnectionBreaks
<1> QED
  BY <1>3, <1>4, <1>5 DEF StreamServer, Streamer

LEMMA MovieInitInv ==
    ASSUME Init
    PROVE  MovieInv
<1>1. QueueOK /\ SessionOK /\ StreamOK
  <2>1. IsABag(EmptyBag) /\ BagToSet(EmptyBag) = {}
    BY DEF EmptyBag, SetToBag, IsABag, BagToSet
  <2>2. <<>> \in Seq(OnDemandEvents) /\ <<>> \in Seq(StreamMessages) /\ 0 \in Scales
    BY EmptySeq DEF Scales
  <2> QED
    BY <2>1, <2>2, OnDemandAssumption
    DEF Init, SessionInit, StreamInit, QueueOK, SessionOK, StreamOK, NoSession, SessionRecord
<1>2. BoxOK(Box)
  <2>1. Box = [ctl |-> NoController, strm |-> NoStream, out |-> <<>>]
    BY DEF Box, Init, StreamInit
  <2> QED
    BY <2>1, NoControllerType, NewStreamType, EmptySeq DEF BoxOK, Boxes, SpeedOK
<1>3. LifeOK /\ ReleaseOK
  <2>1. Len(queue) = 0
    BY EmptySeq DEF Init
  <2> QED
    BY <2>1 DEF Init, SessionInit, NoSession, NoController, NoLog, LifeOK, OneStop, ReleaseOK
<1> QED
  BY <1>1, <1>2, <1>3 DEF MovieInv

LEMMA MovieNextInv ==
    ASSUME MovieInv, [Next]_vars
    PROVE  MovieInv'
<1>1. CASE UNCHANGED vars
  <2>1. SessionOK' /\ StreamOK' /\ BoxOK(Box)'
    BY <1>1, SessionSame, BoxSame, BoxFacts DEF MovieInv, StreamOK, streamVars, vars
  <2>2. QueueOK' /\ LifeOK' /\ ReleaseOK'
    BY <1>1, QueueSame DEF MovieInv, QueueOK, LifeOK, ReleaseOK, sessionVars, vars
  <2> QED
    BY <2>1, <2>2 DEF MovieInv
<1>2. CASE Client
  BY <1>2, LoadKeeps, PlayFailsKeeps, PlayKeeps, PlayReturnsKeeps, SetSpeedActionKeeps,
     SetPositionActionKeeps, StopKeeps, stopEventThreadKeeps, EjectKeeps DEF Client
<1>3. CASE HandleCallback
  BY <1>3, DropEventKeeps, SetupRespKeeps, PlayRespKeeps, PlayEndsKeeps, ReleaseRespKeeps,
     DisplayRenderingKeeps, SessionErrorKeeps, StreamErrorKeeps, StopControllerKeeps
  DEF HandleCallback
<1>4. CASE ReadSession \/ ReadStream \/ ProcessTimeout \/ TunerRenders \/ StreamServer
  BY <1>4, ReadSessionKeepsAll, ReadStreamKeeps, ProcessTimeoutKeeps, TunerRendersKeeps,
     StreamServerKeeps
<1> QED
  BY <1>1, <1>2, <1>3, <1>4 DEF Next

LEMMA MovieInvImplies ==
    ASSUME MovieInv
    PROVE  TypeOK /\ SpeedIsSent /\ SessionsAreReleased
<1>1. SessionTypeOK
  BY DEF MovieInv, SessionOK, SessionTypeOK, SessionRecord, AnswerRecord
<1>2. /\ ctl \in ControllerRecord /\ strm \in StreamRecord /\ toStream \in Seq(Scales)
      /\ SpeedOK(ctl, strm)
  BY BoxFacts DEF MovieInv
<1>3. StreamTypeOK
  <2>1. \A i \in DOMAIN fromStream : fromStream[i] \in StreamMessages
    BY ElementOfSeq, LenProperties DEF MovieInv, StreamOK
  <2> QED
    BY <1>2, <2>1 DEF StreamTypeOK, StreamMessages, StreamRecord, MovieInv, StreamOK
<1>4. TypeOK
  BY <1>1, <1>2, <1>3 DEF TypeOK, MovieInv, QueueOK, LifeOK, ReleaseOK, ControllerRecord
<1>5. SpeedIsSent
  BY <1>2 DEF SpeedIsSent, SpeedOK, Sends
<1>6. SessionsAreReleased
  BY DEF SessionsAreReleased, MovieInv, LifeOK, ReleaseOK
<1> QED
  BY <1>4, <1>5, <1>6

------------------------------------------------------------------------------
(* The stream of a recording in the network: its state, part by part *)

CloudStates == {"SessionPending", "ControlServerPending", "TunerPending", "Streaming",
                "StopPending", "Stopped", "gone"}

RtspTypes == {"PLAY", "PAUSE", "GETPOS", "GETSPEED", "KEEPALIVE"}

\* A pause is sent with speed 0.
RtspRequests == {r \in [type : RtspTypes, scale : Int, from : Int, of : Nat] :
                r.type = "PAUSE" => r.scale = 0}

CloudStreamRecord ==
    [up : BOOLEAN, pause : BOOLEAN, npt : Int, num : Int, temp : Int, since : Int,
     known : BOOLEAN, respPos : {"none", "ok", "error"}, respSpeed : {"none", "ok", "error"},
     respOf : Nat, threads : Int, timers : Int, timer : BOOLEAN, shut : BOOLEAN]

CloudCtlRecord ==
    [state : CloudStates, speed : Int, pendingPlay : BOOLEAN, pendingSpeed : BOOLEAN,
     pendingPosition : BOOLEAN, position : Int]

CloudPastRecord ==
    [unsent : BOOLEAN, refused : BOOLEAN, moved : BOOLEAN, timedOut : BOOLEAN,
     foreign : BOOLEAN, late : BOOLEAN, overtaken : BOOLEAN, replayed : BOOLEAN, polls : Nat]

Clouds == [cs : CloudStreamRecord, cc : CloudCtlRecord, asked : Seq(RtspRequests),
           past : CloudPastRecord]

PollRecord == [st : {"none", "estimate", "GETPOS", "GETSPEED", "gotPos", "gotSpeed"},
               of : Nat, left : Int, npt : Int]

CloudEvents == {"SetupResp", "RTSPPlaySuccess", "RTSPPlayFailed", "StreamError", "StopController"}

\* The requests that set a speed, and the events that answer them.
Playing == {"PLAY", "PAUSE"}
Replies == {"RTSPPlaySuccess", "RTSPPlayFailed", "StreamError"}

\* The timers of the loop are one that is kept, if a play was not answered twice.
TimersOK(c) ==
    ~c.past.replayed =>
        /\ c.cs.timers = IF c.cs.timer THEN 1 ELSE 0
        /\ c.cs.shut => ~c.cs.timer

\* What is held back waits for a play, and a play for an answer that is due.
PendingOK(c, evs) ==
    /\ c.cc.state \in {"SessionPending", "ControlServerPending", "TunerPending"} =>
          ~c.cc.pendingPlay /\ ~c.cc.pendingSpeed /\ ~c.cc.pendingPosition
    /\ c.cc.state = "Streaming" =>
          /\ c.cc.pendingSpeed \/ c.cc.pendingPosition => c.cc.pendingPlay
          /\ c.cc.pendingPlay =>
                \/ c.past.unsent
                \/ \E i \in 1..Len(c.asked) : c.asked[i].type \in Playing
                \/ \E i \in 1..Len(evs) : evs[i] \in Replies

\* The last request that sets a speed, or the server when there is none, has it.
ScaleComes(reqs, scale, speed) ==
    \/ \E i \in 1..Len(reqs) :
          /\ reqs[i].type \in Playing /\ reqs[i].scale = speed
          /\ \A j \in 1..Len(reqs) : reqs[j].type \in Playing => j <= i
    \/ scale = speed /\ \A i \in 1..Len(reqs) : reqs[i].type \notin Playing

SpeedComes(c, srv) ==
    c.cc.state \in {"ControlServerPending", "TunerPending", "Streaming"} =>
        \/ c.past.unsent \/ c.past.refused \/ c.past.moved \/ c.cc.pendingSpeed
        \/ ScaleComes(c.asked, srv.scale, c.cc.speed)

CloudOK(c, srv, evs) ==
    /\ c \in Clouds
    /\ TimersOK(c)
    /\ PendingOK(c, evs)
    /\ SpeedComes(c, srv)

\* A stream control is deleted when it was shut, which its last event tells of.
CloudLoopOK ==
    /\ cevents \in Seq(CloudEvents)
    /\ (\E i \in 1..Len(cevents) : cevents[i] = "StopController") => cs.shut
    /\ cc.state = "gone" => cs.shut

CloudInv ==
    /\ CloudOK(Cloud, server, cevents)
    /\ CloudLoopOK
    /\ server \in [scale : Int, pos : Int] /\ poll \in PollRecord

------------------------------------------------------------------------------
(* The requests *)

LEMMA CloudParts ==
    ASSUME NEW c \in Clouds
    PROVE  /\ c.cs \in CloudStreamRecord /\ c.cc \in CloudCtlRecord /\ c.asked \in Seq(RtspRequests)
           /\ c.past \in CloudPastRecord
BY DEF Clouds

\* What no request touches.
TimersSame(p, c) ==
    /\ p.cs.timers = c.cs.timers /\ p.cs.timer = c.cs.timer /\ p.cs.shut = c.cs.shut
    /\ p.past.replayed = c.past.replayed /\ p.past.refused = c.past.refused

\* p is c after a request that sets the speed, which may not have been sent.
Asks(c, p) ==
    /\ p \in Clouds /\ TimersSame(p, c)
    /\ \/ p.past.unsent
       \/ \E r \in RtspRequests : /\ r.type \in Playing /\ p.asked = Append(c.asked, r)
                                  /\ p.past.moved \/ r.scale = p.cc.speed

LEMMA SentSent ==
    ASSUME NEW c \in Clouds, NEW r \in RtspRequests, NEW goes
    PROVE  LET p == Sent(c, r, goes)
           IN  /\ p \in Clouds /\ p.cs = c.cs /\ p.cc = c.cc
               /\ p.past.moved = c.past.moved /\ p.past.replayed = c.past.replayed
               /\ p.past.refused = c.past.refused
               /\ p.past.unsent \/ p.asked = Append(c.asked, r)
<1>1. CASE goes /\ c.cs.up
  <2>1. Append(c.asked, r) \in Seq(RtspRequests)
    BY CloudParts, AppendProperties
  <2>2. Sent(c, r, goes) = [c EXCEPT !.asked = Append(c.asked, r)]
    BY <1>1 DEF Sent
  <2> QED
    BY <2>1, <2>2 DEF Clouds
<1>2. CASE ~(goes /\ c.cs.up)
  <2>1. Sent(c, r, goes) = [c EXCEPT !.past.unsent = TRUE]
    BY <1>2 DEF Sent
  <2> QED
    BY <2>1 DEF Clouds, CloudPastRecord
<1> QED
  BY <1>1, <1>2

LEMMA RequestType ==
    ASSUME NEW type \in RtspTypes, NEW scale \in Int, NEW from \in Int, type = "PAUSE" => scale = 0
    PROVE  /\ Request(type, scale, from) \in RtspRequests
           /\ Request(type, scale, from).type = type /\ Request(type, scale, from).scale = scale
BY DEF Request, RtspRequests

LEMMA CloudPlayAsks ==
    ASSUME NEW c \in Clouds, NEW using \in BOOLEAN, NEW goes, c.past.moved \/ c.cs.temp = c.cc.speed
    PROVE  Asks(c, CloudStreamPlay(c, using, goes)) /\ CloudStreamPlay(c, using, goes).cc = c.cc
<1> DEFINE r == Request("PLAY", c.cs.temp, IF using THEN -1 ELSE c.cs.npt)
           p == Sent(c, r, goes)
           q == [p EXCEPT !.cs.since = 0]
<1>1. r \in RtspRequests /\ r.type = "PLAY" /\ r.scale = c.cs.temp
  <2>1. /\ c.cs.temp \in Int /\ (IF using THEN -1 ELSE c.cs.npt) \in Int
        /\ "PLAY" \in RtspTypes
    BY CloudParts DEF CloudStreamRecord, RtspTypes
  <2> QED
    BY <2>1, RequestType
<1>2. CloudStreamPlay(c, using, goes) = IF p.asked = c.asked THEN p ELSE q
  BY DEF CloudStreamPlay
<1> HIDE DEF r
<1>3. /\ p \in Clouds /\ p.cs = c.cs /\ p.cc = c.cc
      /\ p.past.moved = c.past.moved /\ p.past.replayed = c.past.replayed
      /\ p.past.refused = c.past.refused
      /\ p.past.unsent \/ p.asked = Append(c.asked, r)
  BY <1>1, SentSent
<1> HIDE DEF p
<1>4. /\ q \in Clouds /\ q.cc = p.cc /\ q.asked = p.asked /\ q.past = p.past
      /\ q.cs.timers = p.cs.timers /\ q.cs.timer = p.cs.timer /\ q.cs.shut = p.cs.shut
  <2>1. PICK s : s = [p.cs EXCEPT !.since = 0]
    OBVIOUS
  <2>2. /\ s \in CloudStreamRecord /\ s.timers = p.cs.timers /\ s.timer = p.cs.timer
        /\ s.shut = p.cs.shut
    <3>1. p.cs \in CloudStreamRecord
      BY <1>3, CloudParts
    <3> QED
      BY ONLY <2>1, <3>1 DEF CloudStreamRecord
  <2>3. q = [p EXCEPT !.cs = s]
    BY <2>1
  <2> QED
    BY <1>3, <2>2, <2>3 DEF Clouds
<1> HIDE DEF q
<1> QED
  BY <1>1, <1>2, <1>3, <1>4 DEF Asks, TimersSame, Playing

LEMMA CloudPauseAsks ==
    ASSUME NEW c \in Clouds, NEW goes
    PROVE  LET p == CloudStreamPause(c, goes)
           IN  /\ p \in Clouds /\ TimersSame(p, c) /\ p.cc = c.cc /\ p.cs = c.cs
               /\ c.cc.speed = 0 => Asks(c, p)
<1> DEFINE r == Request("PAUSE", 0, -1)
           p == Sent(c, r, goes)
           q == [p EXCEPT !.past.moved = FALSE]
<1>1. r \in RtspRequests /\ r.type = "PAUSE" /\ r.scale = 0
  BY RequestType DEF RtspTypes
<1>2. CloudStreamPause(c, goes) = q
  BY DEF CloudStreamPause
<1> HIDE DEF r
<1>3. /\ p \in Clouds /\ p.cs = c.cs /\ p.cc = c.cc
      /\ p.past.replayed = c.past.replayed /\ p.past.refused = c.past.refused
      /\ p.past.unsent \/ p.asked = Append(c.asked, r)
  BY <1>1, SentSent
<1> HIDE DEF p
<1>4. /\ q \in Clouds /\ q.cc = p.cc /\ q.asked = p.asked /\ q.cs = p.cs
      /\ q.past.replayed = p.past.replayed /\ q.past.refused = p.past.refused
      /\ q.past.unsent = p.past.unsent
  BY <1>3 DEF Clouds, CloudPastRecord
<1> HIDE DEF q
<1> QED
  BY <1>1, <1>2, <1>3, <1>4 DEF Asks, TimersSame, Playing

LEMMA CloudSetSpeedAsks ==
    ASSUME NEW c \in Clouds, NEW goes, c.cc.speed \in Int
    PROVE  LET p == CloudStreamSetSpeed(c, c.cc.speed, goes)
           IN  Asks(c, p) /\ p.cc = c.cc
<1> DEFINE scale == c.cc.speed
           x == [c EXCEPT !.cs.temp = scale, !.past.moved = FALSE]
           y == [c EXCEPT !.past.unsent = TRUE]
<1>1. /\ x \in Clouds /\ x.cc = c.cc /\ x.asked = c.asked /\ x.cs.temp = scale
      /\ TimersSame(x, c)
  BY DEF Clouds, CloudStreamRecord, CloudPastRecord, TimersSame
<1>2. y \in Clouds /\ y.cc = c.cc /\ y.past.unsent /\ TimersSame(y, c)
  BY DEF Clouds, CloudPastRecord, TimersSame
<1>3. CloudStreamSetSpeed(c, scale, goes) = IF IsCurrentSpeedSupported(scale)
                                            THEN CloudStreamPlay(x, TRUE, goes) ELSE y
  BY DEF CloudStreamSetSpeed
<1> HIDE DEF x, y
<1>4. Asks(x, CloudStreamPlay(x, TRUE, goes)) /\ CloudStreamPlay(x, TRUE, goes).cc = c.cc
  BY <1>1, CloudPlayAsks
<1>5. Asks(c, CloudStreamPlay(x, TRUE, goes))
  BY <1>1, <1>4 DEF Asks, TimersSame
<1>6. Asks(c, y)
  BY <1>2 DEF Asks
<1> QED
  BY <1>2, <1>3, <1>4, <1>5, <1>6

LEMMA CloudSetNPTAsks ==
    ASSUME NEW c \in Clouds, NEW pos \in Int, NEW goes
    PROVE  LET p == CloudStreamSetNPT(c, pos, goes)
           IN  Asks(c, p) /\ p.cc = c.cc
<1> DEFINE x == [c EXCEPT !.cs.npt = pos, !.past.moved = c.past.moved \/ c.cs.temp # c.cc.speed]
<1>1. /\ x \in Clouds /\ x.cc = c.cc /\ x.asked = c.asked /\ x.cs.temp = c.cs.temp
      /\ x.past.moved = (c.past.moved \/ c.cs.temp # c.cc.speed)
      /\ TimersSame(x, c)
  BY DEF Clouds, CloudStreamRecord, CloudPastRecord, TimersSame
<1>2. CloudStreamSetNPT(c, pos, goes) = CloudStreamPlay(x, FALSE, goes)
  BY DEF CloudStreamSetNPT
<1> HIDE DEF x
<1>3. Asks(x, CloudStreamPlay(x, FALSE, goes)) /\ CloudStreamPlay(x, FALSE, goes).cc = c.cc
  BY <1>1, CloudPlayAsks
<1> QED
  BY <1>1, <1>2, <1>3 DEF Asks, TimersSame

\* SetSpeed: nothing is done, the speed is held back, or it is asked for.
LEMMA CloudSpeedOutcomes ==
    ASSUME NEW c \in Clouds, NEW scale \in Int, NEW goes
    PROVE  LET p == CloudSetSpeed(c, scale, goes)
           IN  \/ p = c /\ ~c.cc.pendingSpeed
               \/ /\ c.cc.pendingPlay /\ p \in Clouds /\ TimersSame(p, c)
                  /\ p.cc.state = c.cc.state /\ p.cc.pendingPlay /\ p.cc.pendingSpeed
                  /\ p.asked = c.asked /\ p.past = c.past
               \/ /\ ~c.cc.pendingPlay /\ Asks(c, p) /\ p.cc.state = c.cc.state
                  /\ p.cc.pendingPlay /\ p.cc.pendingSpeed = c.cc.pendingSpeed
                  /\ p.cc.pendingPosition = c.cc.pendingPosition
<1> DEFINE held == [c EXCEPT !.cc.speed = scale, !.cc.pendingSpeed = TRUE]
           x == [c EXCEPT !.cc.speed = scale, !.cc.pendingPlay = TRUE]
<1>1. /\ held \in Clouds /\ held.cc.state = c.cc.state /\ held.cc.pendingPlay = c.cc.pendingPlay
      /\ held.cc.pendingSpeed /\ held.asked = c.asked /\ held.past = c.past /\ held.cs = c.cs
  BY DEF Clouds, CloudCtlRecord
<1>2. /\ x \in Clouds /\ x.cc.state = c.cc.state /\ x.cc.pendingPlay /\ x.cc.speed = scale
      /\ x.cc.pendingSpeed = c.cc.pendingSpeed /\ x.cc.pendingPosition = c.cc.pendingPosition
      /\ x.asked = c.asked /\ x.past = c.past /\ x.cs = c.cs
  BY DEF Clouds, CloudCtlRecord
<1>3. c.cc.pendingPlay \in BOOLEAN /\ c.cc.pendingSpeed \in BOOLEAN
  BY CloudParts DEF CloudCtlRecord
<1>4. CASE ~c.cc.pendingSpeed /\ scale = c.cc.speed
  BY <1>4 DEF CloudSetSpeed
<1>5. CASE c.cc.pendingPlay /\ (c.cc.pendingSpeed \/ scale # c.cc.speed)
  <2>1. CloudSetSpeed(c, scale, goes) = held
    BY <1>5 DEF CloudSetSpeed
  <2> HIDE DEF held, x
  <2> QED
    BY <1>1, <1>5, <2>1 DEF TimersSame
<1>6. CASE ~c.cc.pendingPlay /\ (c.cc.pendingSpeed \/ scale # c.cc.speed)
  <2>1. CloudSetSpeed(c, scale, goes) =
           IF scale = 0 THEN CloudStreamPause(x, goes) ELSE CloudStreamSetSpeed(x, scale, goes)
    BY <1>6 DEF CloudSetSpeed
  <2> HIDE DEF held, x
  <2>2. /\ Asks(x, CloudSetSpeed(c, scale, goes))
        /\ CloudSetSpeed(c, scale, goes).cc = x.cc
    BY <1>2, <2>1, CloudPauseAsks, CloudSetSpeedAsks
  <2>3. Asks(c, CloudSetSpeed(c, scale, goes))
    BY <1>2, <2>2 DEF Asks, TimersSame
  <2> QED
    BY <1>2, <1>6, <2>2, <2>3
<1> QED
  BY <1>3, <1>4, <1>5, <1>6

\* SetPosition: the position is held back or asked for.
LEMMA CloudPositionOutcomes ==
    ASSUME NEW c \in Clouds, NEW pos \in Int, NEW goes
    PROVE  LET p == CloudSetPosition(c, pos, goes)
           IN  \/ /\ c.cc.pendingPlay /\ p \in Clouds /\ TimersSame(p, c)
                  /\ p.cc.state = c.cc.state /\ p.cc.pendingPlay
                  /\ p.cc.pendingSpeed = c.cc.pendingSpeed /\ p.cc.speed = c.cc.speed
                  /\ p.asked = c.asked /\ p.past = c.past
               \/ /\ ~c.cc.pendingPlay /\ Asks(c, p) /\ p.cc.state = c.cc.state
                  /\ p.cc.pendingPlay /\ p.cc.pendingSpeed = c.cc.pendingSpeed
                  /\ p.cc.pendingPosition = c.cc.pendingPosition
<1> DEFINE held == [c EXCEPT !.cc.position = pos, !.cc.pendingPosition = TRUE]
           x == [c EXCEPT !.cc.pendingPlay = TRUE]
<1>1. /\ held \in Clouds /\ held.cc.state = c.cc.state /\ held.cc.pendingPlay = c.cc.pendingPlay
      /\ held.cc.pendingSpeed = c.cc.pendingSpeed /\ held.cc.speed = c.cc.speed
      /\ held.asked = c.asked /\ held.past = c.past /\ held.cs = c.cs
  BY DEF Clouds, CloudCtlRecord
<1>2. /\ x \in Clouds /\ x.cc.state = c.cc.state /\ x.cc.pendingPlay
      /\ x.cc.pendingSpeed = c.cc.pendingSpeed /\ x.cc.pendingPosition = c.cc.pendingPosition
      /\ x.asked = c.asked /\ x.past = c.past /\ x.cs = c.cs
  BY DEF Clouds, CloudCtlRecord
<1>3. CASE c.cc.pendingPlay
  <2>1. CloudSetPosition(c, pos, goes) = held
    BY <1>3 DEF CloudSetPosition
  <2> HIDE DEF held, x
  <2> QED
    BY <1>1, <1>3, <2>1 DEF TimersSame
<1>4. CASE ~c.cc.pendingPlay
  <2>1. CloudSetPosition(c, pos, goes) = CloudStreamSetNPT(x, pos, goes)
    BY <1>4 DEF CloudSetPosition
  <2> HIDE DEF held, x
  <2>2. /\ Asks(x, CloudSetPosition(c, pos, goes))
        /\ CloudSetPosition(c, pos, goes).cc = x.cc
    BY <1>2, <2>1, CloudSetNPTAsks
  <2>3. Asks(c, CloudSetPosition(c, pos, goes))
    BY <1>2, <2>2 DEF Asks, TimersSame
  <2> QED
    BY <1>2, <1>4, <2>2, <2>3
<1> QED
  BY <1>3, <1>4

\* After a reply nothing is held back that was not asked for now.
LEMMA CloudAfterReplyOutcomes ==
    ASSUME NEW c \in Clouds, NEW goes
    PROVE  LET p == CloudAfterReply(c, goes)
           IN  /\ p.cc.state = c.cc.state /\ ~p.cc.pendingSpeed /\ ~p.cc.pendingPosition
               /\ \/ /\ p \in Clouds /\ TimersSame(p, c) /\ p.asked = c.asked /\ p.past = c.past
                     /\ p.cc.speed = c.cc.speed /\ ~p.cc.pendingPlay /\ ~c.cc.pendingSpeed
                  \/ Asks(c, p) /\ p.cc.pendingPlay
<1> DEFINE first == [c EXCEPT !.cc.pendingPlay = FALSE]
           asks == [first EXCEPT !.cc.pendingPosition = FALSE]
           q == IF first.cc.pendingPosition
                THEN CloudSetPosition(asks, first.cc.position, goes) ELSE first
           lost == [q EXCEPT !.cc.pendingSpeed = FALSE, !.past.moved = TRUE]
           r == CloudSetSpeed(q, q.cc.speed, goes)
           sent == [r EXCEPT !.cc.pendingSpeed = FALSE]
<1>1. /\ first \in Clouds /\ first.cc.state = c.cc.state /\ ~first.cc.pendingPlay
      /\ first.cc.pendingSpeed = c.cc.pendingSpeed
      /\ first.cc.pendingPosition = c.cc.pendingPosition
      /\ first.cc.speed = c.cc.speed /\ first.cc.position \in Int
      /\ first.asked = c.asked /\ first.past = c.past /\ first.cs = c.cs
  BY DEF Clouds, CloudCtlRecord
<1>2. CloudAfterReply(c, goes) = IF ~q.cc.pendingSpeed THEN q
                                 ELSE IF q.cc.pendingPlay THEN lost ELSE sent
  BY DEF CloudAfterReply
<1> HIDE DEF first
<1>3. /\ asks \in Clouds /\ asks.cc.state = c.cc.state /\ ~asks.cc.pendingPlay
      /\ ~asks.cc.pendingPosition
      /\ asks.asked = c.asked /\ asks.past = c.past /\ asks.cs = c.cs
  BY <1>1 DEF Clouds, CloudCtlRecord
<1> HIDE DEF asks
<1>4. /\ q \in Clouds /\ q.cc.state = c.cc.state /\ ~q.cc.pendingPosition
      /\ \/ q = first
         \/ Asks(c, q) /\ q.cc.pendingPlay
  <2>1. CASE first.cc.pendingPosition
    <3>1. /\ Asks(asks, q) /\ q.cc.state = asks.cc.state /\ q.cc.pendingPlay
          /\ q.cc.pendingPosition = asks.cc.pendingPosition
      BY <1>1, <1>3, <2>1, CloudPositionOutcomes
    <3> HIDE DEF q
    <3> QED
      BY <1>3, <3>1 DEF Asks, TimersSame
  <2>2. CASE ~first.cc.pendingPosition
    BY <1>1, <2>2
  <2> QED
    BY <2>1, <2>2
<1> HIDE DEF q
<1>5. CASE ~q.cc.pendingSpeed
  BY <1>1, <1>2, <1>4, <1>5 DEF TimersSame
<1>6. CASE q.cc.pendingSpeed /\ q.cc.pendingPlay
  <2>1. /\ lost \in Clouds /\ lost.cc.state = q.cc.state /\ ~lost.cc.pendingSpeed
        /\ lost.cc.pendingPosition = q.cc.pendingPosition /\ lost.cc.pendingPlay
        /\ lost.asked = q.asked /\ lost.cs = q.cs /\ lost.past.moved
        /\ lost.past.unsent = q.past.unsent /\ lost.past.replayed = q.past.replayed
        /\ lost.past.refused = q.past.refused
    BY <1>4, <1>6 DEF Clouds, CloudCtlRecord, CloudPastRecord
  <2> HIDE DEF lost
  <2>2. Asks(c, q)
    BY <1>1, <1>4, <1>6
  <2>3. Asks(c, lost)
    BY <2>1, <2>2 DEF Asks, TimersSame
  <2> QED
    BY <1>2, <1>4, <1>6, <2>1, <2>3
<1>7. CASE q.cc.pendingSpeed /\ ~q.cc.pendingPlay
  <2>1. q = first /\ q.cc.speed \in Int
    BY <1>4, <1>7, CloudParts DEF CloudCtlRecord
  <2>2. /\ Asks(q, r) /\ r.cc.state = q.cc.state /\ r.cc.pendingPlay
        /\ r.cc.pendingPosition = q.cc.pendingPosition
    BY <1>4, <1>7, <2>1, CloudSpeedOutcomes
  <2> HIDE DEF r
  <2>3. r \in Clouds
    BY <2>2 DEF Asks
  <2>4. /\ sent \in Clouds /\ sent.cc.state = r.cc.state /\ ~sent.cc.pendingSpeed
        /\ sent.cc.pendingPosition = r.cc.pendingPosition /\ sent.cc.pendingPlay
        /\ sent.asked = r.asked /\ sent.cs = r.cs /\ sent.past = r.past
        /\ sent.cc.speed = r.cc.speed
    BY <2>2, <2>3 DEF Clouds, CloudCtlRecord
  <2> HIDE DEF sent
  <2>5. Asks(c, sent)
    BY <1>1, <2>1, <2>2, <2>4 DEF Asks, TimersSame
  <2> QED
    BY <1>2, <1>4, <1>7, <2>1, <2>2, <2>4, <2>5
<1>8. q.cc.pendingPlay \in BOOLEAN /\ q.cc.pendingSpeed \in BOOLEAN
  BY <1>4, CloudParts DEF CloudCtlRecord
<1> QED
  BY <1>5, <1>6, <1>7, <1>8

------------------------------------------------------------------------------
(* What is due, as requests and events come and go *)

LEMMA AppendFacts ==
    ASSUME NEW S, NEW q \in Seq(S), NEW e \in S
    PROVE  /\ Append(q, e) \in Seq(S) /\ Len(q) \in Nat /\ Len(Append(q, e)) = Len(q) + 1
           /\ \A i \in 1..Len(q) : Append(q, e)[i] = q[i] /\ q[i] \in S /\ i \in 1..Len(Append(q, e))
           /\ Append(q, e)[Len(q) + 1] = e
           /\ Len(q) + 1 \in 1..Len(Append(q, e))
           /\ \A i \in 1..Len(Append(q, e)) : i \in 1..Len(q) \/ i = Len(q) + 1
<1>1. /\ Append(q, e) \in Seq(S) /\ Len(q) \in Nat /\ Len(Append(q, e)) = Len(q) + 1
      /\ \A i \in 1..Len(q) : Append(q, e)[i] = q[i]
      /\ Append(q, e)[Len(q) + 1] = e
  BY AppendProperties, LenProperties
<1> QED
  BY <1>1, ElementOfSeq

LEMMA TailFacts ==
    ASSUME NEW S, NEW q \in Seq(S), q # <<>>
    PROVE  /\ Tail(q) \in Seq(S) /\ Len(q) \in Nat \ {0} /\ Len(Tail(q)) = Len(q) - 1
           /\ Head(q) = q[1] /\ q[1] \in S /\ 1 \in 1..Len(q)
           /\ \A i \in 1..Len(Tail(q)) : Tail(q)[i] = q[i + 1] /\ i + 1 \in 1..Len(q)
           /\ \A i \in 2..Len(q) : i - 1 \in 1..Len(Tail(q)) /\ Tail(q)[i - 1] = q[i]
           /\ \A i \in 1..Len(q) : i = 1 \/ i \in 2..Len(q)
<1>1. /\ Tail(q) \in Seq(S) /\ Len(q) \in Nat /\ Len(q) # 0 /\ Len(Tail(q)) = Len(q) - 1
      /\ Head(q) = q[1]
      /\ \A i \in 1..Len(q) - 1 : Tail(q)[i] = q[i + 1]
  BY HeadTailProperties, EmptySeq, LenProperties
<1>2. 1 \in 1..Len(q) /\ q[1] \in S
  BY <1>1, ElementOfSeq
<1>3. \A i \in 1..Len(Tail(q)) : Tail(q)[i] = q[i + 1] /\ i + 1 \in 1..Len(q)
  BY <1>1
<1>4. \A i \in 2..Len(q) : i - 1 \in 1..Len(Tail(q)) /\ Tail(q)[i - 1] = q[i]
  BY <1>1
<1> QED
  BY <1>1, <1>2, <1>3, <1>4

\* A request that sets the speed comes last.
LEMMA AskedComes ==
    ASSUME NEW reqs \in Seq(RtspRequests), NEW r \in RtspRequests, r.type \in Playing,
           NEW scale, NEW speed
    PROVE  /\ \E i \in 1..Len(Append(reqs, r)) : Append(reqs, r)[i].type \in Playing
           /\ r.scale = speed => ScaleComes(Append(reqs, r), scale, speed)
<1>1. /\ Len(reqs) \in Nat
      /\ Append(reqs, r)[Len(reqs) + 1] = r
      /\ Len(reqs) + 1 \in 1..Len(Append(reqs, r))
      /\ Len(Append(reqs, r)) = Len(reqs) + 1
  BY AppendFacts
<1> QED
  BY <1>1 DEF ScaleComes

\* One that does not set it changes nothing.
LEMMA OtherComes ==
    ASSUME NEW reqs \in Seq(RtspRequests), NEW r \in RtspRequests, r.type \notin Playing,
           NEW scale, NEW speed
    PROVE  /\ (\E i \in 1..Len(reqs) : reqs[i].type \in Playing) =>
                 \E i \in 1..Len(Append(reqs, r)) : Append(reqs, r)[i].type \in Playing
           /\ ScaleComes(reqs, scale, speed) => ScaleComes(Append(reqs, r), scale, speed)
<1>1. /\ Append(reqs, r)[Len(reqs) + 1] = r /\ Len(reqs) \in Nat
      /\ \A i \in 1..Len(reqs) : Append(reqs, r)[i] = reqs[i] /\ i \in 1..Len(Append(reqs, r))
      /\ \A i \in 1..Len(Append(reqs, r)) : i \in 1..Len(reqs) \/ i = Len(reqs) + 1
  BY AppendFacts
<1> QED
  BY <1>1 DEF ScaleComes

\* The first request is answered: the server has its speed, if it sets one.
LEMMA AnsweredComes ==
    ASSUME NEW reqs \in Seq(RtspRequests), reqs # <<>>, NEW scale, NEW new, NEW speed,
           Head(reqs).type \in Playing => new = Head(reqs).scale,
           Head(reqs).type \notin Playing => new = scale
    PROVE  /\ Head(reqs).type \notin Playing
                 /\ (\E i \in 1..Len(reqs) : reqs[i].type \in Playing) =>
                 \E i \in 1..Len(Tail(reqs)) : Tail(reqs)[i].type \in Playing
           /\ ScaleComes(reqs, scale, speed) => ScaleComes(Tail(reqs), new, speed)
<1>1. /\ Len(reqs) \in Nat \ {0} /\ Len(Tail(reqs)) = Len(reqs) - 1
      /\ Head(reqs) = reqs[1] /\ 1 \in 1..Len(reqs)
      /\ \A i \in 1..Len(Tail(reqs)) : Tail(reqs)[i] = reqs[i + 1] /\ i + 1 \in 1..Len(reqs)
      /\ \A i \in 2..Len(reqs) : i - 1 \in 1..Len(Tail(reqs)) /\ Tail(reqs)[i - 1] = reqs[i]
      /\ \A i \in 1..Len(reqs) : i = 1 \/ i \in 2..Len(reqs)
  BY TailFacts
<1>2. ASSUME Head(reqs).type \notin Playing,
             NEW i \in 1..Len(reqs), reqs[i].type \in Playing
      PROVE  \E k \in 1..Len(Tail(reqs)) : Tail(reqs)[k].type \in Playing
  <2>1. i \in 2..Len(reqs)
    BY <1>1, <1>2
  <2> QED
    BY <1>1, <1>2, <2>1
<1>3. ASSUME NEW i \in 1..Len(reqs), reqs[i].type \in Playing, reqs[i].scale = speed,
             \A j \in 1..Len(reqs) : reqs[j].type \in Playing => j <= i
      PROVE  ScaleComes(Tail(reqs), new, speed)
  <2>1. CASE i = 1
    <3>1. \A k \in 1..Len(Tail(reqs)) : Tail(reqs)[k].type \notin Playing
      BY <1>1, <1>3, <2>1
    <3> QED
      BY <1>1, <1>3, <2>1, <3>1 DEF ScaleComes
  <2>2. CASE i \in 2..Len(reqs)
    <3>1. /\ i - 1 \in 1..Len(Tail(reqs)) /\ Tail(reqs)[i - 1].type \in Playing
          /\ Tail(reqs)[i - 1].scale = speed
      BY <1>1, <1>3, <2>2
    <3>2. \A k \in 1..Len(Tail(reqs)) : Tail(reqs)[k].type \in Playing => k <= i - 1
      BY <1>1, <1>3, <2>2
    <3> QED
      BY <3>1, <3>2 DEF ScaleComes
  <2> QED
    BY <1>1, <1>3, <2>1, <2>2
<1>4. ASSUME scale = speed, \A i \in 1..Len(reqs) : reqs[i].type \notin Playing
      PROVE  ScaleComes(Tail(reqs), new, speed)
  <2>1. new = speed
    BY <1>1, <1>4
  <2>2. \A k \in 1..Len(Tail(reqs)) : Tail(reqs)[k].type \notin Playing
    BY <1>1, <1>4
  <2> QED
    BY <2>1, <2>2 DEF ScaleComes
<1> QED
  BY <1>2, <1>3, <1>4 DEF ScaleComes

\* A call that asks keeps what the speed depends on.
LEMMA AsksKeeps ==
    ASSUME NEW c, NEW p, NEW srv, NEW evs, CloudOK(c, srv, evs), Asks(c, p),
           p.cc.state \in {"ControlServerPending", "Streaming"},
           p.cc.pendingSpeed \/ p.cc.pendingPosition => p.cc.pendingPlay,
           p.cc.state = "ControlServerPending" => ~p.cc.pendingPlay
    PROVE  CloudOK(p, srv, evs) /\ TimersSame(p, c)
<1>1. p \in Clouds /\ TimersSame(p, c) /\ c.asked \in Seq(RtspRequests)
  BY CloudParts DEF Asks, CloudOK
<1>2. TimersOK(p)
  BY <1>1 DEF TimersOK, TimersSame, CloudOK
<1>3. CASE p.past.unsent
  BY <1>1, <1>2, <1>3 DEF CloudOK, PendingOK, SpeedComes
<1>4. ASSUME NEW r \in RtspRequests, r.type \in Playing, p.asked = Append(c.asked, r),
             p.past.moved \/ r.scale = p.cc.speed
      PROVE  CloudOK(p, srv, evs)
  <2>1. /\ \E i \in 1..Len(p.asked) : p.asked[i].type \in Playing
        /\ r.scale = p.cc.speed => ScaleComes(p.asked, srv.scale, p.cc.speed)
    BY <1>1, <1>4, AskedComes
  <2> QED
    BY <1>1, <1>2, <1>4, <2>1 DEF CloudOK, PendingOK, SpeedComes
<1> QED
  BY <1>1, <1>3, <1>4 DEF Asks

------------------------------------------------------------------------------
(* The steps of the stream of a recording *)

LEMMA CloudMade ==
    ASSUME NEW s \in CloudStreamRecord, NEW k \in CloudCtlRecord, NEW a \in Seq(RtspRequests),
           NEW q \in CloudPastRecord
    PROVE  LET c == [cs |-> s, cc |-> k, asked |-> a, past |-> q]
           IN  c \in Clouds /\ c.cs = s /\ c.cc = k /\ c.asked = a /\ c.past = q
BY DEF Clouds

LEMMA CloudNow ==
    ASSUME CloudInv
    PROVE  /\ Cloud \in Clouds /\ cs \in CloudStreamRecord /\ cc \in CloudCtlRecord
           /\ asked \in Seq(RtspRequests) /\ cpast \in CloudPastRecord
           /\ Cloud.cs = cs /\ Cloud.cc = cc /\ Cloud.asked = asked /\ Cloud.past = cpast
           /\ server \in [scale : Int, pos : Int] /\ poll \in PollRecord
           /\ cevents \in Seq(CloudEvents)
<1>1. Cloud \in Clouds
  BY DEF CloudInv, CloudOK
<1>2. Cloud.cs = cs /\ Cloud.cc = cc /\ Cloud.asked = asked /\ Cloud.past = cpast
  BY DEF Cloud
<1> QED
  BY <1>1, <1>2, CloudParts DEF CloudInv, CloudLoopOK

LEMMA CloudBecomes ==
    ASSUME NEW p, NEW srv, NEW evs, CloudOK(p, srv, evs), CloudIs(p), server' = srv, cevents' = evs
    PROVE  CloudOK(Cloud, server, cevents)'
<1>1. p \in Clouds
  BY DEF CloudOK
<1>2. Cloud' = p
  BY <1>1 DEF Cloud, CloudIs, Clouds
<1> QED
  BY <1>2 DEF CloudOK, TimersOK, PendingOK, SpeedComes

\* A step that leaves the controller alone, and what it waits for.
LEMMA QuietKeeps ==
    ASSUME NEW c, NEW p, NEW srv, NEW new, NEW evs, NEW after, CloudOK(c, srv, evs),
           p \in Clouds, TimersOK(p), p.cc = c.cc,
           c.past.unsent => p.past.unsent, c.past.refused => p.past.refused,
           c.past.moved => p.past.moved,
           (\E i \in 1..Len(evs) : evs[i] \in Replies) =>
              \E i \in 1..Len(after) : after[i] \in Replies,
           \/ p.past.unsent
           \/ /\ (\E i \in 1..Len(c.asked) : c.asked[i].type \in Playing) =>
                    \/ \E i \in 1..Len(p.asked) : p.asked[i].type \in Playing
                    \/ \E i \in 1..Len(after) : after[i] \in Replies
              /\ \/ p.past.refused
                 \/ ScaleComes(c.asked, srv.scale, c.cc.speed) =>
                       ScaleComes(p.asked, new.scale, c.cc.speed)
    PROVE  CloudOK(p, new, after)
<1>1. PendingOK(p, after)
  BY DEF CloudOK, PendingOK
<1>2. SpeedComes(p, new)
  BY DEF CloudOK, SpeedComes
<1> QED
  BY <1>1, <1>2 DEF CloudOK

LEMMA CloudQueues ==
    ASSUME cevents \in Seq(CloudEvents), NEW e \in CloudEvents, cevents' = Append(cevents, e)
    PROVE  /\ cevents' \in Seq(CloudEvents)
           /\ (\E i \in 1..Len(cevents') : cevents'[i] = "StopController") =>
                 e = "StopController" \/ \E i \in 1..Len(cevents) : cevents[i] = "StopController"
           /\ (\E i \in 1..Len(cevents) : cevents[i] \in Replies) =>
                 \E i \in 1..Len(cevents') : cevents'[i] \in Replies
           /\ e \in Replies => \E i \in 1..Len(cevents') : cevents'[i] \in Replies
<1>1. /\ cevents' \in Seq(CloudEvents)
      /\ cevents'[Len(cevents) + 1] = e /\ Len(cevents) + 1 \in 1..Len(cevents')
      /\ \A i \in 1..Len(cevents) : cevents'[i] = cevents[i] /\ i \in 1..Len(cevents')
      /\ \A i \in 1..Len(cevents') : i \in 1..Len(cevents) \/ i = Len(cevents) + 1
  BY AppendFacts
<1> QED
  BY <1>1

LEMMA CloudUnqueues ==
    ASSUME cevents \in Seq(CloudEvents), NEW e, CloudHandles(e)
    PROVE  /\ cevents' \in Seq(CloudEvents)
           /\ (\E i \in 1..Len(cevents') : cevents'[i] = "StopController") =>
                 \E i \in 1..Len(cevents) : cevents[i] = "StopController"
           /\ e \notin Replies /\ (\E i \in 1..Len(cevents) : cevents[i] \in Replies) =>
                 \E i \in 1..Len(cevents') : cevents'[i] \in Replies
           /\ e = "StopController" => \E i \in 1..Len(cevents) : cevents[i] = "StopController"
           /\ cc.state # "gone" /\ poll.st = "none"
<1>1. cevents # <<>> /\ cevents' = Tail(cevents) /\ Head(cevents) = e
      /\ cc.state # "gone" /\ poll.st = "none"
  BY DEF CloudHandles
<1>2. /\ cevents' \in Seq(CloudEvents)
      /\ Head(cevents) = cevents[1] /\ 1 \in 1..Len(cevents)
      /\ \A i \in 1..Len(cevents') : cevents'[i] = cevents[i + 1] /\ i + 1 \in 1..Len(cevents)
      /\ \A i \in 2..Len(cevents) : i - 1 \in 1..Len(cevents') /\ cevents'[i - 1] = cevents[i]
      /\ \A i \in 1..Len(cevents) : i = 1 \/ i \in 2..Len(cevents)
  BY <1>1, TailFacts
<1> QED
  BY <1>1, <1>2, ZenonT(60)

\* What is held back waits for the play that is under way.
LEMMA HeldKeeps ==
    ASSUME NEW c, NEW p, NEW srv, NEW evs, CloudOK(c, srv, evs), c.cc.state = "Streaming",
           p \in Clouds, TimersSame(p, c), p.asked = c.asked, p.past = c.past,
           p.cc.state = c.cc.state, c.cc.pendingPlay, p.cc.pendingPlay,
           \/ p.cc.pendingSpeed
           \/ p.cc.pendingSpeed = c.cc.pendingSpeed /\ p.cc.speed = c.cc.speed
    PROVE  CloudOK(p, srv, evs)
<1>1. TimersOK(p)
  BY DEF CloudOK, TimersOK, TimersSame
<1>2. PendingOK(p, evs) /\ SpeedComes(p, srv)
  BY DEF CloudOK, PendingOK, SpeedComes
<1> QED
  BY <1>1, <1>2 DEF CloudOK

LEMMA CloudTrickKeeps ==
    ASSUME CloudInv, CloudTrick
    PROVE  CloudInv'
<1>1. /\ Cloud \in Clouds /\ Cloud.cc = cc /\ Cloud.cs = cs /\ cc.state = "Streaming"
      /\ CloudOK(Cloud, server, cevents) /\ UNCHANGED <<cevents, poll, server>>
  BY CloudNow DEF CloudTrick, CloudCall, CloudInv
<1>2. ASSUME NEW p, CloudIs(p), CloudOK(p, server, cevents), TimersSame(p, Cloud),
             p.cc.state = cc.state
      PROVE  CloudInv'
  <2>1. CloudOK(Cloud, server, cevents)'
    BY <1>1, <1>2, CloudBecomes
  <2>2. CloudLoopOK'
    BY <1>1, <1>2 DEF CloudInv, CloudLoopOK, CloudIs, TimersSame
  <2> QED
    BY <1>1, <2>1, <2>2 DEF CloudInv
<1>3. ASSUME NEW goes \in BOOLEAN, NEW s \in CloudSpeeds, CloudIs(CloudSetSpeed(Cloud, s, goes))
      PROVE  CloudInv'
  <2>1. PICK p : p = CloudSetSpeed(Cloud, s, goes)
    OBVIOUS
  <2>2. s \in Int
    BY CloudAssumption
  <2>3. CASE p = Cloud
    BY <1>1, <1>2, <1>3, <2>1, <2>3 DEF TimersSame
  <2>4. CASE /\ cc.pendingPlay /\ p \in Clouds /\ TimersSame(p, Cloud)
             /\ p.cc.state = cc.state /\ p.cc.pendingPlay /\ p.cc.pendingSpeed
             /\ p.asked = Cloud.asked /\ p.past = Cloud.past
    BY <1>1, <1>2, <1>3, <2>1, <2>4, HeldKeeps
  <2>5. CASE /\ Asks(Cloud, p) /\ p.cc.state = cc.state /\ p.cc.pendingPlay
    BY <1>1, <1>2, <1>3, <2>1, <2>5, AsksKeeps
  <2> QED
    BY <1>1, <2>1, <2>2, <2>3, <2>4, <2>5, CloudSpeedOutcomes
<1>4. ASSUME NEW goes \in BOOLEAN, NEW n \in CloudPositions,
             CloudIs(CloudSetPosition(Cloud, n, goes))
      PROVE  CloudInv'
  <2>1. PICK p : p = CloudSetPosition(Cloud, n, goes)
    OBVIOUS
  <2>2. n \in Int
    BY CloudAssumption
  <2>3. CASE /\ cc.pendingPlay /\ p \in Clouds /\ TimersSame(p, Cloud)
             /\ p.cc.state = cc.state /\ p.cc.pendingPlay
             /\ p.cc.pendingSpeed = cc.pendingSpeed /\ p.cc.speed = cc.speed
             /\ p.asked = Cloud.asked /\ p.past = Cloud.past
    BY <1>1, <1>2, <1>4, <2>1, <2>3, HeldKeeps
  <2>4. CASE /\ Asks(Cloud, p) /\ p.cc.state = cc.state /\ p.cc.pendingPlay
    BY <1>1, <1>2, <1>4, <2>1, <2>4, AsksKeeps
  <2> QED
    BY <1>1, <2>1, <2>2, <2>3, <2>4, CloudPositionOutcomes
<1> QED
  BY <1>3, <1>4 DEF CloudTrick

LEMMA EstimateType ==
    ASSUME CloudInv
    PROVE  ReadsEstimate \in Int
<1>1. cs.npt \in Int /\ cs.num \in Int /\ cs.since \in Int
  BY CloudNow DEF CloudStreamRecord
<1>2. cs.num * cs.since \in Int
  BY <1>1
<1> QED
  BY <1>1, <1>2 DEF ReadsEstimate

\* A step that touches neither the requests, the events nor the controller.
LEMMA StreamOnlyKeeps ==
    ASSUME CloudInv, NEW s \in CloudStreamRecord, NEW q \in CloudPastRecord,
           cs' = s, cpast' = q, s.timers = cs.timers, s.timer = cs.timer, s.shut = cs.shut,
           q.replayed = cpast.replayed, q.refused = cpast.refused, q.unsent = cpast.unsent,
           q.moved = cpast.moved, UNCHANGED <<cc, asked, cevents>>,
           server' \in [scale : Int, pos : Int], server'.scale = server.scale,
           poll' \in PollRecord
    PROVE  CloudInv'
<1>1. PICK p : p = [cs |-> s, cc |-> cc, asked |-> asked, past |-> q]
  OBVIOUS
<1>2. p \in Clouds /\ p.cs = s /\ p.cc = cc /\ p.asked = asked /\ p.past = q
  BY <1>1, CloudNow, CloudMade
<1>3. TimersOK(p)
  BY <1>2, CloudNow DEF CloudInv, CloudOK, TimersOK
<1>4. PICK srv : srv = server'
  OBVIOUS
<1>5. CloudOK(p, srv, cevents)
  BY <1>2, <1>3, <1>4, CloudNow, QuietKeeps DEF CloudInv
<1>6. CloudOK(Cloud, server, cevents)'
  BY <1>2, <1>4, <1>5, CloudBecomes DEF CloudIs
<1>7. CloudLoopOK'
  BY DEF CloudInv, CloudLoopOK
<1> QED
  BY <1>6, <1>7 DEF CloudInv

LEMMA CloudEstimatesKeeps ==
    ASSUME CloudInv, CloudEstimates
    PROVE  CloudInv'
<1>1. PICK n \in Int : n = ReadsEstimate
  BY EstimateType
<1>2. poll' = [NoPoll EXCEPT !.st = "estimate", !.npt = n]
  BY <1>1 DEF CloudEstimates
<1>3. poll' = [st |-> "estimate", of |-> 0, left |-> 0, npt |-> n]
  BY <1>2 DEF NoPoll
<1>4. poll' \in PollRecord
  BY <1>3 DEF PollRecord
<1> QED
  BY <1>4, CloudNow, StreamOnlyKeeps DEF CloudEstimates

LEMMA NoPollType == NoPoll \in PollRecord
BY DEF NoPoll, PollRecord

LEMMA CloudEstimatedKeeps ==
    ASSUME CloudInv, CloudEstimated
    PROVE  CloudInv'
<1>1. PICK known \in BOOLEAN : cs' = [cs EXCEPT !.npt = poll.npt, !.since = 0, !.known = known]
  BY DEF CloudEstimated
<1>2. poll.npt \in Int
  BY CloudNow DEF PollRecord
<1>3. cs \in CloudStreamRecord
  BY CloudNow
<1>4. PICK r : r = [cs EXCEPT !.npt = poll.npt, !.known = known]
  OBVIOUS
<1>5. /\ r \in CloudStreamRecord /\ r.timers = cs.timers /\ r.timer = cs.timer
      /\ r.shut = cs.shut
  BY ONLY <1>2, <1>3, <1>4 DEF CloudStreamRecord
<1>6. PICK s : s = [r EXCEPT !.since = 0]
  OBVIOUS
<1>7. /\ s \in CloudStreamRecord /\ s.timers = cs.timers /\ s.timer = cs.timer
      /\ s.shut = cs.shut
  BY ONLY <1>5, <1>6 DEF CloudStreamRecord
<1>8. cs' = s
  BY <1>1, <1>3, <1>4, <1>6 DEF CloudStreamRecord
<1> QED
  BY <1>7, <1>8, CloudNow, NoPollType, StreamOnlyKeeps DEF CloudEstimated

\* A request that does not set the speed.
LEMMA OtherAsked ==
    ASSUME CloudInv, NEW r \in RtspRequests, r.type \notin Playing, asked' = Append(asked, r),
           NEW q \in CloudPastRecord, cpast' = q,
           q.replayed = cpast.replayed, q.refused = cpast.refused, q.unsent = cpast.unsent,
           q.moved = cpast.moved, UNCHANGED <<cs, cc, cevents, server>>, poll' \in PollRecord
    PROVE  CloudInv'
<1>1. PICK a \in Seq(RtspRequests) : a = Append(asked, r)
  BY CloudNow, AppendFacts
<1>2. PICK p : p = [cs |-> cs, cc |-> cc, asked |-> a, past |-> q]
  OBVIOUS
<1>3. p \in Clouds /\ p.cs = cs /\ p.cc = cc /\ p.asked = a /\ p.past = q
  BY <1>2, CloudNow, CloudMade
<1>4. TimersOK(p)
  BY <1>3, CloudNow DEF CloudInv, CloudOK, TimersOK
<1>5. /\ (\E i \in 1..Len(asked) : asked[i].type \in Playing) =>
            \E i \in 1..Len(a) : a[i].type \in Playing
      /\ ScaleComes(asked, server.scale, cc.speed) => ScaleComes(a, server.scale, cc.speed)
  BY <1>1, CloudNow, OtherComes
<1>6. CloudOK(p, server, cevents)
  BY <1>3, <1>4, <1>5, CloudNow, QuietKeeps DEF CloudInv
<1>7. CloudOK(Cloud, server, cevents)'
  BY <1>1, <1>3, <1>6, CloudBecomes DEF CloudIs
<1>8. CloudLoopOK' /\ server' \in [scale : Int, pos : Int]
  BY CloudNow DEF CloudInv, CloudLoopOK
<1> QED
  BY <1>7, <1>8 DEF CloudInv

LEMMA CloudAsksKeeps ==
    ASSUME CloudInv, CloudAsks
    PROVE  CloudInv'
<1>1. PICK type \in {"GETPOS", "GETSPEED"} :
          /\ poll' = [NoPoll EXCEPT !.st = type, !.of = cpast.polls + 1, !.left = 2]
          /\ asked' = Append(asked, [Request(type, 0, -1) EXCEPT !.of = cpast.polls + 1])
  BY DEF CloudAsks
<1>2. PICK n \in Nat : n = cpast.polls + 1
  BY CloudNow DEF CloudPastRecord
<1>3. PICK r : r = [Request(type, 0, -1) EXCEPT !.of = n]
  OBVIOUS
<1>4. r \in RtspRequests /\ r.type \notin Playing
  <2>1. r = [type |-> type, scale |-> 0, from |-> -1, of |-> n]
    BY <1>3 DEF Request
  <2> QED
    BY <2>1 DEF RtspRequests, RtspTypes, Playing
<1>5. poll' \in PollRecord
  <2>1. poll' = [st |-> type, of |-> n, left |-> 2, npt |-> 0]
    BY <1>1, <1>2 DEF NoPoll
  <2> QED
    BY <2>1 DEF PollRecord
<1>6. PICK q : q = [cpast EXCEPT !.polls = n]
  OBVIOUS
<1>7. cpast \in CloudPastRecord
  BY CloudNow
<1>8. /\ q \in CloudPastRecord /\ q.replayed = cpast.replayed /\ q.refused = cpast.refused
      /\ q.unsent = cpast.unsent /\ q.moved = cpast.moved
  BY ONLY <1>2, <1>6, <1>7 DEF CloudPastRecord
<1>9. cpast' = q /\ UNCHANGED <<cs, cc, cevents, server>>
  BY <1>2, <1>6 DEF CloudAsks
<1> QED
  BY <1>1, <1>2, <1>3, <1>4, <1>5, <1>8, <1>9, OtherAsked

LEMMA CloudKeepAliveKeeps ==
    ASSUME CloudInv, CloudKeepAlive
    PROVE  CloudInv'
<1>1. /\ Request("KEEPALIVE", 0, -1) \in RtspRequests
      /\ Request("KEEPALIVE", 0, -1).type \notin Playing
  BY DEF Request, RtspRequests, RtspTypes, Playing
<1> QED
  BY <1>1, CloudNow, OtherAsked DEF CloudKeepAlive

LEMMA CloudPollsKeeps ==
    ASSUME CloudInv, CloudPolls
    PROVE  CloudInv'
<1>1. cs \in CloudStreamRecord /\ cpast \in CloudPastRecord /\ poll \in PollRecord
  BY CloudNow
<1>2. UNCHANGED <<cc, asked, cevents, server>>
  BY DEF CloudPolls
<1>3. CASE poll' = [poll EXCEPT !.left = @ - 1] /\ UNCHANGED <<cs, cpast>>
  <2>1. poll' \in PollRecord
    BY <1>1, <1>3 DEF PollRecord
  <2> QED
    BY <1>1, <1>2, <1>3, <2>1, CloudNow, StreamOnlyKeeps
<1>4. CASE /\ poll' = [poll EXCEPT !.st = IF @ = "GETPOS" THEN "gotPos" ELSE "gotSpeed"]
           /\ cs' = IF poll.st = "GETPOS" /\ cs.respPos = "ok"
                    THEN [cs EXCEPT !.known = TRUE, !.since = 0] ELSE cs
           /\ cpast' = IF Response(poll.st) = "none"
                       THEN [cpast EXCEPT !.timedOut = TRUE]
                       ELSE [cpast EXCEPT !.foreign = @ \/ cs.respOf # poll.of]
  <2>1. poll' \in PollRecord
    BY <1>1, <1>4 DEF PollRecord
  <2>2. PICK s : s \in {cs, [cs EXCEPT !.known = TRUE, !.since = 0]} /\ s = cs'
    BY <1>4
  <2>3. /\ s \in CloudStreamRecord /\ s.timers = cs.timers /\ s.timer = cs.timer
        /\ s.shut = cs.shut
    <3>1. PICK r : r = [cs EXCEPT !.known = TRUE]
      OBVIOUS
    <3>2. /\ r \in CloudStreamRecord /\ r.timers = cs.timers /\ r.timer = cs.timer
          /\ r.shut = cs.shut
      BY ONLY <1>1, <3>1 DEF CloudStreamRecord
    <3>3. PICK q : q = [r EXCEPT !.since = 0]
      OBVIOUS
    <3>4. /\ q \in CloudStreamRecord /\ q.timers = cs.timers /\ q.timer = cs.timer
          /\ q.shut = cs.shut
      BY ONLY <3>2, <3>3 DEF CloudStreamRecord
    <3>5. s \in {cs, q}
      BY <1>1, <2>2, <3>1, <3>3 DEF CloudStreamRecord
    <3> QED
      BY <1>1, <3>4, <3>5
  <2>4. PICK foreign \in BOOLEAN : foreign = (cpast.foreign \/ cs.respOf # poll.of)
    BY <1>1 DEF CloudPastRecord
  <2>5. PICK q : q \in {[cpast EXCEPT !.timedOut = TRUE], [cpast EXCEPT !.foreign = foreign]}
                 /\ q = cpast'
    BY <1>4, <2>4
  <2>6. /\ q \in CloudPastRecord /\ q.replayed = cpast.replayed /\ q.refused = cpast.refused
        /\ q.unsent = cpast.unsent /\ q.moved = cpast.moved
    BY ONLY <1>1, <2>4, <2>5 DEF CloudPastRecord
  <2> QED
    BY <1>2, <2>1, <2>2, <2>3, <2>5, <2>6, CloudNow, StreamOnlyKeeps
<1> QED
  BY <1>3, <1>4 DEF CloudPolls

LEMMA CloudPolledKeeps ==
    ASSUME CloudInv, CloudPolled
    PROVE  CloudInv'
<1>1. PICK s : s \in {[cs EXCEPT !.respPos = "none"], [cs EXCEPT !.respSpeed = "none"]} /\ s = cs'
  BY DEF CloudPolled, PollResets
<1>2. cs \in CloudStreamRecord
  BY CloudNow
<1>3. /\ s \in CloudStreamRecord /\ s.timers = cs.timers /\ s.timer = cs.timer
      /\ s.shut = cs.shut
  BY ONLY <1>1, <1>2 DEF CloudStreamRecord
<1> QED
  BY <1>1, <1>3, CloudNow, NoPollType, StreamOnlyKeeps DEF CloudPolled

LEMMA CloudStopKeeps ==
    ASSUME CloudInv, CloudStop
    PROVE  CloudInv'
<1>1. PICK goes \in BOOLEAN :
         /\ asked' = CloudStreamPause(Cloud, goes).asked
         /\ cpast' = CloudStreamPause(Cloud, goes).past
  BY DEF CloudStop
<1>2. PICK c : c = CloudStreamPause(Cloud, goes)
  OBVIOUS
<1>3. /\ c \in Clouds /\ c.asked = asked' /\ c.past = cpast' /\ c.cs = cs
      /\ c.past.replayed = cpast.replayed
  BY <1>1, <1>2, CloudNow, CloudPauseAsks DEF TimersSame
<1>4. cs \in CloudStreamRecord /\ cc \in CloudCtlRecord /\ cs.timers \in Int
  BY CloudNow DEF CloudStreamRecord
<1>5. PICK n \in Int : n = IF cs.timer THEN cs.timers - 1 ELSE cs.timers
  BY <1>4
<1>6. PICK s : s = [cs EXCEPT !.shut = TRUE, !.timer = FALSE, !.timers = n]
  OBVIOUS
<1>7. s \in CloudStreamRecord /\ s.timers = n /\ ~s.timer /\ s.shut
  BY ONLY <1>4, <1>5, <1>6 DEF CloudStreamRecord
<1>8. PICK k : k = [cc EXCEPT !.state = "StopPending"]
  OBVIOUS
<1>9. k \in CloudCtlRecord /\ k.state = "StopPending"
  BY ONLY <1>4, <1>8 DEF CloudCtlRecord, CloudStates
<1>10. cs' = s /\ cc' = k /\ UNCHANGED <<poll, server>> /\ cevents' = Append(cevents, "StopController")
  BY <1>4, <1>5, <1>6, <1>8 DEF CloudStop
<1>11. PICK p : p = [cs |-> s, cc |-> k, asked |-> c.asked, past |-> c.past]
  OBVIOUS
<1>12. p \in Clouds /\ p.cs = s /\ p.cc = k /\ p.asked = c.asked /\ p.past = c.past
  BY <1>3, <1>7, <1>9, <1>11, CloudMade, CloudParts
<1>13. TimersOK(p)
  BY <1>3, <1>4, <1>5, <1>7, <1>12, CloudNow DEF TimersOK, CloudInv, CloudOK
<1>14. PICK evs : evs = cevents'
  OBVIOUS
<1>15. CloudOK(p, server, evs)
  BY <1>9, <1>12, <1>13 DEF CloudOK, PendingOK, SpeedComes
<1>16. CloudOK(Cloud, server, cevents)'
  BY <1>3, <1>10, <1>12, <1>14, <1>15, CloudBecomes DEF CloudIs
<1>17. CloudLoopOK'
  <2>1. "StopController" \in CloudEvents
    BY DEF CloudEvents
  <2> QED
    BY <1>7, <1>9, <1>10, <2>1, CloudNow, CloudQueues DEF CloudLoopOK
<1> QED
  BY <1>10, <1>16, <1>17, CloudNow DEF CloudInv

LEMMA CloudConfirmKeeps ==
    ASSUME CloudInv, CloudConfirm
    PROVE  CloudInv'
<1>1. /\ cs \in CloudStreamRecord /\ cc \in CloudCtlRecord /\ cs.threads \in Int
      /\ cpast \in CloudPastRecord /\ asked \in Seq(RtspRequests)
  BY CloudNow DEF CloudStreamRecord
<1>2. PICK n \in Int : n = cs.threads + 1
  BY <1>1
<1>3. PICK s : s = [cs EXCEPT !.up = TRUE, !.threads = n]
  OBVIOUS
<1>4. /\ s \in CloudStreamRecord /\ s.timers = cs.timers /\ s.timer = cs.timer
      /\ s.shut = cs.shut
  BY ONLY <1>1, <1>2, <1>3 DEF CloudStreamRecord
<1>5. PICK unsent \in BOOLEAN : unsent = (cpast.unsent \/ asked # <<>>)
  BY <1>1 DEF CloudPastRecord
<1>6. PICK q : q = [cpast EXCEPT !.unsent = unsent]
  OBVIOUS
<1>7. /\ q \in CloudPastRecord /\ q.replayed = cpast.replayed /\ q.refused = cpast.refused
      /\ q.unsent = unsent /\ q.moved = cpast.moved
  BY ONLY <1>1, <1>5, <1>6 DEF CloudPastRecord
<1>8. /\ cs' = s /\ cpast' = q /\ asked' = <<>> /\ UNCHANGED <<cc, poll, server>>
      /\ cevents' = Append(cevents, "SetupResp")
  BY <1>2, <1>3, <1>5, <1>6 DEF CloudConfirm
<1>9. PICK p : p = [cs |-> s, cc |-> cc, asked |-> <<>>, past |-> q]
  OBVIOUS
<1>10. p \in Clouds /\ p.cs = s /\ p.cc = cc /\ p.asked = <<>> /\ p.past = q
  BY <1>1, <1>4, <1>7, <1>9, CloudMade, EmptySeq
<1>11. TimersOK(p)
  BY <1>4, <1>7, <1>10, CloudNow DEF TimersOK, CloudInv, CloudOK
<1>12. /\ cevents' \in Seq(CloudEvents)
       /\ (\E i \in 1..Len(cevents') : cevents'[i] = "StopController") =>
              \E i \in 1..Len(cevents) : cevents[i] = "StopController"
       /\ (\E i \in 1..Len(cevents) : cevents[i] \in Replies) =>
              \E i \in 1..Len(cevents') : cevents'[i] \in Replies
  BY <1>8, CloudNow, CloudQueues DEF CloudEvents
<1>13. PICK evs : evs = cevents'
  OBVIOUS
<1>14. unsent \/ asked = <<>>
  BY <1>5
<1>15. CloudOK(p, server, evs)
  <2>1. /\ CloudOK(Cloud, server, cevents) /\ p.cc = Cloud.cc
        /\ Cloud.past.unsent => p.past.unsent
        /\ Cloud.past.refused => p.past.refused
        /\ Cloud.past.moved => p.past.moved
        /\ (\E i \in 1..Len(cevents) : cevents[i] \in Replies) =>
              \E i \in 1..Len(evs) : evs[i] \in Replies
    BY <1>5, <1>7, <1>10, <1>12, <1>13, CloudNow DEF CloudInv
  <2>2. p.past.unsent \/ p.asked = Cloud.asked
    BY <1>7, <1>10, <1>14, CloudNow
  <2> QED
    BY <1>10, <1>11, <2>1, <2>2, QuietKeeps
<1>16. CloudOK(Cloud, server, cevents)'
  BY <1>8, <1>10, <1>13, <1>15, CloudBecomes DEF CloudIs
<1>17. CloudLoopOK'
  BY <1>4, <1>8, <1>12 DEF CloudLoopOK, CloudInv
<1> QED
  BY <1>8, <1>16, <1>17, CloudNow DEF CloudInv

\* A reply or the first confirm is handled and a request sent, or none.
LEMMA CloudHandledKeeps ==
    ASSUME CloudInv, NEW p, CloudIs(p), p \in Clouds, p.cs.shut = cs.shut, p.cc.state # "gone",
           CloudOK(p, server, cevents'), UNCHANGED <<poll, server>>,
           cevents' \in Seq(CloudEvents),
           (\E i \in 1..Len(cevents') : cevents'[i] = "StopController") =>
              \E i \in 1..Len(cevents) : cevents[i] = "StopController"
    PROVE  CloudInv'
<1>1. PICK evs : evs = cevents'
  OBVIOUS
<1>2. CloudOK(p, server, evs)
  BY <1>1
<1>3. CloudOK(Cloud, server, cevents)'
  BY <1>1, <1>2, CloudBecomes
<1>4. CloudLoopOK'
  BY DEF CloudLoopOK, CloudInv, CloudIs
<1> QED
  BY <1>3, <1>4, CloudNow DEF CloudInv

LEMMA CloudSetupRespKeeps ==
    ASSUME CloudInv, CloudSetupResp
    PROVE  CloudInv'
<1>1. CloudHandles("SetupResp") /\ UNCHANGED <<poll, server>> /\ "SetupResp" \notin Replies
  BY DEF CloudSetupResp, Replies
<1>2. /\ cevents' \in Seq(CloudEvents)
      /\ (\E i \in 1..Len(cevents') : cevents'[i] = "StopController") =>
            \E i \in 1..Len(cevents) : cevents[i] = "StopController"
      /\ (\E i \in 1..Len(cevents) : cevents[i] \in Replies) =>
            \E i \in 1..Len(cevents') : cevents'[i] \in Replies
      /\ cc.state # "gone"
  BY <1>1, CloudNow, CloudUnqueues
<1>3. PICK evs : evs = cevents'
  OBVIOUS
<1>4. Cloud \in Clouds /\ Cloud.cc = cc /\ Cloud.cs = cs /\ CloudOK(Cloud, server, evs)
  BY <1>2, <1>3, CloudNow, QuietKeeps DEF CloudInv, CloudOK
<1>5. CASE cc.state = "SessionPending"
  <2>1. PICK goes \in BOOLEAN :
           CloudIs([CloudStreamSetNPT(Cloud, 0, goes) EXCEPT !.cc.state = "ControlServerPending"])
    BY <1>5 DEF CloudSetupResp
  <2>2. PICK c : c = CloudStreamSetNPT(Cloud, 0, goes)
    OBVIOUS
  <2>3. Asks(Cloud, c) /\ c.cc = cc /\ c \in Clouds
    BY <1>4, <2>2, CloudSetNPTAsks DEF Asks
  <2>4. PICK k : k = [cc EXCEPT !.state = "ControlServerPending"]
    OBVIOUS
  <2>5. /\ k \in CloudCtlRecord /\ k.state = "ControlServerPending"
        /\ k.pendingPlay = cc.pendingPlay /\ k.pendingSpeed = cc.pendingSpeed
        /\ k.pendingPosition = cc.pendingPosition /\ k.speed = cc.speed
    BY <2>4, CloudNow DEF CloudCtlRecord, CloudStates
  <2>6. PICK p : p = [c EXCEPT !.cc.state = "ControlServerPending"]
    OBVIOUS
  <2>7. p \in Clouds /\ p.cs = c.cs /\ p.cc = k /\ p.asked = c.asked /\ p.past = c.past
    BY <2>3, <2>4, <2>5, <2>6 DEF Clouds
  <2>8. Asks(Cloud, p)
    BY <2>3, <2>5, <2>7 DEF Asks, TimersSame
  <2>9. ~cc.pendingPlay /\ ~cc.pendingSpeed /\ ~cc.pendingPosition
    BY <1>4, <1>5 DEF CloudOK, PendingOK
  <2>10. CloudOK(p, server, evs) /\ TimersSame(p, Cloud)
    BY <1>4, <2>5, <2>7, <2>8, <2>9, AsksKeeps
  <2> QED
    BY <1>1, <1>2, <1>3, <1>4, <2>1, <2>2, <2>5, <2>6, <2>7, <2>10, CloudHandledKeeps DEF TimersSame
<1>6. CASE cc.state # "SessionPending"
  <2>1. UNCHANGED <<cs, cc, asked, cpast>>
    BY <1>6 DEF CloudSetupResp
  <2>2. CloudIs(Cloud)
    BY <2>1 DEF CloudIs, Cloud
  <2> QED
    BY <1>1, <1>2, <1>3, <1>4, <2>2, CloudHandledKeeps
<1> QED
  BY <1>5, <1>6

LEMMA CloudReplyKeeps ==
    ASSUME CloudInv, CloudReply
    PROVE  CloudInv'
<1>1. /\ CloudHandles("RTSPPlaySuccess") \/ CloudHandles("RTSPPlayFailed")
      /\ UNCHANGED <<poll, server>>
  BY DEF CloudReply
<1>2. /\ cevents' \in Seq(CloudEvents)
      /\ (\E i \in 1..Len(cevents') : cevents'[i] = "StopController") =>
            \E i \in 1..Len(cevents) : cevents[i] = "StopController"
      /\ cc.state # "gone"
  BY <1>1, CloudNow, CloudUnqueues
<1>3. PICK evs : evs = cevents'
  OBVIOUS
<1>4. /\ Cloud \in Clouds /\ Cloud.cc = cc /\ Cloud.cs = cs /\ CloudOK(Cloud, server, cevents)
      /\ Cloud.asked = asked /\ Cloud.past = cpast /\ asked \in Seq(RtspRequests)
  BY CloudNow DEF CloudInv
<1>5. CASE cc.state = "Streaming"
  <2>1. PICK goes \in BOOLEAN : CloudIs(CloudAfterReply(Cloud, goes))
    BY <1>4, <1>5 DEF CloudReply
  <2>2. PICK p : p = CloudAfterReply(Cloud, goes)
    OBVIOUS
  <2>3. /\ p.cc.state = cc.state /\ ~p.cc.pendingSpeed /\ ~p.cc.pendingPosition
        /\ \/ /\ p \in Clouds /\ TimersSame(p, Cloud) /\ p.asked = asked /\ p.past = cpast
              /\ p.cc.speed = cc.speed /\ ~p.cc.pendingPlay /\ ~cc.pendingSpeed
           \/ Asks(Cloud, p) /\ p.cc.pendingPlay
    BY <1>4, <2>2, CloudAfterReplyOutcomes
  <2>4. p \in Clouds /\ TimersSame(p, Cloud) /\ p.cs.shut = cs.shut
    BY <1>4, <2>3 DEF Asks, TimersSame
  <2>5. TimersOK(p)
    BY <1>4, <2>4 DEF CloudOK, TimersOK, TimersSame
  <2>6. CASE /\ p.asked = asked /\ p.past = cpast
             /\ p.cc.speed = cc.speed /\ ~p.cc.pendingPlay /\ ~cc.pendingSpeed
    <3>1. PendingOK(p, evs)
      BY <1>5, <2>3, <2>6 DEF PendingOK
    <3>2. SpeedComes(p, server)
      BY <1>4, <1>5, <2>3, <2>6 DEF SpeedComes, CloudOK
    <3> QED
      BY <1>1, <1>2, <1>3, <1>5, <2>1, <2>2, <2>3, <2>4, <2>5, <3>1, <3>2, CloudHandledKeeps DEF CloudOK
  <2>7. CASE Asks(Cloud, p) /\ p.cc.pendingPlay
    <3>1. CASE p.past.unsent
      <4>1. PendingOK(p, evs) /\ SpeedComes(p, server)
        BY <1>5, <2>3, <3>1 DEF PendingOK, SpeedComes
      <4> QED
        BY <1>1, <1>2, <1>3, <1>5, <2>1, <2>2, <2>3, <2>4, <2>5, <4>1, CloudHandledKeeps DEF CloudOK
    <3>2. ASSUME NEW r \in RtspRequests, r.type \in Playing, p.asked = Append(asked, r),
                 p.past.moved \/ r.scale = p.cc.speed
          PROVE  CloudInv'
      <4>1. /\ \E i \in 1..Len(p.asked) : p.asked[i].type \in Playing
            /\ r.scale = p.cc.speed => ScaleComes(p.asked, server.scale, p.cc.speed)
        BY <1>4, <3>2, AskedComes
      <4>2. PendingOK(p, evs) /\ SpeedComes(p, server)
        BY <1>5, <2>3, <3>2, <4>1 DEF PendingOK, SpeedComes
      <4> QED
        BY <1>1, <1>2, <1>3, <1>5, <2>1, <2>2, <2>3, <2>4, <2>5, <4>2, CloudHandledKeeps DEF CloudOK
    <3> QED
      BY <1>4, <2>7, <3>1, <3>2 DEF Asks
  <2> QED
    BY <2>3, <2>6, <2>7
<1>6. CASE cc.state # "Streaming"
  <2>1. PICK state \in CloudStates :
           state = IF cc.state = "ControlServerPending" THEN "TunerPending" ELSE cc.state
    BY CloudNow DEF CloudCtlRecord, CloudStates
  <2>2. PICK k : k = [cc EXCEPT !.state = state, !.pendingPlay = FALSE]
    OBVIOUS
  <2>3. /\ k \in CloudCtlRecord /\ k.state = state /\ ~k.pendingPlay
        /\ k.pendingSpeed = cc.pendingSpeed
        /\ k.pendingPosition = cc.pendingPosition /\ k.speed = cc.speed
    BY <2>1, <2>2, CloudNow DEF CloudCtlRecord
  <2>4. PICK p : p = [cs |-> cs, cc |-> k, asked |-> asked, past |-> cpast]
    OBVIOUS
  <2>5. p \in Clouds /\ p.cs = cs /\ p.cc = k /\ p.asked = asked /\ p.past = cpast
    BY <2>3, <2>4, CloudNow, CloudMade
  <2>6. CloudIs(p)
    <3>1. cc' = k
      <4>1. CASE cc.state = "ControlServerPending"
        BY <1>4, <1>6, <2>1, <2>2, <4>1, CloudNow DEF CloudReply, CloudIs, Cloud, CloudCtlRecord
      <4>2. CASE cc.state # "ControlServerPending"
        BY <1>4, <1>6, <2>1, <2>2, <4>2, CloudNow DEF CloudReply, CloudIs, Cloud, CloudCtlRecord
      <4> QED
        BY <4>1, <4>2
    <3>2. UNCHANGED <<cs, asked, cpast>>
      BY <1>6 DEF CloudReply, CloudIs, Cloud
    <3> QED
      BY <2>5, <3>1, <3>2 DEF CloudIs
  <2>7. TimersOK(p)
    BY <1>4, <2>5 DEF CloudOK, TimersOK
  <2>8. PendingOK(p, evs) /\ SpeedComes(p, server)
    BY <1>4, <1>6, <2>1, <2>3, <2>5 DEF PendingOK, SpeedComes, CloudOK
  <2> QED
    BY <1>1, <1>2, <1>3, <2>1, <2>3, <2>5, <2>6, <2>7, <2>8, CloudHandledKeeps DEF CloudOK
<1> QED
  BY <1>5, <1>6

\* The controller alone changes its state.
LEMMA CloudStateKeeps ==
    ASSUME CloudInv, NEW state \in CloudStates, cc' = [cc EXCEPT !.state = state],
           UNCHANGED <<cs, asked, cpast, poll, server>>, state # "gone",
           \/ state \in {"Stopped", "StopPending"}
           \/ state = "Streaming" /\ cc.state = "TunerPending" /\ UNCHANGED cevents,
           cevents' \in Seq(CloudEvents),
           (\E i \in 1..Len(cevents') : cevents'[i] = "StopController") =>
              \E i \in 1..Len(cevents) : cevents[i] = "StopController"
    PROVE  CloudInv'
<1>1. PICK k : k = [cc EXCEPT !.state = state]
  OBVIOUS
<1>2. /\ k \in CloudCtlRecord /\ k.state = state /\ k.pendingPlay = cc.pendingPlay
      /\ k.pendingSpeed = cc.pendingSpeed
      /\ k.pendingPosition = cc.pendingPosition /\ k.speed = cc.speed
  BY <1>1, CloudNow DEF CloudCtlRecord
<1>3. PICK p : p = [cs |-> cs, cc |-> k, asked |-> asked, past |-> cpast]
  OBVIOUS
<1>4. p \in Clouds /\ p.cs = cs /\ p.cc = k /\ p.asked = asked /\ p.past = cpast
  BY <1>2, <1>3, CloudNow, CloudMade
<1>5. CloudOK(Cloud, server, cevents) /\ Cloud.cs = cs /\ Cloud.cc = cc /\ Cloud.asked = asked
      /\ Cloud.past = cpast
  BY CloudNow DEF CloudInv
<1>6. TimersOK(p)
  BY <1>4, <1>5 DEF CloudOK, TimersOK
<1>7. PICK evs : evs = cevents'
  OBVIOUS
<1>8. PendingOK(p, evs) /\ SpeedComes(p, server)
  BY <1>2, <1>4, <1>5, <1>7 DEF PendingOK, SpeedComes, CloudOK
<1>9. CloudIs(p)
  BY <1>1, <1>4 DEF CloudIs
<1> QED
  BY <1>2, <1>4, <1>6, <1>7, <1>8, <1>9, CloudHandledKeeps DEF CloudOK

LEMMA CloudRendersKeeps ==
    ASSUME CloudInv, CloudRenders
    PROVE  CloudInv'
BY CloudNow, CloudStateKeeps DEF CloudRenders, CloudStates

LEMMA CloudStreamErrorKeeps ==
    ASSUME CloudInv, CloudStreamError
    PROVE  CloudInv'
<1>1. /\ cevents' \in Seq(CloudEvents)
      /\ (\E i \in 1..Len(cevents') : cevents'[i] = "StopController") =>
            \E i \in 1..Len(cevents) : cevents[i] = "StopController"
  BY CloudNow, CloudUnqueues DEF CloudStreamError
<1>2. PICK state \in {"Stopped", "StopPending"} :
         state = IF cc.state = "StopPending" THEN cc.state ELSE "Stopped"
  OBVIOUS
<1>3. cc' = [cc EXCEPT !.state = state] /\ UNCHANGED <<cs, asked, cpast, poll, server>>
  BY <1>2 DEF CloudStreamError
<1> QED
  BY <1>1, <1>2, <1>3, CloudStateKeeps DEF CloudStates

LEMMA CloudStopControllerKeeps ==
    ASSUME CloudInv, CloudStopController
    PROVE  CloudInv'
<1>1. CloudHandles("StopController") /\ UNCHANGED <<poll, server, cpast>> /\ asked' = <<>>
  BY DEF CloudStopController
<1>2. /\ cevents' \in Seq(CloudEvents)
      /\ \E i \in 1..Len(cevents) : cevents[i] = "StopController"
  BY <1>1, CloudNow, CloudUnqueues
<1>3. cs.shut
  BY <1>2 DEF CloudInv, CloudLoopOK
<1>4. PICK s : s = [cs EXCEPT !.up = FALSE]
  OBVIOUS
<1>5. cs \in CloudStreamRecord /\ cc \in CloudCtlRecord
  BY CloudNow
<1>6. /\ s \in CloudStreamRecord /\ s.timers = cs.timers /\ s.timer = cs.timer
      /\ s.shut = cs.shut /\ cs' = s
  BY <1>4, <1>5 DEF CloudStreamRecord, CloudStopController
<1>7. PICK k : k = [cc EXCEPT !.state = "gone"]
  OBVIOUS
<1>8. k \in CloudCtlRecord /\ k.state = "gone" /\ cc' = k
  BY <1>5, <1>7 DEF CloudCtlRecord, CloudStates, CloudStopController
<1>9. PICK p : p = [cs |-> s, cc |-> k, asked |-> <<>>, past |-> cpast]
  OBVIOUS
<1>10. p \in Clouds /\ p.cs = s /\ p.cc = k /\ p.asked = <<>> /\ p.past = cpast
  BY <1>6, <1>8, <1>9, CloudNow, CloudMade, EmptySeq
<1>11. PICK evs : evs = cevents'
  OBVIOUS
<1>12. CloudOK(p, server, evs)
  BY <1>6, <1>8, <1>10, CloudNow DEF CloudOK, TimersOK, PendingOK, SpeedComes, CloudInv
<1>13. CloudOK(Cloud, server, cevents)'
  BY <1>1, <1>6, <1>8, <1>10, <1>11, <1>12, CloudBecomes DEF CloudIs
<1>14. CloudLoopOK'
  BY <1>2, <1>3, <1>6 DEF CloudLoopOK
<1> QED
  BY <1>1, <1>13, <1>14, CloudNow DEF CloudInv

------------------------------------------------------------------------------
(* The scheduler thread, and the server *)

\* The first request is answered.
LEMMA CloudAnsweredFacts ==
    ASSUME CloudInv, NEW type, CloudAnswered(type)
    PROVE  /\ asked' = Tail(asked) /\ asked' \in Seq(RtspRequests) /\ asked # <<>>
           /\ Head(asked) \in RtspRequests /\ Head(asked).type = type
           /\ UNCHANGED <<cc, poll>>
<1>1. asked # <<>> /\ Head(asked).type = type /\ asked' = Tail(asked) /\ UNCHANGED <<cc, poll>>
  BY DEF CloudAnswered
<1>2. Tail(asked) \in Seq(RtspRequests) /\ Head(asked) \in RtspRequests
  BY <1>1, CloudNow, TailFacts
<1> QED
  BY <1>1, <1>2

\* An answer to a request leaves the controller to the loop, and what is due comes.
LEMMA AnswerKeeps ==
    ASSUME CloudInv, NEW type, CloudAnswered(type),
           NEW s \in CloudStreamRecord, NEW q \in CloudPastRecord, cs' = s, cpast' = q,
           s.shut = cs.shut,
           TimersOK([cs |-> s, cc |-> cc, asked |-> Tail(asked), past |-> q]),
           cpast.unsent => q.unsent, cpast.refused => q.refused, q.moved = cpast.moved,
           server' \in [scale : Int, pos : Int],
           \/ type \in Playing /\ (q.refused \/ server'.scale = Head(asked).scale)
           \/ type \notin Playing /\ server'.scale = server.scale,
           \/ type \notin Playing /\ cevents' = cevents
           \/ \E e \in Replies : cevents' = Append(cevents, e)
    PROVE  CloudInv'
<1>1. /\ asked' = Tail(asked) /\ asked' \in Seq(RtspRequests) /\ asked # <<>>
      /\ Head(asked) \in RtspRequests /\ Head(asked).type = type /\ UNCHANGED <<cc, poll>>
  BY CloudAnsweredFacts
<1>2. PICK p : p = [cs |-> s, cc |-> cc, asked |-> Tail(asked), past |-> q]
  OBVIOUS
<1>3. p \in Clouds /\ p.cs = s /\ p.cc = cc /\ p.asked = Tail(asked) /\ p.past = q
  BY <1>1, <1>2, CloudNow, CloudMade
<1>4. TimersOK(p)
  BY <1>2
<1>5. /\ cevents' \in Seq(CloudEvents)
      /\ (\E i \in 1..Len(cevents') : cevents'[i] = "StopController") =>
            \E i \in 1..Len(cevents) : cevents[i] = "StopController"
      /\ (\E i \in 1..Len(cevents) : cevents[i] \in Replies) =>
            \E i \in 1..Len(cevents') : cevents'[i] \in Replies
      /\ type \in Playing => \E i \in 1..Len(cevents') : cevents'[i] \in Replies
  <2>1. CASE cevents' = cevents /\ type \notin Playing
    BY <2>1, CloudNow
  <2>2. ASSUME NEW e \in Replies, cevents' = Append(cevents, e)
        PROVE  /\ cevents' \in Seq(CloudEvents)
               /\ (\E i \in 1..Len(cevents') : cevents'[i] = "StopController") =>
                     \E i \in 1..Len(cevents) : cevents[i] = "StopController"
               /\ (\E i \in 1..Len(cevents) : cevents[i] \in Replies) =>
                     \E i \in 1..Len(cevents') : cevents'[i] \in Replies
               /\ \E i \in 1..Len(cevents') : cevents'[i] \in Replies
    <3>1. e \in CloudEvents /\ e # "StopController"
      BY DEF CloudEvents, Replies
    <3> QED
      BY <2>2, <3>1, CloudNow, CloudQueues
  <2> QED
    BY <2>1, <2>2
<1>6. PICK evs : evs = cevents'
  OBVIOUS
<1>7. PICK new : new = server'
  OBVIOUS
<1>8. asked \in Seq(RtspRequests) /\ Cloud.cc = cc /\ Cloud.asked = asked /\ Cloud.past = cpast
  BY CloudNow
<1>9. /\ CloudOK(Cloud, server, cevents)
      /\ (\E i \in 1..Len(cevents) : cevents[i] \in Replies) =>
            \E i \in 1..Len(evs) : evs[i] \in Replies
  BY <1>5, <1>6 DEF CloudInv
<1>10. /\ (\E i \in 1..Len(asked) : asked[i].type \in Playing) =>
            \/ \E i \in 1..Len(Tail(asked)) : Tail(asked)[i].type \in Playing
            \/ \E i \in 1..Len(evs) : evs[i] \in Replies
       /\ \/ q.refused
          \/ ScaleComes(asked, server.scale, cc.speed) =>
                ScaleComes(Tail(asked), new.scale, cc.speed)
  <2>1. CASE q.refused /\ type \in Playing
    BY <1>5, <1>6, <2>1
  <2>2. CASE type \in Playing /\ new.scale = Head(asked).scale
    <3>1. ScaleComes(asked, server.scale, cc.speed) =>
             ScaleComes(Tail(asked), new.scale, cc.speed)
      BY <1>1, <1>8, <2>2, AnsweredComes
    <3> QED
      BY <1>5, <1>6, <2>2, <3>1
  <2>3. CASE type \notin Playing /\ new.scale = server.scale
    <3>1. /\ (\E i \in 1..Len(asked) : asked[i].type \in Playing) =>
               \E i \in 1..Len(Tail(asked)) : Tail(asked)[i].type \in Playing
          /\ ScaleComes(asked, server.scale, cc.speed) =>
                ScaleComes(Tail(asked), new.scale, cc.speed)
      BY <1>1, <1>8, <2>3, AnsweredComes
    <3> QED
      BY <3>1
  <2> QED
    BY <1>7, <2>1, <2>2, <2>3
<1>11. CloudOK(p, new, evs)
  <2>1. /\ p.cc = Cloud.cc /\ p.past.moved = Cloud.past.moved
        /\ Cloud.past.unsent => p.past.unsent
        /\ Cloud.past.refused => p.past.refused
        /\ Cloud.past.moved => p.past.moved
    BY <1>3, <1>8
  <2>2. /\ (\E i \in 1..Len(Cloud.asked) : Cloud.asked[i].type \in Playing) =>
               \/ \E i \in 1..Len(p.asked) : p.asked[i].type \in Playing
               \/ \E i \in 1..Len(evs) : evs[i] \in Replies
        /\ \/ p.past.refused
           \/ ScaleComes(Cloud.asked, server.scale, Cloud.cc.speed) =>
                 ScaleComes(p.asked, new.scale, Cloud.cc.speed)
    BY <1>3, <1>8, <1>10
  <2> QED
    BY <1>3, <1>4, <1>9, <2>1, <2>2, QuietKeeps
<1>12. CloudOK(Cloud, server, cevents)'
  BY <1>1, <1>3, <1>6, <1>7, <1>11, CloudBecomes DEF CloudIs
<1>13. CloudLoopOK'
  BY <1>1, <1>5 DEF CloudLoopOK, CloudInv
<1> QED
  BY <1>1, <1>12, <1>13, CloudNow DEF CloudInv

\* The timers, when neither they nor what is said of them change.
LEMMA SameTimers ==
    ASSUME CloudInv, NEW s, NEW q, NEW a, s.timers = cs.timers, s.timer = cs.timer, s.shut = cs.shut,
           q.replayed = cpast.replayed
    PROVE  TimersOK([cs |-> s, cc |-> cc, asked |-> a, past |-> q])
<1>1. TimersOK(Cloud) /\ Cloud.cs = cs /\ Cloud.past = cpast
  BY CloudNow DEF CloudInv, CloudOK
<1> QED
  BY <1>1 DEF TimersOK

LEMMA ResponsePLAYKeeps ==
    ASSUME CloudInv, ResponsePLAY
    PROVE  CloudInv'
<1> DEFINE r == Head(asked)
           pos == IF r.from = -1 THEN server.pos ELSE r.from
<1>1. /\ CloudAnswered("PLAY") /\ r \in RtspRequests
      /\ r.scale \in Int /\ pos \in Int /\ "PLAY" \in Playing
  <2>1. CloudAnswered("PLAY")
    BY DEF ResponsePLAY
  <2>2. r \in RtspRequests
    BY <2>1, CloudAnsweredFacts
  <2> QED
    BY <2>1, <2>2, CloudNow DEF RtspRequests, Playing
<1>2. cs \in CloudStreamRecord /\ cpast \in CloudPastRecord /\ cs.timers \in Int
  BY CloudNow DEF CloudStreamRecord
<1>3. CASE /\ server' = [scale |-> r.scale, pos |-> pos]
           /\ cs' = StartKeepAliveTimer(processPLAYResponse(cs, pos, r.scale))
           /\ cevents' = Append(cevents, "RTSPPlaySuccess")
           /\ cpast' = [cpast EXCEPT !.replayed = @ \/ cs.timers > 0 \/ cs.shut,
                                     !.overtaken = @ \/ poll.st = "estimate"]
  <2>1. PICK n \in Int : n = pos
    BY <1>1
  <2>2. PICK w \in Int : w = Whole(r.scale)
    BY <1>1 DEF Whole
  <2>3. PICK t \in Int : t = cs.timers + 1
    BY <1>2
  <2>4. PICK u : u = [cs EXCEPT !.npt = n, !.num = w, !.pause = FALSE]
    OBVIOUS
  <2>5. u \in CloudStreamRecord /\ u.timers = cs.timers /\ u.shut = cs.shut
    BY ONLY <1>2, <2>1, <2>2, <2>4 DEF CloudStreamRecord
  <2>6. PICK s : s = [u EXCEPT !.timers = t, !.timer = TRUE]
    OBVIOUS
  <2>7. s \in CloudStreamRecord /\ s.timers = t /\ s.timer /\ s.shut = cs.shut
    BY ONLY <2>3, <2>5, <2>6 DEF CloudStreamRecord
  <2>8. u = processPLAYResponse(cs, pos, r.scale)
    BY <2>1, <2>2, <2>4 DEF processPLAYResponse
  <2>9. cs' = s
    BY <1>3, <2>3, <2>5, <2>6, <2>8 DEF StartKeepAliveTimer
  <2>10. PICK replayed \in BOOLEAN : replayed = (cpast.replayed \/ cs.timers > 0 \/ cs.shut)
    BY <1>2 DEF CloudPastRecord
  <2>11. PICK overtaken \in BOOLEAN : overtaken = (cpast.overtaken \/ poll.st = "estimate")
    BY <1>2 DEF CloudPastRecord
  <2>12. PICK q : q = [cpast EXCEPT !.replayed = replayed, !.overtaken = overtaken]
    OBVIOUS
  <2>13. /\ q \in CloudPastRecord /\ q.replayed = replayed /\ q.refused = cpast.refused
         /\ q.unsent = cpast.unsent /\ q.moved = cpast.moved
    BY ONLY <1>2, <2>10, <2>11, <2>12 DEF CloudPastRecord
  <2>14. cpast' = q
    BY <1>3, <2>10, <2>11, <2>12
  <2>15. TimersOK([cs |-> s, cc |-> cc, asked |-> Tail(asked), past |-> q])
    <3>1. TimersOK(Cloud) /\ Cloud.cs = cs /\ Cloud.past = cpast
      BY CloudNow DEF CloudInv, CloudOK
    <3>2. ~replayed => ~cs.timer /\ cs.timers = 0 /\ ~cs.shut
      <4>1. ~replayed => ~cpast.replayed /\ ~(cs.timers > 0) /\ ~cs.shut
        BY <2>10
      <4>2. ~cpast.replayed => cs.timers = IF cs.timer THEN 1 ELSE 0
        BY <3>1 DEF TimersOK
      <4> QED
        BY <1>2, <4>1, <4>2
    <3>3. ~replayed => s.timers = 1 /\ s.timer /\ ~s.shut
      BY <2>3, <2>7, <3>2
    <3> QED
      BY <2>13, <3>3, <2>7 DEF TimersOK
  <2>16. server' \in [scale : Int, pos : Int] /\ server'.scale = Head(asked).scale
    BY <1>1, <1>3
  <2>17. \E e \in Replies : cevents' = Append(cevents, e)
    BY <1>3 DEF Replies
  <2> HIDE DEF r, pos
  <2> QED
    BY <1>1, <2>7, <2>9, <2>13, <2>14, <2>15, <2>16, <2>17, AnswerKeeps
<1>4. CASE /\ cs' = [cs EXCEPT !.pause = FALSE]
           /\ cevents' = Append(cevents, "RTSPPlayFailed")
           /\ cpast' = [cpast EXCEPT !.refused = TRUE]
           /\ UNCHANGED server
  <2>1. PICK s : s = [cs EXCEPT !.pause = FALSE]
    OBVIOUS
  <2>2. /\ s \in CloudStreamRecord /\ s.timers = cs.timers /\ s.timer = cs.timer
        /\ s.shut = cs.shut
    BY ONLY <1>2, <2>1 DEF CloudStreamRecord
  <2>3. PICK q : q = [cpast EXCEPT !.refused = TRUE]
    OBVIOUS
  <2>4. /\ q \in CloudPastRecord /\ q.replayed = cpast.replayed /\ q.refused
        /\ q.unsent = cpast.unsent /\ q.moved = cpast.moved
    BY ONLY <1>2, <2>3 DEF CloudPastRecord
  <2>5. TimersOK([cs |-> s, cc |-> cc, asked |-> Tail(asked), past |-> q])
    BY <2>2, <2>4, SameTimers
  <2>6. \E e \in Replies : cevents' = Append(cevents, e)
    BY <1>4 DEF Replies
  <2>7. server' \in [scale : Int, pos : Int]
    BY <1>4, CloudNow
  <2>8. cs' = s /\ cpast' = q
    BY <1>4, <2>1, <2>3
  <2> HIDE DEF r, pos
  <2> QED
    BY <1>1, <2>2, <2>4, <2>5, <2>6, <2>7, <2>8, AnswerKeeps
<1> QED
  BY <1>3, <1>4 DEF ResponsePLAY

LEMMA ResponsePAUSEKeeps ==
    ASSUME CloudInv, ResponsePAUSE
    PROVE  CloudInv'
<1>1. /\ CloudAnswered("PAUSE") /\ Head(asked) \in RtspRequests /\ Head(asked).type = "PAUSE"
      /\ "PAUSE" \in Playing
  <2>1. CloudAnswered("PAUSE")
    BY DEF ResponsePAUSE
  <2> QED
    BY <2>1, CloudAnsweredFacts DEF Playing
<1>2. Head(asked).scale = 0
  BY <1>1 DEF RtspRequests
<1>3. /\ cs \in CloudStreamRecord /\ cpast \in CloudPastRecord
      /\ server \in [scale : Int, pos : Int]
  BY CloudNow
<1>4. CASE /\ server' = [server EXCEPT !.scale = 0]
           /\ cs' = [cs EXCEPT !.pause = TRUE]
           /\ cevents' = Append(cevents, "RTSPPlaySuccess")
           /\ UNCHANGED cpast
  <2>1. PICK s : s = [cs EXCEPT !.pause = TRUE]
    OBVIOUS
  <2>2. /\ s \in CloudStreamRecord /\ s.timers = cs.timers /\ s.timer = cs.timer
        /\ s.shut = cs.shut /\ cs' = s
    BY ONLY <1>3, <1>4, <2>1 DEF CloudStreamRecord
  <2>3. server' \in [scale : Int, pos : Int] /\ server'.scale = Head(asked).scale
    BY <1>2, <1>3, <1>4
  <2>4. \E e \in Replies : cevents' = Append(cevents, e)
    BY <1>4 DEF Replies
  <2>5. TimersOK([cs |-> s, cc |-> cc, asked |-> Tail(asked), past |-> cpast])
    BY <2>2, SameTimers
  <2> QED
    BY <1>1, <1>3, <1>4, <2>2, <2>3, <2>4, <2>5, AnswerKeeps
<1>5. CASE /\ cevents' = Append(cevents, "StreamError")
           /\ cpast' = [cpast EXCEPT !.refused = TRUE]
           /\ UNCHANGED <<cs, server>>
  <2>1. PICK q : q = [cpast EXCEPT !.refused = TRUE]
    OBVIOUS
  <2>2. /\ q \in CloudPastRecord /\ q.replayed = cpast.replayed /\ q.refused
        /\ q.unsent = cpast.unsent /\ q.moved = cpast.moved /\ cpast' = q
    BY ONLY <1>3, <1>5, <2>1 DEF CloudPastRecord
  <2>3. \E e \in Replies : cevents' = Append(cevents, e)
    BY <1>5 DEF Replies
  <2>4. TimersOK([cs |-> cs, cc |-> cc, asked |-> Tail(asked), past |-> q])
    BY <2>2, SameTimers
  <2>5. server' \in [scale : Int, pos : Int] /\ cs' = cs
    BY <1>3, <1>5
  <2> QED
    BY <1>1, <1>3, <2>2, <2>3, <2>4, <2>5, AnswerKeeps
<1> QED
  BY <1>4, <1>5 DEF ResponsePAUSE

\* The answer to a poll, and to a request nobody waits for.
LEMMA PollAnswerKeeps ==
    ASSUME CloudInv, NEW type \in {"GETPOS", "GETSPEED", "KEEPALIVE"}, CloudAnswered(type),
           NEW s \in CloudStreamRecord, cs' = s,
           s.timers = cs.timers, s.timer = cs.timer, s.shut = cs.shut,
           UNCHANGED <<server, cpast>>,
           \/ cevents' = cevents
           \/ \E e \in Replies : cevents' = Append(cevents, e)
    PROVE  CloudInv'
<1>1. type \notin Playing
  BY DEF Playing
<1>2. cpast \in CloudPastRecord /\ server' \in [scale : Int, pos : Int]
  BY CloudNow
<1>3. TimersOK([cs |-> s, cc |-> cc, asked |-> Tail(asked), past |-> cpast])
  BY SameTimers
<1> QED
  BY <1>1, <1>2, <1>3, AnswerKeeps

LEMMA processResponseGetPosKeeps ==
    ASSUME CloudInv, processResponseGetPos
    PROVE  CloudInv'
<1>1. CloudAnswered("GETPOS") /\ UNCHANGED <<server, cpast>>
  BY DEF processResponseGetPos
<1>2. cs \in CloudStreamRecord /\ server.pos \in Int
  BY CloudNow
<1>3. PICK of \in Nat : of = Head(asked).of
  BY <1>1, CloudAnsweredFacts DEF RtspRequests
<1>4. PICK pos \in Int : pos = server.pos
  BY <1>2
<1>5. PICK s : /\ s \in {[cs EXCEPT !.npt = pos, !.respPos = "ok", !.respOf = of],
                         [cs EXCEPT !.respPos = "error", !.respOf = of]}
               /\ cs' = s
  BY <1>3, <1>4 DEF processResponseGetPos
<1>6. /\ s \in CloudStreamRecord /\ s.timers = cs.timers /\ s.timer = cs.timer
      /\ s.shut = cs.shut
  BY ONLY <1>2, <1>3, <1>4, <1>5 DEF CloudStreamRecord
<1>7. \E e \in Replies : cevents' = Append(cevents, e)
  BY DEF processResponseGetPos, Replies
<1> QED
  BY <1>1, <1>5, <1>6, <1>7, PollAnswerKeeps

LEMMA processResponseGetSpeedKeeps ==
    ASSUME CloudInv, processResponseGetSpeed
    PROVE  CloudInv'
<1>1. CloudAnswered("GETSPEED") /\ UNCHANGED <<server, cpast>>
  BY DEF processResponseGetSpeed
<1>2. cs \in CloudStreamRecord /\ server.scale \in Int
  BY CloudNow
<1>3. PICK of \in Nat : of = Head(asked).of
  BY <1>1, CloudAnsweredFacts DEF RtspRequests
<1>4. PICK num \in Int : num = Whole(server.scale)
  BY <1>2 DEF Whole
<1>5. PICK s : /\ s \in {[cs EXCEPT !.num = num, !.respSpeed = "ok", !.respOf = of],
                         [cs EXCEPT !.respSpeed = "error", !.respOf = of]}
               /\ cs' = s
  BY <1>3, <1>4 DEF processResponseGetSpeed
<1>6. /\ s \in CloudStreamRecord /\ s.timers = cs.timers /\ s.timer = cs.timer
      /\ s.shut = cs.shut
  BY ONLY <1>2, <1>3, <1>4, <1>5 DEF CloudStreamRecord
<1>7. \E e \in Replies : cevents' = Append(cevents, e)
  BY DEF processResponseGetSpeed, Replies
<1> QED
  BY <1>1, <1>5, <1>6, <1>7, PollAnswerKeeps

LEMMA ResponseKEEPALIVEKeeps ==
    ASSUME CloudInv, ResponseKEEPALIVE
    PROVE  CloudInv'
<1>1. /\ CloudAnswered("KEEPALIVE") /\ UNCHANGED <<cs, cevents, server, cpast>>
      /\ cs \in CloudStreamRecord
  BY CloudNow DEF ResponseKEEPALIVE
<1> QED
  BY <1>1, PollAnswerKeeps

LEMMA TaskSchedulerEndsKeeps ==
    ASSUME CloudInv, TaskSchedulerEnds
    PROVE  CloudInv'
<1>1. cs \in CloudStreamRecord /\ cs.threads \in Int
  BY CloudNow DEF CloudStreamRecord
<1>2. PICK n \in Int : n = cs.threads - 1
  BY <1>1
<1>3. PICK s : s = [cs EXCEPT !.threads = n]
  OBVIOUS
<1>4. /\ s \in CloudStreamRecord /\ s.timers = cs.timers /\ s.timer = cs.timer
      /\ s.shut = cs.shut
  BY ONLY <1>1, <1>2, <1>3 DEF CloudStreamRecord
<1> QED
  BY <1>2, <1>3, <1>4, CloudNow, StreamOnlyKeeps DEF TaskSchedulerEnds

\* A request that is lost is one that was not sent.
LEMMA CloudLosesKeeps ==
    ASSUME CloudInv, asked # <<>>, asked' = Tail(asked), cpast' = [cpast EXCEPT !.unsent = TRUE],
           UNCHANGED <<cs, cc, cevents, poll, server>>
    PROVE  CloudInv'
<1>1. PICK q : q = [cpast EXCEPT !.unsent = TRUE]
  OBVIOUS
<1>2. cpast \in CloudPastRecord /\ cs \in CloudStreamRecord /\ cc \in CloudCtlRecord
  BY CloudNow
<1>3. /\ q \in CloudPastRecord /\ q.replayed = cpast.replayed /\ q.refused = cpast.refused
      /\ q.unsent /\ q.moved = cpast.moved /\ cpast' = q
  BY <1>1, <1>2 DEF CloudPastRecord
<1>4. PICK a \in Seq(RtspRequests) : a = Tail(asked)
  BY CloudNow, TailFacts
<1>5. PICK p : p = [cs |-> cs, cc |-> cc, asked |-> a, past |-> q]
  OBVIOUS
<1>6. p \in Clouds /\ p.cs = cs /\ p.cc = cc /\ p.asked = a /\ p.past = q
  BY <1>2, <1>3, <1>5, CloudMade
<1>7. TimersOK(p)
  BY <1>3, <1>5, SameTimers
<1>8. Cloud.cc = cc /\ Cloud.past = cpast /\ CloudOK(Cloud, server, cevents)
  BY CloudNow DEF CloudInv
<1>9. CloudOK(p, server, cevents)
  BY <1>3, <1>6, <1>7, <1>8, QuietKeeps
<1>10. CloudOK(Cloud, server, cevents)'
  BY <1>3, <1>4, <1>6, <1>9, CloudBecomes DEF CloudIs
<1>11. CloudLoopOK'
  BY DEF CloudLoopOK, CloudInv
<1> QED
  BY <1>10, <1>11, CloudNow DEF CloudInv

LEMMA CloudServerKeeps ==
    ASSUME CloudInv, CloudServer
    PROVE  CloudInv'
<1>1. UNCHANGED <<cc, cevents, poll>>
  BY DEF CloudServer
<1>2. CASE /\ asked # <<>> /\ asked' = Tail(asked)
           /\ cpast' = [cpast EXCEPT !.unsent = TRUE]
           /\ UNCHANGED <<cs, server>>
  BY <1>1, <1>2, CloudLosesKeeps
<1>3. CASE /\ cs' = [cs EXCEPT !.since = @ + 1]
           /\ server' = [server EXCEPT !.pos = @ + server.scale \div 2]
           /\ cpast' = [cpast EXCEPT !.late = @ \/ asked # <<>> \/ poll.st # "none"]
           /\ UNCHANGED asked
  <2>1. /\ cs \in CloudStreamRecord /\ cs.since \in Int /\ cpast \in CloudPastRecord
        /\ server \in [scale : Int, pos : Int] /\ server.pos \in Int /\ server.scale \in Int
    BY CloudNow DEF CloudStreamRecord
  <2>2. PICK n \in Int : n = cs.since + 1
    BY <2>1
  <2>3. PICK s : s = [cs EXCEPT !.since = n]
    OBVIOUS
  <2>4. /\ s \in CloudStreamRecord /\ s.timers = cs.timers /\ s.timer = cs.timer
        /\ s.shut = cs.shut
    BY ONLY <2>1, <2>2, <2>3 DEF CloudStreamRecord
  <2>5. PICK late \in BOOLEAN : late = (cpast.late \/ asked # <<>> \/ poll.st # "none")
    BY <2>1 DEF CloudPastRecord
  <2>6. PICK q : q = [cpast EXCEPT !.late = late]
    OBVIOUS
  <2>7. /\ q \in CloudPastRecord /\ q.replayed = cpast.replayed /\ q.refused = cpast.refused
        /\ q.unsent = cpast.unsent /\ q.moved = cpast.moved
    BY ONLY <2>1, <2>5, <2>6 DEF CloudPastRecord
  <2>8. PICK pos \in Int : pos = server.pos + server.scale \div 2
    BY <2>1
  <2>9. server' \in [scale : Int, pos : Int] /\ server'.scale = server.scale
    BY <1>3, <2>1, <2>8
  <2> QED
    BY <1>1, <1>3, <2>2, <2>3, <2>4, <2>5, <2>6, <2>7, <2>9, CloudNow, StreamOnlyKeeps
<1> QED
  BY <1>2, <1>3 DEF CloudServer

LEMMA CloudInitInv ==
    ASSUME CloudInit
    PROVE  CloudInv
<1>1. cs = NewCloudStream /\ cc = NewCloudCtl /\ asked = <<>> /\ cpast = NewCloudPast
      /\ cevents = <<>> /\ poll = NoPoll /\ server = [scale |-> 0, pos |-> 0]
  BY DEF CloudInit
<1>2. /\ cs \in CloudStreamRecord /\ cs.timers = 0 /\ ~cs.timer /\ ~cs.shut
  BY <1>1 DEF NewCloudStream, CloudStreamRecord, Normal
<1>3. /\ cc \in CloudCtlRecord /\ cc.state = "SessionPending" /\ ~cc.pendingPlay
      /\ ~cc.pendingSpeed /\ ~cc.pendingPosition
  BY <1>1 DEF NewCloudCtl, CloudCtlRecord, CloudStates, Normal
<1>4. cpast \in CloudPastRecord
  BY <1>1 DEF NewCloudPast, CloudPastRecord
<1>5. asked \in Seq(RtspRequests) /\ cevents \in Seq(CloudEvents) /\ Len(cevents) = 0
  BY <1>1, EmptySeq
<1>6. /\ Cloud \in Clouds /\ Cloud.cs = cs /\ Cloud.cc = cc /\ Cloud.asked = asked
      /\ Cloud.past = cpast
  BY <1>2, <1>3, <1>4, <1>5, CloudMade DEF Cloud
<1>7. TimersOK(Cloud) /\ PendingOK(Cloud, cevents) /\ SpeedComes(Cloud, server)
  BY <1>2, <1>3, <1>6 DEF TimersOK, PendingOK, SpeedComes
<1>8. CloudLoopOK
  BY <1>3, <1>5 DEF CloudLoopOK
<1>9. poll \in PollRecord /\ server \in [scale : Int, pos : Int]
  BY <1>1, NoPollType
<1> QED
  BY <1>6, <1>7, <1>8, <1>9 DEF CloudInv, CloudOK

LEMMA CloudNextInv ==
    ASSUME CloudInv, [CloudNext]_cloudVars
    PROVE  CloudInv'
<1>1. CASE CloudClient
  BY <1>1, CloudTrickKeeps, CloudEstimatesKeeps, CloudEstimatedKeeps, CloudAsksKeeps,
     CloudPollsKeeps, CloudPolledKeeps, CloudStopKeeps DEF CloudClient
<1>2. CASE CloudLoop
  BY <1>2, CloudConfirmKeeps, CloudSetupRespKeeps, CloudReplyKeeps, CloudRendersKeeps,
     CloudStreamErrorKeeps, CloudStopControllerKeeps, CloudKeepAliveKeeps DEF CloudLoop
<1>3. CASE CloudScheduler
  BY <1>3, ResponsePLAYKeeps, ResponsePAUSEKeeps, processResponseGetPosKeeps,
     processResponseGetSpeedKeeps, ResponseKEEPALIVEKeeps, TaskSchedulerEndsKeeps
     DEF CloudScheduler
<1>4. CASE UNCHANGED cloudVars
  <2>1. UNCHANGED <<cs, cc, asked, cevents, poll, server, cpast>>
    BY <1>4 DEF cloudVars
  <2> QED
    BY <2>1, CloudNow, StreamOnlyKeeps
<1> QED
  BY <1>1, <1>2, <1>3, <1>4, CloudServerKeeps DEF CloudNext

\* At rest no answer is due, so nothing is held back and the server has the speed.
LEMMA CloudInvImplies ==
    ASSUME CloudInv
    PROVE  CloudSpeedIsSent /\ NoTimerIsLeft
<1>1. /\ TimersOK(Cloud) /\ PendingOK(Cloud, cevents) /\ SpeedComes(Cloud, server)
      /\ Cloud.cs = cs /\ Cloud.cc = cc /\ Cloud.asked = asked /\ Cloud.past = cpast
      /\ cc.state = "gone" => cs.shut
  BY CloudNow DEF CloudInv, CloudOK, CloudLoopOK
<1>2. NoTimerIsLeft
  BY <1>1 DEF TimersOK, NoTimerIsLeft
<1>3. CloudSpeedIsSent
  <2>1. SUFFICES ASSUME CloudAtRest, ~cpast.unsent
                 PROVE  /\ ~cc.pendingPlay /\ ~cc.pendingSpeed /\ ~cc.pendingPosition
                        /\ cpast.refused \/ cpast.moved \/ server.scale = cc.speed
    BY DEF CloudSpeedIsSent
  <2>2. asked = <<>> /\ cevents = <<>> /\ cc.state = "Streaming"
    BY <2>1 DEF CloudAtRest
  <2>3. Len(asked) = 0 /\ Len(cevents) = 0
    BY <2>2, EmptySeq
  <2>4. ~cc.pendingPlay /\ ~cc.pendingSpeed /\ ~cc.pendingPosition
    BY <1>1, <2>1, <2>2, <2>3 DEF PendingOK
  <2>5. cpast.refused \/ cpast.moved \/ server.scale = cc.speed
    BY <1>1, <2>1, <2>2, <2>3, <2>4 DEF SpeedComes, ScaleComes
  <2> QED
    BY <2>4, <2>5
<1> QED
  BY <1>2, <1>3

------------------------------------------------------------------------------
(* The film of the gateway: its state *)

HnStates == HnSessionIsUp \cup {"WaitForLoad", "PreparingToView", "SessionPending"}

HnZapperStates == {"Idle", "Stop", "Suspended", "WaitForTuner", "WaitSourceReady", "TunerLocked"}

HnEvents == {"SetupResp", "SessionError", "PlayResp", "PlayDone", "StreamError", "ReleaseResp",
             "StopController"}

ThreadEvents == {"Play", "Exit", "TunerLocked", "TunerLost", "TunerRestored", "PSIReady",
                 "PSIUpdate", "TimeOut"}

FilmPmts == {pmt \in [audio : SUBSET Nat, video : SUBSET Nat, music : BOOLEAN] :
                IsFiniteSet(pmt.audio) /\ IsFiniteSet(pmt.video)}

FilmServers == [st : {"none", "open", "started"},
                pids : SUBSET [type : {"audio", "clock", "music", "video"}, n : Nat],
                psi : BOOLEAN, pmt : BOOLEAN, cci : CCIBytes \cup {"nothing"}]

Films == [state : HnStates, zst : HnZapperStates, psi : {"none", "reading", "read", "failed"},
          pmt : FilmPmts, srv : FilmServers, ca : BOOLEAN, cci : CCIBytes, given : CCIBytes,
          thread : {"none", "runs", "ended"}, active : BOOLEAN, retries : Nat,
          holds : {"nothing", "starting", "injecting"},
          phase : {"up", "stopped", "ejecting", "gone"}]

FilmPasts == [told : {"nothing", "problem", "lost", "end", "restored"}, unreported : BOOLEAN,
              served : BOOLEAN, released : BOOLEAN, upset : BOOLEAN, revived : BOOLEAN,
              raced : BOOLEAN, tunerLeft : BOOLEAN, byte : CCIBytes]

\* A film has no channel of another kind.
FilmSources == [kind : {"none", "digital"}, loaded : BOOLEAN, registered : BOOLEAN,
                mTuneParamSet : BOOLEAN, connected : BOOLEAN,
                mState : {"Idle", "Loading", "Known", "Changed", "Unavailable"},
                requested : BOOLEAN, granted : BOOLEAN,
                mOpened : BOOLEAN, mStarted : BOOLEAN, locked : BOOLEAN,
                tuner : {"none", "asked", "denied", "held", "revoked"},
                answer : {"none", "Granted", "Revoked", "OkToRetry"}]

\* What the source of a film and ResMon have of each other.
SourceAgrees(src) ==
    /\ src.mOpened => src.granted
    /\ src.granted => src.requested /\ src.tuner \in {"held", "revoked"}
    /\ src.tuner # "none" => src.requested
    /\ src.tuner = "revoked" => src.granted
    /\ src.answer = "Granted" => src.tuner = "held" /\ ~src.granted
    /\ src.answer = "OkToRetry" => src.tuner = "none"
    /\ src.answer # "none" => src.requested

\* Its tuning parameters are known before it is opened.
FilmSource(src) ==
    /\ src \in FilmSources /\ SourceAgrees(src)
    /\ src.loaded /\ src.mTuneParamSet /\ src.kind = "digital"

FilmTyped ==
    /\ hn \in Films /\ past \in FilmPasts
    /\ rf = NoSource \/ FilmSource(rf)
    /\ hnq \in Seq(HnEvents) /\ threadq \in Seq(ThreadEvents) /\ cam \in Seq(CCIBytes)
    /\ owed \subseteq {"setup", "play", "release"}

------------------------------------------------------------------------------
(* The film of the gateway: the invariant *)

Has(q, e) == \E i \in 1..Len(q) : q[i] = e

\* The bytes that are queued end in the CAM's last; the source that streams has
\* the film's, and so has the thread that gives it one.
FilmBytes ==
    /\ hn.phase # "gone" =>
          past.byte = IF cam = <<>> THEN hn.cci ELSE cam[Len(cam)]
    /\ ~past.raced =>
          /\ hn.srv.st = "started" => hn.srv.cci = hn.cci
          /\ hn.holds = "injecting" => hn.given = hn.cci

\* A film without a thread never had a stream; one that is gone has no source
\* its thread could stream from; one that is not up is set up and streams only
\* after what the property excepts.
FilmLeft ==
    /\ ~past.tunerLeft
    /\ hn.thread = "none" => hn.srv = NoServer /\ hn.holds = "nothing"
    /\ hn.phase = "gone" =>
          /\ hn.srv = NoServer /\ hn.holds = "nothing"
          /\ hn.thread = "none" \/ rf = NoSource
    /\ hn.phase # "up" =>
          /\ hn.ca /\ hn.holds = "nothing" => past.revived
          /\ hn.state = "SessionPending" => past.upset
    /\ past.served => \/ past.released \/ past.upset
                      \/ (hn.phase = "up" /\ hn.state \in HnSessionIsUp)

\* What makes the thread tune, of which there is one at a time.
Tunes == {"Play", "TunerRestored"}
TunesDue(q) == \E i \in 1..Len(q) : q[i] \in Tunes
TunesOnce(q) == \A i, j \in 1..Len(q) : q[i] \in Tunes /\ q[j] \in Tunes => i = j

Answered == past.told \in {"problem", "lost", "end"}

\* Before the session is up the film has neither a source nor a thread.
FilmIsSetUp ==
    /\ hn.state \in {"WaitForLoad", "PreparingToView", "SessionPending"}
    /\ hn.thread = "none" /\ rf = NoSource /\ threadq = <<>>
    /\ hn.psi = "none" /\ hn.zst \in {"Idle", "Suspended"}
    /\ owed \subseteq {"setup"}
    /\ \A i \in 1..Len(hnq) : hnq[i] \in {"SetupResp", "SessionError"}
    /\ hnq # <<>> => owed = {} /\ Len(hnq) = 1 /\ hn.state = "SessionPending"
    /\ "setup" \in owed => hn.state = "SessionPending"
    /\ hn.state = "SessionPending" => "setup" \in owed \/ hnq # <<>> \/ Answered

\* Untouched by the thread, it waits for the stream server.
FilmWaitsForPlay ==
    /\ "play" \in owed \/ Has(hnq, "PlayResp") \/ Has(hnq, "StreamError")
    /\ rf # NoSource /\ ~rf.requested /\ threadq = <<>>
    /\ hn.zst \in {"Stop", "Suspended"}

\* The source is tuned: what is due for it, or what it waits for.
FilmTunes ==
    /\ TunesDue(threadq) =>
          /\ rf.registered /\ rf.requested = rf.granted /\ ~rf.mOpened /\ ~rf.mStarted
          /\ hn.zst \in {"Stop", "WaitForTuner", "Suspended"}
    /\ ~rf.requested /\ ~TunesDue(threadq) =>
          hn.state = "ControlServerPending" \/ hn.zst = "Suspended" \/ Answered
    /\ ~rf.registered => rf.requested /\ ~rf.granted /\ rf.tuner = "none"
    /\ rf.tuner = "held" => rf.granted \/ rf.answer = "Granted"
    /\ rf.tuner = "revoked" => \/ rf.answer = "Revoked" \/ Has(threadq, "TunerLost")
                              \/ (hn.zst = "Suspended" /\ ~TunesDue(threadq))
    /\ rf.granted => TunesDue(threadq) \/ rf.mStarted \/ hn.zst = "Suspended"
    /\ rf.mStarted => rf.mOpened /\ hn.zst \in {"WaitSourceReady", "TunerLocked", "Suspended"}
    /\ hn.zst \in {"WaitSourceReady", "TunerLocked"} => rf.mStarted
    /\ hn.zst = "WaitSourceReady" /\ rf.locked => Has(threadq, "TunerLocked")
    /\ hn.psi # "none" => rf.mStarted
    /\ Has(threadq, "PSIReady") => hn.psi = "read"

\* It is tuned: the tables come, and with them the stream.
FilmStreams ==
    /\ hn.zst = "TunerLocked" =>
          /\ hn.psi \in {"reading", "read"}
          /\ hn.psi = "read" => \/ Has(threadq, "PSIReady") \/ hn.holds # "nothing"
                                \/ hn.srv.st = "started"
    /\ hn.psi # "none" => hn.zst \in {"TunerLocked", "Suspended"}
    /\ hn.srv.st = "started" \/ hn.holds # "nothing" =>
          /\ hn.zst = "TunerLocked" /\ hn.psi = "read" /\ hn.ca /\ hn.srv.psi /\ hn.srv.pmt
          /\ hn.srv.pids = AudioPids(hn.pmt) \cup ClockPid(hn.pmt) \cup MusicPid(hn.pmt)
                           \cup VideoPids(hn.pmt)
    /\ hn.srv.st = "started" => hn.state = "Streaming" \/ Answered

FilmIsUp ==
    /\ hn.thread = "runs" /\ hn.zst # "Idle"
    /\ hn.state \in HnSessionIsUp \ {"ServerReady"}
    /\ "setup" \notin owed /\ ~Has(hnq, "SessionError") /\ ~Has(hnq, "StopController")
    /\ ~Has(threadq, "Exit")
    /\ hn.state = "ControlServerPending" => FilmWaitsForPlay
    /\ TunesOnce(threadq)
    /\ IF rf = NoSource THEN Answered /\ hn.zst \in {"Stop", "Suspended"} ELSE FilmTunes
    /\ FilmStreams

\* As long as it is not stopped and nothing failed that is only logged.
FilmDue ==
    hn.phase = "up" /\ ~past.unreported =>
        IF past.served THEN FilmIsUp ELSE FilmIsSetUp

FilmInv == FilmTyped /\ FilmBytes /\ FilmLeft /\ FilmDue

------------------------------------------------------------------------------
(* The source of a film *)

LEMMA NewRFSourceType ==
    /\ FilmSource(NewRFSource) /\ NewRFSource # NoSource
    /\ ~NewRFSource.requested /\ NewRFSource.registered /\ NewRFSource.tuner = "none"
    /\ ~NewRFSource.granted /\ ~NewRFSource.mStarted /\ ~NewRFSource.mOpened
<1> DEFINE n == NewSource("digital")
           m == [n EXCEPT !.mTuneParamSet = TRUE]
           l == [m EXCEPT !.loaded = TRUE]
<1>1. /\ n \in FilmSources /\ SourceAgrees(n) /\ n.kind = "digital"
      /\ ~n.requested /\ n.registered /\ n.tuner = "none" /\ ~n.granted /\ ~n.mStarted
      /\ ~n.mOpened
  BY DEF NewSource, FilmSources, SourceAgrees
<1>2. NewRFSource = l
  BY DEF NewRFSource, load
<1> HIDE DEF n
<1>3. /\ m \in FilmSources /\ SourceAgrees(m) /\ m.kind = "digital" /\ m.mTuneParamSet
      /\ ~m.requested /\ m.registered /\ m.tuner = "none" /\ ~m.granted /\ ~m.mStarted
      /\ ~m.mOpened
  BY <1>1 DEF FilmSources, SourceAgrees
<1> HIDE DEF m
<1>4. /\ FilmSource(l)
      /\ ~l.requested /\ l.registered /\ l.tuner = "none" /\ ~l.granted /\ ~l.mStarted
      /\ ~l.mOpened
  BY <1>3 DEF FilmSource, FilmSources, SourceAgrees
<1>5. NoSource.kind = "none"
  BY DEF NoSource, NewSource
<1> HIDE DEF l
<1> QED
  BY <1>2, <1>4, <1>5 DEF FilmSource

LEMMA NoSourceFacts ==
    /\ NoSource.kind = "none" /\ ~NoSource.loaded /\ NoSource.tuner = "none"
    /\ NoSource.answer = "none" /\ ~NoSource.requested /\ ~NoSource.granted
    /\ ~NoSource.mStarted /\ ~NoSource.mOpened /\ NoSource.mState = "Idle" /\ ~NoSource.connected
BY DEF NoSource, NewSource

LEMMA FilmSourceIsThere ==
    ASSUME NEW src, FilmSource(src)
    PROVE  src # NoSource
BY NoSourceFacts DEF FilmSource

\* A source that is shut down has given its tuner back, not its request.
LEMMA ShutdownFacts ==
    ASSUME NEW src, FilmSource(src)
    PROVE  LET new == shutdown(src)
           IN  /\ FilmSource(new) /\ ~new.mOpened /\ ~new.mStarted /\ ~new.granted
               /\ new.requested = src.requested /\ new.registered = src.registered
               /\ new.answer = src.answer
               /\ src.granted => new.tuner = "none"
<1> DEFINE closed == [src EXCEPT !.mStarted = FALSE, !.mOpened = FALSE, !.locked = FALSE]
           idle == [closed EXCEPT !.connected = FALSE, !.mState = "Idle"]
           left == IF src.connected /\ src.mState # "Loading" THEN idle ELSE closed
           free == [left EXCEPT !.granted = FALSE, !.tuner = "none"]
<1>1. shutdown(src) = IF src.granted THEN free ELSE left
  BY DEF shutdown, releaseTunerAccess
<1>2. /\ FilmSource(closed) /\ ~closed.mOpened /\ ~closed.mStarted
      /\ closed.granted = src.granted /\ closed.tuner = src.tuner
      /\ closed.requested = src.requested /\ closed.registered = src.registered
      /\ closed.answer = src.answer
  BY DEF FilmSource, FilmSources, SourceAgrees
<1> HIDE DEF closed
<1>3. /\ FilmSource(idle) /\ ~idle.mOpened /\ ~idle.mStarted
      /\ idle.granted = src.granted /\ idle.tuner = src.tuner
      /\ idle.requested = src.requested /\ idle.registered = src.registered
      /\ idle.answer = src.answer
  BY <1>2, ZenonT(60) DEF FilmSource, FilmSources, SourceAgrees
<1> HIDE DEF idle
<1>4. /\ FilmSource(left) /\ ~left.mOpened /\ ~left.mStarted
      /\ left.granted = src.granted /\ left.tuner = src.tuner
      /\ left.requested = src.requested /\ left.registered = src.registered
      /\ left.answer = src.answer
  BY <1>2, <1>3
<1> HIDE DEF left
<1>5. src.granted =>
         /\ FilmSource(free) /\ ~free.mOpened /\ ~free.mStarted /\ ~free.granted
         /\ free.tuner = "none"
         /\ free.requested = src.requested /\ free.registered = src.registered
         /\ free.answer = src.answer
  BY <1>4 DEF FilmSource, FilmSources, SourceAgrees
<1> HIDE DEF free
<1> QED
  BY <1>1, <1>4, <1>5

\* Deleted, it has left nothing with ResMon.
LEMMA DeleteFacts ==
    ASSUME NEW src, src = NoSource \/ FilmSource(src)
    PROVE  delete(src).tuner = "none"
<1>1. CASE src = NoSource
  <2>1. [src EXCEPT !.mState = "Idle"] = src
    BY <1>1 DEF NoSource, NewSource
  <2>2. shutdown(src).tuner = "none"
    BY <1>1 DEF shutdown, NoSource, NewSource
  <2> QED
    BY <1>1, <2>1, <2>2, NoSourceFacts DEF delete
<1>2. CASE FilmSource(src)
  <2> DEFINE idle == [src EXCEPT !.mState = "Idle"]
             down == shutdown(idle)
  <2>1. FilmSource(idle) /\ idle.requested = src.requested
    BY <1>2 DEF FilmSource, FilmSources, SourceAgrees
  <2>2. delete(src) = IF src.requested THEN cancelTunerAccess(down) ELSE down
    BY DEF delete
  <2> HIDE DEF idle
  <2>3. FilmSource(down) /\ down.requested = src.requested
    BY <2>1, ShutdownFacts
  <2> HIDE DEF down
  <2> QED
    BY <2>2, <2>3 DEF cancelTunerAccess, FilmSource, FilmSources, SourceAgrees
<1> QED
  BY <1>1, <1>2

LEMMA TuneFacts ==
    ASSUME NEW src, FilmSource(src), src.requested, src.granted, NEW o \in tune(src)
    PROVE  /\ FilmSource(o.src) /\ o.status \in {"Ok", "BadSource"}
           /\ ~src.mOpened =>
                 \/ /\ o.status = "Ok" /\ o.src.mOpened /\ ~o.src.mStarted /\ o.src.requested
                    /\ o.src.granted /\ o.src.tuner = src.tuner /\ o.src.answer = src.answer
                    /\ o.src.registered = src.registered /\ ~o.src.locked
                 \/ /\ o.status = "BadSource" /\ ~o.src.mOpened /\ ~o.src.mStarted
                    /\ o.src.requested /\ ~o.src.granted /\ o.src.tuner = "none"
                    /\ o.src.answer = src.answer
<1> DEFINE stopped == [src EXCEPT !.mStarted = FALSE, !.locked = FALSE]
           opened == [stopped EXCEPT !.mOpened = TRUE]
           free == [src EXCEPT !.granted = FALSE, !.tuner = "none"]
           off == [free EXCEPT !.registered = FALSE]
<1>1. /\ FilmSource(stopped) /\ ~stopped.mStarted /\ stopped.granted /\ stopped.requested
      /\ stopped.tuner = src.tuner /\ stopped.answer = src.answer
      /\ stopped.registered = src.registered /\ ~stopped.locked
  BY DEF FilmSource, FilmSources, SourceAgrees
<1>2. tune(src) = IF src.mOpened
                  THEN IF src.mStarted
                         THEN {Outcome("Ok", opened), Outcome("BadSource", src),
                               Outcome("BadSource", shutdown(stopped))}
                         ELSE {Outcome("BadSource", shutdown(src))}
                  ELSE {Outcome("Ok", opened), Outcome("BadSource", shutdown(opened)),
                        Outcome("BadSource", shutdown(off))}
  BY DEF tune, releaseTunerAccess
<1> HIDE DEF stopped
<1>3. /\ FilmSource(opened) /\ opened.mOpened /\ ~opened.mStarted /\ opened.granted
      /\ opened.requested /\ opened.tuner = src.tuner /\ opened.answer = src.answer
      /\ opened.registered = src.registered /\ ~opened.locked
  BY <1>1 DEF FilmSource, FilmSources, SourceAgrees
<1> HIDE DEF opened
<1>4. CASE src.mOpened
  <2>1. \/ o = Outcome("Ok", opened) \/ o = Outcome("BadSource", src)
        \/ o = Outcome("BadSource", shutdown(stopped)) \/ o = Outcome("BadSource", shutdown(src))
    BY <1>2, <1>4
  <2>2. FilmSource(shutdown(stopped)) /\ FilmSource(shutdown(src))
    BY <1>1, ShutdownFacts
  <2> QED
    BY <1>3, <1>4, <2>1, <2>2 DEF Outcome
<1>5. CASE ~src.mOpened
  <2>1. /\ FilmSource(off) /\ ~off.granted /\ off.requested /\ off.tuner = "none"
        /\ off.answer = src.answer
    <3>1. /\ FilmSource(free) /\ ~free.granted /\ free.requested /\ free.tuner = "none"
          /\ free.answer = src.answer
      BY <1>5 DEF FilmSource, FilmSources, SourceAgrees
    <3> HIDE DEF free
    <3> QED
      BY <3>1 DEF FilmSource, FilmSources, SourceAgrees
  <2>2. shutdown(off).tuner = "none"
    <3>1. ~off.granted /\ off.tuner = "none" /\ off \in FilmSources
      BY <2>1 DEF FilmSource
    <3> HIDE DEF off
    <3> QED
      BY <3>1 DEF shutdown, FilmSources
  <2> HIDE DEF off
  <2>3. \/ o = Outcome("Ok", opened) \/ o = Outcome("BadSource", shutdown(opened))
        \/ o = Outcome("BadSource", shutdown(off))
    BY <1>2, <1>5
  <2>4. CASE o = Outcome("Ok", opened)
    BY <1>3, <2>4 DEF Outcome
  <2>5. CASE o = Outcome("BadSource", shutdown(opened))
    BY <1>3, <2>5, ShutdownFacts DEF Outcome
  <2>6. CASE o = Outcome("BadSource", shutdown(off))
    BY <2>1, <2>2, <2>6, ShutdownFacts DEF Outcome
  <2> QED
    BY <2>3, <2>4, <2>5, <2>6
<1> QED
  BY <1>4, <1>5

\* A source that may tune asks for a tuner or uses the one it was given.
LEMMA OpenFacts ==
    ASSUME NEW src, FilmSource(src), NEW o \in open(src)
    PROVE  /\ FilmSource(o.src) /\ o.status \in {"Ok", "WaitForTuner", "BadSource", "Error"}
           /\ ~src.requested =>
                 \/ /\ o.status = "WaitForTuner" /\ o.src.requested /\ ~o.src.granted
                    /\ o.src.tuner = "asked" /\ o.src.answer = src.answer
                    /\ o.src.registered = src.registered /\ o.src.mStarted = src.mStarted
                    /\ ~o.src.mOpened
                 \/ o.status = "Error" /\ o.src = src
           /\ src.requested /\ src.granted /\ ~src.mOpened =>
                 \/ /\ o.status = "Ok" /\ o.src.mOpened /\ ~o.src.mStarted /\ o.src.requested
                    /\ o.src.granted /\ o.src.tuner = src.tuner /\ o.src.answer = src.answer
                    /\ o.src.registered = src.registered /\ ~o.src.locked
                 \/ /\ o.status = "BadSource" /\ ~o.src.mOpened /\ ~o.src.mStarted
                    /\ o.src.requested /\ ~o.src.granted /\ o.src.tuner = "none"
                    /\ o.src.answer = src.answer
<1>1. o \in access(src)
  <2>1. getTuningParams(src) = {Outcome("Ok", src)}
    BY DEF getTuningParams, FilmSource
  <2>2. PICK params \in getTuningParams(src) :
           o \in IF params.status = "Ok" THEN access(params.src) ELSE {params}
    BY DEF open
  <2> QED
    BY <2>1, <2>2 DEF Outcome
<1> DEFINE asks == [src EXCEPT !.requested = TRUE, !.tuner = "asked"]
<1>2. src.requested \in BOOLEAN /\ src.granted \in BOOLEAN /\ src.tuner \in {"none", "asked", "denied", "held", "revoked"}
  BY DEF FilmSource, FilmSources
<1>3. CASE ~src.requested
  <2>1. ~src.granted /\ ~src.mOpened /\ ~src.granted /\ src.tuner = "none"
    BY <1>2, <1>3 DEF FilmSource, SourceAgrees
  <2>2. o \in {Outcome("WaitForTuner", asks), Outcome("Error", src)}
    BY <1>1, <1>3, <2>1 DEF access
  <2>3. asks \in FilmSources /\ asks.requested /\ asks.tuner = "asked"
        /\ asks.granted = src.granted /\ asks.answer = src.answer /\ asks.mOpened = src.mOpened
        /\ asks.mStarted = src.mStarted /\ asks.registered = src.registered
        /\ asks.loaded = src.loaded /\ asks.mTuneParamSet = src.mTuneParamSet
        /\ asks.kind = src.kind
    BY DEF FilmSource, FilmSources
  <2> HIDE DEF asks
  <2>4. FilmSource(asks)
    BY <1>3, <2>1, <2>3 DEF FilmSource, SourceAgrees
  <2> QED
    BY <1>3, <2>1, <2>2, <2>3, <2>4 DEF Outcome
<1>4. CASE src.requested /\ ~src.granted
  <2>1. o = Outcome("WaitForTuner", src)
    BY <1>1, <1>4 DEF access
  <2> QED
    BY <1>4, <2>1 DEF Outcome
<1>5. CASE src.requested /\ src.granted
  <2>1. o \in tune(src)
    BY <1>1, <1>5 DEF access
  <2> QED
    BY <1>5, <2>1, TuneFacts
<1> QED
  BY <1>2, <1>3, <1>4, <1>5

LEMMA StartFacts ==
    ASSUME NEW src, FilmSource(src), NEW new \in start(src)
    PROVE  /\ FilmSource(new) /\ new.mStarted \in BOOLEAN
           /\ src.mOpened /\ new.mStarted =>
                 /\ new.mOpened /\ new.requested = src.requested /\ new.granted = src.granted
                 /\ new.tuner = src.tuner /\ new.answer = src.answer
                 /\ new.registered = src.registered /\ new.locked = src.locked
<1> DEFINE starts == [src EXCEPT !.mStarted = TRUE]
<1>1. /\ FilmSource(starts)
      /\ starts.mOpened = src.mOpened /\ starts.requested = src.requested
      /\ starts.granted = src.granted /\ starts.tuner = src.tuner /\ starts.answer = src.answer
      /\ starts.registered = src.registered /\ starts.locked = src.locked
  BY DEF FilmSource, FilmSources, SourceAgrees
<1>2. new \in {starts, shutdown(src), src}
  BY DEF start
<1> HIDE DEF starts
<1>3. FilmSource(new)
  BY <1>1, <1>2, ShutdownFacts
<1>4. new.mStarted \in BOOLEAN
  BY <1>3 DEF FilmSource, FilmSources
<1> QED
  BY <1>1, <1>2, <1>3, <1>4, ShutdownFacts

LEMMA ResMonFacts ==
    ASSUME NEW src, FilmSource(src)
    PROVE  /\ CanGrant(src) => FilmSource(grant(src)) /\ FilmSource(deny(src))
           /\ CanRevoke(src) => FilmSource(revoke(src))
           /\ CanTellToRetry(src) => FilmSource(tellToRetry(src))
           /\ src.answer # "none" => FilmSource(resourceManagerCallback(src))
<1>1. CanGrant(src) => FilmSource(grant(src))
  BY DEF CanGrant, grant, FilmSource, FilmSources, SourceAgrees
<1>2. CanGrant(src) => FilmSource(deny(src))
  BY DEF CanGrant, deny, FilmSource, FilmSources, SourceAgrees
<1>3. CanRevoke(src) => FilmSource(revoke(src))
  BY DEF CanRevoke, revoke, FilmSource, FilmSources, SourceAgrees
<1>4. CanTellToRetry(src) => FilmSource(tellToRetry(src))
  BY DEF CanTellToRetry, tellToRetry, FilmSource, FilmSources, SourceAgrees
<1>5. ASSUME src.answer # "none" PROVE FilmSource(resourceManagerCallback(src))
  <2> DEFINE taken == [src EXCEPT !.answer = "none"]
  <2>1. FilmSource(taken)
    BY DEF FilmSource, FilmSources, SourceAgrees
  <2>2. CASE ~CallbackSet(src)
    BY <2>1, <2>2 DEF resourceManagerCallback
  <2>3. CASE CallbackSet(src) /\ src.answer = "OkToRetry"
    BY <2>3 DEF resourceManagerCallback, FilmSource, FilmSources, SourceAgrees
  <2>4. CASE CallbackSet(src) /\ src.answer = "Granted"
    BY <2>4 DEF resourceManagerCallback, FilmSource, FilmSources, SourceAgrees
  <2>5. CASE CallbackSet(src) /\ src.answer = "Revoked"
    <3>1. resourceManagerCallback(src) = [taken EXCEPT !.mTuneParamSet = @ /\ ~isSDV(src)]
      BY <2>5 DEF resourceManagerCallback
    <3>2. ~isSDV(src)
      BY DEF isSDV, FilmSource
    <3>3. [taken EXCEPT !.mTuneParamSet = @ /\ ~isSDV(src)] = taken
      BY <3>2 DEF FilmSource, FilmSources
    <3> QED
      BY <2>1, <3>1, <3>3
  <2>6. src.answer \in {"Granted", "Revoked", "OkToRetry"}
    BY <1>5 DEF FilmSource, FilmSources
  <2> QED
    BY <2>2, <2>3, <2>4, <2>5, <2>6
<1> QED
  BY <1>1, <1>2, <1>3, <1>4, <1>5

------------------------------------------------------------------------------
(* The queues of a film *)

LEMMA QueuesFacts ==
    ASSUME NEW S, NEW q \in Seq(S), NEW e \in S
    PROVE  /\ Append(q, e) \in Seq(S) /\ Append(q, e) # <<>>
           /\ \A x : Has(Append(q, e), x) <=> Has(q, x) \/ x = e
           /\ TunesDue(Append(q, e)) <=> TunesDue(q) \/ e \in Tunes
           /\ TunesOnce(q) /\ (TunesDue(q) => e \notin Tunes) => TunesOnce(Append(q, e))
           /\ Append(q, e)[Len(Append(q, e))] = e
<1>1. /\ Append(q, e) \in Seq(S) /\ Len(q) \in Nat /\ Len(Append(q, e)) = Len(q) + 1
      /\ \A i \in 1..Len(q) : Append(q, e)[i] = q[i] /\ q[i] \in S /\ i \in 1..Len(Append(q, e))
      /\ Append(q, e)[Len(q) + 1] = e
      /\ Len(q) + 1 \in 1..Len(Append(q, e))
      /\ \A i \in 1..Len(Append(q, e)) : i \in 1..Len(q) \/ i = Len(q) + 1
  BY AppendFacts
<1>2. ASSUME NEW x PROVE Has(Append(q, e), x) <=> Has(q, x) \/ x = e
  BY <1>1 DEF Has
<1>3. TunesDue(Append(q, e)) <=> TunesDue(q) \/ e \in Tunes
  BY <1>1 DEF TunesDue
<1>4. TunesOnce(q) /\ (TunesDue(q) => e \notin Tunes) => TunesOnce(Append(q, e))
  BY <1>1 DEF TunesOnce, TunesDue
<1>5. Append(q, e) # <<>> /\ Append(q, e)[Len(Append(q, e))] = e
  BY <1>1, EmptySeq
<1> QED
  BY <1>1, <1>2, <1>3, <1>4, <1>5

LEMMA EmptyFacts ==
    ASSUME NEW S
    PROVE  /\ <<>> \in Seq(S) /\ Len(<<>>) = 0
           /\ \A x : ~Has(<<>>, x)
           /\ ~TunesDue(<<>>) /\ TunesOnce(<<>>)
<1>1. <<>> \in Seq(S) /\ Len(<<>>) = 0
  BY EmptySeq
<1> QED
  BY <1>1 DEF Has, TunesDue, TunesOnce

LEMMA TakesFacts ==
    ASSUME NEW S, NEW q \in Seq(S), q # <<>>
    PROVE  /\ Tail(q) \in Seq(S) /\ Head(q) \in S
           /\ \A x : Has(q, x) <=> Has(Tail(q), x) \/ x = Head(q)
           /\ TunesDue(q) <=> TunesDue(Tail(q)) \/ Head(q) \in Tunes
           /\ TunesOnce(q) => /\ TunesOnce(Tail(q))
                              /\ Head(q) \in Tunes => ~TunesDue(Tail(q))
           /\ Len(q) = 1 => Tail(q) = <<>>
<1>1. /\ Tail(q) \in Seq(S) /\ Len(q) \in Nat \ {0} /\ Len(Tail(q)) = Len(q) - 1
      /\ Head(q) = q[1] /\ q[1] \in S /\ 1 \in 1..Len(q)
      /\ \A i \in 1..Len(Tail(q)) : Tail(q)[i] = q[i + 1] /\ i + 1 \in 1..Len(q)
      /\ \A i \in 2..Len(q) : i - 1 \in 1..Len(Tail(q)) /\ Tail(q)[i - 1] = q[i]
      /\ \A i \in 1..Len(q) : i = 1 \/ i \in 2..Len(q)
  BY TailFacts
<1>2. ASSUME NEW x PROVE Has(q, x) <=> Has(Tail(q), x) \/ x = Head(q)
  <2>1. Has(q, x) => Has(Tail(q), x) \/ x = Head(q)
    BY <1>1 DEF Has
  <2>2. Has(Tail(q), x) => Has(q, x)
    BY <1>1 DEF Has
  <2>3. x = Head(q) => Has(q, x)
    BY <1>1 DEF Has
  <2> QED
    BY <2>1, <2>2, <2>3
<1>3. TunesDue(q) <=> TunesDue(Tail(q)) \/ Head(q) \in Tunes
  <2>1. TunesDue(q) => TunesDue(Tail(q)) \/ Head(q) \in Tunes
    BY <1>1 DEF TunesDue
  <2>2. TunesDue(Tail(q)) => TunesDue(q)
    BY <1>1 DEF TunesDue
  <2>3. Head(q) \in Tunes => TunesDue(q)
    BY <1>1 DEF TunesDue
  <2> QED
    BY <2>1, <2>2, <2>3
<1>4. ASSUME TunesOnce(q)
      PROVE  TunesOnce(Tail(q)) /\ (Head(q) \in Tunes => ~TunesDue(Tail(q)))
  <2>1. ASSUME NEW i \in 1..Len(Tail(q)), NEW j \in 1..Len(Tail(q)),
               Tail(q)[i] \in Tunes, Tail(q)[j] \in Tunes
        PROVE  i = j
    <3>1. i + 1 = j + 1
      BY <1>1, <1>4, <2>1 DEF TunesOnce
    <3> QED
      BY <1>1, <3>1
  <2>2. ASSUME Head(q) \in Tunes, NEW i \in 1..Len(Tail(q)), Tail(q)[i] \in Tunes
        PROVE  FALSE
    <3>1. i + 1 = 1
      BY <1>1, <1>4, <2>2 DEF TunesOnce
    <3> QED
      BY <1>1, <3>1
  <2> QED
    BY <2>1, <2>2 DEF TunesOnce, TunesDue
<1>5. Len(q) = 1 => Tail(q) = <<>>
  BY <1>1, EmptySeq
<1> QED
  BY <1>1, <1>2, <1>3, <1>4, <1>5

\* The thread takes an event.
LEMMA ThreadTakes ==
    ASSUME FilmTyped, NEW e, HnTakes(e)
    PROVE  /\ hn.thread = "runs" /\ hn.holds = "nothing" /\ threadq # <<>> /\ Head(threadq) = e
           /\ Tail(threadq) \in Seq(ThreadEvents)
           /\ \A x : Has(threadq, x) <=> Has(Tail(threadq), x) \/ x = e
           /\ TunesDue(threadq) <=> TunesDue(Tail(threadq)) \/ e \in Tunes
           /\ TunesOnce(threadq) => /\ TunesOnce(Tail(threadq))
                                    /\ e \in Tunes => ~TunesDue(Tail(threadq))
<1>1. hn.thread = "runs" /\ hn.holds = "nothing" /\ threadq # <<>> /\ Head(threadq) = e
  BY DEF HnTakes
<1>2. threadq \in Seq(ThreadEvents)
  BY DEF FilmTyped
<1> QED
  BY <1>1, <1>2, TakesFacts

\* The loop takes one.
LEMMA LoopTakes ==
    ASSUME FilmTyped, NEW e, HnHandles(e)
    PROVE  /\ hnq # <<>> /\ hn.active /\ hn.holds = "nothing" /\ hn.phase # "gone"
           /\ hnq' \in Seq(HnEvents)
           /\ \A x : Has(hnq, x) <=> Has(hnq', x) \/ x = e
           /\ Len(hnq) = 1 => hnq' = <<>>
           /\ hnq[1] = e /\ 1 \in 1..Len(hnq)
<1>1. /\ hnq # <<>> /\ Head(hnq) = e /\ hnq' = Tail(hnq)
      /\ hn.active /\ hn.holds = "nothing" /\ hn.phase # "gone"
  BY DEF HnHandles
<1>2. hnq \in Seq(HnEvents)
  BY DEF FilmTyped
<1>3. hnq[1] = e /\ 1 \in 1..Len(hnq)
  BY <1>1, <1>2, TailFacts
<1>4. /\ Tail(hnq) \in Seq(HnEvents)
      /\ \A x : Has(hnq, x) <=> Has(Tail(hnq), x) \/ x = e
      /\ Len(hnq) = 1 => Tail(hnq) = <<>>
  BY <1>1, <1>2, TakesFacts
<1> QED
  BY <1>1, <1>3, <1>4

------------------------------------------------------------------------------
(* The calls of the server *)

LEMMA NoServerType ==
    /\ NoServer \in FilmServers /\ NoServer.st = "none"
    /\ OpenServer \in FilmServers /\ OpenServer.st = "open"
BY DEF NoServer, OpenServer, FilmServers

LEMMA HnLoadKeeps ==
    ASSUME FilmInv, HnLoad
    PROVE  FilmInv'
<1>1. /\ hn' = [hn EXCEPT !.state = "PreparingToView", !.active = TRUE]
      /\ UNCHANGED <<rf, hnq, threadq, cam, owed, past>>
      /\ hn.state = "WaitForLoad" /\ hn.phase = "up"
      /\ hn \in Films /\ FilmTyped /\ FilmBytes /\ FilmLeft /\ FilmDue
  BY DEF HnLoad, HnCall, FilmInv, FilmTyped
<1>2. FilmTyped'
  <2>1. hn' \in Films
    BY <1>1 DEF Films, HnStates
  <2> QED
    BY <1>1, <2>1 DEF FilmTyped
<1>3. FilmBytes'
  BY <1>1 DEF FilmBytes, Films
<1>4. FilmLeft'
  BY <1>1 DEF FilmLeft, Films, HnSessionIsUp
<1>5. FilmDue'
  <2>1. ~past.unreported => ~past.served /\ FilmIsSetUp
    BY <1>1 DEF FilmDue, FilmIsUp, HnSessionIsUp
  <2>2. ~past.unreported => FilmIsSetUp'
    BY <1>1, <2>1 DEF FilmIsSetUp, Films, Answered
  <2> QED
    BY <1>1, <2>1, <2>2 DEF FilmDue
<1> QED
  BY <1>2, <1>3, <1>4, <1>5 DEF FilmInv

LEMMA HnPlayKeeps ==
    ASSUME FilmInv, HnPlay
    PROVE  FilmInv'
<1>1. /\ UNCHANGED <<rf, hnq, threadq, cam>>
      /\ hn.state = "PreparingToView" /\ hn.phase = "up"
      /\ hn \in Films /\ past \in FilmPasts /\ FilmTyped /\ FilmBytes /\ FilmLeft /\ FilmDue
  BY DEF HnPlay, HnCall, FilmInv, FilmTyped
<1>2. ~past.unreported => ~past.served /\ FilmIsSetUp
  BY <1>1 DEF FilmDue, FilmIsUp, HnSessionIsUp
<1>3. CASE /\ hn' = [hn EXCEPT !.state = "SessionPending"]
           /\ owed' = owed \cup {"setup"} /\ UNCHANGED past
  <2>1. FilmTyped'
    <3>1. hn' \in Films
      BY <1>1, <1>3 DEF Films, HnStates
    <3> QED
      BY <1>1, <1>3, <3>1 DEF FilmTyped
  <2>2. FilmBytes'
    BY <1>1, <1>3 DEF FilmBytes, Films
  <2>3. FilmLeft'
    BY <1>1, <1>3 DEF FilmLeft, Films, HnSessionIsUp
  <2>4. ~past.unreported => FilmIsSetUp'
    BY <1>1, <1>2, <1>3 DEF FilmIsSetUp, Films, Answered
  <2>5. FilmDue'
    BY <1>2, <1>3, <2>4 DEF FilmDue
  <2> QED
    BY <2>1, <2>2, <2>3, <2>5 DEF FilmInv
<1>4. CASE past' = [past EXCEPT !.told = "problem"] /\ UNCHANGED <<hn, owed>>
  <2>1. FilmTyped'
    BY <1>1, <1>4 DEF FilmTyped, FilmPasts
  <2>2. FilmBytes'
    BY <1>1, <1>4 DEF FilmBytes, FilmPasts
  <2>3. FilmLeft'
    BY <1>1, <1>4 DEF FilmLeft, FilmPasts
  <2>4. FilmDue'
    BY <1>1, <1>2, <1>4 DEF FilmDue, FilmIsSetUp, Answered, FilmPasts
  <2> QED
    BY <2>1, <2>2, <2>3, <2>4 DEF FilmInv
<1> QED
  BY <1>3, <1>4 DEF HnPlay, HnTold

LEMMA HnStopKeeps ==
    ASSUME FilmInv, HnStop
    PROVE  FilmInv'
<1>1. /\ hn' = [hn EXCEPT !.psi = "none", !.ca = FALSE, !.zst = "Stop", !.state = "StopPending",
                          !.phase = "stopped"]
      /\ UNCHANGED <<rf, hnq, cam>> /\ threadq' = <<>>
      /\ owed' \subseteq owed \cup {"release"}
      /\ hn.phase = "up" /\ hn.holds = "nothing"
      /\ hn \in Films /\ past \in FilmPasts /\ FilmTyped /\ FilmBytes /\ FilmLeft
  BY DEF HnStop, HnCall, HnFree, FilmInv, FilmTyped
<1>2. PICK f : f = hn'
  OBVIOUS
<1>3. /\ f \in Films /\ f.phase = "stopped" /\ f.srv = hn.srv /\ f.cci = hn.cci /\ f.given = hn.given
      /\ f.holds = hn.holds /\ f.thread = hn.thread /\ ~f.ca /\ f.state = "StopPending"
  BY <1>1, <1>2 DEF Films, HnStates, HnSessionIsUp, HnZapperStates
<1>4. /\ past' \in FilmPasts /\ past'.byte = past.byte /\ past'.raced = past.raced
      /\ past'.tunerLeft = past.tunerLeft /\ past'.served = past.served
      /\ past'.upset = past.upset
      /\ past'.released = (past.released \/ hn.state \in HnSessionIsUp)
  <2>1. CASE hn.state \in HnSessionIsUp
    BY <1>1, <2>1 DEF HnStop, FilmPasts
  <2>2. CASE hn.state \notin HnSessionIsUp
    BY <1>1, <2>2 DEF HnStop, FilmPasts
  <2> QED
    BY <2>1, <2>2
<1>5. FilmTyped'
  BY <1>1, <1>2, <1>3, <1>4, EmptyFacts DEF FilmTyped
<1>6. FilmBytes'
  BY <1>1, <1>2, <1>3, <1>4 DEF FilmBytes
<1>7. FilmLeft'
  BY <1>1, <1>2, <1>3, <1>4 DEF FilmLeft
<1>8. FilmDue'
  BY <1>2, <1>3 DEF FilmDue
<1> QED
  BY <1>5, <1>6, <1>7, <1>8 DEF FilmInv

\* A source that is released streams no more.
LEMMA ReleaseServerFacts ==
    ASSUME NEW s \in FilmServers
    PROVE  ReleaseServer(s) \in FilmServers /\ ReleaseServer(s).st # "started"
           /\ (s = NoServer => ReleaseServer(s) = NoServer)
BY NoServerType DEF ReleaseServer, FilmServers

LEMMA HnStopStreamingKeeps ==
    ASSUME FilmInv, HnStopStreaming
    PROVE  FilmInv'
<1>1. /\ hn' = [hn EXCEPT !.zst = "Suspended", !.srv = ReleaseServer(hn.srv)]
      /\ UNCHANGED <<rf, hnq, cam, owed, past>> /\ threadq' = <<>>
      /\ hn.phase = "up" /\ hn.holds = "nothing"
      /\ hn \in Films /\ past \in FilmPasts /\ FilmTyped /\ FilmBytes /\ FilmLeft /\ FilmDue
  BY DEF HnStopStreaming, HnCall, HnFree, FilmInv, FilmTyped
<1>2. PICK s : s = ReleaseServer(hn.srv)
  OBVIOUS
<1>3. s \in FilmServers /\ s.st # "started" /\ (hn.srv = NoServer => s = NoServer)
  BY <1>1, <1>2, ReleaseServerFacts DEF Films
<1>4. PICK f : f = hn'
  OBVIOUS
<1>5. /\ f \in Films /\ f.phase = hn.phase /\ f.srv = s /\ f.cci = hn.cci /\ f.given = hn.given
      /\ f.holds = hn.holds /\ f.thread = hn.thread /\ f.ca = hn.ca /\ f.state = hn.state
      /\ f.psi = hn.psi /\ f.zst = "Suspended"
  BY <1>1, <1>2, <1>3, <1>4 DEF Films, HnZapperStates
<1>6. FilmTyped'
  BY <1>1, <1>4, <1>5, EmptyFacts DEF FilmTyped
<1>7. FilmBytes'
  BY <1>1, <1>3, <1>4, <1>5 DEF FilmBytes
<1>8. FilmLeft'
  BY <1>1, <1>3, <1>4, <1>5 DEF FilmLeft
<1>9. FilmDue'
  <2>1. SUFFICES ASSUME ~past.unreported
                 PROVE  IF past.served THEN FilmIsUp' ELSE FilmIsSetUp'
    BY <1>1 DEF FilmDue
  <2>2. CASE past.served
    <3>1. FilmIsUp
      BY <1>1, <2>1, <2>2 DEF FilmDue
    <3>2. FilmStreams'
      BY <1>1, <1>3, <1>4, <1>5 DEF FilmStreams
    <3>3. hn.state = "ControlServerPending" => FilmWaitsForPlay'
      BY <1>1, <1>4, <1>5, <3>1 DEF FilmWaitsForPlay, FilmIsUp
    <3>4. CASE rf = NoSource
      BY <1>1, <1>4, <1>5, <3>1, <3>2, <3>3, <3>4, <2>2, EmptyFacts DEF FilmIsUp, Answered
    <3>5. CASE rf # NoSource
      <4>1. FilmTunes
        BY <3>1, <3>5 DEF FilmIsUp
      <4>2. FilmTunes'
        BY <1>1, <1>4, <1>5, <4>1, EmptyFacts DEF FilmTunes
      <4> QED
        BY <1>1, <1>4, <1>5, <3>1, <3>2, <3>3, <3>5, <4>2, <2>2, EmptyFacts DEF FilmIsUp
    <3> QED
      BY <3>4, <3>5
  <2>3. CASE ~past.served
    <3>1. FilmIsSetUp
      BY <1>1, <2>1, <2>3 DEF FilmDue
    <3> QED
      BY <1>1, <1>4, <1>5, <2>3, <3>1 DEF FilmIsSetUp, Answered
  <2> QED
    BY <2>2, <2>3
<1> QED
  BY <1>6, <1>7, <1>8, <1>9 DEF FilmInv

LEMMA TornDownFacts ==
    ASSUME hn \in Films
    PROVE  /\ TornDown \in Films /\ TornDown.psi = "none" /\ TornDown.srv = NoServer
           /\ TornDown.zst = "Stop" /\ TornDown.state = hn.state /\ TornDown.pmt = hn.pmt
           /\ TornDown.ca = hn.ca /\ TornDown.cci = hn.cci /\ TornDown.given = hn.given
           /\ TornDown.thread = hn.thread /\ TornDown.active = hn.active
           /\ TornDown.holds = hn.holds /\ TornDown.phase = hn.phase
<1>1. TornDown = [hn EXCEPT !.psi = "none", !.srv = NoServer, !.zst = "Stop"]
  BY DEF TornDown, DeleteServer
<1> QED
  BY <1>1, NoServerType DEF Films, HnZapperStates

LEMMA HnEjectKeeps ==
    ASSUME FilmInv, HnEject
    PROVE  FilmInv'
<1>1. /\ hn' = [hn EXCEPT !.phase = "ejecting"]
      /\ UNCHANGED <<rf, cam, owed, past>>
      /\ hn.phase = "stopped" /\ hn.holds = "nothing"
      /\ hn \in Films /\ FilmTyped /\ FilmBytes /\ FilmLeft
  BY DEF HnEject, HnFree, FilmInv, FilmTyped
<1>2. hnq' \in Seq(HnEvents) /\ threadq' \in Seq(ThreadEvents)
  <2>1. "StopController" \in HnEvents /\ "Exit" \in ThreadEvents
    BY DEF HnEvents, ThreadEvents
  <2>2. hnq \in Seq(HnEvents) /\ threadq \in Seq(ThreadEvents)
    BY <1>1 DEF FilmTyped
  <2>3. /\ Append(hnq, "StopController") \in Seq(HnEvents)
        /\ Append(threadq, "Exit") \in Seq(ThreadEvents)
    BY <2>1, <2>2, QueuesFacts
  <2> QED
    BY <2>2, <2>3 DEF HnEject
<1>3. FilmTyped'
  <2>1. hn' \in Films
    BY <1>1 DEF Films
  <2> QED
    BY <1>1, <1>2, <2>1 DEF FilmTyped
<1>4. FilmBytes'
  BY <1>1 DEF FilmBytes, Films
<1>5. FilmLeft'
  BY <1>1 DEF FilmLeft, Films
<1>6. FilmDue'
  BY <1>1 DEF FilmDue, Films
<1> QED
  BY <1>3, <1>4, <1>5, <1>6 DEF FilmInv

LEMMA HnEjectedKeeps ==
    ASSUME FilmInv, HnEjected
    PROVE  FilmInv'
<1>1. /\ UNCHANGED <<hnq, threadq, cam, owed>>
      /\ hn.phase = "ejecting" /\ hn.holds = "nothing"
      /\ hn \in Films /\ past \in FilmPasts /\ FilmTyped /\ FilmBytes /\ FilmLeft
      /\ (rf = NoSource \/ FilmSource(rf))
  BY DEF HnEjected, FilmInv, FilmTyped
<1>2. CASE hn.thread = "none"
  <2>1. hn' = [hn EXCEPT !.phase = "gone"] /\ UNCHANGED <<rf, past>>
    BY <1>2 DEF HnEjected
  <2>2. FilmTyped'
    <3>1. hn' \in Films
      BY <1>1, <2>1 DEF Films
    <3> QED
      BY <1>1, <2>1, <3>1 DEF FilmTyped
  <2>3. FilmBytes'
    BY <1>1, <2>1 DEF FilmBytes, Films
  <2>4. FilmLeft'
    BY <1>1, <1>2, <2>1 DEF FilmLeft, Films
  <2>5. FilmDue'
    BY <1>1, <2>1 DEF FilmDue, Films
  <2> QED
    BY <2>2, <2>3, <2>4, <2>5 DEF FilmInv
<1>3. CASE hn.thread # "none"
  <2>1. /\ hn' = [TornDown EXCEPT !.phase = "gone"] /\ rf' = NoSource
        /\ past' = [past EXCEPT !.tunerLeft = @ \/ delete(rf).tuner # "none"]
    BY <1>3 DEF HnEjected
  <2>2. delete(rf).tuner = "none" /\ ~past.tunerLeft
    BY <1>1, DeleteFacts DEF FilmLeft
  <2>3. past' = past
    BY <1>1, <2>1, <2>2 DEF FilmPasts
  <2>4. PICK f : f = hn'
    OBVIOUS
  <2>5. PICK t : t = TornDown
    OBVIOUS
  <2>6. /\ t \in Films /\ t.srv = NoServer /\ t.state = hn.state
        /\ t.ca = hn.ca /\ t.thread = hn.thread /\ t.holds = hn.holds
    BY <1>1, <2>5, TornDownFacts
  <2>7. /\ f \in Films /\ f.srv = NoServer /\ f.state = hn.state /\ f.phase = "gone"
        /\ f.ca = hn.ca /\ f.thread = hn.thread /\ f.holds = hn.holds
    BY <2>1, <2>4, <2>5, <2>6 DEF Films
  <2>8. FilmTyped'
    BY <1>1, <2>1, <2>3, <2>4, <2>7 DEF FilmTyped
  <2>9. FilmBytes'
    BY <1>1, <2>4, <2>7, NoServerType DEF FilmBytes
  <2>10. FilmLeft'
    BY <1>1, <2>1, <2>3, <2>4, <2>7 DEF FilmLeft
  <2>11. FilmDue'
    BY <2>4, <2>7 DEF FilmDue
  <2> QED
    BY <2>8, <2>9, <2>10, <2>11 DEF FilmInv
<1> QED
  BY <1>2, <1>3

------------------------------------------------------------------------------
(* The loop of a film *)

\* What was sent and not answered yet is not the loop's.
LEMMA LoopQuiet ==
    ASSUME FilmInv, NEW e, HnHandles(e), UNCHANGED <<rf, threadq, cam>>
    PROVE  /\ FilmTyped /\ FilmBytes /\ FilmLeft /\ hn \in Films /\ past \in FilmPasts
           /\ hn.active /\ hn.holds = "nothing" /\ hn.phase # "gone"
           /\ hnq' \in Seq(HnEvents)
           /\ hn.phase = "up" /\ ~past.unreported =>
                 /\ past.served => FilmIsUp /\ e \notin {"SessionError", "StopController"}
                 /\ ~past.served => /\ FilmIsSetUp /\ e \in {"SetupResp", "SessionError"}
                                    /\ hnq' = <<>> /\ hn.state = "SessionPending" /\ owed = {}
<1>1. FilmTyped /\ FilmBytes /\ FilmLeft /\ FilmDue /\ hn \in Films /\ past \in FilmPasts
  BY DEF FilmInv, FilmTyped
<1>2. /\ hnq # <<>> /\ hn.active /\ hn.holds = "nothing" /\ hn.phase # "gone"
      /\ hnq' \in Seq(HnEvents) /\ Has(hnq, e)
      /\ Len(hnq) = 1 => hnq' = <<>>
      /\ hnq[1] = e /\ 1 \in 1..Len(hnq)
  BY <1>1, LoopTakes
<1>3. FilmIsUp => e \notin {"SessionError", "StopController"}
  BY <1>2 DEF FilmIsUp
<1>4. FilmIsSetUp => /\ e \in {"SetupResp", "SessionError"}
                     /\ hnq' = <<>> /\ hn.state = "SessionPending" /\ owed = {}
  BY <1>2 DEF FilmIsSetUp
<1> QED
  BY <1>1, <1>2, <1>3, <1>4 DEF FilmDue

\* The film stays up when an answer is handled that it does not wait for.
LEMMA LoopStaysUp ==
    ASSUME FilmTyped, FilmIsUp, NEW e, HnHandles(e), e \notin {"PlayResp", "StreamError"},
           UNCHANGED <<hn, rf, threadq, owed>>, Answered => Answered'
    PROVE  FilmIsUp'
<1>1. \A x : Has(hnq', x) => Has(hnq, x)
  BY LoopTakes
<1>2. \A x : Has(hnq, x) /\ x # e => Has(hnq', x)
  BY LoopTakes
<1>3. hn.state = "ControlServerPending" => FilmWaitsForPlay'
  BY <1>2 DEF FilmIsUp, FilmWaitsForPlay
<1>4. FilmStreams'
  BY DEF FilmIsUp, FilmStreams
<1>5. CASE rf = NoSource
  BY <1>1, <1>3, <1>4, <1>5 DEF FilmIsUp
<1>6. CASE rf # NoSource
  <2>1. FilmTunes'
    BY <1>6 DEF FilmIsUp, FilmTunes
  <2> QED
    BY <1>1, <1>3, <1>4, <1>6, <2>1 DEF FilmIsUp
<1> QED
  BY <1>5, <1>6

\* Or when only its state moves on, to one that waits for nothing.
LEMMA LoopMovesOn ==
    ASSUME FilmTyped, FilmIsUp, NEW e, HnHandles(e), NEW s,
           s \in {"StopPending", "Stopped", "TunerPending"},
           hn' = [hn EXCEPT !.state = s], UNCHANGED <<rf, threadq, owed>>,
           \/ Answered'
           \/ hn.state \notin {"Streaming", "ControlServerPending"} /\ UNCHANGED past
    PROVE  FilmIsUp'
<1>1. \A x : Has(hnq', x) => Has(hnq, x)
  BY LoopTakes
<1>2. hn \in Films
  BY DEF FilmTyped
<1>3. PICK f : f = hn'
  OBVIOUS
<1>4. /\ f.state = s /\ f.zst = hn.zst /\ f.psi = hn.psi /\ f.srv = hn.srv /\ f.ca = hn.ca
      /\ f.holds = hn.holds /\ f.pmt = hn.pmt /\ f.thread = hn.thread
  BY <1>2, <1>3 DEF Films
<1>5. \/ Answered'
      \/ hn.state \notin {"Streaming", "ControlServerPending"} /\ (Answered => Answered')
  BY DEF Answered
<1>6. FilmStreams'
  BY <1>3, <1>4, <1>5 DEF FilmIsUp, FilmStreams
<1>7. CASE rf = NoSource
  <2>1. Answered'
    BY <1>5, <1>7 DEF FilmIsUp
  <2> QED
    BY <1>1, <1>3, <1>4, <1>6, <1>7, <2>1 DEF FilmIsUp, HnSessionIsUp
<1>8. CASE rf # NoSource
  <2>1. FilmTunes'
    BY <1>3, <1>4, <1>8, <1>5 DEF FilmIsUp, FilmTunes
  <2> QED
    BY <1>1, <1>3, <1>4, <1>6, <1>8, <1>5, <2>1 DEF FilmIsUp, HnSessionIsUp
<1> QED
  BY <1>7, <1>8

LEMMA HnIgnoresKeeps ==
    ASSUME FilmInv, NEW e, NEW states, HnIgnores(e, states),
           (e = "SetupResp" /\ states = {"SessionPending"}) \/ (e = "ReleaseResp")
    PROVE  FilmInv'
<1>1. HnHandles(e) /\ hn.state \notin states /\ UNCHANGED <<hn, rf, threadq, cam, owed, past>>
  BY DEF HnIgnores
<1>2. /\ FilmTyped /\ FilmBytes /\ FilmLeft /\ hnq' \in Seq(HnEvents)
      /\ hn.phase = "up" /\ ~past.unreported =>
            /\ past.served => FilmIsUp
            /\ ~past.served => FALSE
  BY <1>1, LoopQuiet
<1>3. FilmTyped'
  BY <1>1, <1>2 DEF FilmTyped
<1>4. FilmBytes'
  BY <1>1, <1>2 DEF FilmBytes
<1>5. FilmLeft'
  BY <1>1, <1>2 DEF FilmLeft
<1>6. Answered => Answered'
  BY <1>1 DEF Answered
<1>7. FilmIsUp => FilmIsUp'
  BY <1>1, <1>2, <1>6, LoopStaysUp
<1>8. FilmDue'
  BY <1>1, <1>2, <1>7 DEF FilmDue
<1> QED
  BY <1>3, <1>4, <1>5, <1>8 DEF FilmInv

LEMMA HnSetupRefusedKeeps ==
    ASSUME FilmInv, HnSetupRefused
    PROVE  FilmInv'
<1>1. /\ HnHandles("SetupResp") /\ hn.state = "SessionPending"
      /\ hn' = [hn EXCEPT !.state = "ServerReady"]
      /\ past' = [past EXCEPT !.unreported = TRUE, !.served = TRUE]
      /\ UNCHANGED <<rf, threadq, cam, owed>>
  BY DEF HnSetupRefused, Unreported
<1>2. /\ FilmTyped /\ FilmBytes /\ FilmLeft /\ hn \in Films /\ past \in FilmPasts
      /\ hn.holds = "nothing" /\ hn.phase # "gone" /\ hnq' \in Seq(HnEvents)
  BY <1>1, LoopQuiet
<1>3. /\ past' \in FilmPasts /\ past'.unreported /\ past'.byte = past.byte
      /\ past'.raced = past.raced /\ past'.tunerLeft = past.tunerLeft
      /\ past'.revived = past.revived /\ past'.upset = past.upset
  BY <1>1, <1>2 DEF FilmPasts
<1>4. FilmTyped'
  <2>1. hn' \in Films
    BY <1>1, <1>2 DEF Films, HnStates, HnSessionIsUp
  <2> QED
    BY <1>1, <1>2, <1>3, <2>1 DEF FilmTyped
<1>5. FilmBytes'
  BY <1>1, <1>2, <1>3 DEF FilmBytes, Films
<1>6. FilmLeft'
  BY <1>1, <1>2, <1>3 DEF FilmLeft, Films, HnSessionIsUp
<1>7. FilmDue'
  BY <1>3 DEF FilmDue
<1> QED
  BY <1>4, <1>5, <1>6, <1>7 DEF FilmInv

LEMMA HnSetupRespKeeps ==
    ASSUME FilmInv, HnSetupResp
    PROVE  FilmInv'
<1>1. PICK goes \in BOOLEAN :
         /\ past' = [past EXCEPT !.served = TRUE, !.unreported = past.unreported \/ ~goes,
                         !.tunerLeft = past.tunerLeft \/ delete(rf).tuner # "none"]
         /\ \/ /\ hn.thread = "none" /\ ~goes
               /\ hn' = [hn EXCEPT !.state = "ServerReady"]
               /\ UNCHANGED owed
            \/ /\ hn' = [hn EXCEPT !.thread = IF @ = "none" THEN "runs" ELSE @,
                                   !.zst = "Stop", !.state = "ControlServerPending"]
               /\ owed' = IF goes THEN owed \cup {"play"} ELSE owed
  BY DEF HnSetupResp
<1>2. /\ HnHandles("SetupResp") /\ hn.state = "SessionPending" /\ hn.zst \in {"Idle", "Stop"}
      /\ rf' = NewRFSource /\ UNCHANGED <<threadq, cam>>
  BY DEF HnSetupResp
<1>3. /\ FilmTyped /\ FilmBytes /\ FilmLeft /\ FilmDue /\ hn \in Films /\ past \in FilmPasts
      /\ hn.holds = "nothing" /\ hn.phase # "gone" /\ hnq' \in Seq(HnEvents)
      /\ hnq # <<>> /\ (Len(hnq) = 1 => hnq' = <<>>)
      /\ (rf = NoSource \/ FilmSource(rf))
  BY <1>2, LoopTakes DEF FilmInv, FilmTyped
<1>4. delete(rf).tuner = "none" /\ ~past.tunerLeft
  BY <1>3, DeleteFacts DEF FilmLeft
<1>5. /\ past' \in FilmPasts /\ past'.unreported = (past.unreported \/ ~goes)
      /\ past'.byte = past.byte /\ past'.served
      /\ past'.raced = past.raced /\ ~past'.tunerLeft
      /\ past'.revived = past.revived /\ past'.upset = past.upset
      /\ past'.released = past.released
  BY <1>1, <1>3, <1>4 DEF FilmPasts
<1>6. PICK f : f = hn'
  OBVIOUS
<1>7. /\ f \in Films /\ f.state \in {"ServerReady", "ControlServerPending"}
      /\ f.phase = hn.phase /\ f.srv = hn.srv /\ f.cci = hn.cci /\ f.given = hn.given
      /\ f.holds = hn.holds /\ f.ca = hn.ca /\ f.psi = hn.psi
      /\ f.thread = "none" => hn.thread = "none"
      /\ goes => f.thread # "none" /\ f.zst = "Stop" /\ f.state = "ControlServerPending"
                 /\ (hn.thread = "none" => f.thread = "runs")
      /\ goes => owed' = owed \cup {"play"}
      /\ owed' \subseteq owed \cup {"play"}
  <2>1. CASE /\ hn' = [hn EXCEPT !.state = "ServerReady"] /\ ~goes
             /\ UNCHANGED owed
    BY <1>3, <1>6, <2>1 DEF Films, HnStates, HnSessionIsUp
  <2>2. CASE /\ hn' = [hn EXCEPT !.thread = IF @ = "none" THEN "runs" ELSE @,
                                 !.zst = "Stop", !.state = "ControlServerPending"]
             /\ owed' = IF goes THEN owed \cup {"play"} ELSE owed
    BY <1>3, <1>6, <2>2, ZenonT(60) DEF Films, HnStates, HnSessionIsUp, HnZapperStates
  <2> QED
    BY <1>1, <2>1, <2>2
<1>8. FilmTyped'
  BY <1>2, <1>3, <1>5, <1>6, <1>7, NewRFSourceType DEF FilmTyped
<1>9. FilmBytes'
  BY <1>2, <1>3, <1>5, <1>6, <1>7 DEF FilmBytes
<1>10. FilmLeft'
  BY <1>2, <1>3, <1>5, <1>6, <1>7 DEF FilmLeft, HnSessionIsUp
<1>11. FilmDue'
  <2>1. SUFFICES ASSUME hn.phase = "up", ~past.unreported, goes
                 PROVE  FilmIsUp'
    BY <1>3, <1>5, <1>6, <1>7 DEF FilmDue
  <2>2. ~past.served
    BY <1>2, <1>3, <2>1 DEF FilmDue, FilmIsUp, HnSessionIsUp
  <2>3. /\ hn.thread = "none" /\ threadq = <<>> /\ owed = {} /\ hnq' = <<>> /\ hn.psi = "none"
        /\ hn.srv = NoServer
    BY <1>3, <2>1, <2>2 DEF FilmDue, FilmIsSetUp, FilmLeft
  <2>4. FilmWaitsForPlay'
    BY <1>2, <1>6, <1>7, <2>1, <2>3, NewRFSourceType DEF FilmWaitsForPlay
  <2>5. FilmTunes'
    BY <1>2, <1>6, <1>7, <2>1, <2>3, NewRFSourceType, EmptyFacts DEF FilmTunes
  <2>6. FilmStreams'
    BY <1>3, <1>6, <1>7, <2>1, <2>3, NoServerType DEF FilmStreams
  <2> QED
    BY <1>2, <1>6, <1>7, <2>1, <2>3, <2>4, <2>5, <2>6, NewRFSourceType, EmptyFacts
       DEF FilmIsUp, HnSessionIsUp
<1> QED
  BY <1>8, <1>9, <1>10, <1>11 DEF FilmInv

LEMMA HnPlayRespKeeps ==
    ASSUME FilmInv, HnPlayResp
    PROVE  FilmInv'
<1>1. PICK refused \in BOOLEAN :
         LET p == IF refused THEN HnTold("problem") ELSE past
             plays == hn.zst \in {"Idle", "Stop"}
         IN  IF hn.state = "ControlServerPending"
             THEN /\ hn' = [hn EXCEPT !.state = "TunerPending"]
                  /\ threadq' = IF plays THEN Append(threadq, "Play") ELSE threadq
                  /\ past' = [p EXCEPT !.unreported = @ \/ ~plays]
             ELSE past' = p /\ UNCHANGED <<hn, threadq>>
  BY DEF HnPlayResp
<1>2. HnHandles("PlayResp") /\ UNCHANGED <<rf, cam, owed>>
  BY DEF HnPlayResp
<1>3. /\ FilmTyped /\ FilmBytes /\ FilmLeft /\ FilmDue /\ hn \in Films /\ past \in FilmPasts
      /\ hn.holds = "nothing" /\ hn.phase # "gone" /\ hnq' \in Seq(HnEvents)
      /\ hnq[1] = "PlayResp" /\ 1 \in 1..Len(hnq)
      /\ threadq \in Seq(ThreadEvents)
      /\ \A x : Has(hnq', x) => Has(hnq, x)
  BY <1>2, LoopTakes DEF FilmInv, FilmTyped
<1>4. hn.phase = "up" /\ ~past.unreported => past.served /\ FilmIsUp
  BY <1>3 DEF FilmDue, FilmIsSetUp
<1>5. PICK p : p = IF refused THEN HnTold("problem") ELSE past
  OBVIOUS
<1>6. /\ p \in FilmPasts /\ p.unreported = past.unreported /\ p.byte = past.byte
      /\ p.served = past.served /\ p.raced = past.raced /\ p.tunerLeft = past.tunerLeft
      /\ p.revived = past.revived /\ p.upset = past.upset /\ p.released = past.released
      /\ Answered => p.told \in {"problem", "lost", "end"}
  BY <1>3, <1>5 DEF FilmPasts, HnTold, Answered
<1>7. CASE hn.state # "ControlServerPending"
  <2>1. past' = p /\ UNCHANGED <<hn, threadq>>
    BY <1>1, <1>5, <1>7
  <2>2. FilmTyped'
    BY <1>2, <1>3, <1>6, <2>1 DEF FilmTyped
  <2>3. FilmBytes'
    BY <1>2, <1>3, <1>6, <2>1 DEF FilmBytes
  <2>4. FilmLeft'
    BY <1>2, <1>3, <1>6, <2>1 DEF FilmLeft
  <2>5. Answered => Answered'
    BY <1>6, <2>1 DEF Answered
  <2>6. FilmIsUp => FilmIsUp'
    <3>1. SUFFICES ASSUME FilmIsUp PROVE FilmIsUp'
      OBVIOUS
    <3>2. FilmStreams'
      BY <2>1, <2>5, <3>1 DEF FilmIsUp, FilmStreams
    <3>3. CASE rf = NoSource
      BY <1>2, <1>3, <1>7, <2>1, <2>5, <3>1, <3>2, <3>3 DEF FilmIsUp
    <3>4. CASE rf # NoSource
      <4>1. FilmTunes'
        BY <1>2, <2>1, <2>5, <3>1, <3>4 DEF FilmIsUp, FilmTunes
      <4> QED
        BY <1>2, <1>3, <1>7, <2>1, <3>1, <3>2, <3>4, <4>1 DEF FilmIsUp
    <3> QED
      BY <3>3, <3>4
  <2>7. FilmDue'
    BY <1>4, <1>6, <2>1, <2>6 DEF FilmDue
  <2> QED
    BY <2>2, <2>3, <2>4, <2>7 DEF FilmInv
<1>8. CASE hn.state = "ControlServerPending"
  <2>1. /\ hn' = [hn EXCEPT !.state = "TunerPending"]
        /\ threadq' = IF hn.zst \in {"Idle", "Stop"} THEN Append(threadq, "Play") ELSE threadq
        /\ past' = [p EXCEPT !.unreported = p.unreported \/ hn.zst \notin {"Idle", "Stop"}]
    BY <1>1, <1>5, <1>8
  <2>2. /\ past' \in FilmPasts /\ past'.unreported = (past.unreported \/ hn.zst \notin {"Idle", "Stop"})
        /\ past'.byte = past.byte
        /\ past'.served = past.served /\ past'.raced = past.raced /\ past'.tunerLeft = past.tunerLeft
        /\ past'.revived = past.revived /\ past'.upset = past.upset
        /\ past'.released = past.released /\ past'.told = p.told
    BY <1>6, <2>1 DEF FilmPasts
  <2>3. Append(threadq, "Play") \in Seq(ThreadEvents)
    BY <1>3, QueuesFacts DEF ThreadEvents
  <2>4. PICK f : f = hn'
    OBVIOUS
  <2>5. /\ f \in Films /\ f.state = "TunerPending" /\ f.zst = hn.zst /\ f.phase = hn.phase
        /\ f.srv = hn.srv /\ f.cci = hn.cci /\ f.given = hn.given /\ f.holds = hn.holds
        /\ f.ca = hn.ca /\ f.psi = hn.psi /\ f.pmt = hn.pmt /\ f.thread = hn.thread
    BY <1>3, <2>1, <2>4 DEF Films, HnStates, HnSessionIsUp
  <2>6. FilmTyped'
    BY <1>2, <1>3, <2>1, <2>2, <2>3, <2>4, <2>5 DEF FilmTyped
  <2>7. FilmBytes'
    BY <1>2, <1>3, <2>2, <2>4, <2>5 DEF FilmBytes
  <2>8. FilmLeft'
    BY <1>2, <1>3, <1>8, <2>2, <2>4, <2>5 DEF FilmLeft, HnSessionIsUp
  <2>9. FilmDue'
    <3>1. SUFFICES ASSUME hn.phase = "up", ~past.unreported, hn.zst \in {"Idle", "Stop"}
                   PROVE  FilmIsUp' /\ past'.served
      BY <1>3, <2>2, <2>4, <2>5 DEF FilmDue
    <3>2. FilmIsUp /\ FilmWaitsForPlay /\ past'.served
      BY <1>4, <1>8, <2>2, <3>1 DEF FilmIsUp
    <3>3. rf # NoSource /\ ~rf.requested /\ threadq = <<>> /\ FilmTunes /\ FilmSource(rf)
      BY <1>3, <3>2 DEF FilmIsUp, FilmWaitsForPlay, FilmTyped
    <3>4. rf.registered /\ ~rf.granted /\ ~rf.mOpened /\ ~rf.mStarted
          /\ rf.requested = rf.granted
      BY <3>3 DEF FilmTunes, FilmSource, FilmSources, SourceAgrees
    <3>5. threadq' = Append(threadq, "Play")
      BY <2>1, <3>1
    <3>6. /\ \A x : Has(threadq', x) <=> Has(threadq, x) \/ x = "Play"
          /\ TunesDue(threadq') /\ TunesOnce(threadq')
      <4>1. "Play" \in ThreadEvents /\ "Play" \in Tunes
        BY DEF ThreadEvents, Tunes
      <4>2. ~TunesDue(threadq) /\ TunesOnce(threadq)
        BY <3>3, EmptyFacts
      <4> QED
        BY <1>3, <3>5, <4>1, <4>2, QueuesFacts
    <3>7. FilmTunes'
      BY <1>2, <1>3, <2>4, <2>5, <3>1, <3>2, <3>3, <3>4, <3>6 DEF FilmTunes, FilmIsUp
    <3>8. FilmStreams'
      BY <2>4, <2>5, <3>1, <3>2 DEF FilmIsUp, FilmStreams
    <3> QED
      BY <1>2, <1>3, <2>4, <2>5, <3>1, <3>2, <3>3, <3>6, <3>7, <3>8 DEF FilmIsUp, HnSessionIsUp
  <2> QED
    BY <2>6, <2>7, <2>8, <2>9 DEF FilmInv
<1> QED
  BY <1>7, <1>8

LEMMA HnPlayEndsKeeps ==
    ASSUME FilmInv, HnPlayEnds
    PROVE  FilmInv'
<1>1. /\ HnHandles("PlayDone") /\ UNCHANGED <<rf, threadq, cam, owed>>
      /\ hn' \in {hn, [hn EXCEPT !.state = "StopPending"]}
      /\ past' = [past EXCEPT !.told = "end"]
  BY DEF HnPlayEnds, HnTold
<1>2. /\ FilmTyped /\ FilmBytes /\ FilmLeft /\ hn \in Films /\ past \in FilmPasts
      /\ hnq' \in Seq(HnEvents)
      /\ hn.phase = "up" /\ ~past.unreported => past.served /\ FilmIsUp
  BY <1>1, LoopQuiet
<1>3. /\ past' \in FilmPasts /\ past'.unreported = past.unreported /\ past'.byte = past.byte
      /\ past'.served = past.served /\ past'.raced = past.raced /\ past'.tunerLeft = past.tunerLeft
      /\ past'.revived = past.revived /\ past'.upset = past.upset
      /\ past'.released = past.released /\ Answered'
  BY <1>1, <1>2 DEF FilmPasts, Answered
<1>4. PICK f : f = hn'
  OBVIOUS
<1>5. /\ f \in Films /\ f.state \in {hn.state, "StopPending"} /\ f.zst = hn.zst /\ f.phase = hn.phase
      /\ f.srv = hn.srv /\ f.cci = hn.cci /\ f.given = hn.given /\ f.holds = hn.holds
      /\ f.ca = hn.ca /\ f.thread = hn.thread
  BY <1>1, <1>2, <1>4 DEF Films, HnStates, HnSessionIsUp
<1>6. FilmTyped'
  BY <1>1, <1>2, <1>3, <1>4, <1>5 DEF FilmTyped
<1>7. FilmBytes'
  BY <1>1, <1>2, <1>3, <1>4, <1>5 DEF FilmBytes
<1>8. FilmLeft'
  BY <1>1, <1>2, <1>3, <1>4, <1>5 DEF FilmLeft, HnSessionIsUp
<1>9. FilmIsUp => FilmIsUp'
  <2>1. CASE hn' = hn
    BY <1>1, <1>2, <1>3, <2>1, LoopStaysUp
  <2>2. CASE hn' = [hn EXCEPT !.state = "StopPending"]
    BY <1>1, <1>2, <1>3, <2>2, LoopMovesOn
  <2> QED
    BY <1>1, <2>1, <2>2
<1>10. FilmDue'
  BY <1>2, <1>3, <1>4, <1>5, <1>9 DEF FilmDue
<1> QED
  BY <1>6, <1>7, <1>8, <1>10 DEF FilmInv

LEMMA HnReleaseRespKeeps ==
    ASSUME FilmInv, HnReleaseResp
    PROVE  FilmInv'
<1>1. /\ HnHandles("ReleaseResp") /\ hn.state = "StopPending"
      /\ hn' = [hn EXCEPT !.state = "Stopped"] /\ UNCHANGED <<rf, threadq, cam, owed, past>>
  BY DEF HnReleaseResp
<1>2. /\ FilmTyped /\ FilmBytes /\ FilmLeft /\ hn \in Films /\ hnq' \in Seq(HnEvents)
      /\ hn.phase = "up" /\ ~past.unreported => past.served /\ FilmIsUp
  BY <1>1, LoopQuiet
<1>3. FilmTyped'
  <2>1. hn' \in Films
    BY <1>1, <1>2 DEF Films, HnStates, HnSessionIsUp
  <2> QED
    BY <1>1, <1>2, <2>1 DEF FilmTyped
<1>4. FilmBytes'
  BY <1>1, <1>2 DEF FilmBytes, Films
<1>5. FilmLeft'
  BY <1>1, <1>2 DEF FilmLeft, Films, HnSessionIsUp
<1>6. FilmIsUp => FilmIsUp'
  BY <1>1, <1>2, LoopMovesOn
<1>7. FilmDue'
  BY <1>1, <1>2, <1>6 DEF FilmDue, Films
<1> QED
  BY <1>3, <1>4, <1>5, <1>7 DEF FilmInv

LEMMA HnStreamErrorKeeps ==
    ASSUME FilmInv, HnStreamError
    PROVE  FilmInv'
<1>1. /\ HnHandles("StreamError") /\ past' = [past EXCEPT !.told = "problem"]
      /\ hn' = [hn EXCEPT !.state = "Stopped"] /\ UNCHANGED <<rf, threadq, cam, owed>>
  BY DEF HnStreamError, HnTold
<1>2. /\ FilmTyped /\ FilmBytes /\ FilmLeft /\ hn \in Films /\ past \in FilmPasts
      /\ hnq' \in Seq(HnEvents)
      /\ hn.phase = "up" /\ ~past.unreported => past.served /\ FilmIsUp
  BY <1>1, LoopQuiet
<1>3. /\ past' \in FilmPasts /\ past'.unreported = past.unreported /\ past'.byte = past.byte
      /\ past'.served = past.served /\ past'.raced = past.raced /\ past'.tunerLeft = past.tunerLeft
      /\ past'.revived = past.revived /\ past'.upset = past.upset
      /\ past'.released = past.released /\ Answered'
  BY <1>1, <1>2 DEF FilmPasts, Answered
<1>4. FilmTyped'
  <2>1. hn' \in Films
    BY <1>1, <1>2 DEF Films, HnStates, HnSessionIsUp
  <2> QED
    BY <1>1, <1>2, <1>3, <2>1 DEF FilmTyped
<1>5. FilmBytes'
  BY <1>1, <1>2, <1>3 DEF FilmBytes, Films
<1>6. FilmLeft'
  BY <1>1, <1>2, <1>3 DEF FilmLeft, Films, HnSessionIsUp
<1>7. FilmIsUp => FilmIsUp'
  BY <1>1, <1>2, <1>3, LoopMovesOn
<1>8. FilmDue'
  BY <1>1, <1>2, <1>3, <1>7 DEF FilmDue, Films
<1> QED
  BY <1>4, <1>5, <1>6, <1>8 DEF FilmInv

LEMMA HnStopControllerKeeps ==
    ASSUME FilmInv, HnStopController
    PROVE  FilmInv'
<1>1. /\ HnHandles("StopController") /\ owed' = {}
      /\ hn' = [hn EXCEPT !.active = FALSE] /\ UNCHANGED <<rf, threadq, cam, past>>
  BY DEF HnStopController
<1>2. /\ FilmTyped /\ FilmBytes /\ FilmLeft /\ hn \in Films /\ hnq' \in Seq(HnEvents)
      /\ (hn.phase # "up" \/ past.unreported)
  BY <1>1, LoopQuiet
<1>3. FilmTyped'
  <2>1. hn' \in Films
    BY <1>1, <1>2 DEF Films
  <2> QED
    BY <1>1, <1>2, <2>1 DEF FilmTyped
<1>4. FilmBytes'
  BY <1>1, <1>2 DEF FilmBytes, Films
<1>5. FilmLeft'
  BY <1>1, <1>2 DEF FilmLeft, Films
<1>6. FilmDue'
  BY <1>1, <1>2 DEF FilmDue, Films
<1> QED
  BY <1>3, <1>4, <1>5, <1>6 DEF FilmInv

LEMMA HnSessionErrorKeeps ==
    ASSUME FilmInv, HnSessionError
    PROVE  FilmInv'
<1>1. HnHandles("SessionError") /\ UNCHANGED <<rf, threadq, cam>>
  BY DEF HnSessionError
<1>2. /\ FilmTyped /\ FilmBytes /\ FilmLeft /\ hn \in Films /\ past \in FilmPasts
      /\ hnq' \in Seq(HnEvents)
      /\ hn.phase = "up" /\ ~past.unreported =>
            /\ ~past.served /\ FilmIsSetUp
            /\ hnq' = <<>> /\ hn.state = "SessionPending" /\ owed = {}
  BY <1>1, LoopQuiet
<1>3. PICK p : p = [past EXCEPT !.upset = past.upset \/ hn.state # "SessionPending"]
  OBVIOUS
<1>4. /\ p \in FilmPasts /\ p.unreported = past.unreported /\ p.byte = past.byte
      /\ p.served = past.served /\ p.raced = past.raced /\ p.tunerLeft = past.tunerLeft
      /\ p.revived = past.revived /\ p.released = past.released /\ p.told = past.told
      /\ p.upset = (past.upset \/ hn.state # "SessionPending")
  BY <1>2, <1>3 DEF FilmPasts
<1>5. PICK g : g = [hn EXCEPT !.retries = hn.retries + 1]
  OBVIOUS
<1>6. /\ g \in Films /\ g.state = hn.state /\ g.zst = hn.zst /\ g.phase = hn.phase
      /\ g.srv = hn.srv /\ g.cci = hn.cci /\ g.given = hn.given /\ g.holds = hn.holds
      /\ g.ca = hn.ca /\ g.thread = hn.thread /\ g.psi = hn.psi
  BY <1>2, <1>5 DEF Films
<1>7. PICK f : f = hn'
  OBVIOUS
<1>8. \/ /\ f = [g EXCEPT !.state = "SessionPending"]
         /\ owed' = owed \cup {"setup"} /\ past' = p
      \/ /\ f \in {g, hn} /\ owed' = owed
         /\ \/ past' = [p EXCEPT !.told = "problem"]
            \/ past' = [p EXCEPT !.unreported = TRUE]
  BY <1>3, <1>5, <1>7 DEF HnSessionError
<1>9. CASE /\ f = [g EXCEPT !.state = "SessionPending"]
           /\ owed' = owed \cup {"setup"} /\ past' = p
  <2>1. /\ f \in Films /\ f.state = "SessionPending" /\ f.zst = hn.zst /\ f.phase = hn.phase
        /\ f.srv = hn.srv /\ f.cci = hn.cci /\ f.given = hn.given /\ f.holds = hn.holds
        /\ f.ca = hn.ca /\ f.thread = hn.thread /\ f.psi = hn.psi
    BY <1>6, <1>9 DEF Films, HnStates
  <2>2. FilmTyped'
    BY <1>1, <1>2, <1>4, <1>7, <1>9, <2>1 DEF FilmTyped
  <2>3. FilmBytes'
    BY <1>1, <1>2, <1>4, <1>7, <1>9, <2>1 DEF FilmBytes
  <2>4. FilmLeft'
    BY <1>1, <1>2, <1>4, <1>7, <1>9, <2>1 DEF FilmLeft
  <2>5. hn.phase = "up" /\ ~past.unreported => FilmIsSetUp'
    BY <1>1, <1>2, <1>4, <1>7, <1>9, <2>1, EmptyFacts DEF FilmIsSetUp
  <2>6. FilmDue'
    BY <1>2, <1>4, <1>7, <1>9, <2>1, <2>5 DEF FilmDue
  <2> QED
    BY <2>2, <2>3, <2>4, <2>6 DEF FilmInv
<1>10. CASE /\ f \in {g, hn} /\ owed' = owed
            /\ \/ past' = [p EXCEPT !.told = "problem"]
               \/ past' = [p EXCEPT !.unreported = TRUE]
  <2>1. /\ f \in Films /\ f.state = hn.state /\ f.zst = hn.zst /\ f.phase = hn.phase
        /\ f.srv = hn.srv /\ f.cci = hn.cci /\ f.given = hn.given /\ f.holds = hn.holds
        /\ f.ca = hn.ca /\ f.thread = hn.thread /\ f.psi = hn.psi
    BY <1>2, <1>6, <1>10
  <2>2. /\ past' \in FilmPasts /\ past'.byte = past.byte
        /\ past'.served = past.served /\ past'.raced = past.raced
        /\ past'.tunerLeft = past.tunerLeft /\ past'.revived = past.revived
        /\ past'.released = past.released
        /\ past'.upset = (past.upset \/ hn.state # "SessionPending")
        /\ ~past'.unreported => ~past.unreported /\ Answered'
    BY <1>4, <1>10 DEF FilmPasts, Answered
  <2>3. FilmTyped'
    BY <1>1, <1>2, <1>7, <1>10, <2>1, <2>2 DEF FilmTyped
  <2>4. FilmBytes'
    BY <1>1, <1>2, <1>7, <2>1, <2>2 DEF FilmBytes
  <2>5. FilmLeft'
    BY <1>1, <1>2, <1>7, <2>1, <2>2 DEF FilmLeft
  <2>6. hn.phase = "up" /\ ~past'.unreported => FilmIsSetUp'
    BY <1>1, <1>2, <1>7, <1>10, <2>1, <2>2, EmptyFacts DEF FilmIsSetUp
  <2>7. FilmDue'
    BY <1>2, <1>7, <2>1, <2>2, <2>6 DEF FilmDue
  <2> QED
    BY <2>3, <2>4, <2>5, <2>7 DEF FilmInv
<1> QED
  BY <1>8, <1>9, <1>10

LEMMA HnLoopKeeps ==
    ASSUME FilmInv, HnLoop
    PROVE  FilmInv'
BY HnIgnoresKeeps, HnSetupRefusedKeeps, HnSetupRespKeeps, HnPlayRespKeeps, HnPlayEndsKeeps,
   HnReleaseRespKeeps, HnSessionErrorKeeps, HnStreamErrorKeeps, HnStopControllerKeeps DEF HnLoop

------------------------------------------------------------------------------
(* The thread of a film *)

LEMMA ThreadQuiet ==
    ASSUME FilmInv, NEW e, HnTakes(e)
    PROVE  /\ FilmTyped /\ FilmBytes /\ FilmLeft /\ hn \in Films /\ past \in FilmPasts
           /\ hn.thread = "runs" /\ hn.holds = "nothing"
           /\ rf = NoSource \/ FilmSource(rf)
           /\ Tail(threadq) \in Seq(ThreadEvents)
           /\ hn.phase = "up" /\ ~past.unreported =>
                 past.served /\ FilmIsUp /\ hn.state # "ControlServerPending" /\ e # "Exit"
<1>1. FilmTyped /\ FilmBytes /\ FilmLeft /\ FilmDue /\ hn \in Films /\ past \in FilmPasts
      /\ (rf = NoSource \/ FilmSource(rf))
  BY DEF FilmInv, FilmTyped
<1>2. /\ hn.thread = "runs" /\ hn.holds = "nothing" /\ threadq # <<>> /\ Has(threadq, e)
      /\ Tail(threadq) \in Seq(ThreadEvents)
  BY <1>1, ThreadTakes
<1>3. ~FilmIsSetUp
  BY <1>2 DEF FilmIsSetUp
<1>4. FilmIsUp => hn.state # "ControlServerPending" /\ e # "Exit"
  BY <1>2 DEF FilmIsUp, FilmWaitsForPlay
<1> QED
  BY <1>1, <1>2, <1>3, <1>4 DEF FilmDue

\* The film stays up when an event is taken that nothing waits for.
LEMMA ThreadStaysUp ==
    ASSUME FilmTyped, FilmIsUp, NEW e, HnTakes(e), HnTaken, e # "TunerLost",
           UNCHANGED <<hn, rf, hnq, owed, past>>,
           rf # NoSource => /\ e \notin Tunes
                            /\ e = "TunerLocked" => hn.zst # "WaitSourceReady"
                            /\ e = "PSIReady" => hn.zst # "TunerLocked"
    PROVE  FilmIsUp'
<1>1. /\ \A x : Has(threadq', x) => Has(threadq, x)
      /\ \A x : Has(threadq, x) /\ x # e => Has(threadq', x)
      /\ TunesDue(threadq') => TunesDue(threadq)
      /\ TunesDue(threadq) /\ e \notin Tunes => TunesDue(threadq')
      /\ TunesOnce(threadq) => TunesOnce(threadq')
      /\ threadq # <<>>
  BY ThreadTakes DEF HnTaken
<1>2. hn.state # "ControlServerPending"
  BY <1>1 DEF FilmIsUp, FilmWaitsForPlay
<1>3. CASE rf = NoSource
  <2>1. FilmStreams'
    BY <1>1, <1>3 DEF FilmIsUp, FilmStreams, Answered
  <2> QED
    BY <1>1, <1>2, <1>3, <2>1 DEF FilmIsUp, Answered
<1>4. CASE rf # NoSource
  <2>1. FilmStreams'
    BY <1>1, <1>4 DEF FilmIsUp, FilmStreams, Answered
  <2>2. FilmTunes'
    BY <1>1, <1>4 DEF FilmIsUp, FilmTunes, Answered
  <2> QED
    BY <1>1, <1>2, <1>4, <2>1, <2>2 DEF FilmIsUp
<1> QED
  BY <1>3, <1>4

LEMMA NothingDoneKeeps ==
    ASSUME FilmInv, NEW e, HnTakes(e), HnTaken, e # "TunerLost",
           UNCHANGED <<hn, rf, hnq, cam, owed, past>>,
           rf # NoSource => /\ e \notin Tunes
                            /\ e = "TunerLocked" => hn.zst # "WaitSourceReady"
                            /\ e = "PSIReady" => hn.zst # "TunerLocked"
    PROVE  FilmInv'
<1>1. /\ FilmTyped /\ FilmBytes /\ FilmLeft /\ Tail(threadq) \in Seq(ThreadEvents)
      /\ hn.phase = "up" /\ ~past.unreported => past.served /\ FilmIsUp
  BY ThreadQuiet
<1>2. FilmTyped'
  BY <1>1 DEF FilmTyped, HnTaken
<1>3. FilmBytes'
  BY <1>1 DEF FilmBytes
<1>4. FilmLeft'
  BY <1>1 DEF FilmLeft
<1>5. FilmIsUp => FilmIsUp'
  BY <1>1, ThreadStaysUp
<1>6. FilmDue'
  BY <1>1, <1>5 DEF FilmDue
<1> QED
  BY <1>2, <1>3, <1>4, <1>6 DEF FilmInv

LEMMA HnExitKeeps ==
    ASSUME FilmInv, HnExit
    PROVE  FilmInv'
<1>1. /\ HnTakes("Exit") /\ threadq' = Tail(threadq)
      /\ hn' = [hn EXCEPT !.thread = "ended"] /\ UNCHANGED <<rf, hnq, cam, owed, past>>
  BY DEF HnExit, HnTaken
<1>2. /\ FilmTyped /\ FilmBytes /\ FilmLeft /\ hn \in Films /\ hn.thread = "runs"
      /\ Tail(threadq) \in Seq(ThreadEvents)
      /\ (hn.phase # "up" \/ past.unreported)
  BY <1>1, ThreadQuiet
<1>3. FilmTyped'
  <2>1. hn' \in Films
    BY <1>1, <1>2 DEF Films
  <2> QED
    BY <1>1, <1>2, <2>1 DEF FilmTyped
<1>4. FilmBytes'
  BY <1>1, <1>2 DEF FilmBytes, Films
<1>5. FilmLeft'
  BY <1>1, <1>2 DEF FilmLeft, Films
<1>6. FilmDue'
  BY <1>1, <1>2 DEF FilmDue, Films
<1> QED
  BY <1>3, <1>4, <1>5, <1>6 DEF FilmInv

\* The source is tuned, and what happens then is what it was tuned for.
LEMMA FilmIsTuned ==
    ASSUME FilmTyped, FilmIsUp, rf # NoSource, NEW e \in Tunes, HnTakes(e), HnTaken,
           rf' # NoSource, NEW z \in HnZapperStates, hn' = [hn EXCEPT !.zst = z],
           UNCHANGED <<hnq, owed>>, FilmTunes', Answered => Answered',
           z \notin {"Idle", "TunerLocked"}
    PROVE  FilmIsUp'
<1>1. /\ \A x : Has(threadq', x) => Has(threadq, x)
      /\ TunesDue(threadq) /\ ~TunesDue(threadq')
      /\ TunesOnce(threadq')
      /\ threadq # <<>> /\ hn.holds = "nothing"
  BY ThreadTakes DEF HnTaken, FilmIsUp
<1>2. hn.state # "ControlServerPending"
  BY <1>1 DEF FilmIsUp, FilmWaitsForPlay
<1>3. hn \in Films
  BY DEF FilmTyped
<1>4. PICK f : f = hn'
  OBVIOUS
<1>5. /\ f.zst = z /\ f.state = hn.state /\ f.psi = hn.psi /\ f.srv = hn.srv /\ f.ca = hn.ca
      /\ f.holds = hn.holds /\ f.pmt = hn.pmt /\ f.thread = hn.thread
  BY <1>3, <1>4 DEF Films
<1>6. hn.zst \in {"Stop", "WaitForTuner", "Suspended"} /\ hn.psi = "none" /\ hn.srv.st # "started"
  BY <1>1 DEF FilmIsUp, FilmTunes, FilmStreams
<1>7. FilmStreams'
  BY <1>1, <1>4, <1>5, <1>6 DEF FilmStreams
<1> QED
  BY <1>1, <1>2, <1>4, <1>5, <1>7 DEF FilmIsUp

LEMMA HnTunesKeeps ==
    ASSUME FilmInv, HnTunes
    PROVE  FilmInv'
<1>1. /\ HnTakes("Play") /\ HnTaken /\ UNCHANGED <<hnq, cam, owed>>
      /\ "Play" \in Tunes
  BY DEF HnTunes, Tunes
<1>2. /\ FilmTyped /\ FilmBytes /\ FilmLeft /\ hn \in Films /\ past \in FilmPasts
      /\ hn.thread = "runs" /\ Tail(threadq) \in Seq(ThreadEvents)
      /\ (rf = NoSource \/ FilmSource(rf))
      /\ hn.phase = "up" /\ ~past.unreported => past.served /\ FilmIsUp
  BY <1>1, ThreadQuiet
<1>3. CASE rf = NoSource
  <2>1. UNCHANGED <<hn, rf, past>>
    BY <1>3 DEF HnTunes
  <2> QED
    BY <1>1, <1>3, <2>1, NothingDoneKeeps
<1>4. CASE rf # NoSource
  <2>1. FilmSource(rf)
    BY <1>2, <1>4
  <2>2. PICK o \in open(rf) :
           CASE o.status = "Ok" ->
                  \E s \in start(o.src) :
                     /\ rf' = s
                     /\ hn' = [hn EXCEPT !.zst = "WaitSourceReady"]
                     /\ past' = IF s.mStarted THEN past ELSE Unreported
             [] o.status = "WaitForTuner" ->
                  /\ rf' = o.src
                  /\ hn' = [hn EXCEPT !.zst = "WaitForTuner"]
                  /\ UNCHANGED past
             [] OTHER ->
                  /\ rf' = o.src
                  /\ past' = HnTold("problem")
                  /\ UNCHANGED hn
    BY <1>4 DEF HnTunes
  <2>3. /\ FilmSource(o.src) /\ o.status \in {"Ok", "WaitForTuner", "BadSource", "Error"}
        /\ ~rf.requested =>
              \/ /\ o.status = "WaitForTuner" /\ o.src.requested /\ ~o.src.granted
                 /\ o.src.tuner = "asked" /\ o.src.answer = rf.answer
                 /\ o.src.registered = rf.registered /\ o.src.mStarted = rf.mStarted
                 /\ ~o.src.mOpened
              \/ o.status = "Error" /\ o.src = rf
        /\ rf.requested /\ rf.granted /\ ~rf.mOpened =>
              \/ /\ o.status = "Ok" /\ o.src.mOpened /\ ~o.src.mStarted /\ o.src.requested
                 /\ o.src.granted /\ o.src.tuner = rf.tuner /\ o.src.answer = rf.answer
                 /\ o.src.registered = rf.registered /\ ~o.src.locked
              \/ /\ o.status = "BadSource" /\ ~o.src.mOpened /\ ~o.src.mStarted
                 /\ o.src.requested /\ ~o.src.granted /\ o.src.tuner = "none"
                 /\ o.src.answer = rf.answer
    BY <2>1, <2>2, OpenFacts
  <2>4. PICK z \in {"WaitSourceReady", "WaitForTuner", hn.zst} :
           /\ hn' = [hn EXCEPT !.zst = z]
           /\ \/ o.status = "Ok" /\ z = "WaitSourceReady" /\ rf' \in start(o.src)
                 /\ past' = (IF rf'.mStarted THEN past ELSE Unreported)
              \/ o.status = "WaitForTuner" /\ z = "WaitForTuner" /\ rf' = o.src /\ past' = past
              \/ /\ o.status \in {"BadSource", "Error"} /\ z = hn.zst /\ rf' = o.src
                 /\ past' = HnTold("problem")
    <3>1. CASE o.status = "Ok"
      BY <2>2, <3>1
    <3>2. CASE o.status = "WaitForTuner"
      BY <2>2, <3>2
    <3>3. CASE o.status \in {"BadSource", "Error"}
      <4>1. rf' = o.src /\ past' = HnTold("problem") /\ hn' = hn
        BY <2>2, <3>3
      <4>2. [hn EXCEPT !.zst = hn.zst] = hn
        BY <1>2 DEF Films
      <4> QED
        BY <3>3, <4>1, <4>2
    <3> QED
      BY <2>3, <3>1, <3>2, <3>3
  <2>5. FilmSource(rf') /\ rf' # NoSource
    <3>1. FilmSource(rf')
      BY <2>3, <2>4, StartFacts
    <3> QED
      BY <3>1, FilmSourceIsThere
  <2>6. /\ past' \in FilmPasts /\ past'.byte = past.byte /\ past'.upset = past.upset
        /\ past'.served = past.served /\ past'.raced = past.raced
        /\ past'.tunerLeft = past.tunerLeft /\ past'.revived = past.revived
        /\ past'.released = past.released
        /\ Answered => Answered'
        /\ past.unreported => past'.unreported
        /\ o.status \in {"BadSource", "Error"} => Answered'
        /\ o.status = "Ok" /\ ~rf'.mStarted => past'.unreported
    BY <1>2, <2>4 DEF FilmPasts, Unreported, HnTold, Answered
  <2>7. PICK f : f = hn'
    OBVIOUS
  <2>8. /\ f \in Films /\ f.zst = z /\ f.state = hn.state /\ f.psi = hn.psi /\ f.srv = hn.srv
        /\ f.ca = hn.ca /\ f.holds = hn.holds /\ f.pmt = hn.pmt /\ f.thread = hn.thread
        /\ f.cci = hn.cci /\ f.given = hn.given /\ f.phase = hn.phase /\ z \in HnZapperStates
    BY <1>2, <2>4, <2>7 DEF Films, HnZapperStates
  <2>9. FilmTyped'
    BY <1>1, <1>2, <2>5, <2>6, <2>7, <2>8 DEF FilmTyped, HnTaken
  <2>10. FilmBytes'
    BY <1>1, <1>2, <2>6, <2>7, <2>8 DEF FilmBytes
  <2>11. FilmLeft'
    BY <1>1, <1>2, <1>4, <2>6, <2>7, <2>8 DEF FilmLeft
  <2>12. FilmDue'
    <3>1. SUFFICES ASSUME hn.phase = "up", ~past'.unreported
                   PROVE  past.served /\ FilmIsUp'
      BY <2>6, <2>7, <2>8 DEF FilmDue
    <3>2. FilmIsUp /\ FilmTunes /\ past.served
      BY <1>2, <1>4, <2>6, <3>1 DEF FilmIsUp
    <3>3. /\ \A x : Has(threadq', x) => Has(threadq, x)
          /\ \A x : Has(threadq, x) /\ x # "Play" => Has(threadq', x)
          /\ TunesDue(threadq) /\ ~TunesDue(threadq')
      BY <1>1, <1>2, <3>2, ThreadTakes DEF HnTaken, FilmIsUp
    <3>4. /\ rf.registered /\ rf.requested = rf.granted /\ ~rf.mOpened /\ ~rf.mStarted
          /\ hn.zst \in {"Stop", "WaitForTuner", "Suspended"} /\ hn.psi = "none"
          /\ ~Has(threadq', "PSIReady")
          /\ rf.tuner = "revoked" => rf.answer = "Revoked" \/ Has(threadq', "TunerLost")
      BY <3>2, <3>3 DEF FilmTunes
    <3>5. z \notin {"Idle", "TunerLocked"}
      BY <2>4, <3>4
    <3>6. rf.tuner = "none" \/ rf.requested
      BY <2>1 DEF FilmSource, SourceAgrees
    <3>7. ASSUME ~rf.requested, o.status = "WaitForTuner" PROVE FilmTunes'
      <4>1. rf' = o.src /\ z = "WaitForTuner"
        BY <2>4, <3>7
      <4>2. /\ rf'.requested /\ ~rf'.granted /\ rf'.tuner = "asked" /\ rf'.registered
            /\ ~rf'.mStarted
        BY <2>3, <3>4, <3>7, <4>1
      <4> QED
        BY <2>7, <2>8, <3>3, <3>4, <4>1, <4>2 DEF FilmTunes
    <3>8. ASSUME ~rf.requested, o.status = "Error" PROVE FilmTunes'
      <4>1. rf' = rf /\ z = hn.zst /\ Answered'
        BY <2>3, <2>4, <2>6, <3>8
      <4> QED
        BY <2>7, <2>8, <3>3, <3>4, <3>6, <3>8, <4>1 DEF FilmTunes
    <3>9. ASSUME rf.requested, o.status = "Ok" PROVE FilmTunes'
      <4>1. /\ o.src.mOpened /\ ~o.src.mStarted /\ o.src.requested
            /\ o.src.granted /\ o.src.tuner = rf.tuner /\ o.src.answer = rf.answer
            /\ o.src.registered = rf.registered /\ ~o.src.locked
        BY <2>3, <3>4, <3>9
      <4>2. rf' \in start(o.src) /\ rf'.mStarted /\ z = "WaitSourceReady"
        BY <2>4, <2>6, <3>1, <3>9
      <4>3. /\ rf'.mOpened /\ rf'.requested /\ rf'.granted /\ rf'.tuner = rf.tuner
            /\ rf'.answer = rf.answer /\ rf'.registered /\ ~rf'.locked
        BY <2>3, <3>4, <4>1, <4>2, StartFacts
      <4> QED
        BY <2>7, <2>8, <3>3, <3>4, <4>2, <4>3 DEF FilmTunes
    <3>10. ASSUME rf.requested, o.status = "BadSource" PROVE FilmTunes'
      <4>1. rf' = o.src /\ z = hn.zst /\ Answered'
        BY <2>4, <2>6, <3>10
      <4>2. /\ ~rf'.mOpened /\ ~rf'.mStarted
            /\ rf'.requested /\ ~rf'.granted /\ rf'.tuner = "none"
        BY <2>3, <3>4, <3>10, <4>1
      <4> QED
        BY <2>7, <2>8, <3>3, <3>4, <4>1, <4>2 DEF FilmTunes
    <3>11. FilmTunes'
      <4>1. rf.requested \in BOOLEAN
        BY <2>1 DEF FilmSource, FilmSources
      <4> QED
        BY <2>3, <3>4, <3>7, <3>8, <3>9, <3>10, <4>1
    <3> QED
      BY <1>1, <1>2, <1>4, <2>4, <2>5, <2>6, <2>8, <3>2, <3>5, <3>11, FilmIsTuned
  <2> QED
    BY <2>9, <2>10, <2>11, <2>12 DEF FilmInv
<1> QED
  BY <1>3, <1>4

LEMMA HnTunerLockedKeeps ==
    ASSUME FilmInv, HnTunerLocked
    PROVE  FilmInv'
<1>1. HnTakes("TunerLocked") /\ HnTaken /\ UNCHANGED <<rf, hnq, cam, owed, past>>
  BY DEF HnTunerLocked
<1>2. /\ FilmTyped /\ FilmBytes /\ FilmLeft /\ hn \in Films
      /\ Tail(threadq) \in Seq(ThreadEvents) /\ hn.holds = "nothing"
      /\ hn.phase = "up" /\ ~past.unreported =>
            past.served /\ FilmIsUp /\ hn.state # "ControlServerPending"
  BY <1>1, ThreadQuiet
<1>3. CASE ~(rf # NoSource /\ hn.zst = "WaitSourceReady")
  <2>1. UNCHANGED hn
    BY <1>3 DEF HnTunerLocked
  <2>2. "TunerLocked" \notin Tunes
    BY DEF Tunes
  <2> QED
    BY <1>1, <1>3, <2>1, <2>2, NothingDoneKeeps
<1>4. CASE rf # NoSource /\ hn.zst = "WaitSourceReady"
  <2>1. hn' = [hn EXCEPT !.zst = "TunerLocked", !.psi = "reading"]
    BY <1>4 DEF HnTunerLocked
  <2>2. PICK f : f = hn'
    OBVIOUS
  <2>3. /\ f \in Films /\ f.zst = "TunerLocked" /\ f.psi = "reading" /\ f.state = hn.state
        /\ f.srv = hn.srv /\ f.ca = hn.ca /\ f.holds = hn.holds /\ f.pmt = hn.pmt
        /\ f.thread = hn.thread /\ f.cci = hn.cci /\ f.given = hn.given /\ f.phase = hn.phase
    BY <1>2, <2>1, <2>2 DEF Films, HnZapperStates
  <2>4. FilmTyped'
    BY <1>1, <1>2, <2>2, <2>3 DEF FilmTyped, HnTaken
  <2>5. FilmBytes'
    BY <1>1, <1>2, <2>2, <2>3 DEF FilmBytes
  <2>6. FilmLeft'
    BY <1>1, <1>2, <2>2, <2>3 DEF FilmLeft
  <2>7. FilmDue'
    <3>1. SUFFICES ASSUME FilmIsUp, hn.state # "ControlServerPending"
                   PROVE  FilmIsUp'
      BY <1>1, <1>2, <2>2, <2>3 DEF FilmDue
    <3>2. /\ \A x : Has(threadq', x) => Has(threadq, x)
          /\ \A x : Has(threadq, x) /\ x # "TunerLocked" => Has(threadq', x)
          /\ TunesDue(threadq') => TunesDue(threadq)
          /\ TunesOnce(threadq) => TunesOnce(threadq')
      BY <1>1, <1>2, ThreadTakes DEF HnTaken
    <3>3. FilmTunes /\ FilmStreams
      BY <1>4, <3>1 DEF FilmIsUp
    <3>4. ~TunesDue(threadq) /\ hn.psi = "none" /\ hn.srv.st # "started" /\ rf.mStarted
          /\ rf.requested = rf.requested
      BY <1>4, <3>3 DEF FilmTunes, FilmStreams
    <3>5. FilmStreams'
      BY <1>2, <2>2, <2>3, <3>4 DEF FilmStreams
    <3>6. FilmTunes'
      BY <1>1, <1>4, <2>2, <2>3, <3>2, <3>3, <3>4 DEF FilmTunes, Answered
    <3> QED
      BY <1>1, <1>4, <2>2, <2>3, <3>1, <3>2, <3>5, <3>6 DEF FilmIsUp
  <2> QED
    BY <2>4, <2>5, <2>6, <2>7 DEF FilmInv
<1> QED
  BY <1>3, <1>4

LEMMA HnNotYetKeeps ==
    ASSUME FilmInv, HnNotYet
    PROVE  FilmInv'
<1>1. /\ HnTakes("PSIReady") /\ HnTaken /\ UNCHANGED <<hn, rf, hnq, cam, owed, past>>
      /\ (rf # NoSource => hn.zst # "TunerLocked") /\ "PSIReady" \notin Tunes
  BY DEF HnNotYet, CanStream, Tunes
<1> QED
  BY <1>1, NothingDoneKeeps

LEMMA HnTimeOutKeeps ==
    ASSUME FilmInv, HnTimeOut
    PROVE  FilmInv'
<1>1. /\ HnTakes("TimeOut") /\ HnTaken /\ UNCHANGED <<hn, rf, hnq, cam, owed, past>>
      /\ "TimeOut" \notin Tunes
  BY DEF HnTimeOut, Tunes
<1> QED
  BY <1>1, NothingDoneKeeps

\* The server's source of a film has its PIDs.
FilmPids(pmt) == AudioPids(pmt) \cup ClockPid(pmt) \cup MusicPid(pmt) \cup VideoPids(pmt)

LEMMA SetUpServerFacts ==
    ASSUME NEW pmt \in FilmPmts, NEW s \in SetPatPMT(SetStreamInfo(OpenServer, pmt))
    PROVE  s \in FilmServers /\ s.st = "open" /\ s.psi /\ s.pids = FilmPids(pmt)
<1> DEFINE given == [OpenServer EXCEPT !.pids = FilmPids(pmt)]
           injected == [given EXCEPT !.psi = TRUE]
<1>1. FilmPids(pmt) \subseteq [type : {"audio", "clock", "music", "video"}, n : Nat]
  <2>1. pmt.audio \subseteq Nat /\ pmt.video \subseteq Nat
    BY DEF FilmPmts
  <2> QED
    BY <2>1 DEF FilmPids, AudioPids, ClockPid, MusicPid, VideoPids, Pid
<1>2. given \in FilmServers /\ given.st = "open" /\ given.pids = FilmPids(pmt)
  BY <1>1, NoServerType DEF FilmServers
<1>3. SetStreamInfo(OpenServer, pmt) = injected
  BY DEF SetStreamInfo, InjectStreamInfo, FilmPids
<1> HIDE DEF given
<1>4. /\ injected \in FilmServers /\ injected.st = "open" /\ injected.psi
      /\ injected.pids = FilmPids(pmt)
  BY <1>2 DEF FilmServers
<1>5. s = [injected EXCEPT !.pmt = TRUE] \/ s = injected
  BY <1>3 DEF SetPatPMT
<1> HIDE DEF injected
<1> QED
  BY <1>4, <1>5 DEF FilmServers

LEMMA HnPSIReadyKeeps ==
    ASSUME FilmInv, HnPSIReady
    PROVE  FilmInv'
<1>1. /\ HnTakes("PSIReady") /\ HnTaken /\ UNCHANGED <<rf, hnq, cam, owed>>
      /\ rf # NoSource /\ hn.zst = "TunerLocked" /\ "PSIReady" \notin Tunes
  BY DEF HnPSIReady, CanStream, Tunes
<1>2. /\ FilmTyped /\ FilmBytes /\ FilmLeft /\ hn \in Films /\ past \in FilmPasts
      /\ Tail(threadq) \in Seq(ThreadEvents) /\ hn.holds = "nothing" /\ hn.thread = "runs"
      /\ hn.phase = "up" /\ ~past.unreported =>
            past.served /\ FilmIsUp /\ hn.state # "ControlServerPending"
  BY <1>1, ThreadQuiet
<1>3. hn.phase # "gone"
  BY <1>1, <1>2 DEF FilmLeft
<1>4. CASE hn' = [hn EXCEPT !.srv = NoServer] /\ past' = Unreported
  <2>1. PICK f : f = hn'
    OBVIOUS
  <2>2. /\ f \in Films /\ f.state = hn.state /\ f.srv = NoServer
        /\ f.ca = hn.ca /\ f.holds = hn.holds /\ f.thread = hn.thread
        /\ f.cci = hn.cci /\ f.given = hn.given /\ f.phase = hn.phase
    BY <1>2, <1>4, <2>1, NoServerType DEF Films
  <2>3. /\ past' \in FilmPasts /\ past'.byte = past.byte /\ past'.upset = past.upset
        /\ past'.served = past.served /\ past'.raced = past.raced
        /\ past'.tunerLeft = past.tunerLeft /\ past'.revived = past.revived
        /\ past'.released = past.released /\ past'.unreported
    BY <1>2, <1>4 DEF FilmPasts, Unreported
  <2>4. FilmTyped'
    BY <1>1, <1>2, <2>1, <2>2, <2>3 DEF FilmTyped, HnTaken
  <2>5. FilmBytes'
    BY <1>1, <1>2, <2>1, <2>2, <2>3, NoServerType DEF FilmBytes
  <2>6. FilmLeft'
    BY <1>1, <1>2, <2>1, <2>2, <2>3 DEF FilmLeft
  <2>7. FilmDue'
    BY <2>3 DEF FilmDue
  <2> QED
    BY <2>4, <2>5, <2>6, <2>7 DEF FilmInv
<1>5. CASE \E s \in SetPatPMT(SetStreamInfo(OpenServer, hn.pmt)) :
              /\ hn' = [hn EXCEPT !.srv = s, !.ca = TRUE, !.holds = "starting"]
              /\ past' = IF s.pmt THEN past ELSE Unreported
  <2>1. PICK s \in SetPatPMT(SetStreamInfo(OpenServer, hn.pmt)) :
              /\ hn' = [hn EXCEPT !.srv = s, !.ca = TRUE, !.holds = "starting"]
              /\ past' = IF s.pmt THEN past ELSE Unreported
    BY <1>5
  <2>2. s \in FilmServers /\ s.st = "open" /\ s.psi /\ s.pids = FilmPids(hn.pmt)
    <3>1. hn.pmt \in FilmPmts
      BY <1>2 DEF Films
    <3> QED
      BY <3>1, SetUpServerFacts
  <2>3. PICK f : f = hn'
    OBVIOUS
  <2>4. /\ f \in Films /\ f.state = hn.state /\ f.srv = s /\ f.zst = hn.zst /\ f.psi = hn.psi
        /\ f.ca /\ f.holds = "starting" /\ f.thread = hn.thread /\ f.pmt = hn.pmt
        /\ f.cci = hn.cci /\ f.given = hn.given /\ f.phase = hn.phase
    BY <1>2, <2>1, <2>2, <2>3 DEF Films
  <2>5. /\ past' \in FilmPasts /\ past'.byte = past.byte /\ past'.upset = past.upset
        /\ past'.served = past.served /\ past'.raced = past.raced
        /\ past'.tunerLeft = past.tunerLeft /\ past'.revived = past.revived
        /\ past'.released = past.released /\ past'.told = past.told
        /\ ~past'.unreported => ~past.unreported /\ s.pmt
    BY <1>2, <2>1 DEF FilmPasts, Unreported
  <2>6. FilmTyped'
    BY <1>1, <1>2, <2>3, <2>4, <2>5 DEF FilmTyped, HnTaken
  <2>7. FilmBytes'
    BY <1>1, <1>2, <2>2, <2>3, <2>4, <2>5 DEF FilmBytes
  <2>8. FilmLeft'
    BY <1>1, <1>2, <1>3, <2>3, <2>4, <2>5 DEF FilmLeft
  <2>9. FilmDue'
    <3>1. SUFFICES ASSUME FilmIsUp, hn.state # "ControlServerPending", s.pmt
                   PROVE  FilmIsUp'
      BY <1>2, <2>3, <2>4, <2>5 DEF FilmDue
    <3>2. /\ \A x : Has(threadq', x) => Has(threadq, x)
          /\ \A x : Has(threadq, x) /\ x # "PSIReady" => Has(threadq', x)
          /\ TunesDue(threadq') <=> TunesDue(threadq)
          /\ TunesOnce(threadq) => TunesOnce(threadq')
          /\ Has(threadq, "PSIReady")
      BY <1>1, <1>2, ThreadTakes DEF HnTaken
    <3>3. FilmTunes /\ FilmStreams
      BY <1>1, <3>1 DEF FilmIsUp
    <3>4. hn.psi = "read" /\ (Answered' <=> Answered)
      BY <2>5, <3>2, <3>3 DEF FilmTunes, Answered
    <3>5. FilmStreams'
      BY <1>1, <2>2, <2>3, <2>4, <3>1, <3>4 DEF FilmStreams, FilmPids
    <3>6. FilmTunes'
      BY <1>1, <2>3, <2>4, <3>2, <3>3, <3>4 DEF FilmTunes
    <3> QED
      BY <1>1, <2>3, <2>4, <3>1, <3>2, <3>5, <3>6 DEF FilmIsUp
  <2> QED
    BY <2>6, <2>7, <2>8, <2>9 DEF FilmInv
<1> QED
  BY <1>4, <1>5 DEF HnPSIReady

LEMMA HnReadsCCIKeeps ==
    ASSUME FilmInv, HnReadsCCI
    PROVE  FilmInv'
<1>1. /\ hn.holds = "starting" /\ hn' = [hn EXCEPT !.given = hn.cci, !.holds = "injecting"]
      /\ UNCHANGED <<rf, hnq, threadq, cam, owed, past>>
      /\ FilmTyped /\ FilmBytes /\ FilmLeft /\ FilmDue /\ hn \in Films
  BY DEF HnReadsCCI, FilmInv, FilmTyped
<1>2. PICK f : f = hn'
  OBVIOUS
<1>3. /\ f \in Films /\ f.state = hn.state /\ f.srv = hn.srv /\ f.zst = hn.zst /\ f.psi = hn.psi
      /\ f.ca = hn.ca /\ f.holds = "injecting" /\ f.thread = hn.thread /\ f.pmt = hn.pmt
      /\ f.cci = hn.cci /\ f.given = hn.cci /\ f.phase = hn.phase
  BY <1>1, <1>2 DEF Films
<1>4. FilmTyped'
  BY <1>1, <1>2, <1>3 DEF FilmTyped
<1>5. FilmBytes'
  BY <1>1, <1>2, <1>3 DEF FilmBytes
<1>6. FilmLeft'
  BY <1>1, <1>2, <1>3 DEF FilmLeft
<1>7. FilmDue'
  <2>1. SUFFICES ASSUME hn.phase = "up", ~past.unreported, past.served, FilmIsUp
                 PROVE  FilmIsUp'
    BY <1>1, <1>2, <1>3 DEF FilmDue, FilmLeft, FilmIsSetUp
  <2>2. FilmStreams'
    BY <1>1, <1>2, <1>3, <2>1 DEF FilmIsUp, FilmStreams, Answered
  <2>3. CASE rf = NoSource
    BY <1>1, <1>2, <1>3, <2>1, <2>2, <2>3 DEF FilmIsUp, FilmWaitsForPlay, Answered
  <2>4. CASE rf # NoSource
    <3>1. FilmTunes'
      BY <1>1, <1>2, <1>3, <2>1, <2>4 DEF FilmIsUp, FilmTunes, Answered
    <3> QED
      BY <1>1, <1>2, <1>3, <2>1, <2>2, <2>4, <3>1 DEF FilmIsUp, FilmWaitsForPlay
  <2> QED
    BY <2>3, <2>4
<1> QED
  BY <1>4, <1>5, <1>6, <1>7 DEF FilmInv

LEMMA HnStartsKeeps ==
    ASSUME FilmInv, HnStarts
    PROVE  FilmInv'
<1>1. /\ hn.holds = "injecting" /\ UNCHANGED <<rf, hnq, threadq, cam, owed>>
      /\ FilmTyped /\ FilmBytes /\ FilmLeft /\ FilmDue /\ hn \in Films /\ past \in FilmPasts
  BY DEF HnStarts, FilmInv, FilmTyped
<1>2. hn.phase # "gone" /\ hn.thread # "none"
  BY <1>1 DEF FilmLeft
<1>3. CASE /\ hn' = [hn EXCEPT !.srv = NoServer, !.ca = FALSE, !.holds = "nothing"]
           /\ past' = Unreported
  <2>1. PICK f : f = hn'
    OBVIOUS
  <2>2. /\ f \in Films /\ f.state = hn.state /\ f.srv = NoServer
        /\ ~f.ca /\ f.holds = "nothing" /\ f.thread = hn.thread
        /\ f.cci = hn.cci /\ f.given = hn.given /\ f.phase = hn.phase
    BY <1>1, <1>3, <2>1, NoServerType DEF Films
  <2>3. /\ past' \in FilmPasts /\ past'.byte = past.byte /\ past'.upset = past.upset
        /\ past'.served = past.served /\ past'.raced = past.raced
        /\ past'.tunerLeft = past.tunerLeft /\ past'.revived = past.revived
        /\ past'.released = past.released /\ past'.unreported
    BY <1>1, <1>3 DEF FilmPasts, Unreported
  <2>4. FilmTyped'
    BY <1>1, <2>1, <2>2, <2>3 DEF FilmTyped
  <2>5. FilmBytes'
    BY <1>1, <2>1, <2>2, <2>3, NoServerType DEF FilmBytes
  <2>6. FilmLeft'
    BY <1>1, <1>2, <2>1, <2>2, <2>3 DEF FilmLeft
  <2>7. FilmDue'
    BY <2>3 DEF FilmDue
  <2> QED
    BY <2>4, <2>5, <2>6, <2>7 DEF FilmInv
<1>4. CASE /\ hn' = [hn EXCEPT !.srv = StartServer(InjectByte(hn.srv, hn.given)),
                               !.state = "Streaming", !.holds = "nothing"]
           /\ past' = [past EXCEPT !.revived = past.revived \/ hn.phase # "up"]
  <2>1. PICK i : i = InjectByte(hn.srv, hn.given)
    OBVIOUS
  <2>2. PICK s : s = StartServer(i)
    OBVIOUS
  <2>3. hn.srv \in FilmServers /\ hn.given \in CCIBytes
    BY <1>1 DEF Films
  <2>4. /\ i \in FilmServers /\ i.cci = hn.given /\ i.pids = hn.srv.pids
        /\ i.psi = hn.srv.psi /\ i.pmt = hn.srv.pmt
    BY <2>1, <2>3 DEF InjectByte, FilmServers
  <2>5. /\ s \in FilmServers /\ s.cci = hn.given /\ s.pids = hn.srv.pids
        /\ s.psi = hn.srv.psi /\ s.pmt = hn.srv.pmt /\ s.st = "started"
    BY <2>2, <2>4 DEF StartServer, FilmServers
  <2>6. PICK f : f = hn'
    OBVIOUS
  <2>7. /\ f \in Films /\ f.state = "Streaming" /\ f.srv = s /\ f.zst = hn.zst /\ f.psi = hn.psi
        /\ f.ca = hn.ca /\ f.holds = "nothing" /\ f.thread = hn.thread /\ f.pmt = hn.pmt
        /\ f.cci = hn.cci /\ f.given = hn.given /\ f.phase = hn.phase
    BY <1>1, <1>4, <2>1, <2>2, <2>5, <2>6 DEF Films, HnStates, HnSessionIsUp
  <2>8. /\ past' \in FilmPasts /\ past'.byte = past.byte /\ past'.upset = past.upset
        /\ past'.served = past.served /\ past'.raced = past.raced
        /\ past'.tunerLeft = past.tunerLeft /\ past'.told = past.told
        /\ past'.revived = (past.revived \/ hn.phase # "up")
        /\ past'.released = past.released /\ past'.unreported = past.unreported
    BY <1>1, <1>4 DEF FilmPasts
  <2>9. FilmTyped'
    BY <1>1, <2>6, <2>7, <2>8 DEF FilmTyped
  <2>10. FilmBytes'
    BY <1>1, <2>5, <2>6, <2>7, <2>8 DEF FilmBytes
  <2>11. FilmLeft'
    BY <1>1, <1>2, <2>6, <2>7, <2>8 DEF FilmLeft, HnSessionIsUp
  <2>12. FilmDue'
    <3>1. SUFFICES ASSUME hn.phase = "up", ~past.unreported, past.served, FilmIsUp
                   PROVE  FilmIsUp'
      BY <1>1, <1>2, <2>6, <2>7, <2>8 DEF FilmDue, FilmIsSetUp
    <3>2. hn.zst = "TunerLocked" /\ FilmStreams
      BY <1>1, <3>1 DEF FilmIsUp, FilmStreams
    <3>3. rf # NoSource /\ hn.state # "ControlServerPending" /\ FilmTunes
      BY <3>1, <3>2 DEF FilmIsUp, FilmWaitsForPlay
    <3>4. Answered' <=> Answered
      BY <2>8 DEF Answered
    <3>5. FilmStreams'
      BY <1>1, <2>5, <2>6, <2>7, <3>2 DEF FilmStreams
    <3>6. FilmTunes'
      BY <1>1, <2>6, <2>7, <3>3, <3>4 DEF FilmTunes
    <3> QED
      BY <1>1, <2>6, <2>7, <3>1, <3>3, <3>5, <3>6 DEF FilmIsUp, HnSessionIsUp
  <2> QED
    BY <2>9, <2>10, <2>11, <2>12 DEF FilmInv
<1> QED
  BY <1>3, <1>4 DEF HnStarts

\* Torn down, a film has neither a tuner nor a stream left.
LEMMA TornDownLeaves ==
    ASSUME FilmTyped, FilmBytes, FilmLeft, hn.thread = "runs", hn.holds = "nothing",
           NEW p \in FilmPasts, HnTearDown(p), UNCHANGED <<hnq, cam, owed>>,
           threadq' \in Seq(ThreadEvents),
           p.byte = past.byte, p.upset = past.upset, p.served = past.served,
           p.raced = past.raced, p.tunerLeft = past.tunerLeft, p.revived = past.revived,
           p.released = past.released
    PROVE  /\ FilmTyped' /\ FilmBytes' /\ FilmLeft'
           /\ past'.unreported = p.unreported /\ past'.told = p.told
           /\ past'.served = p.served
<1>1. /\ hn' = TornDown /\ rf' = NoSource
      /\ past' = [p EXCEPT !.tunerLeft = p.tunerLeft \/ delete(rf).tuner # "none"]
      /\ (rf = NoSource \/ FilmSource(rf)) /\ hn \in Films
  BY DEF HnTearDown, FilmTyped
<1>2. delete(rf).tuner = "none" /\ ~p.tunerLeft
  BY <1>1, DeleteFacts DEF FilmLeft
<1>3. past' = p
  BY <1>1, <1>2 DEF FilmPasts
<1>4. PICK f : f = TornDown
  OBVIOUS
<1>5. /\ f \in Films /\ f.srv = NoServer /\ f.state = hn.state
      /\ f.ca = hn.ca /\ f.thread = hn.thread /\ f.holds = hn.holds
      /\ f.cci = hn.cci /\ f.phase = hn.phase
  BY <1>1, <1>4, TornDownFacts
<1>6. FilmTyped'
  BY <1>1, <1>3, <1>4, <1>5 DEF FilmTyped
<1>7. FilmBytes'
  BY <1>1, <1>3, <1>4, <1>5, NoServerType DEF FilmBytes
<1>8. FilmLeft'
  BY <1>1, <1>3, <1>4, <1>5 DEF FilmLeft
<1> QED
  BY <1>3, <1>6, <1>7, <1>8

LEMMA HnPSIUpdateKeeps ==
    ASSUME FilmInv, HnPSIUpdate
    PROVE  FilmInv'
<1>1. HnTakes("PSIUpdate") /\ UNCHANGED <<hnq, cam, owed>> /\ "PSIUpdate" \notin Tunes
  BY DEF HnPSIUpdate, Tunes
<1>2. /\ FilmTyped /\ FilmBytes /\ FilmLeft /\ hn \in Films /\ past \in FilmPasts
      /\ hn.thread = "runs" /\ hn.holds = "nothing" /\ Tail(threadq) \in Seq(ThreadEvents)
  BY <1>1, ThreadQuiet
<1>3. CASE hn.zst # "TunerLocked"
  BY <1>1, <1>3, NothingDoneKeeps DEF HnPSIUpdate
<1>4. CASE hn.zst = "TunerLocked"
  <2>1. threadq' = Append(Tail(threadq), "Play") /\ HnTearDown(Unreported)
    BY <1>4 DEF HnPSIUpdate, HnTakenAndPlay
  <2>2. PICK p : p = Unreported
    OBVIOUS
  <2>3. /\ p \in FilmPasts /\ p.unreported /\ p.byte = past.byte /\ p.upset = past.upset
        /\ p.served = past.served /\ p.raced = past.raced /\ p.tunerLeft = past.tunerLeft
        /\ p.revived = past.revived /\ p.released = past.released
    BY <1>2, <2>2 DEF Unreported, FilmPasts
  <2>4. threadq' \in Seq(ThreadEvents)
    <3>1. "Play" \in ThreadEvents
      BY DEF ThreadEvents
    <3> QED
      BY <1>2, <2>1, <3>1, QueuesFacts
  <2>5. FilmTyped' /\ FilmBytes' /\ FilmLeft' /\ past'.unreported
    BY <1>1, <1>2, <2>1, <2>2, <2>3, <2>4, TornDownLeaves
  <2> QED
    BY <2>5 DEF FilmInv, FilmDue
<1> QED
  BY <1>3, <1>4

LEMMA HnTunerLostKeeps ==
    ASSUME FilmInv, HnTunerLost
    PROVE  FilmInv'
<1>1. /\ HnTakes("TunerLost") /\ HnTaken /\ UNCHANGED <<hnq, cam, owed>>
      /\ HnTearDown(HnTold("lost"))
  BY DEF HnTunerLost
<1>2. /\ FilmTyped /\ FilmBytes /\ FilmLeft /\ hn \in Films /\ past \in FilmPasts
      /\ hn.thread = "runs" /\ hn.holds = "nothing" /\ Tail(threadq) \in Seq(ThreadEvents)
      /\ hn.phase = "up" /\ ~past.unreported =>
            past.served /\ FilmIsUp /\ hn.state # "ControlServerPending"
  BY <1>1, ThreadQuiet
<1>3. PICK p : p = HnTold("lost")
  OBVIOUS
<1>4. /\ p \in FilmPasts /\ p.unreported = past.unreported /\ p.told = "lost"
      /\ p.byte = past.byte /\ p.upset = past.upset
      /\ p.served = past.served /\ p.raced = past.raced /\ p.tunerLeft = past.tunerLeft
      /\ p.revived = past.revived /\ p.released = past.released
  BY <1>2, <1>3 DEF HnTold, FilmPasts
<1>5. threadq' \in Seq(ThreadEvents)
  BY <1>1, <1>2 DEF HnTaken
<1>6. /\ FilmTyped' /\ FilmBytes' /\ FilmLeft'
      /\ past'.unreported = past.unreported /\ past'.told = "lost" /\ past'.served = past.served
  BY <1>1, <1>2, <1>3, <1>4, <1>5, TornDownLeaves
<1>7. FilmDue'
  <2>1. PICK f : f = hn'
    OBVIOUS
  <2>2. /\ f.phase = hn.phase /\ f.thread = hn.thread /\ f.zst = "Stop" /\ f.state = hn.state
        /\ f.psi = "none" /\ f.srv = NoServer /\ f.holds = hn.holds /\ rf' = NoSource
    BY <1>1, <1>2, <2>1, TornDownFacts DEF HnTearDown
  <2>3. SUFFICES ASSUME FilmIsUp, hn.state # "ControlServerPending"
                 PROVE  FilmIsUp'
    BY <1>2, <1>6, <2>1, <2>2 DEF FilmDue
  <2>4. /\ \A x : Has(threadq', x) => Has(threadq, x)
        /\ TunesOnce(threadq) => TunesOnce(threadq')
    BY <1>1, <1>2, ThreadTakes DEF HnTaken
  <2>5. FilmStreams'
    BY <1>2, <2>1, <2>2, NoServerType DEF FilmStreams
  <2>6. Answered'
    BY <1>6 DEF Answered
  <2> QED
    BY <1>1, <2>1, <2>2, <2>3, <2>4, <2>5, <2>6 DEF FilmIsUp
<1> QED
  BY <1>6, <1>7 DEF FilmInv

LEMMA HnTunerRestoredKeeps ==
    ASSUME FilmInv, HnTunerRestored
    PROVE  FilmInv'
<1>1. /\ HnTakes("TunerRestored") /\ UNCHANGED <<hn, rf, hnq, cam, owed>>
      /\ threadq' = Append(Tail(threadq), "Play")
  BY DEF HnTunerRestored, HnTakenAndPlay
<1>2. PICK p : p = HnTold("restored")
  OBVIOUS
<1>3. past' = [p EXCEPT !.unreported = p.unreported \/ rf = NoSource]
  BY <1>2 DEF HnTunerRestored
<1>4. /\ FilmTyped /\ FilmBytes /\ FilmLeft /\ hn \in Films /\ past \in FilmPasts
      /\ hn.thread = "runs" /\ hn.holds = "nothing" /\ Tail(threadq) \in Seq(ThreadEvents)
      /\ hn.phase = "up" /\ ~past.unreported =>
            past.served /\ FilmIsUp /\ hn.state # "ControlServerPending"
  BY <1>1, ThreadQuiet
<1>5. /\ p \in FilmPasts /\ p.unreported = past.unreported
      /\ p.byte = past.byte /\ p.upset = past.upset
      /\ p.served = past.served /\ p.raced = past.raced /\ p.tunerLeft = past.tunerLeft
      /\ p.revived = past.revived /\ p.released = past.released
  BY <1>2, <1>4 DEF HnTold, FilmPasts
<1>6. /\ past' \in FilmPasts /\ past'.unreported = (past.unreported \/ rf = NoSource)
      /\ past'.byte = past.byte /\ past'.upset = past.upset
      /\ past'.served = past.served /\ past'.raced = past.raced
      /\ past'.tunerLeft = past.tunerLeft
      /\ past'.revived = past.revived /\ past'.released = past.released
  BY <1>3, <1>5 DEF FilmPasts
<1>7. "Play" \in ThreadEvents /\ "Play" \in Tunes /\ "TunerRestored" \in Tunes
  BY DEF ThreadEvents, Tunes
<1>8. /\ Append(Tail(threadq), "Play") \in Seq(ThreadEvents)
      /\ \A x : Has(Append(Tail(threadq), "Play"), x) <=> Has(Tail(threadq), x) \/ x = "Play"
      /\ TunesDue(Append(Tail(threadq), "Play"))
      /\ TunesOnce(Tail(threadq)) /\ ~TunesDue(Tail(threadq)) =>
            TunesOnce(Append(Tail(threadq), "Play"))
  BY <1>4, <1>7, QueuesFacts, ZenonT(60)
<1>9. FilmTyped'
  BY <1>1, <1>4, <1>6, <1>8 DEF FilmTyped
<1>10. FilmBytes'
  BY <1>1, <1>4, <1>6 DEF FilmBytes
<1>11. FilmLeft'
  BY <1>1, <1>4, <1>6 DEF FilmLeft
<1>12. FilmDue'
  <2>1. SUFFICES ASSUME FilmIsUp, hn.state # "ControlServerPending", rf # NoSource
                 PROVE  FilmIsUp'
    BY <1>1, <1>4, <1>6 DEF FilmDue
  <2>2. /\ \A x : Has(threadq, x) <=> Has(Tail(threadq), x) \/ x = "TunerRestored"
        /\ TunesDue(threadq) /\ ~TunesDue(Tail(threadq)) /\ TunesOnce(Tail(threadq))
    BY <1>1, <1>4, <1>7, <2>1, ThreadTakes DEF FilmIsUp
  <2>3. /\ \A x : x # "Play" /\ Has(threadq', x) => Has(threadq, x)
        /\ \A x : x # "TunerRestored" /\ Has(threadq, x) => Has(threadq', x)
        /\ TunesDue(threadq') /\ TunesOnce(threadq')
    BY <1>1, <1>8, <2>2
  <2>4. FilmTunes /\ FilmStreams
    BY <2>1 DEF FilmIsUp
  <2>5. hn.zst \in {"Stop", "WaitForTuner", "Suspended"} /\ hn.srv.st # "started"
        /\ hn.psi = "none"
    BY <2>2, <2>4 DEF FilmTunes, FilmStreams
  <2>6. FilmTunes'
    BY <1>1, <2>2, <2>3, <2>4, <2>5 DEF FilmTunes
  <2>7. FilmStreams'
    BY <1>1, <1>4, <2>5 DEF FilmStreams
  <2> QED
    BY <1>1, <2>1, <2>3, <2>6, <2>7 DEF FilmIsUp
<1> QED
  BY <1>9, <1>10, <1>11, <1>12 DEF FilmInv

LEMMA HnThreadKeeps ==
    ASSUME FilmInv, HnThread
    PROVE  FilmInv'
BY HnExitKeeps, HnTunesKeeps, HnTunerLockedKeeps, HnNotYetKeeps, HnPSIReadyKeeps,
   HnReadsCCIKeeps, HnStartsKeeps, HnPSIUpdateKeeps, HnTunerLostKeeps, HnTunerRestoredKeeps,
   HnTimeOutKeeps DEF HnThread

------------------------------------------------------------------------------
(* The others: the answers of the session and the stream *)

LEMMA FilmFacts ==
    ASSUME FilmInv
    PROVE  /\ FilmTyped /\ FilmBytes /\ FilmLeft /\ FilmDue /\ hn \in Films /\ past \in FilmPasts
           /\ rf = NoSource \/ FilmSource(rf)
           /\ hnq \in Seq(HnEvents) /\ threadq \in Seq(ThreadEvents) /\ cam \in Seq(CCIBytes)
           /\ hn.phase = "up" /\ ~past.unreported =>
                 /\ past.served => FilmIsUp
                 /\ ~past.served => FilmIsSetUp
BY DEF FilmInv, FilmTyped, FilmDue

\* An answer comes.
LEMMA FilmAnswerKeeps ==
    ASSUME FilmInv, NEW e \in HnEvents, hnq' = Append(hnq, e),
           owed' \subseteq owed, UNCHANGED <<hn, rf, threadq, cam, past>>,
           FilmIsSetUp => FilmIsSetUp',
           FilmIsUp => /\ e \notin {"SessionError", "StopController"}
                       /\ hn.state = "ControlServerPending" /\ FilmWaitsForPlay =>
                             FilmWaitsForPlay'
    PROVE  FilmInv'
<1>1. /\ hnq' \in Seq(HnEvents)
      /\ \A x : Has(hnq', x) <=> Has(hnq, x) \/ x = e
  BY FilmFacts, QueuesFacts
<1>2. FilmTyped'
  BY <1>1, FilmFacts DEF FilmTyped
<1>3. FilmBytes'
  BY FilmFacts DEF FilmBytes
<1>4. FilmLeft'
  BY FilmFacts DEF FilmLeft
<1>5. ASSUME FilmIsUp PROVE FilmIsUp'
  <2>1. FilmStreams'
    BY <1>5 DEF FilmIsUp, FilmStreams, Answered
  <2>2. CASE rf = NoSource
    BY <1>1, <1>5, <2>1, <2>2 DEF FilmIsUp, Answered
  <2>3. CASE rf # NoSource
    <3>1. FilmTunes'
      BY <1>5, <2>3 DEF FilmIsUp, FilmTunes, Answered
    <3> QED
      BY <1>1, <1>5, <2>1, <2>3, <3>1 DEF FilmIsUp
  <2> QED
    BY <2>2, <2>3
<1>6. FilmDue'
  BY <1>5, FilmFacts DEF FilmDue
<1> QED
  BY <1>2, <1>3, <1>4, <1>6 DEF FilmInv

LEMMA HnManagerKeeps ==
    ASSUME FilmInv, HnManager
    PROVE  FilmInv'
<1>1. UNCHANGED <<hn, rf, threadq, cam, past>>
  BY DEF HnManager
<1>2. hnq \in Seq(HnEvents)
  BY FilmFacts
<1>3. ASSUME NEW e \in {"SetupResp", "SessionError"}, "setup" \in owed, owed' = owed \ {"setup"},
             hnq' = Append(hnq, e)
      PROVE  FilmInv'
  <2>1. e \in HnEvents
    BY DEF HnEvents
  <2>2. ~FilmIsUp
    BY <1>3 DEF FilmIsUp
  <2>3. ASSUME FilmIsSetUp PROVE FilmIsSetUp'
    <3>1. hnq = <<>> /\ owed = {"setup"} /\ hn.state = "SessionPending"
      BY <1>3, <2>3 DEF FilmIsSetUp
    <3>2. /\ Len(hnq') = 1 /\ hnq'[1] = e /\ \A i \in 1..Len(hnq') : i = 1
          /\ hnq' # <<>>
      BY <1>2, <1>3, <2>1, <3>1, AppendFacts, EmptySeq
    <3> QED
      BY <1>1, <1>3, <2>3, <3>1, <3>2 DEF FilmIsSetUp
  <2> QED
    BY <1>1, <1>3, <2>1, <2>2, <2>3, FilmAnswerKeeps
<1>4. ASSUME "release" \in owed, owed' = owed \ {"release"}, hnq' = Append(hnq, "ReleaseResp")
      PROVE  FilmInv'
  <2>1. "ReleaseResp" \in HnEvents
    BY DEF HnEvents
  <2>2. ~FilmIsSetUp
    BY <1>4 DEF FilmIsSetUp
  <2>3. \A x : Has(hnq, x) => Has(hnq', x)
    BY <1>2, <1>4, <2>1, QueuesFacts
  <2>4. FilmWaitsForPlay => FilmWaitsForPlay'
    BY <1>1, <1>4, <2>3 DEF FilmWaitsForPlay
  <2> QED
    BY <1>1, <1>4, <2>1, <2>2, <2>4, FilmAnswerKeeps
<1> QED
  BY <1>3, <1>4 DEF HnManager

LEMMA HnStreamServerKeeps ==
    ASSUME FilmInv, HnStreamServer
    PROVE  FilmInv'
<1>1. UNCHANGED <<hn, rf, threadq, cam, past>> /\ owed' = owed \ {"play"}
  BY DEF HnStreamServer
<1>2. PICK e \in {"PlayResp", "StreamError", "PlayDone"} :
         /\ hnq' = Append(hnq, e)
         /\ "play" \in owed \/ hn.state \in {"TunerPending", "Streaming"}
         /\ e = "PlayDone" => hn.state = "Streaming"
  BY DEF HnStreamServer
<1>3. hnq \in Seq(HnEvents) /\ e \in HnEvents
  BY FilmFacts DEF HnEvents
<1>4. ~FilmIsSetUp
  BY <1>2 DEF FilmIsSetUp
<1>5. \A x : Has(hnq', x) <=> Has(hnq, x) \/ x = e
  BY <1>2, <1>3, QueuesFacts
<1>6. CASE e # "PlayDone"
  <2>1. FilmWaitsForPlay => FilmWaitsForPlay'
    BY <1>1, <1>5, <1>6 DEF FilmWaitsForPlay
  <2> QED
    BY <1>1, <1>2, <1>3, <1>4, <2>1, FilmAnswerKeeps
<1>7. CASE e = "PlayDone"
  <2>1. hn.state # "ControlServerPending"
    BY <1>2, <1>7
  <2> QED
    BY <1>1, <1>2, <1>3, <1>4, <1>7, <2>1, FilmAnswerKeeps
<1> QED
  BY <1>6, <1>7

------------------------------------------------------------------------------
(* The others: the tuner, the tables and the CAM *)

\* ResMon and the tuner change only a film that has a source.
LEMMA SourceKeeps ==
    ASSUME FilmInv, FilmSource(rf), FilmSource(rf'), threadq' \in Seq(ThreadEvents),
           UNCHANGED <<hn, hnq, cam, owed, past>>,
           FilmIsUp /\ FilmTunes =>
              /\ FilmTunes' /\ hn.state # "ControlServerPending" /\ ~Has(threadq', "Exit")
              /\ TunesOnce(threadq')
              /\ Has(threadq, "PSIReady") => Has(threadq', "PSIReady")
    PROVE  FilmInv'
<1>1. rf # NoSource /\ rf' # NoSource
  BY FilmSourceIsThere
<1>2. FilmTyped'
  BY FilmFacts DEF FilmTyped
<1>3. FilmBytes'
  BY FilmFacts DEF FilmBytes
<1>4. FilmLeft'
  BY <1>1, FilmFacts DEF FilmLeft
<1>5. ~FilmIsSetUp
  BY <1>1 DEF FilmIsSetUp
<1>6. ASSUME FilmIsUp PROVE FilmIsUp'
  <2>1. FilmTunes
    BY <1>1, <1>6 DEF FilmIsUp
  <2>2. FilmStreams'
    BY <1>6, <2>1 DEF FilmIsUp, FilmStreams, Answered
  <2> QED
    BY <1>1, <1>6, <2>1, <2>2 DEF FilmIsUp
<1>7. FilmDue'
  BY <1>5, <1>6, FilmFacts DEF FilmDue
<1> QED
  BY <1>2, <1>3, <1>4, <1>7 DEF FilmInv

LEMMA HnResMonKeeps ==
    ASSUME FilmInv, HnResMon
    PROVE  FilmInv'
<1>1. /\ UNCHANGED <<hn, hnq, threadq, cam, owed, past>>
      /\ \/ CanGrant(rf) /\ rf' = grant(rf)
         \/ CanGrant(rf) /\ rf' = deny(rf)
         \/ CanRevoke(rf) /\ rf' = revoke(rf)
         \/ CanTellToRetry(rf) /\ rf' = tellToRetry(rf)
  BY DEF HnResMon
<1>2. FilmSource(rf)
  BY <1>1, FilmFacts, NoSourceFacts DEF CanGrant, CanRevoke, CanTellToRetry
<1>3. FilmSource(rf')
  BY <1>1, <1>2, ResMonFacts
<1>4. /\ rf'.requested = rf.requested /\ rf'.granted = rf.granted
      /\ rf'.registered = rf.registered /\ rf'.mOpened = rf.mOpened
      /\ rf'.mStarted = rf.mStarted /\ rf'.locked = rf.locked
      /\ \/ rf.tuner = "asked" /\ rf'.tuner = "held" /\ rf'.answer = "Granted"
         \/ rf.tuner = "asked" /\ rf'.tuner = "denied"
         \/ rf.tuner = "held" /\ rf.granted /\ rf'.tuner = "revoked" /\ rf'.answer = "Revoked"
         \/ rf.requested /\ rf.tuner \in {"none", "denied"} /\ rf'.tuner = "none"
            /\ rf'.answer = "OkToRetry"
  BY <1>1, <1>2 DEF FilmSource, FilmSources, grant, deny, revoke, tellToRetry, CanGrant,
                    CanRevoke, CanTellToRetry
<1>5. rf.requested
  BY <1>2, <1>4 DEF FilmSource, SourceAgrees
<1>6. hn.state = "ControlServerPending" /\ FilmIsUp => FALSE
  BY <1>5 DEF FilmIsUp, FilmWaitsForPlay
<1>7. FilmTunes => FilmTunes'
  BY <1>1, <1>4, <1>5 DEF FilmTunes, Answered
<1> QED
  BY <1>1, <1>2, <1>3, <1>6, <1>7, FilmFacts, SourceKeeps DEF FilmIsUp

LEMMA HnSourceCBKeeps ==
    ASSUME FilmInv, HnSourceCB
    PROVE  FilmInv'
<1>1. UNCHANGED <<hn, hnq, cam, owed, past>>
  BY DEF HnSourceCB
<1>2. threadq \in Seq(ThreadEvents)
  BY FilmFacts
<1>3. CASE /\ rf.mStarted /\ ~rf.locked /\ rf' = [rf EXCEPT !.locked = TRUE]
           /\ threadq' = Append(threadq, "TunerLocked")
  <2>1. FilmSource(rf)
    BY <1>3, FilmFacts, NoSourceFacts
  <2>2. /\ FilmSource(rf')
        /\ rf'.requested = rf.requested /\ rf'.granted = rf.granted
        /\ rf'.registered = rf.registered /\ rf'.mOpened = rf.mOpened
        /\ rf'.mStarted = rf.mStarted /\ rf'.locked
        /\ rf'.tuner = rf.tuner /\ rf'.answer = rf.answer
    BY <1>3, <2>1 DEF FilmSource, FilmSources, SourceAgrees
  <2>3. "TunerLocked" \in ThreadEvents /\ "TunerLocked" \notin Tunes
    BY DEF ThreadEvents, Tunes
  <2>4. /\ threadq' \in Seq(ThreadEvents)
        /\ \A x : Has(threadq', x) <=> Has(threadq, x) \/ x = "TunerLocked"
        /\ TunesDue(threadq') <=> TunesDue(threadq)
        /\ TunesOnce(threadq) => TunesOnce(threadq')
    BY <1>2, <1>3, <2>3, QueuesFacts
  <2>5. FilmTunes => FilmTunes'
    BY <1>1, <2>2, <2>4 DEF FilmTunes, Answered
  <2>6. FilmTunes => rf.requested
    BY <1>3, <2>1 DEF FilmTunes, FilmSource, SourceAgrees
  <2>7. FilmIsUp /\ FilmTunes => hn.state # "ControlServerPending"
    BY <2>6 DEF FilmIsUp, FilmWaitsForPlay
  <2> QED
    BY <1>1, <2>1, <2>2, <2>4, <2>5, <2>7, SourceKeeps DEF FilmIsUp
<1>4. CASE /\ rf.answer # "none" /\ rf' = resourceManagerCallback(rf)
           /\ threadq' = IF ~CallbackSet(rf) THEN threadq
                         ELSE Append(threadq, IF rf.answer = "Revoked" THEN "TunerLost"
                                              ELSE "TunerRestored")
  <2>1. FilmSource(rf)
    BY <1>4, FilmFacts, NoSourceFacts
  <2>2. FilmSource(rf')
    BY <1>4, <2>1, ResMonFacts
  <2>3. /\ rf.requested /\ CallbackSet(rf) = rf.registered
        /\ rf.registered \in BOOLEAN /\ rf.requested \in BOOLEAN /\ rf.granted \in BOOLEAN
        /\ rf.answer \in {"Granted", "Revoked", "OkToRetry"} /\ ~isSDV(rf)
    BY <1>4, <2>1 DEF FilmSource, FilmSources, SourceAgrees, CallbackSet, isSDV
  <2>4. /\ rf'.registered = rf.registered /\ rf'.mOpened = rf.mOpened
        /\ rf'.mStarted = rf.mStarted /\ rf'.locked = rf.locked
        /\ rf'.tuner = rf.tuner /\ rf'.answer = "none"
        /\ rf'.requested = (rf.requested /\ (rf.registered => rf.answer # "OkToRetry"))
        /\ rf'.granted = (rf.granted \/ (rf.registered /\ rf.answer = "Granted"))
    <3> DEFINE taken == [rf EXCEPT !.answer = "none"]
    <3>1. /\ taken.registered = rf.registered /\ taken.mOpened = rf.mOpened
          /\ taken.mStarted = rf.mStarted /\ taken.locked = rf.locked
          /\ taken.tuner = rf.tuner /\ taken.answer = "none" /\ taken \in FilmSources
          /\ taken.requested = rf.requested /\ taken.granted = rf.granted
      BY <2>1 DEF FilmSource, FilmSources
    <3>2. CASE ~rf.registered
      <4>1. rf' = taken
        BY <1>4, <2>3, <3>2 DEF resourceManagerCallback
      <4> HIDE DEF taken
      <4>2. /\ rf'.registered = rf.registered /\ rf'.mOpened = rf.mOpened
            /\ rf'.mStarted = rf.mStarted /\ rf'.locked = rf.locked
            /\ rf'.tuner = rf.tuner /\ rf'.answer = "none"
            /\ rf'.requested = rf.requested /\ rf'.granted = rf.granted
        BY <3>1, <4>1
      <4> QED
        BY <2>3, <3>2, <4>2
    <3>3. CASE rf.registered /\ rf.answer = "OkToRetry"
      <4>1. rf' = [taken EXCEPT !.requested = FALSE]
        BY <1>4, <2>3, <3>3 DEF resourceManagerCallback
      <4> HIDE DEF taken
      <4> QED
        BY <2>3, <3>1, <3>3, <4>1 DEF FilmSources
    <3>4. CASE rf.registered /\ rf.answer = "Granted"
      <4>1. rf' = [taken EXCEPT !.granted = TRUE]
        BY <1>4, <2>3, <3>4 DEF resourceManagerCallback
      <4> HIDE DEF taken
      <4> QED
        BY <2>3, <3>1, <3>4, <4>1 DEF FilmSources
    <3>5. CASE rf.registered /\ rf.answer = "Revoked"
      <4>1. rf' = [taken EXCEPT !.mTuneParamSet = @ /\ ~isSDV(rf)]
        BY <1>4, <2>3, <3>5 DEF resourceManagerCallback
      <4> HIDE DEF taken
      <4> QED
        BY <2>3, <3>1, <3>5, <4>1 DEF FilmSources
    <3> QED
      BY <2>3, <3>2, <3>3, <3>4, <3>5
  <2>5. FilmIsUp => hn.state # "ControlServerPending"
    BY <2>3 DEF FilmIsUp, FilmWaitsForPlay
  <2>6. CASE ~rf.registered
    <3>1. threadq' = threadq
      BY <1>4, <2>3, <2>6
    <3>2. FilmTunes => FilmTunes'
      BY <1>1, <2>3, <2>4, <2>6, <3>1 DEF FilmTunes, Answered
    <3> QED
      BY <1>1, <1>2, <2>1, <2>2, <2>5, <3>1, <3>2, SourceKeeps DEF FilmIsUp
  <2>7. CASE rf.registered /\ rf.answer = "Revoked"
    <3>1. threadq' = Append(threadq, "TunerLost")
      BY <1>4, <2>3, <2>7
    <3>2. "TunerLost" \in ThreadEvents /\ "TunerLost" \notin Tunes
      BY DEF ThreadEvents, Tunes
    <3>3. /\ threadq' \in Seq(ThreadEvents)
          /\ \A x : Has(threadq', x) <=> Has(threadq, x) \/ x = "TunerLost"
          /\ TunesDue(threadq') <=> TunesDue(threadq)
          /\ TunesOnce(threadq) => TunesOnce(threadq')
      BY <1>2, <3>1, <3>2, QueuesFacts
    <3>4. FilmTunes => FilmTunes'
      BY <1>1, <2>3, <2>4, <2>7, <3>3 DEF FilmTunes, Answered
    <3> QED
      BY <1>1, <2>1, <2>2, <2>5, <3>3, <3>4, SourceKeeps DEF FilmIsUp
  <2>8. CASE rf.registered /\ rf.answer # "Revoked"
    <3>1. threadq' = Append(threadq, "TunerRestored")
      BY <1>4, <2>3, <2>8
    <3>2. "TunerRestored" \in ThreadEvents /\ "TunerRestored" \in Tunes
      BY DEF ThreadEvents, Tunes
    <3>3. ~rf.granted /\ rf.tuner \in {"none", "held"} /\ rf'.requested = rf'.granted
      BY <2>1, <2>3, <2>4, <2>8 DEF FilmSource, FilmSources, SourceAgrees
    <3>4. FilmTunes => /\ ~TunesDue(threadq) /\ ~rf.mOpened /\ ~rf.mStarted
                       /\ hn.zst \notin {"WaitSourceReady", "TunerLocked"}
      BY <2>1, <2>3, <3>3 DEF FilmTunes, FilmSource, SourceAgrees
    <3>5. /\ threadq' \in Seq(ThreadEvents)
          /\ \A x : Has(threadq', x) <=> Has(threadq, x) \/ x = "TunerRestored"
          /\ TunesDue(threadq')
          /\ ~TunesDue(threadq) /\ TunesOnce(threadq) => TunesOnce(threadq')
      BY <1>2, <3>1, <3>2, QueuesFacts
    <3>6. FilmIsUp /\ FilmTunes => FilmTunes'
      <4>1. SUFFICES ASSUME FilmIsUp, FilmTunes PROVE FilmTunes'
        OBVIOUS
      <4>2. hn.zst \in {"Stop", "WaitForTuner", "Suspended"}
        BY <3>4, <4>1, FilmFacts DEF FilmIsUp, Films, HnZapperStates
      <4>3. rf.tuner = "held" => rf'.granted
        BY <2>1, <2>3, <2>4, <2>8, <3>3, <4>1 DEF FilmTunes
      <4> QED
        BY <1>1, <2>3, <2>4, <2>8, <3>3, <3>4, <3>5, <4>1, <4>2, <4>3 DEF FilmTunes, Answered
    <3> QED
      BY <1>1, <2>1, <2>2, <2>5, <3>4, <3>5, <3>6, SourceKeeps DEF FilmIsUp
  <2> QED
    BY <2>3, <2>6, <2>7, <2>8
<1> QED
  BY <1>3, <1>4 DEF HnSourceCB

\* The thread is told of the tables.
LEMMA PsiKeeps ==
    ASSUME FilmInv, NEW psi \in {"read", "failed"}, NEW pmt \in FilmPmts,
           hn' = [hn EXCEPT !.psi = psi, !.pmt = pmt],
           NEW e \in {"PSIReady", "PSIUpdate", "TimeOut"}, threadq' = Append(threadq, e),
           UNCHANGED <<rf, hnq, cam, owed>>,
           past' = past \/ past' = Unreported, psi = "failed" => past' = Unreported,
           hn.psi = "reading" \/ (hn.psi = "read" /\ pmt = hn.pmt),
           hn.psi = "reading" => psi = "failed" \/ e = "PSIReady"
    PROVE  FilmInv'
<1>1. e \in ThreadEvents /\ e \notin Tunes
  BY DEF ThreadEvents, Tunes
<1>2. /\ threadq' \in Seq(ThreadEvents)
      /\ \A x : Has(threadq', x) <=> Has(threadq, x) \/ x = e
      /\ TunesDue(threadq') <=> TunesDue(threadq)
      /\ TunesOnce(threadq) => TunesOnce(threadq')
  BY <1>1, FilmFacts, QueuesFacts
<1>3. PICK f : f = hn'
  OBVIOUS
<1>4. /\ f \in Films /\ f.psi = psi /\ f.pmt = pmt /\ f.state = hn.state /\ f.srv = hn.srv
      /\ f.zst = hn.zst /\ f.ca = hn.ca /\ f.holds = hn.holds /\ f.thread = hn.thread
      /\ f.cci = hn.cci /\ f.given = hn.given /\ f.phase = hn.phase
  BY <1>3, FilmFacts DEF Films
<1>5. /\ past' \in FilmPasts /\ past'.byte = past.byte /\ past'.upset = past.upset
      /\ past'.served = past.served /\ past'.raced = past.raced
      /\ past'.tunerLeft = past.tunerLeft /\ past'.revived = past.revived
      /\ past'.released = past.released /\ past'.told = past.told
      /\ ~past'.unreported => ~past.unreported /\ psi = "read"
  <2>1. past \in FilmPasts
    BY FilmFacts
  <2> QED
    BY <2>1 DEF FilmPasts, Unreported
<1>6. FilmTyped'
  BY <1>2, <1>3, <1>4, <1>5, FilmFacts DEF FilmTyped
<1>7. FilmBytes'
  BY <1>3, <1>4, <1>5, FilmFacts DEF FilmBytes
<1>8. FilmLeft'
  BY <1>3, <1>4, <1>5, FilmFacts DEF FilmLeft
<1>9. FilmDue'
  <2>1. ~FilmIsSetUp
    BY DEF FilmIsSetUp
  <2>2. SUFFICES ASSUME FilmIsUp, psi = "read"
                 PROVE  FilmIsUp'
    BY <1>3, <1>4, <1>5, <2>1, FilmFacts DEF FilmDue
  <2>3. Answered' <=> Answered
    BY <1>5 DEF Answered
  <2>4. hn.psi = "reading" => e = "PSIReady" /\ hn.srv.st # "started" /\ hn.holds = "nothing"
    BY <2>2 DEF FilmIsUp, FilmStreams
  <2>5. FilmStreams'
    BY <1>2, <1>3, <1>4, <2>2, <2>3, <2>4 DEF FilmIsUp, FilmStreams
  <2>6. CASE rf = NoSource
    <3>1. hn.state # "ControlServerPending"
      BY <2>2, <2>6 DEF FilmIsUp, FilmWaitsForPlay
    <3> QED
      BY <1>2, <1>3, <1>4, <2>2, <2>3, <2>5, <2>6, <3>1 DEF FilmIsUp
  <2>7. CASE rf # NoSource
    <3>1. FilmTunes /\ FilmSource(rf)
      BY <2>2, <2>7, FilmFacts DEF FilmIsUp
    <3>2. rf.requested
      BY <3>1 DEF FilmTunes, FilmSource, SourceAgrees
    <3>3. hn.state # "ControlServerPending"
      BY <2>2, <3>2 DEF FilmIsUp, FilmWaitsForPlay
    <3>4. FilmTunes'
      BY <1>2, <1>3, <1>4, <2>2, <2>3, <3>1 DEF FilmTunes
    <3> QED
      BY <1>2, <1>3, <1>4, <2>2, <2>5, <2>7, <3>3, <3>4 DEF FilmIsUp
  <2> QED
    BY <2>6, <2>7
<1> QED
  BY <1>6, <1>7, <1>8, <1>9 DEF FilmInv

LEMMA PmtsAreTyped == HnPmts \subseteq FilmPmts
BY HnAssumption DEF FilmPmts

LEMMA HnPsiCallbackKeeps ==
    ASSUME FilmInv, HnPsiCallback
    PROVE  FilmInv'
<1>1. UNCHANGED <<rf, hnq, cam, owed>>
  BY DEF HnPsiCallback
<1>2. hn \in Films /\ hn.pmt \in FilmPmts
  BY FilmFacts DEF Films
<1>3. ASSUME hn.psi = "reading", NEW pmt \in HnPmts,
             hn' = [hn EXCEPT !.psi = "read", !.pmt = pmt],
             threadq' = Append(threadq, "PSIReady"), UNCHANGED past
      PROVE  FilmInv'
  BY <1>1, <1>3, PmtsAreTyped, PsiKeeps
<1>4. ASSUME hn.psi = "reading", hn' = [hn EXCEPT !.psi = "failed"],
             threadq' = Append(threadq, "TimeOut"), past' = Unreported
      PROVE  FilmInv'
  <2>1. hn' = [hn EXCEPT !.psi = "failed", !.pmt = hn.pmt]
    BY <1>2, <1>4 DEF Films
  <2> QED
    BY <1>1, <1>2, <1>4, <2>1, PsiKeeps
<1>5. ASSUME hn.psi = "read", NEW e \in {"PSIUpdate", "PSIReady"},
             threadq' = Append(threadq, e), UNCHANGED <<hn, past>>
      PROVE  FilmInv'
  <2>1. hn' = [hn EXCEPT !.psi = "read", !.pmt = hn.pmt]
    BY <1>2, <1>5 DEF Films
  <2> QED
    BY <1>1, <1>2, <1>5, <2>1, PsiKeeps
<1> QED
  BY <1>3, <1>4, <1>5 DEF HnPsiCallback

\* What is due of a film does not depend on the byte.
LEMMA ByteKeepsDue ==
    ASSUME FilmInv, NEW f, f = hn', f.state = hn.state, f.zst = hn.zst, f.psi = hn.psi,
           f.ca = hn.ca, f.holds = hn.holds, f.thread = hn.thread, f.pmt = hn.pmt,
           f.phase = hn.phase, f.srv.st = hn.srv.st, f.srv.psi = hn.srv.psi,
           f.srv.pmt = hn.srv.pmt, f.srv.pids = hn.srv.pids,
           past'.told = past.told, past'.served = past.served,
           past'.unreported = past.unreported, UNCHANGED <<rf, hnq, threadq, owed>>
    PROVE  FilmDue'
<1>1. Answered' <=> Answered
  BY DEF Answered
<1>2. ASSUME FilmIsSetUp PROVE FilmIsSetUp'
  BY <1>1, <1>2 DEF FilmIsSetUp
<1>3. ASSUME FilmIsUp PROVE FilmIsUp'
  <2>1. FilmStreams'
    BY <1>1, <1>3 DEF FilmIsUp, FilmStreams
  <2>2. FilmWaitsForPlay => FilmWaitsForPlay'
    BY DEF FilmWaitsForPlay
  <2>3. CASE rf = NoSource
    BY <1>1, <1>3, <2>1, <2>2, <2>3 DEF FilmIsUp
  <2>4. CASE rf # NoSource
    <3>1. FilmTunes'
      BY <1>1, <1>3, <2>4 DEF FilmIsUp, FilmTunes
    <3> QED
      BY <1>3, <2>1, <2>2, <2>4, <3>1 DEF FilmIsUp
  <2> QED
    BY <2>3, <2>4
<1> QED
  BY <1>2, <1>3, FilmFacts DEF FilmDue

LEMMA HnCamKeeps ==
    ASSUME FilmInv, HnCam
    PROVE  FilmInv'
<1>1. UNCHANGED <<hn, rf, hnq, threadq, owed>>
  BY DEF HnCam
<1>2. PICK b \in CCIBytes : cam' = Append(cam, b) /\ past' = [past EXCEPT !.byte = b]
  BY DEF HnCam
<1>3. /\ past' \in FilmPasts /\ past'.byte = b /\ past'.upset = past.upset
      /\ past'.served = past.served /\ past'.raced = past.raced
      /\ past'.tunerLeft = past.tunerLeft /\ past'.revived = past.revived
      /\ past'.released = past.released /\ past'.told = past.told
      /\ past'.unreported = past.unreported
  <2>1. past \in FilmPasts
    BY FilmFacts
  <2> QED
    BY <1>2, <2>1 DEF FilmPasts
<1>4. cam' \in Seq(CCIBytes) /\ cam' # <<>> /\ cam'[Len(cam')] = b
  BY <1>2, FilmFacts, QueuesFacts
<1>5. FilmTyped'
  BY <1>1, <1>3, <1>4, FilmFacts DEF FilmTyped
<1>6. FilmBytes'
  BY <1>1, <1>3, <1>4, FilmFacts DEF FilmBytes
<1>7. FilmLeft'
  BY <1>1, <1>3, FilmFacts DEF FilmLeft
<1>8. FilmDue'
  BY <1>1, <1>3, ByteKeepsDue
<1> QED
  BY <1>5, <1>6, <1>7, <1>8 DEF FilmInv

LEMMA InjectCCIFacts ==
    ASSUME NEW f \in Films, NEW b \in CCIBytes
    PROVE  LET g == InjectCCI(f, b)
           IN  /\ g \in Films /\ g.state = f.state /\ g.zst = f.zst /\ g.psi = f.psi
               /\ g.ca = f.ca /\ g.holds = f.holds /\ g.thread = f.thread /\ g.pmt = f.pmt
               /\ g.phase = f.phase /\ g.srv.st = f.srv.st /\ g.srv.psi = f.srv.psi
               /\ g.srv.pmt = f.srv.pmt /\ g.srv.pids = f.srv.pids
               /\ g.given = f.given /\ g.cci = b
               /\ f.srv.st = "none" => g.srv = f.srv
               /\ f.srv.st = "started" => g.srv.cci = b
<1>1. f.srv \in FilmServers
  BY DEF Films
<1>2. PICK s : s = IF f.srv.st = "none" THEN f.srv ELSE [f.srv EXCEPT !.cci = b]
  OBVIOUS
<1>3. /\ s \in FilmServers /\ s.st = f.srv.st /\ s.psi = f.srv.psi
      /\ s.pmt = f.srv.pmt /\ s.pids = f.srv.pids
      /\ f.srv.st = "none" => s = f.srv
      /\ f.srv.st = "started" => s.cci = b
  <2>1. CASE f.srv.st = "none"
    BY <1>1, <1>2, <2>1
  <2>2. CASE f.srv.st # "none"
    BY <1>1, <1>2, <2>2 DEF FilmServers
  <2> QED
    BY <2>1, <2>2
<1>4. InjectCCI(f, b) = [f EXCEPT !.cci = b, !.srv = s]
  BY <1>2 DEF InjectCCI, InjectByte
<1> QED
  BY <1>3, <1>4 DEF Films

LEMMA HnCCIUpdatedKeeps ==
    ASSUME FilmInv, HnCCIUpdated
    PROVE  FilmInv'
<1>1. /\ cam # <<>> /\ cam' = Tail(cam) /\ UNCHANGED <<rf, hnq, threadq, owed>>
      /\ past' = [past EXCEPT !.raced = past.raced \/ hn.holds = "injecting"]
      /\ hn' = IF hn.phase = "gone" THEN hn ELSE InjectCCI(hn, Head(cam))
  BY DEF HnCCIUpdated
<1>2. /\ past' \in FilmPasts /\ past'.byte = past.byte /\ past'.upset = past.upset
      /\ past'.served = past.served /\ past'.raced = (past.raced \/ hn.holds = "injecting")
      /\ past'.tunerLeft = past.tunerLeft /\ past'.revived = past.revived
      /\ past'.released = past.released /\ past'.told = past.told
      /\ past'.unreported = past.unreported
  <2>1. past \in FilmPasts
    BY FilmFacts
  <2> QED
    BY <1>1, <2>1 DEF FilmPasts
<1>3. /\ Tail(cam) \in Seq(CCIBytes) /\ Head(cam) \in CCIBytes
      /\ cam[Len(cam)] = IF Tail(cam) = <<>> THEN Head(cam) ELSE Tail(cam)[Len(Tail(cam))]
  <2>1. /\ Tail(cam) \in Seq(CCIBytes) /\ Len(cam) \in Nat \ {0} /\ Len(Tail(cam)) = Len(cam) - 1
        /\ Head(cam) = cam[1] /\ cam[1] \in CCIBytes
        /\ \A i \in 2..Len(cam) : Tail(cam)[i - 1] = cam[i]
    BY <1>1, FilmFacts, TailFacts
  <2>2. CASE Tail(cam) = <<>>
    <3>1. Len(cam) = 1
      BY <2>1, <2>2, EmptySeq
    <3> QED
      BY <2>1, <2>2, <3>1
  <2>3. CASE Tail(cam) # <<>>
    <3>1. Len(Tail(cam)) \in Nat /\ Len(Tail(cam)) # 0
      BY <2>1, <2>3, EmptySeq, LenProperties
    <3>2. Len(cam) \in 2..Len(cam)
      BY <2>1, <3>1
    <3>3. Tail(cam)[Len(cam) - 1] = cam[Len(cam)]
      BY <2>1, <3>2
    <3> QED
      BY <2>1, <2>3, <3>3
  <2> QED
    BY <2>1, <2>2, <2>3
<1>4. PICK f : f = hn'
  OBVIOUS
<1>5. /\ f \in Films /\ f.state = hn.state /\ f.zst = hn.zst /\ f.psi = hn.psi
      /\ f.ca = hn.ca /\ f.holds = hn.holds /\ f.thread = hn.thread /\ f.pmt = hn.pmt
      /\ f.phase = hn.phase /\ f.srv.st = hn.srv.st /\ f.srv.psi = hn.srv.psi
      /\ f.srv.pmt = hn.srv.pmt /\ f.srv.pids = hn.srv.pids
      /\ f.given = hn.given
      /\ hn.phase # "gone" => f.cci = Head(cam)
      /\ hn.srv.st = "none" => f.srv = hn.srv
      /\ hn.phase # "gone" /\ hn.srv.st = "started" => f.srv.cci = Head(cam)
  BY <1>1, <1>3, <1>4, FilmFacts, InjectCCIFacts
<1>6. FilmTyped'
  BY <1>1, <1>2, <1>3, <1>4, <1>5, FilmFacts DEF FilmTyped
<1>7. FilmBytes'
  <2>1. FilmBytes /\ FilmLeft
    BY FilmFacts
  <2>2. CASE hn.phase = "gone"
    BY <1>2, <1>4, <1>5, <2>1, <2>2, NoServerType DEF FilmBytes, FilmLeft
  <2>3. CASE hn.phase # "gone"
    <3>1. past'.byte = IF cam' = <<>> THEN f.cci ELSE cam'[Len(cam')]
      BY <1>1, <1>2, <1>3, <1>5, <2>1, <2>3 DEF FilmBytes
    <3> QED
      BY <1>2, <1>4, <1>5, <2>3, <3>1 DEF FilmBytes
  <2> QED
    BY <2>2, <2>3
<1>8. FilmLeft'
  BY <1>1, <1>2, <1>4, <1>5, NoServerType, FilmFacts DEF FilmLeft
<1>9. FilmDue'
  BY <1>1, <1>2, <1>4, <1>5, ByteKeepsDue
<1> QED
  BY <1>6, <1>7, <1>8, <1>9 DEF FilmInv

------------------------------------------------------------------------------
(* The film is served *)

LEMMA FilmInitInv ==
    ASSUME HnInit
    PROVE  FilmInv
<1>1. /\ hn = NewFilm /\ rf = NoSource /\ hnq = <<>> /\ threadq = <<>> /\ cam = <<>>
      /\ owed = {} /\ past = NewPast
  BY DEF HnInit
<1>2. NoPmt \in FilmPmts
  BY FS_EmptySet DEF NoPmt, FilmPmts
<1>3. /\ hn \in Films /\ hn.srv = NoServer /\ hn.holds = "nothing" /\ hn.phase = "up"
      /\ hn.state = "WaitForLoad" /\ hn.thread = "none" /\ hn.psi = "none" /\ hn.zst = "Idle"
      /\ hn.cci = "restrictive"
  BY <1>1, <1>2, NoServerType
     DEF NewFilm, Films, HnStates, HnZapperStates, CCIBytes
<1>4. /\ past \in FilmPasts /\ past.byte = "restrictive" /\ ~past.tunerLeft /\ ~past.served
  BY <1>1 DEF NewPast, FilmPasts, CCIBytes
<1>5. FilmTyped
  BY <1>1, <1>3, <1>4, EmptyFacts DEF FilmTyped
<1>6. FilmBytes
  BY <1>1, <1>3, <1>4, NoServerType DEF FilmBytes
<1>7. FilmLeft
  BY <1>3, <1>4 DEF FilmLeft
<1>8. FilmIsSetUp
  BY <1>1, <1>3, EmptyFacts DEF FilmIsSetUp
<1> QED
  BY <1>4, <1>5, <1>6, <1>7, <1>8 DEF FilmInv, FilmDue

LEMMA FilmNextInv ==
    ASSUME FilmInv, [HnNext]_hnVars
    PROVE  FilmInv'
<1>1. CASE UNCHANGED hnVars
  <2>1. FilmTyped'
    BY <1>1 DEF hnVars, FilmInv, FilmTyped
  <2>2. FilmBytes'
    BY <1>1 DEF hnVars, FilmInv, FilmBytes
  <2>3. FilmLeft'
    BY <1>1 DEF hnVars, FilmInv, FilmLeft
  <2>4. PICK f : f = hn'
    OBVIOUS
  <2>5. FilmDue'
    BY <1>1, <2>4, ByteKeepsDue DEF hnVars
  <2> QED
    BY <2>1, <2>2, <2>3, <2>5 DEF FilmInv
<1>2. CASE HnNext
  BY <1>2, HnLoadKeeps, HnPlayKeeps, HnStopKeeps, HnStopStreamingKeeps, HnEjectKeeps,
     HnEjectedKeeps, HnLoopKeeps, HnThreadKeeps, HnManagerKeeps, HnStreamServerKeeps,
     HnResMonKeeps, HnSourceCBKeeps, HnPsiCallbackKeeps, HnCamKeeps, HnCCIUpdatedKeeps
     DEF HnNext
<1> QED
  BY <1>1, <1>2

\* The set of a film's numbers has a least one.
LEMMA LeastPid ==
    ASSUME NEW T \in SUBSET Nat, T # {}
    PROVE  \E n \in T : \A m \in T : n <= m
<1>1. PICK n \in T : \A m \in T : <<m, n>> \notin OpToRel(<, Nat)
  BY NatLessThanWellFounded, WFMin
<1>2. \A m \in T : ~(m < n)
  BY <1>1 DEF OpToRel
<1>3. \A k, m \in T : ~(m < k) => k <= m
  OBVIOUS
<1> QED
  BY <1>2, <1>3

\* One video, if there is one.
LEMMA VideoPidsFacts ==
    ASSUME NEW pmt \in FilmPmts
    PROVE  /\ IsFiniteSet(VideoPids(pmt)) /\ Cardinality(VideoPids(pmt)) <= Cardinality(pmt.video)
           /\ pmt.video # {} => \E pid \in VideoPids(pmt) : pid.type = "video"
<1>1. pmt.video \in SUBSET Nat /\ IsFiniteSet(pmt.video)
  BY DEF FilmPmts
<1>2. CASE pmt.video = {}
  <2>1. VideoPids(pmt) = {}
    BY <1>2 DEF VideoPids
  <2> QED
    BY <1>2, <2>1, FS_EmptySet
<1>3. CASE pmt.video # {}
  <2>1. PICK n \in pmt.video : \A m \in pmt.video : n <= m
    BY <1>1, <1>3, LeastPid
  <2>2. \A k \in pmt.video : (\A m \in pmt.video : k <= m) => k = n
    BY <1>1, <2>1
  <2>3. VideoPids(pmt) = {Pid("video", n)}
    BY <2>1, <2>2 DEF VideoPids
  <2>4. IsFiniteSet(VideoPids(pmt)) /\ Cardinality(VideoPids(pmt)) = 1
    BY <2>3, FS_Singleton
  <2>5. Cardinality(pmt.video) \in Nat /\ Cardinality(pmt.video) # 0
    BY <1>1, <1>3, FS_CardinalityType, FS_EmptySet
  <2>6. Pid("video", n).type = "video"
    BY DEF Pid
  <2> QED
    BY <2>3, <2>4, <2>5, <2>6
<1> QED
  BY <1>2, <1>3

\* There is room for the PIDs.
LEMMA PidsFit ==
    ASSUME NEW pmt \in FilmPmts
    PROVE  Cardinality(FilmPids(pmt)) <= NumOfPids(pmt)
<1> DEFINE A == AudioPids(pmt)
           C == ClockPid(pmt)
           M == MusicPid(pmt)
           V == VideoPids(pmt)
           f == [n \in pmt.audio |-> Pid("audio", n)]
<1>1. IsFiniteSet(A) /\ Cardinality(A) <= Cardinality(pmt.audio)
  <2>1. f \in Surjection(pmt.audio, A)
    BY DEF Surjection, AudioPids
  <2>2. IsFiniteSet(pmt.audio)
    BY DEF FilmPmts
  <2> QED
    BY <2>1, <2>2, FS_Surjection
<1>2. IsFiniteSet(C) /\ Cardinality(C) = 1
  BY FS_Singleton DEF ClockPid
<1>3. IsFiniteSet(M) /\ Cardinality(M) = IF pmt.music THEN 1 ELSE 0
  BY FS_Singleton, FS_EmptySet DEF MusicPid
<1>4. IsFiniteSet(V) /\ Cardinality(V) <= Cardinality(pmt.video)
  BY VideoPidsFacts
<1>5. FilmPids(pmt) = ((A \cup C) \cup M) \cup V
  BY DEF FilmPids
<1> HIDE DEF A, C, M, V
<1>6. ASSUME NEW S, NEW T, IsFiniteSet(S), IsFiniteSet(T)
      PROVE  /\ IsFiniteSet(S \cup T)
             /\ Cardinality(S \cup T) <= Cardinality(S) + Cardinality(T)
  <2>1. IsFiniteSet(S \cap T) /\ IsFiniteSet(S \cup T)
    BY <1>6, FS_Intersection, FS_Union
  <2>2. /\ Cardinality(S) \in Nat /\ Cardinality(T) \in Nat /\ Cardinality(S \cap T) \in Nat
        /\ Cardinality(S \cup T) \in Nat
    BY <1>6, <2>1, FS_CardinalityType
  <2>3. Cardinality(S \cup T) = Cardinality(S) + Cardinality(T) - Cardinality(S \cap T)
    BY <1>6, FS_Union
  <2> QED
    BY <2>1, <2>2, <2>3
<1>7. /\ IsFiniteSet(A \cup C) /\ Cardinality(A \cup C) <= Cardinality(A) + Cardinality(C)
  BY <1>1, <1>2, <1>6
<1>8. /\ IsFiniteSet((A \cup C) \cup M)
      /\ Cardinality((A \cup C) \cup M) <= Cardinality(A \cup C) + Cardinality(M)
  BY <1>3, <1>6, <1>7
<1>9. /\ IsFiniteSet(((A \cup C) \cup M) \cup V)
      /\ Cardinality(((A \cup C) \cup M) \cup V) <= Cardinality((A \cup C) \cup M) + Cardinality(V)
  BY <1>4, <1>6, <1>8
<1>10. /\ Cardinality(A) \in Nat /\ Cardinality(C) \in Nat /\ Cardinality(M) \in Nat
       /\ Cardinality(V) \in Nat /\ Cardinality(A \cup C) \in Nat
       /\ Cardinality((A \cup C) \cup M) \in Nat
       /\ Cardinality(((A \cup C) \cup M) \cup V) \in Nat
       /\ Cardinality(pmt.audio) \in Nat /\ Cardinality(pmt.video) \in Nat
  <2>1. IsFiniteSet(pmt.audio) /\ IsFiniteSet(pmt.video)
    BY DEF FilmPmts
  <2> QED
    BY <1>1, <1>2, <1>3, <1>4, <1>7, <1>8, <1>9, <2>1, FS_CardinalityType
<1>11. NumOfPids(pmt) = (IF pmt.music THEN 1 ELSE 0) + Cardinality(pmt.audio)
                        + Cardinality(pmt.video) + 1
  BY DEF NumOfPids
<1> QED
  BY <1>1, <1>2, <1>3, <1>4, <1>5, <1>7, <1>8, <1>9, <1>10, <1>11

LEMMA FilmInvImplies ==
    ASSUME FilmInv
    PROVE  FilmIsProtected /\ FilmLeavesNothing /\ FilmIsAnswered
<1>1. FilmIsProtected
  BY FilmFacts DEF FilmIsProtected, FilmBytes
<1>2. FilmLeavesNothing
  BY FilmFacts DEF FilmLeavesNothing, FilmLeft
<1>3. FilmIsAnswered
  <2>1. SUFFICES ASSUME HnAtRest, hn.phase = "up", hn.zst # "Suspended",
                        hn.state \notin {"WaitForLoad", "PreparingToView"},
                        ~Answered, ~past.unreported
                 PROVE  StreamsWhole
    BY DEF FilmIsAnswered, Answered
  <2>2. hnq = <<>> /\ threadq = <<>> /\ owed = {}
    BY <2>1 DEF HnAtRest
  <2>3. /\ \A x : ~Has(hnq, x) /\ ~Has(threadq, x)
        /\ ~TunesDue(threadq)
    BY <2>2, EmptyFacts
  <2>4. FilmIsUp
    <3>1. ~FilmIsSetUp
      BY <2>1, <2>2 DEF FilmIsSetUp
    <3> QED
      BY <2>1, <3>1, FilmFacts
  <2>5. hn.state # "ControlServerPending"
    BY <2>2, <2>3, <2>4 DEF FilmIsUp, FilmWaitsForPlay
  <2>6. FilmTunes /\ FilmStreams /\ FilmSource(rf)
    BY <2>1, <2>4, FilmFacts DEF FilmIsUp
  <2>7. rf.requested
    BY <2>1, <2>3, <2>5, <2>6 DEF FilmTunes
  <2>8. rf.tuner \in {"held", "revoked"} /\ rf.answer = "none"
    BY <2>1, <2>6, <2>7 DEF HnAtRest, CanGrant, CanTellToRetry, FilmSource, FilmSources
  <2>9. rf.tuner = "held" /\ rf.granted
    BY <2>1, <2>3, <2>6, <2>8 DEF FilmTunes
  <2>10. rf.mStarted /\ hn.zst = "TunerLocked"
    BY <2>1, <2>3, <2>6, <2>9 DEF FilmTunes, HnAtRest
  <2>11. hn.psi = "read" /\ hn.srv.st = "started"
    BY <2>1, <2>3, <2>6, <2>10 DEF FilmStreams, HnAtRest
  <2>12. /\ hn.ca /\ hn.srv.psi /\ hn.srv.pmt /\ hn.srv.pids = FilmPids(hn.pmt)
         /\ hn.state = "Streaming"
    BY <2>1, <2>6, <2>11 DEF FilmStreams, FilmPids
  <2>13. hn.pmt \in FilmPmts
    BY FilmFacts DEF Films
  <2>14. Cardinality(hn.srv.pids) <= NumOfPids(hn.pmt)
    BY <2>12, <2>13, PidsFit
  <2>15. AudioPids(hn.pmt) \cup ClockPid(hn.pmt) \subseteq hn.srv.pids
    BY <2>12 DEF FilmPids
  <2>16. \E pid \in hn.srv.pids : pid.type \in {"video", "music"} \/ hn.pmt.video = {}
    <3>1. CASE hn.pmt.video = {}
      <4>1. Pid("clock", 0) \in hn.srv.pids
        BY <2>12 DEF FilmPids, ClockPid
      <4> QED
        BY <3>1, <4>1
    <3>2. CASE hn.pmt.video # {}
      BY <2>12, <2>13, <3>2, VideoPidsFacts DEF FilmPids
    <3> QED
      BY <3>1, <3>2
  <2> QED
    BY <2>9, <2>10, <2>11, <2>12, <2>14, <2>15, <2>16 DEF StreamsWhole
<1> QED
  BY <1>1, <1>2, <1>3

------------------------------------------------------------------------------
(* The movie: its set-up is answered once *)

Outcomes == {"SetupResp", "SessionError"}

\* The states in which no set-up is under way, as long as the movie is not
\* stopped and its stream is not broken.
NoSetUp == {"PreparingToView", "ServerReady", "ControlServerPending", "ControlServerReady",
            "TunerPending", "Streaming"}

NoOutcome(q) == \A i \in 1..Len(q) : q[i] \notin Outcomes
OneOutcome(q) == \A i, j \in 1..Len(q) : q[i] \in Outcomes /\ q[j] \in Outcomes => i = j

\* Unless the box has mistaken something for an answer, one request is listed,
\* or its outcome is queued, and neither once the session is up.
RestartOK ==
    ses.id # 0 /\ ~ses.mistaken =>
        /\ OneOutcome(queue)
        /\ \A m, k \in ses.sends : m = k
        /\ ses.sends # {} => NoOutcome(queue)
        /\ ctl.state \in NoSetUp => ses.sends = {} /\ NoOutcome(queue)

LEMMA OutcomesAppended ==
    ASSUME NEW q \in Seq(OnDemandEvents), NEW e \in OnDemandEvents
    PROVE  /\ NoOutcome(q) => OneOutcome(Append(q, e))
           /\ e \notin Outcomes /\ NoOutcome(q) => NoOutcome(Append(q, e))
           /\ e \notin Outcomes /\ OneOutcome(q) => OneOutcome(Append(q, e))
<1>1. PICK r : r = Append(q, e)
  OBVIOUS
<1>2. /\ Len(q) \in Nat /\ Len(r) = Len(q) + 1 /\ r[Len(q) + 1] = e
      /\ \A i \in 1..Len(q) : r[i] = q[i]
  BY <1>1, QueueFacts
<1>3. \A i \in 1..Len(r) : i \in 1..Len(q) \/ i = Len(q) + 1
  BY <1>2
<1> QED
  BY <1>1, <1>2, <1>3 DEF NoOutcome, OneOutcome

LEMMA OutcomesTaken ==
    ASSUME NEW q \in Seq(OnDemandEvents), q # <<>>
    PROVE  /\ NoOutcome(q) => NoOutcome(Tail(q)) /\ Head(q) \notin Outcomes
           /\ OneOutcome(q) => OneOutcome(Tail(q))
           /\ OneOutcome(q) /\ Head(q) \in Outcomes => NoOutcome(Tail(q))
<1>1. PICK r : r = Tail(q)
  OBVIOUS
<1>2. /\ Len(q) \in Nat /\ Len(r) = Len(q) - 1 /\ Head(q) = q[1] /\ 1 \in 1..Len(q)
      /\ \A i \in 1..Len(q) - 1 : r[i] = q[i + 1]
  BY <1>1, QueueFacts
<1>3. \A i \in 1..Len(r) : i + 1 \in 1..Len(q) /\ i + 1 # 1 /\ r[i] = q[i + 1]
  BY <1>2
<1>4. \A i, j \in 1..Len(r) : i + 1 = j + 1 => i = j
  BY <1>2
<1> QED
  BY <1>1, <1>2, <1>3, <1>4 DEF NoOutcome, OneOutcome

\* A step that neither lists a request nor brings an outcome.
LEMMA QuietStep ==
    ASSUME MovieInv, RestartOK,
           ses'.id = ses.id, ses'.sends = ses.sends, ses'.mistaken = ses.mistaken,
           ctl'.state \in NoSetUp => ctl.state \in NoSetUp,
           \/ UNCHANGED queue
           \/ \E e \in OnDemandEvents \ Outcomes : queueEvent(e)
           \/ \E e \in OnDemandEvents : Handles(e)
    PROVE  RestartOK'
<1>1. queue \in Seq(OnDemandEvents)
  BY DEF MovieInv, QueueOK
<1>2. /\ OneOutcome(queue) => OneOutcome(queue')
      /\ NoOutcome(queue) => NoOutcome(queue')
  BY <1>1, OutcomesAppended, OutcomesTaken DEF queueEvent, Handles
<1> QED
  BY <1>2 DEF RestartOK

\* An outcome is handled: nothing is under way any more.
LEMMA OutcomeHandled ==
    ASSUME MovieInv, RestartOK, NEW e \in Outcomes, Handles(e), ses' = ses
    PROVE  RestartOK'
<1>1. queue \in Seq(OnDemandEvents) /\ queue # <<>> /\ queue' = Tail(queue) /\ Head(queue) = e
  BY DEF MovieInv, QueueOK, Handles
<1>2. /\ OneOutcome(queue) => OneOutcome(queue') /\ NoOutcome(queue')
      /\ ~NoOutcome(queue)
  BY <1>1, OutcomesTaken
<1> QED
  BY <1>2 DEF RestartOK

LEMMA LoadBegins ==
    ASSUME MovieInv, Load
    PROVE  RestartOK'
<1>1. ses' = [NoSession EXCEPT !.id = mPrevVodSessionId', !.mistaken = queue # <<>>]
      /\ UNCHANGED queue
  BY DEF Load, NewSession
<1>2. PICK n, late : n = mPrevVodSessionId' /\ late = (queue # <<>>)
  OBVIOUS
<1>3. ses' = [id |-> n, trans |-> 0, sends |-> {}, mistaken |-> late]
  BY <1>1, <1>2 DEF NoSession
<1>4. ses'.sends = {} /\ ses'.mistaken = (queue # <<>>)
  BY <1>2, <1>3
<1>5. queue = <<>> => NoOutcome(queue) /\ OneOutcome(queue)
  BY DEF NoOutcome, OneOutcome
<1> QED
  BY <1>1, <1>4, <1>5 DEF RestartOK

\* The request of Play is listed when it returns.
LEMMA PlayReturnsLists ==
    ASSUME MovieInv, RestartOK, PlayReturns
    PROVE  RestartOK'
<1>1. /\ ses \in SessionRecord /\ ctl.state \in NoSetUp /\ ctl \in ControllerRecord
      /\ UNCHANGED queue
  BY BoxFacts DEF MovieInv, LifeOK, SessionOK, PlayReturns, NoSetUp
<1>2. PICK m : m = [trans |-> ses.trans, count |-> messageRetryCount + 1]
  OBVIOUS
<1>3. ses' = [ses EXCEPT !.sends = ses.sends \cup {m}]
  BY <1>2 DEF PlayReturns, AddMessageToSendList
<1>4. ses'.id = ses.id /\ ses'.sends = ses.sends \cup {m} /\ ses'.mistaken = ses.mistaken
  BY <1>1, <1>3 DEF SessionRecord
<1>5. ctl' = [ctl EXCEPT !.state = "SessionPending"]
  BY DEF PlayReturns
<1>6. ctl'.state \notin NoSetUp
  BY <1>1, <1>5 DEF ControllerRecord, NoSetUp
<1> QED
  BY <1>1, <1>4, <1>6 DEF RestartOK

\* The request that follows an error is listed as it is sent.
LEMMA SessionErrorLists ==
    ASSUME MovieInv, RestartOK, SessionError
    PROVE  RestartOK'
<1>1. /\ ses \in SessionRecord /\ ctl \in ControllerRecord /\ Handles("SessionError")
      /\ queue \in Seq(OnDemandEvents) /\ queue # <<>> /\ queue' = Tail(queue)
      /\ Head(queue) \in Outcomes /\ "SessionError" \in Outcomes
  BY BoxFacts DEF MovieInv, SessionOK, QueueOK, SessionError, Handles, Outcomes
<1>2. CASE ses' = AddMessageToSendList(NextTransaction(ses)) /\ ctl'.state \notin NoSetUp
  <2>1. PICK t : t = NextTransaction(ses)
    OBVIOUS
  <2>2. t \in SessionRecord /\ t.id = ses.id /\ t.sends = ses.sends /\ t.mistaken = ses.mistaken
    BY <1>1, <2>1, TransactionBegun
  <2>3. PICK m : m = [trans |-> t.trans, count |-> messageRetryCount + 1]
    OBVIOUS
  <2>4. ses' = [t EXCEPT !.sends = t.sends \cup {m}]
    BY <1>2, <2>1, <2>3 DEF AddMessageToSendList
  <2>5. ses'.id = ses.id /\ ses'.sends = ses.sends \cup {m} /\ ses'.mistaken = ses.mistaken
    BY <2>2, <2>4 DEF SessionRecord
  <2>6. /\ OneOutcome(queue) => OneOutcome(queue') /\ NoOutcome(queue')
        /\ ~NoOutcome(queue)
    BY <1>1, OutcomesTaken
  <2> QED
    BY <1>2, <2>5, <2>6 DEF RestartOK
<1>3. CASE UNCHANGED ses
  BY <1>1, <1>3, OutcomeHandled
<1>4. ctl' = [ctl EXCEPT !.state = "SessionPending", !.retries = ctl.retries + 1] =>
         ctl'.state \notin NoSetUp
  BY <1>1 DEF ControllerRecord, NoSetUp
<1> QED
  BY <1>2, <1>3, <1>4 DEF SessionError

\* A confirm is the answer to the request that is listed, or for none.
LEMMA ReadSessionAnswers ==
    ASSUME MovieInv, RestartOK, ReadSession
    PROVE  RestartOK'
<1>1. UNCHANGED ctl /\ ses \in SessionRecord /\ queue \in Seq(OnDemandEvents)
  BY DEF ReadSession, MovieInv, SessionOK, QueueOK
<1>2. PICK m : HandleSessionConfirmResp(m) \/ HandleReleaseConfirmResp
  BY DEF ReadSession, ReadSessionSocketCallback
<1>3. CASE HandleReleaseConfirmResp
  <2>1. UNCHANGED ses /\ \E e \in OnDemandEvents \ Outcomes : queueEvent(e)
    BY <1>3 DEF HandleReleaseConfirmResp, OnDemandEvents, Outcomes
  <2> QED
    BY <1>1, <2>1, QuietStep
<1>4. CASE HandleSessionConfirmResp(m)
  <2> DEFINE left == {k \in ses.sends : k.trans # m.trans}
             mistaken == ses.mistaken \/ \A k \in ses.sends : k.trans # m.trans
  <2>1. ses' = [ses EXCEPT !.sends = left, !.mistaken = mistaken]
    BY <1>4 DEF HandleSessionConfirmResp, RemoveMessageFromSendList
  <2> HIDE DEF left, mistaken
  <2>2. ses'.id = ses.id /\ ses'.sends = left /\ ses'.mistaken = mistaken
    BY <1>1, <2>1 DEF SessionRecord
  <2>3. PICK e \in OnDemandEvents : queue' = Append(queue, e)
    BY <1>4 DEF HandleSessionConfirmResp, queueEvent, OnDemandEvents
  <2>4. SUFFICES ASSUME ses'.id # 0, ~mistaken
                 PROVE  /\ OneOutcome(queue') /\ left = {} /\ ctl.state \notin NoSetUp
    BY <1>1, <2>2, <2>4 DEF RestartOK
  <2>5. PICK k \in ses.sends : k.trans = m.trans /\ ~ses.mistaken
    BY <2>4 DEF mistaken
  <2>6. \A n \in ses.sends : n = k
    BY <2>2, <2>4, <2>5 DEF RestartOK
  <2>7. left = {}
    BY <2>5, <2>6 DEF left
  <2>8. NoOutcome(queue) /\ ctl.state \notin NoSetUp
    BY <2>2, <2>4, <2>5 DEF RestartOK
  <2> QED
    BY <1>1, <2>3, <2>7, <2>8, OutcomesAppended
<1> QED
  BY <1>2, <1>3, <1>4

\* The timer of a request: it is sent again, or given up and its failure queued.
LEMMA ProcessTimeoutAnswers ==
    ASSUME MovieInv, RestartOK, ProcessTimeout
    PROVE  RestartOK'
<1>1. /\ ses \in SessionRecord /\ queue \in Seq(OnDemandEvents) /\ ctl \in ControllerRecord
  BY BoxFacts DEF MovieInv, SessionOK, QueueOK
<1>2. PICK m \in ses.sends :
          \/ Resend(m) /\ UNCHANGED ctl
          \/ \E kept \in BOOLEAN :
                /\ GiveUp(m, kept)
                /\ ctl' = [ctl EXCEPT !.unreported = ctl.unreported \/ ~kept]
  BY DEF ProcessTimeout
<1>3. ses.id # 0 /\ ~ses.mistaken =>
         ses.sends = {m} /\ NoOutcome(queue) /\ OneOutcome(queue) /\ ctl.state \notin NoSetUp
  BY DEF RestartOK
<1>4. CASE Resend(m) /\ UNCHANGED ctl
  <2>1. PICK again : again = [m EXCEPT !.count = m.count - 1]
    OBVIOUS
  <2>2. ses' = [ses EXCEPT !.sends = (ses.sends \ {m}) \cup {again}] /\ UNCHANGED queue
    BY <1>4, <2>1 DEF Resend
  <2>3. /\ ses'.id = ses.id /\ ses'.sends = (ses.sends \ {m}) \cup {again}
        /\ ses'.mistaken = ses.mistaken
    BY <1>1, <2>2 DEF SessionRecord
  <2> QED
    BY <1>3, <1>4, <2>2, <2>3 DEF RestartOK
<1>5. ASSUME NEW kept \in BOOLEAN, GiveUp(m, kept),
             ctl' = [ctl EXCEPT !.unreported = ctl.unreported \/ ~kept]
      PROVE  RestartOK'
  <2>1. ses' = [ses EXCEPT !.sends = ses.sends \ {m}]
    BY <1>5 DEF GiveUp
  <2>2. ses'.id = ses.id /\ ses'.sends = ses.sends \ {m} /\ ses'.mistaken = ses.mistaken
    BY <1>1, <2>1 DEF SessionRecord
  <2>3. ctl'.state = ctl.state
    BY <1>1, <1>5 DEF ControllerRecord
  <2>4. UNCHANGED queue \/ queue' = Append(queue, "SessionError")
    BY <1>5 DEF GiveUp, queueEvent
  <2>5. "SessionError" \in OnDemandEvents
    BY DEF OnDemandEvents
  <2>6. NoOutcome(queue) /\ OneOutcome(queue) => OneOutcome(queue')
    BY <1>1, <2>4, <2>5, OutcomesAppended
  <2> QED
    BY <1>3, <2>2, <2>3, <2>6 DEF RestartOK
<1> QED
  BY <1>2, <1>4, <1>5

\* The steps that only move the controller between states of one kind.
LEMMA ClientIsQuiet ==
    ASSUME MovieInv, RestartOK, PlayFails \/ Play \/ SetSpeed \/ SetPosition \/ Stop
                                \/ stopEventThread \/ Eject
    PROVE  RestartOK'
<1>1. ctl \in ControllerRecord /\ ses \in SessionRecord /\ Box.ctl = ctl /\ BoxOK(Box)
  BY BoxFacts DEF MovieInv, SessionOK, Box
<1>2. CASE PlayFails
  <2>1. ctl'.state = ctl.state /\ UNCHANGED <<ses, queue>>
    BY <1>1, <1>2 DEF PlayFails, ControllerRecord, sessionVars
  <2> QED
    BY <2>1, QuietStep
<1>3. CASE Play
  <2>1. ctl'.state = ctl.state /\ UNCHANGED queue
    BY <1>1, <1>3 DEF Play, ControllerRecord
  <2>2. ses'.id = ses.id /\ ses'.sends = ses.sends /\ ses'.mistaken = ses.mistaken
    BY <1>1, <1>3, TransactionBegun DEF Play
  <2> QED
    BY <2>1, <2>2, QuietStep
<1>4. CASE SetSpeed \/ SetPosition
  <2>1. PICK b : Trick(b) /\ b.ctl.state = ctl.state
    <3>1. CASE SetSpeed
      <4>1. PICK num \in Speeds : Trick(SetSpeedOf(Box, num))
        BY <3>1 DEF SetSpeed
      <4>2. SetSpeedOf(Box, num).ctl.state = Box.ctl.state
        BY <1>1, SetSpeedKeeps
      <4> QED
        BY <1>1, <4>1, <4>2
    <3>2. CASE SetPosition
      <4>1. SetPositionOf(Box).ctl.state = Box.ctl.state
        BY <1>1, SetPositionKeeps
      <4> QED
        BY <1>1, <3>2, <4>1 DEF SetPosition
    <3> QED
      BY <1>4, <3>1, <3>2
  <2>2. ctl'.state = ctl.state /\ UNCHANGED <<ses, queue>>
    BY <2>1 DEF Trick, BoxIs, sessionVars
  <2> QED
    BY <2>2, QuietStep
<1>5. CASE Stop
  <2>1. ctl'.state \notin NoSetUp /\ UNCHANGED <<ses, queue>>
    BY <1>1, <1>5 DEF Stop, ControllerRecord, NoSetUp
  <2> QED
    BY <2>1, QuietStep
<1>6. CASE stopEventThread
  <2>1. UNCHANGED <<ses, ctl>> /\ \E e \in OnDemandEvents \ Outcomes : queueEvent(e)
    BY <1>6 DEF stopEventThread, sessionVars, OnDemandEvents, Outcomes
  <2> QED
    BY <2>1, QuietStep
<1>7. CASE Eject
  <2>1. ctl'.state \notin NoSetUp /\ UNCHANGED <<ses, queue>>
    BY <1>7 DEF Eject, NoController, NoSetUp, sessionVars
  <2> QED
    BY <2>1, QuietStep
<1> QED
  BY <1>2, <1>3, <1>4, <1>5, <1>6, <1>7

LEMMA PlayRespIsQuiet ==
    ASSUME MovieInv, RestartOK, PlayResp
    PROVE  RestartOK'
<1>1. /\ Handles("PlayResp") /\ "PlayResp" \in OnDemandEvents /\ UNCHANGED ses
      /\ ctl \in ControllerRecord /\ Box \in Boxes /\ Box.ctl = ctl /\ Box.strm = strm
      /\ SpeedOK(ctl, strm)
  BY BoxFacts DEF PlayResp, OnDemandEvents, sessionVars, MovieInv, BoxOK, Box
<1>2. PICK told : told = [Box EXCEPT !.ctl.problem = Box.ctl.problem \/ strm.retstatus = "LSC_SERVER_ERROR"]
  OBVIOUS
<1>3. /\ told \in Boxes /\ told.ctl.state = ctl.state /\ told.strm = strm
      /\ told.ctl.pendingSpeed = ctl.pendingSpeed /\ told.ctl.numerator = ctl.numerator
      /\ told.ctl.unreported \in BOOLEAN
  BY <1>1, <1>2 DEF Boxes, ControllerRecord
<1>4. BoxOK(told)
  BY <1>1, <1>3 DEF BoxOK, SpeedOK
<1>5. ASSUME NEW b, BoxOK(b), BoxIs(AfterReply(b)),
             b.ctl.state \in NoSetUp => ctl.state \in NoSetUp
      PROVE  RestartOK'
  <2>1. ctl'.state = b.ctl.state
    BY <1>5, AfterReplyKeeps DEF BoxIs
  <2> QED
    BY <1>1, <1>5, <2>1, QuietStep
<1>6. CASE ctl.state = "ControlServerPending"
  <2>1. PICK plays \in BOOLEAN :
           BoxIs(AfterReply([told EXCEPT !.ctl.state = "TunerPending",
                                         !.ctl.unreported = told.ctl.unreported \/ ~plays]))
    BY <1>2, <1>6 DEF PlayResp
  <2>2. PICK b : b = [told EXCEPT !.ctl.state = "TunerPending",
                                  !.ctl.unreported = told.ctl.unreported \/ ~plays]
    OBVIOUS
  <2>3. b \in Boxes /\ b.ctl.state = "TunerPending" /\ b.strm = strm
    BY <1>3, <2>2 DEF Boxes, ControllerRecord, OnDemandStates
  <2>4. BoxOK(b)
    BY <1>1, <1>6, <2>3 DEF BoxOK, SpeedOK
  <2>5. ctl.state \in NoSetUp
    BY <1>6 DEF NoSetUp
  <2> QED
    BY <1>5, <2>1, <2>2, <2>4, <2>5
<1>7. CASE ctl.state # "ControlServerPending"
  <2>1. BoxIs(AfterReply(told))
    BY <1>2, <1>7 DEF PlayResp
  <2> QED
    BY <1>3, <1>4, <1>5, <2>1
<1> QED
  BY <1>6, <1>7

LEMMA LoopIsQuiet ==
    ASSUME MovieInv, RestartOK, HandleCallback
    PROVE  RestartOK'
<1>1. ctl \in ControllerRecord
  BY BoxFacts DEF MovieInv
<1>2. CASE DropEvent
  BY <1>2, QuietStep DEF DropEvent, sessionVars
<1>3. CASE SetupResp
  BY <1>3, OutcomeHandled DEF SetupResp, Outcomes, sessionVars
<1>4. CASE PlayResp
  BY <1>4, PlayRespIsQuiet
<1>5. CASE PlayEnds
  <2>1. UNCHANGED <<ses, ctl>> /\ \E e \in OnDemandEvents : Handles(e)
    BY <1>5 DEF PlayEnds, sessionVars, OnDemandEvents
  <2> QED
    BY <2>1, QuietStep
<1>6. CASE ReleaseResp
  <2>1. UNCHANGED ses /\ \E e \in OnDemandEvents : Handles(e)
    BY <1>6 DEF ReleaseResp, sessionVars, OnDemandEvents
  <2>2. ctl'.state = "Stopped" \/ ctl' = ctl
    BY <1>1, <1>6 DEF ReleaseResp, ControllerRecord
  <2> QED
    BY <2>1, <2>2, QuietStep DEF NoSetUp
<1>7. CASE DisplayRendering
  <2>1. UNCHANGED ses /\ \E e \in OnDemandEvents : Handles(e)
    BY <1>7 DEF DisplayRendering, sessionVars, OnDemandEvents
  <2>2. ctl.state = "TunerPending" \/ ctl' = ctl
    BY <1>7 DEF DisplayRendering
  <2> QED
    BY <2>1, <2>2, QuietStep DEF NoSetUp
<1>8. CASE SessionError
  BY <1>8, SessionErrorLists
<1>9. CASE StreamError
  <2>1. UNCHANGED ses /\ \E e \in OnDemandEvents : Handles(e)
    BY <1>9 DEF StreamError, sessionVars, OnDemandEvents
  <2>2. ctl'.state = "Stopped"
    BY <1>1, <1>9 DEF StreamError, ControllerRecord
  <2> QED
    BY <2>1, <2>2, QuietStep DEF NoSetUp
<1>10. CASE StopController
  BY <1>10 DEF StopController, DeleteSessionControl, NoSession, RestartOK
<1> QED
  BY <1>2, <1>3, <1>4, <1>5, <1>6, <1>7, <1>8, <1>9, <1>10 DEF HandleCallback

LEMMA OthersAreQuiet ==
    ASSUME MovieInv, RestartOK, ReadStream \/ TunerRenders \/ StreamServer
    PROVE  RestartOK'
<1>1. UNCHANGED <<ses, ctl>>
  BY DEF ReadStream, TunerRenders, StreamServer, sessionVars
<1>2. \/ UNCHANGED queue
      \/ \E e \in {"PlayBOF", "PlayEOF", "PlayResp", "StreamError", "DisplayRendering"} : queueEvent(e)
  <2>1. CASE ReadStream
    <3>1. ReadMessage \/ ReadFails
      BY <2>1 DEF ReadStream, ReadStreamSocketData
    <3>2. CASE ReadMessage
      BY <3>2 DEF ReadMessage, HandleDone, HandleReply
    <3>3. CASE ReadFails
      BY <3>3 DEF ReadFails
    <3> QED
      BY <3>1, <3>2, <3>3
  <2>2. CASE TunerRenders
    BY <2>2 DEF TunerRenders
  <2>3. CASE StreamServer
    BY <2>3 DEF StreamServer, Streamer, StreamerAnswers, StreamerEnds, ConnectionBreaks
  <2> QED
    BY <2>1, <2>2, <2>3
<1>3. UNCHANGED queue \/ \E e \in OnDemandEvents \ Outcomes : queueEvent(e)
  BY <1>2 DEF OnDemandEvents, Outcomes
<1> QED
  BY <1>1, <1>3, QuietStep

LEMMA RestartNext ==
    ASSUME MovieInv, RestartOK, [Next]_vars
    PROVE  RestartOK'
<1>1. CASE UNCHANGED vars
  <2>1. UNCHANGED <<ses, ctl, queue>>
    BY <1>1 DEF vars, sessionVars
  <2> QED
    BY <2>1, QuietStep
<1>2. CASE Client
  BY <1>2, LoadBegins, PlayReturnsLists, ClientIsQuiet DEF Client
<1>3. CASE HandleCallback
  BY <1>3, LoopIsQuiet
<1>4. CASE ReadSession
  BY <1>4, ReadSessionAnswers
<1>5. CASE ProcessTimeout
  BY <1>5, ProcessTimeoutAnswers
<1>6. CASE ReadStream \/ TunerRenders \/ StreamServer
  BY <1>6, OthersAreQuiet
<1> QED
  BY <1>1, <1>2, <1>3, <1>4, <1>5, <1>6 DEF Next

\* Only a session error sets a movie up again, and one that streams has none due.
LEMMA OnlyErrorsRestart ==
    ASSUME MovieInv, RestartOK, [Next]_vars,
           ctl.state = "Streaming", ctl'.state = "SessionPending"
    PROVE  ses.mistaken
<1>1. /\ ctl \in ControllerRecord /\ ctl.active \in BOOLEAN
      /\ Box \in Boxes /\ Box.ctl = ctl /\ Box.strm = strm /\ BoxOK(Box)
      /\ SpeedOK(ctl, strm) /\ queue \in Seq(OnDemandEvents)
  BY BoxFacts DEF MovieInv, BoxOK, Box, QueueOK, ControllerRecord
<1>2. call # "Play" /\ (ctl.active => ses.id # 0)
  BY DEF MovieInv, LifeOK
<1>3. ASSUME SessionError
      PROVE  ses.mistaken
  <2>1. queue # <<>> /\ Head(queue) \in Outcomes
    BY <1>3 DEF SessionError, Handles, Outcomes
  <2>2. ~NoOutcome(queue)
    BY <1>1, <2>1, OutcomesTaken
  <2> QED
    BY <1>3, <1>2, <2>2 DEF RestartOK, NoSetUp, SessionError
<1>4. ~Client
  <2>1. ~PlayFails /\ ~Play /\ ~PlayReturns /\ ~Load
    BY <1>1, <1>2 DEF PlayFails, Play, PlayReturns, Load
  <2>2. ~Stop /\ ~stopEventThread /\ ~Eject
    <3>1. ASSUME Stop PROVE FALSE
      BY <1>1, <3>1 DEF Stop, ControllerRecord
    <3>2. ASSUME stopEventThread PROVE FALSE
      BY <3>2 DEF stopEventThread
    <3>3. ASSUME Eject PROVE FALSE
      BY <3>3 DEF Eject, NoController
    <3> QED
      BY <3>1, <3>2, <3>3
  <2>3. ASSUME NEW b, Trick(b), b.ctl.state = ctl.state
        PROVE  FALSE
    BY <2>3 DEF Trick, BoxIs
  <2>4. ~SetPosition
    <3>1. SetPositionOf(Box).ctl.state = Box.ctl.state
      BY <1>1, SetPositionKeeps
    <3> QED
      BY <1>1, <2>3, <3>1 DEF SetPosition
  <2>5. ~SetSpeed
    <3>1. \A num \in Speeds : SetSpeedOf(Box, num).ctl.state = Box.ctl.state
      BY <1>1, SetSpeedKeeps
    <3> QED
      BY <1>1, <2>3, <3>1 DEF SetSpeed
  <2> QED
    BY <2>1, <2>2, <2>4, <2>5 DEF Client
<1>5. ~PlayResp
  <2>1. SUFFICES ASSUME PlayResp PROVE FALSE
    OBVIOUS
  <2>2. PICK told : told = [Box EXCEPT !.ctl.problem = Box.ctl.problem \/ strm.retstatus = "LSC_SERVER_ERROR"]
    OBVIOUS
  <2>3. /\ told \in Boxes /\ told.ctl.state = ctl.state /\ told.strm = strm
        /\ told.ctl.pendingSpeed = ctl.pendingSpeed /\ told.ctl.numerator = ctl.numerator
    BY <1>1, <2>2 DEF Boxes, ControllerRecord
  <2>4. BoxOK(told)
    BY <1>1, <2>3 DEF BoxOK, SpeedOK
  <2>5. BoxIs(AfterReply(told))
    BY <2>1, <2>2 DEF PlayResp
  <2> QED
    BY <2>3, <2>4, <2>5, AfterReplyKeeps DEF BoxIs
<1>6. /\ ~DropEvent /\ ~SetupResp /\ ~PlayEnds /\ ~ReleaseResp /\ ~DisplayRendering
      /\ ~StreamError /\ ~StopController
  BY <1>1 DEF DropEvent, SetupResp, PlayEnds, ReleaseResp, DisplayRendering, StreamError,
      StopController, ControllerRecord
<1>7. ~ReadSession /\ ~ReadStream /\ ~TunerRenders /\ ~StreamServer
  BY DEF ReadSession, ReadStream, TunerRenders, StreamServer
<1>8. ~ProcessTimeout
  BY <1>1 DEF ProcessTimeout, ControllerRecord
<1> QED
  BY <1>3, <1>4, <1>5, <1>6, <1>7, <1>8 DEF Next, HandleCallback, vars

------------------------------------------------------------------------------
(* The four together: a behaviour is of one of them, and the others rest    *)

MovieParts == MovieInv /\ CloudInv /\ FilmInv

LEMMA PartsInit ==
    ASSUME MovieInit
    PROVE  MovieParts
BY MovieInitInv, CloudInitInv, FilmInitInv DEF MovieInit, MovieParts

LEMMA PartsNext ==
    ASSUME MovieParts, [MovieNext]_<<part, vars, dsmVars, hnVars, cloudVars>>
    PROVE  MovieParts'
<1>1. [Next]_vars /\ [HnNext]_hnVars /\ [CloudNext]_cloudVars
  BY DEF MovieNext
<1> QED
  BY <1>1, MovieNextInv, CloudNextInv, FilmNextInv DEF MovieParts

THEOREM PartsInvariant == MovieSpec => []MovieParts
<1>1. MovieInit => MovieParts
  BY PartsInit
<1>2. MovieParts /\ [MovieNext]_<<part, vars, dsmVars, hnVars, cloudVars>> => MovieParts'
  BY PartsNext
<1> QED
  BY <1>1, <1>2, PTL DEF MovieSpec

\* The state of a movie is of its types: only a session control that is there
\* waits for answers, and a set-up request is sent at most once more than it is
\* tried again (VOD_SessionControl.cpp).
THEOREM MovieTypes == MovieSpec => []TypeOK
<1>1. MovieParts => TypeOK
  BY MovieInvImplies DEF MovieParts
<1> QED
  BY <1>1, PartsInvariant, PTL

\* Whatever is asked while a reply of the stream server is due, the speed that
\* the controller of a movie (OnDemand.cpp) or of a recording in the network
\* (CloudDvr_StreamControl.cpp) holds, and that is not to be sent any more, is
\* the one that was sent last.
THEOREM SpeedSentLast == MovieSpec => []SpeedsAreSent
<1>1. MovieParts => SpeedsAreSent
  BY MovieInvImplies, CloudInvImplies DEF MovieParts, SpeedsAreSent
<1> QED
  BY <1>1, PartsInvariant, PTL

\* However a movie, a film of the gateway or the stream of a recording ends, on
\* its client's stop, the server's word or a failure half-way: the session that
\* was set up is released (OnDemand.cpp), no tuner, stream or section filter is
\* left behind (HnOnDemandStreamer.cpp), and no timer (CloudDvr_StreamControl.cpp).
THEOREM NothingIsKept == MovieSpec => []EverythingIsGivenBack
<1>1. MovieParts => EverythingIsGivenBack
  BY MovieInvImplies, CloudInvImplies, FilmInvImplies DEF MovieParts, EverythingIsGivenBack
<1> QED
  BY <1>1, PartsInvariant, PTL

\* In whatever order the session, the tuner, the tables, the CAM and the server
\* answer, a film that goes to an IP client carries the copy control byte the
\* CAM gave last, and once nothing is due any more it streams with every one of
\* its packet identifiers, or its client was told (HnOnDemandStreamer.cpp).
THEOREM FilmReachesItsClient == MovieSpec => []FilmIsServed
<1>1. MovieParts => FilmIsServed
  BY FilmInvImplies DEF MovieParts, FilmIsServed
<1> QED
  BY <1>1, PartsInvariant, PTL

\* A movie that streams is set up again only by what the box took for the answer
\* to its request: the timer of a request that was answered finds it gone from the
\* list, and one request has one outcome (VOD_SessionControl.cpp, ondemand.cpp).
THEOREM NoRestart == MovieSpec => StreamIsNotRestarted
<1>1. MovieInit => RestartOK
  BY DEF MovieInit, Init, SessionInit, NoSession, RestartOK
<1>2. MovieParts /\ RestartOK /\ [MovieNext]_<<part, vars, dsmVars, hnVars, cloudVars>> => RestartOK'
  BY RestartNext DEF MovieNext, MovieParts
<1>3. MovieParts /\ RestartOK /\ [MovieNext]_<<part, vars, dsmVars, hnVars, cloudVars>>
         => [ctl.state = "Streaming" /\ ctl'.state = "SessionPending" => ses.mistaken]_vars
  BY OnlyErrorsRestart DEF MovieNext, MovieParts
<1> QED
  BY <1>1, <1>2, <1>3, PartsInvariant, PTL DEF MovieSpec, StreamIsNotRestarted
==============================================================================
