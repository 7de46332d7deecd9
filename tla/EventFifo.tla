------------------------------ MODULE EventFifo ------------------------------
(***************************************************************************)
(* What a MSPEventQueue promises its users, without threads, mutex or      *)
(* condition variable: events are delivered in the order they were posted, *)
(* each at most once; a pop may also report that its wait timed out, which *)
(* consumes nothing; a flush discards what is still pending.               *)
(***************************************************************************)
EXTENDS Sequences

CONSTANTS Events,     \* what may be posted: (eventType, eventData) pairs
          kTimeOut,   \* the event a timed out pop makes up
          None        \* nothing was popped yet

VARIABLES pending,    \* posted and not yet delivered, oldest first
          delivered   \* what the last pop returned

vars == <<pending, delivered>>

Init ==
    /\ pending = <<>>
    /\ delivered = None

Post(e) ==
    /\ pending' = Append(pending, e)
    /\ UNCHANGED delivered

Deliver ==
    /\ pending # <<>>
    /\ delivered' = Head(pending)
    /\ pending' = Tail(pending)

Expire ==
    /\ delivered' = kTimeOut
    /\ UNCHANGED pending

Discard ==
    /\ pending' = <<>>
    /\ UNCHANGED delivered

Next ==
    \/ \E e \in Events : Post(e)
    \/ Deliver
    \/ Expire
    \/ Discard

Spec == Init /\ [][Next]_vars
==============================================================================
