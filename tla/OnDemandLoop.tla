---------------------------- MODULE OnDemandLoop ----------------------------
(***************************************************************************)
(* The event loop that all on demand controllers share (ondemand.cpp,      *)
(* mEventLoop): events are queued by any thread with event_base_once and   *)
(* handled by one thread in their order; the same thread reads the sockets *)
(* and runs the timers.  An event names its controller by address only,    *)
(* which a later controller may have again: the model takes the worst case *)
(* and keeps no owner with an event.                                       *)
(* Bound: Budget, what fails, is refused, lost or late, what the client    *)
(* asks of a movie that streams, and the movies but the first, altogether. *)
(***************************************************************************)
EXTENDS Sequences, SequencesExt, Naturals

CONSTANT Budget

VARIABLES queue,   \* the events that are queued for the loop
          spent    \* what of the Budget is spent

OnDemandEvents == {"SetupResp", "PlayResp", "PlayBOF", "PlayEOF", "ReleaseResp",
                   "DisplayRendering", "SessionError", "StreamError", "StopController"}

queueEvent(e) == queue' = Append(queue, e)

Count(bad) == IF bad THEN 1 ELSE 0

\* The step costs one of the Budget when bad holds, and another when worse does.
Costs(bad, worse) == /\ spent' = spent + Count(bad) + Count(worse)
                     /\ spent' <= Budget
Cost(bad) == Costs(bad, FALSE)

==============================================================================
