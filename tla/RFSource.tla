------------------------------ MODULE RFSource -------------------------------
(***************************************************************************)
(* MSPRFSource, the tuner source of a Zapper, with its MSPResMonClient and *)
(* what the resource monitor (ResMon), which shares the tuners out among   *)
(* the processes of the box, has of this source's request.                 *)
(*                                                                         *)
(* One source is a record; the operators are its methods.  A method whose  *)
(* outcome depends on the platform, the channel list or the SDV manager    *)
(* gives a set of outcomes.  The frequencies themselves are left out.      *)
(*                                                                         *)
(* The fields that are not the source's members:                           *)
(*   loaded      load() has set mSrcStateCB and mClientContext             *)
(*   registered  the source is on its ResMon client's callback list        *)
(*   connected   mConnectionId # 0                                         *)
(*   locked      the lock of this start was reported                       *)
(*   tuner       ResMon's record of the request                            *)
(*   answer      what ResMon has sent, and its client not yet passed on    *)
(***************************************************************************)
EXTENDS Naturals

CONSTANT Kinds      \* the kinds of channel, "sdv" for a switched one

ASSUME KindsAssumption == Kinds \subseteq {"digital", "analog", "sdv"}

Source == [kind : Kinds \cup {"none"}, loaded : BOOLEAN, registered : BOOLEAN,
           mTuneParamSet : BOOLEAN, connected : BOOLEAN,
           mState : {"Idle", "Loading", "Known", "Changed", "Unavailable"},
           requested : BOOLEAN, granted : BOOLEAN,
           mOpened : BOOLEAN, mStarted : BOOLEAN, locked : BOOLEAN,
           tuner : {"none", "asked", "denied", "held", "revoked"},
           answer : {"none", "Granted", "Revoked", "OkToRetry"}]

NewSource(kind) ==
    [kind |-> kind, loaded |-> FALSE, registered |-> TRUE,
     mTuneParamSet |-> FALSE, connected |-> FALSE, mState |-> "Idle",
     requested |-> FALSE, granted |-> FALSE,
     mOpened |-> FALSE, mStarted |-> FALSE, locked |-> FALSE,
     tuner |-> "none", answer |-> "none"]

NoSource == NewSource("none")

\* The callback is saved first, and stays when the channel is not good.
load(src) == [src EXCEPT !.loaded = TRUE]

\* load() reads the type of the channel.
isSDV(src) == src.loaded /\ src.kind = "sdv"

releaseTunerAccess(src) == [src EXCEPT !.granted = FALSE, !.tuner = "none"]

cancelTunerAccess(src) ==
    [src EXCEPT !.requested = FALSE, !.granted = FALSE, !.tuner = "none"]

\* The request for access stays.  The SDV session stays while it is loading.
shutdown(src) ==
    LET closed == [src EXCEPT !.mStarted = FALSE, !.mOpened = FALSE, !.locked = FALSE]
        left == IF src.connected /\ src.mState # "Loading"
                  THEN [closed EXCEPT !.connected = FALSE, !.mState = "Idle"]
                  ELSE closed
    IN  IF src.granted THEN releaseTunerAccess(left) ELSE left

\* Mutant: a request that is not answered yet is left with ResMon.
deleteUncancelled(src) == shutdown([src EXCEPT !.mState = "Idle"])

\* The source after its destructor.
delete(src) ==
    LET down == shutdown([src EXCEPT !.mState = "Idle"])
    IN  IF src.requested THEN cancelTunerAccess(down) ELSE down

------------------------------------------------------------------------------
(* open *)

Outcome(status, src) == [status |-> status, src |-> src]

getTuningParamsFromChannelList(src) ==
    {Outcome("Ok", [src EXCEPT !.mTuneParamSet = TRUE]), Outcome("BadParameters", src)}

getTuningParamsFromSDV(src) ==
    CASE src.mState = "Idle" ->
           {Outcome("Loading", [src EXCEPT !.mState = "Loading", !.connected = TRUE]),
            Outcome("SdvError", [src EXCEPT !.mState = "Unavailable"])}
      [] src.mState = "Loading" -> {Outcome("Loading", src)}
      [] src.mState = "Unavailable" -> {Outcome("SdvError", src)}
      [] src.mState \in {"Known", "Changed"} ->
           {Outcome("Ok", [src EXCEPT !.mTuneParamSet = TRUE]), Outcome("SdvError", src)}

getTuningParams(src) ==
    CASE src.mTuneParamSet -> {Outcome("Ok", src)}
      [] ~src.mTuneParamSet /\ isSDV(src) -> getTuningParamsFromSDV(src)
      [] OTHER -> getTuningParamsFromChannelList(src)

\* Access is granted.  When the source cannot be opened the access is given
\* back and the callback taken off ResMon's client.
tune(src) ==
    LET stopped == [src EXCEPT !.mStarted = FALSE, !.locked = FALSE]
        opened == [stopped EXCEPT !.mOpened = TRUE]
    IN  IF src.mOpened
          THEN IF src.mStarted
                 THEN {Outcome("Ok", opened), Outcome("BadSource", src),
                       Outcome("BadSource", shutdown(stopped))}
                 ELSE {Outcome("BadSource", shutdown(src))}
          ELSE {Outcome("Ok", opened), Outcome("BadSource", shutdown(opened)),
                Outcome("BadSource",
                        shutdown([releaseTunerAccess(src) EXCEPT !.registered = FALSE]))}

\* Mutant: a request is taken for a grant.
accessRequested(src) ==
    IF src.requested THEN tune(src)
    ELSE {Outcome("WaitForTuner", [src EXCEPT !.requested = TRUE, !.tuner = "asked"])}

\* Access is asked for once, and the source opened when it is granted.
access(src) ==
    CASE ~src.requested /\ src.granted -> {Outcome("Error", src)}
      [] ~src.requested /\ ~src.granted ->
           {Outcome("WaitForTuner", [src EXCEPT !.requested = TRUE, !.tuner = "asked"]),
            Outcome("Error", src)}
      [] src.requested /\ ~src.granted -> {Outcome("WaitForTuner", src)}
      [] src.requested /\ src.granted -> tune(src)

open(src) ==
    UNION {IF params.status = "Ok" THEN access(params.src) ELSE {params} :
              params \in getTuningParams(src)}

\* A start that fails shuts the source down.
start(src) ==
    IF src.mOpened /\ ~src.mStarted
      THEN {[src EXCEPT !.mStarted = TRUE], shutdown(src)}
      ELSE {src}

------------------------------------------------------------------------------
(* ResMon and its client *)

\* What ResMon may do next.  It gives a tuner, or denies it and tells when
\* to ask again; it takes a tuner back, and when this was released tells the
\* client to ask again.  A client that is told nothing keeps its request.
grant(src) == [src EXCEPT !.tuner = "held", !.answer = "Granted"]
deny(src) == [src EXCEPT !.tuner = "denied"]
revoke(src) == [src EXCEPT !.tuner = "revoked", !.answer = "Revoked"]
tellToRetry(src) == [src EXCEPT !.tuner = "none", !.answer = "OkToRetry"]

CanGrant(src) == src.tuner = "asked"
CanRevoke(src) == src.tuner = "held" /\ src.granted /\ src.answer = "none"
CanTellToRetry(src) ==
    src.requested /\ src.tuner \in {"none", "denied"} /\ src.answer = "none"

\* The answer reaches the source, if it can be called.
CallbackSet(src) == src.loaded /\ src.registered

resourceManagerCallback(src) ==
    LET taken == [src EXCEPT !.answer = "none"]
    IN  CASE ~CallbackSet(src) -> taken
          [] CallbackSet(src) /\ src.answer = "OkToRetry" -> [taken EXCEPT !.requested = FALSE]
          [] CallbackSet(src) /\ src.answer = "Granted" -> [taken EXCEPT !.granted = TRUE]
          [] CallbackSet(src) /\ src.answer = "Revoked" ->
               [taken EXCEPT !.mTuneParamSet = @ /\ ~isSDV(src)]

==============================================================================
