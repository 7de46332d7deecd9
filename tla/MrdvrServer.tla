----------------------------- MODULE MrdvrServer -----------------------------
(***************************************************************************)
(* MRDvrServer (mrdvrserver.cpp) with IMediaStreamer (IMediaStreamer.cpp): *)
(* serving channels and recordings to the clients of the home network, and *)
(* the conflicts about tuners.  The parties are                            *)
(*   - the platform's server manager, which posts serve requests and       *)
(*     required teardowns, and tells that a tuner has become free;         *)
(*   - the server's event thread, which handles them;                      *)
(*   - the event thread of each streamer (MrdvrStreamer);                  *)
(*   - the scheduler's thread that has the user resolve a conflict and     *)
(*     applies it (ApplyResolution).                                       *)
(* What is streamed of the gateway's own programme (CurrentVideoMgr), the  *)
(* clients' addresses and a player that cannot make a session are left out.*)
(***************************************************************************)
EXTENDS MrdvrStreamer, SequencesExt

CONSTANTS Clients, Asks,        \* Asks: the pairs of a client and what it asks for
          MaxSessions,          \* bound: sessions at a time
          getMaxClient,         \* the clients that are served at a time
          NumTuners, MaxRequests, MaxEvents, MaxDisturbances   \* bounds

ASSUME AsksAssumption == Asks \subseteq Clients \X {"live", "vod", "file"}
ASSUME ServerAssumption ==
    /\ {MaxSessions, MaxRequests, MaxEvents, MaxDisturbances} \subseteq Nat
    /\ getMaxClient \in Nat /\ NumTuners \in Nat

VARIABLES served,      \* ServeSessList
          cache,       \* m_ipcsession, what is known of each session's client
          st,          \* the streamer of each session
          tsbs,        \* the buffers
          conf,        \* conflictSessInfo, mTunerFreeFlag, the conflict's status
          queue,       \* threadEventQueue
          hand,        \* where the event thread is
          ui,          \* where the scheduler's thread is
          gateway,     \* the gateway itself uses a tuner
          freed,       \* a tuner has become free, which the server is to be told
          tearing,     \* sessions the platform was asked to stop
          awaits,      \* what each client waits for
          requests,    \* serve requests so far
          disturbed    \* disturbances so far

vars == <<served, cache, st, tsbs, conf, queue, hand, ui, gateway, freed, tearing,
          awaits, requests, disturbed>>

Sessions == 1..MaxSessions
None == 0

ConflictStates == {"None", "Detected", "Busy", "Resolved"}

\* nothing; a stream; the end of a conflict it was told of; or, when its
\* request came out of sequence and met a conflict, to be told to ask again.
Waits == {"nothing", "stream", "conflict", "held"}

NoConflict == [isConflict |-> FALSE, isCancelled |-> FALSE, client |-> "none",
               OutofSeqCount |-> 0, mTunerFreeFlag |-> FALSE,
               mConflictState |-> "None", mPrevConflictState |-> "None"]

AtRest == [at |-> "idle", client |-> "none", url |-> "none", session |-> None,
           left |-> {}, isOutofSeq |-> FALSE, next |-> "idle"]

Init ==
    /\ served = {} /\ cache = <<>> /\ tearing = {}
    /\ st = [s \in Sessions |-> NoStreamer]
    /\ tsbs = AllAvailable
    /\ conf = NoConflict
    /\ queue = <<>> /\ hand = AtRest
    /\ ui = [at |-> "idle", session |-> None, asked |-> FALSE]
    /\ gateway = FALSE
    /\ freed = FALSE
    /\ awaits = [c \in Clients |-> "nothing"]
    /\ requests = 0 /\ disturbed = 0

Disturbance == disturbed < MaxDisturbances /\ disturbed' = disturbed + 1

Quietly == disturbed' = disturbed

------------------------------------------------------------------------------
(* What is known of sessions and clients *)

Registered == {s \in Sessions : st[s].kind # "none"}

\* Mutant: the clients' addresses compare equal.
SessionsOfAll(c) == {cache[i].session : i \in DOMAIN cache}

SessionsOf(c) == {cache[i].session : i \in {j \in DOMAIN cache : cache[j].client = c}}

Entry(s) == {cache[i] : i \in {j \in DOMAIN cache : cache[j].session = s}}

\* Mutant: every session of the client is forgotten.
removeClientFromCache(s) ==
    SelectSeq(cache, LAMBDA e : \A gone \in Entry(s) : e.client # gone.client)

\* The first entry of the session.
removeFromCache(s) ==
    LET places == {i \in DOMAIN cache : cache[i].session = s}
    IN  IF places = {} THEN cache
        ELSE RemoveAt(cache, CHOOSE i \in places : \A j \in places : i <= j)

Marked(s, f(_)) == [i \in DOMAIN cache |-> IF cache[i].session = s THEN f(cache[i]) ELSE cache[i]]

addToCache(c, url, s) ==
    Append(cache, [client |-> c, url |-> url, session |-> s, isOutofSeq |-> FALSE,
                   isCancelled |-> FALSE, mRetry |-> FALSE])

FreeSessions == {s \in Sessions \ Registered :
                    \A i \in DOMAIN queue : queue[i].session # s}

TunersUsed == Cardinality({s \in Sessions : HasTuner(st[s])}) + (IF gateway THEN 1 ELSE 0)

\* What a client waits for after it was told something.
After(wait, said) ==
    CASE said = "retry" -> "nothing"
      [] said \in {"failure", "signal"} /\ wait = "stream" -> "nothing"
      [] OTHER -> wait

\* The client of session s is told; of a session that is not in the cache the
\* client is not known.
Tell(s, said) ==
    [c \in Clients |-> IF \E e \in Entry(s) : e.client = c THEN After(awaits[c], said)
                       ELSE awaits[c]]

sendSse(c, said) == [awaits EXCEPT ![c] = After(@, said)]

\* removeFromCache, Stop, Eject and Destroy of a session.
cleanupStreamingSession(s) ==
    /\ \E o \in StopStreamer(st[s], tsbs) :
          LET gone == EjectStreamer(o.x, o.tsbs)
          IN  st' = [st EXCEPT ![s] = gone.x] /\ tsbs' = gone.tsbs
    /\ cache' = removeFromCache(s)
    /\ freed' = (freed \/ HasTuner(st[s]))
    /\ tearing' = tearing \ {s}

RetrySignal(s) == IF \E e \in Entry(s) : e.mRetry THEN "retry" ELSE "none"

------------------------------------------------------------------------------
(* The conflict *)

setConflictStatus(k, status) ==
    IF k.mConflictState \in {"Detected", "Busy"} /\ status = "Detected"
      THEN [k EXCEPT !.mPrevConflictState = k.mConflictState, !.mConflictState = "Busy"]
      ELSE [k EXCEPT !.mConflictState = status,
                     !.mPrevConflictState = IF status = "Resolved" THEN status ELSE @]

\* The tuner goes to requests that came out of sequence first.
Retry(k) ==
    IF k.isConflict /\ k.OutofSeqCount = 0
      THEN [k EXCEPT !.isConflict = FALSE, !.isCancelled = FALSE, !.client = "none"] ELSE k

\* Mutant: a conflict that the user has resolved is over.
RetryTellsDetected(k) ==
    IF k.isConflict /\ k.OutofSeqCount = 0 /\ k.mConflictState = "Detected"
      THEN sendSse(k.client, "retry") ELSE awaits

RetryTells(k) ==
    IF k.isConflict /\ k.OutofSeqCount = 0 THEN sendSse(k.client, "retry") ELSE awaits

\* A request that came out of sequence is held back until the session before it
\* has been torn down; one conflict is taken to the user, others are denied.
HandleTunerConflict(c, isOutofSeq) ==
    LET k == setConflictStatus(conf, "Detected")
        first == ~k.isConflict /\ k.mConflictState # "Busy"
        own == k.isConflict /\ k.client = c
    IN  IF isOutofSeq
          THEN /\ conf' = [k EXCEPT !.OutofSeqCount = @ + 1,
                                    !.mConflictState = k.mPrevConflictState]
               /\ awaits' = [awaits EXCEPT ![c] = "held"]
               /\ UNCHANGED ui
          ELSE /\ conf' = IF first THEN [k EXCEPT !.mTunerFreeFlag = FALSE, !.client = c,
                                                  !.isConflict = TRUE, !.isCancelled = FALSE]
                          ELSE k
               /\ awaits' = [awaits EXCEPT ![c] = IF first \/ own THEN "conflict" ELSE "nothing"]
               /\ ui' = [ui EXCEPT !.asked = @ \/ first]

------------------------------------------------------------------------------
(* The platform's server manager *)

\* ServerManagerCallback.  The sessions that requests on the queue will bring
\* are not counted.
ServerManagerCallback(c, url) ==
    /\ requests < MaxRequests /\ requests' = requests + 1
    /\ hand.client # c
    /\ \A i \in DOMAIN queue : queue[i].client # c
    /\ Cardinality(FreeSessions) > Len(SelectSeq(queue, LAMBDA e : e.type = "Serve"))
    /\ Cardinality(served) < getMaxClient
    /\ queue' = Append(queue, [type |-> "Serve", client |-> c, url |-> url, session |-> None])
    /\ awaits' = [awaits EXCEPT ![c] = "stream"]
    /\ UNCHANGED <<served, cache, st, tsbs, conf, hand, ui, gateway, freed, tearing, disturbed>>

\* A client ends its stream, or the connection is lost.
ClientLeaves(s) ==
    /\ s \in served \ tearing /\ getCpeProgHandle(st[s])
    /\ Disturbance
    /\ tearing' = tearing \cup {s}
    /\ UNCHANGED <<served, cache, st, tsbs, conf, queue, hand, ui, gateway, freed, awaits, requests>>

TeardownRequired(s) ==
    /\ s \in tearing
    /\ tearing' = tearing \ {s}
    /\ queue' = Append(queue, [type |-> "Teardown", client |-> "none", url |-> "none",
                               session |-> s])
    /\ UNCHANGED <<served, cache, st, tsbs, conf, hand, ui, gateway, freed, awaits, disturbed, requests>>

HandleTunerFreeNotification ==
    /\ freed /\ freed' = FALSE
    /\ conf' = Retry([conf EXCEPT !.mTunerFreeFlag = TRUE])
    /\ awaits' = RetryTells(conf)
    /\ UNCHANGED <<served, cache, st, tsbs, queue, hand, ui, gateway, tearing, disturbed, requests>>

GatewayTunes ==
    /\ ~gateway /\ TunersUsed < NumTuners
    /\ Disturbance
    /\ gateway' = TRUE
    /\ UNCHANGED <<served, cache, st, tsbs, conf, queue, hand, ui, freed, tearing, awaits, requests>>

\* The gateway's recording in the foreground ends.
NotifyRecordingStop ==
    /\ gateway /\ gateway' = FALSE /\ freed' = TRUE
    /\ conf' = IF conf.isConflict THEN Retry(setConflictStatus(conf, "Resolved")) ELSE conf
    /\ awaits' = RetryTells(conf)
    /\ UNCHANGED <<served, cache, st, tsbs, queue, hand, ui, tearing, disturbed, requests>>

------------------------------------------------------------------------------
(* The server's event thread *)

Popped(type) == hand.at = "idle" /\ queue # <<>> /\ Head(queue).type = type

IsSrvReqPending(c, url) ==
    \E i \in DOMAIN cache : /\ cache[i].client = c /\ cache[i].url = url
                            /\ cache[i].session \in Registered
                            /\ ~getCpeProgHandle(st[cache[i].session])

getHandleFromMac(c) ==
    cache[CHOOSE i \in DOMAIN cache :
             cache[i].client = c /\ \A j \in DOMAIN cache : cache[j].client = c => i <= j].session

\* The request goes to the first session of the client.
HandlePendingRequest ==
    /\ Popped("Serve")
    /\ IsSrvReqPending(Head(queue).client, Head(queue).url)
    /\ LET s == getHandleFromMac(Head(queue).client)
       IN  st' = [st EXCEPT ![s] = SetCpeStreamingSessionID(@)]
    /\ queue' = Tail(queue)
    /\ UNCHANGED <<served, cache, tsbs, conf, hand, ui, gateway, freed, tearing, awaits,
                   disturbed, requests>>

HandleServeRequest ==
    /\ Popped("Serve")
    /\ LET e == Head(queue)
       IN  /\ ~IsSrvReqPending(e.client, e.url)
           /\ hand' = [AtRest EXCEPT !.at = "sequence", !.client = e.client, !.url = e.url,
                                     !.left = SessionsOf(e.client)]
    /\ queue' = Tail(queue)
    /\ UNCHANGED <<served, cache, st, tsbs, conf, ui, gateway, freed, tearing, awaits, disturbed, requests>>

\* CheckForOutOfSequenceEvents, of one earlier session of the client: it is
\* stopped, and torn down when the platform requires it, or here.
StopEarlier(s) ==
    /\ hand.at = "sequence" /\ s \in hand.left
    /\ s \in Registered
    /\ \E o \in StopStreaming(st[s]) :
          /\ IF o.status = "Error" /\ getCpeProgHandle(st[s]) THEN Disturbance ELSE Quietly
          /\ IF o.status = "Ok"
               THEN /\ cache' = Marked(s, LAMBDA e : [e EXCEPT !.isOutofSeq = TRUE])
                    /\ st' = [st EXCEPT ![s] = o.x]
                    /\ tearing' = tearing \cup {s}
                    /\ hand' = [hand EXCEPT !.left = @ \ {s}, !.isOutofSeq = TRUE]
                    /\ UNCHANGED <<served, tsbs, freed, awaits>>
             ELSE /\ hand' = [hand EXCEPT !.left = @ \ {s}]
                  /\ served' = served \ {s}
                  /\ awaits' = awaits
                  /\ IF s \in served THEN cleanupStreamingSession(s)
                     ELSE /\ cache' = removeFromCache(s)
                          /\ st' = [st EXCEPT ![s] = o.x]
                          /\ UNCHANGED <<tsbs, freed, tearing>>
    /\ UNCHANGED <<conf, queue, ui, gateway, requests>>

\* Another thread has cleaned it up.
EarlierGone(s) ==
    /\ hand.at = "sequence" /\ s \in hand.left
    /\ s \notin Registered
    /\ hand' = [hand EXCEPT !.left = @ \ {s}]
    /\ UNCHANGED <<served, cache, st, tsbs, conf, queue, ui, gateway, freed, tearing, awaits,
                   disturbed, requests>>

\* The request of a device that is not managed here is refused.
NotManaged ==
    /\ hand.at = "sequence" /\ hand.left = {} /\ hand.url # "file"
    /\ Disturbance
    /\ hand' = AtRest
    /\ awaits' = sendSse(hand.client, "failure")
    /\ UNCHANGED <<served, cache, st, tsbs, conf, queue, ui, gateway, freed, tearing, requests>>

Sequenced == hand.at = "sequence" /\ hand.left = {} /\ FreeSessions # {}

NewSession == CHOOSE s \in FreeSessions : \A other \in FreeSessions : s <= other

LoadSession ==
    /\ Sequenced
    /\ hand.url = "file" \/ TunersUsed < NumTuners
    /\ st' = [st EXCEPT ![NewSession] = LoadStreamer(NewStreamer(hand.url))]
    /\ cache' = addToCache(hand.client, hand.url, NewSession)
    /\ hand' = [hand EXCEPT !.at = "play", !.session = NewSession]
    /\ UNCHANGED <<served, tsbs, conf, queue, ui, gateway, freed, tearing, awaits, disturbed, requests>>

LoadConflict ==
    /\ Sequenced
    /\ hand.url # "file" /\ TunersUsed >= NumTuners
    /\ st' = [st EXCEPT ![NewSession] = NewStreamer(hand.url)]
    /\ cache' = addToCache(hand.client, hand.url, NewSession)
    /\ HandleTunerConflict(hand.client, hand.isOutofSeq)
    /\ hand' = [hand EXCEPT !.at = "cleanup", !.session = NewSession, !.next = "failure"]
    /\ UNCHANGED <<served, tsbs, queue, gateway, freed, tearing, disturbed, requests>>

LoadFails ==
    /\ Sequenced
    /\ Disturbance
    /\ st' = [st EXCEPT ![NewSession] = NewStreamer(hand.url)]
    /\ cache' = addToCache(hand.client, hand.url, NewSession)
    /\ hand' = [hand EXCEPT !.at = "cleanup", !.session = NewSession, !.next = "failure"]
    /\ UNCHANGED <<served, tsbs, conf, queue, ui, gateway, freed, tearing, awaits, requests>>

PlaySession ==
    /\ hand.at = "play"
    /\ \E o \in PlayStreamer(SetCpeStreamingSessionID(st[hand.session])) :
          /\ st' = [st EXCEPT ![hand.session] = o.x]
          /\ IF o.status = "Ok"
               THEN /\ served' = served \cup {hand.session}
                    /\ hand' = AtRest
                    /\ awaits' = IF hand.url = "file" THEN sendSse(hand.client, "signal")
                                 ELSE awaits
               ELSE /\ hand' = [hand EXCEPT !.at = "cleanup", !.next = "idle"]
                    /\ UNCHANGED <<served, awaits>>
    /\ UNCHANGED <<cache, tsbs, conf, queue, ui, gateway, freed, tearing, disturbed, requests>>

\* Mutant: this session is counted as one that is still to be torn down.
IsRetriedForOthers(s) == conf.OutofSeqCount > 1 /\ \E e \in Entry(s) : e.isOutofSeq

\* The session gave way to a request that was held back.
IsRetried(s) == conf.OutofSeqCount > 0 /\ \E e \in Entry(s) : e.isOutofSeq

\* The session is taken from the list with the mutex; then it is cleaned up.
HandleTeardownRequest ==
    /\ Popped("Teardown")
    /\ queue' = Tail(queue)
    /\ LET s == Head(queue).session
       IN  IF s \in served /\ getCpeProgHandle(st[s])
             THEN /\ served' = served \ {s}
                  /\ awaits' = IF IsRetried(s) THEN Tell(s, "retry") ELSE awaits
                  /\ hand' = [AtRest EXCEPT !.at = "cleanup", !.session = s, !.next = "count"]
             ELSE UNCHANGED <<served, awaits, hand>>
    /\ UNCHANGED <<cache, st, tsbs, conf, ui, gateway, freed, tearing, disturbed, requests>>

CleanUp ==
    /\ hand.at = "cleanup"
    /\ cleanupStreamingSession(hand.session)
    /\ awaits' = IF hand.next = "failure" THEN sendSse(hand.client, "failure")
                 ELSE Tell(hand.session, RetrySignal(hand.session))
    /\ hand' = IF hand.next = "count" THEN [AtRest EXCEPT !.at = "count"] ELSE AtRest
    /\ UNCHANGED <<served, conf, queue, ui, gateway, disturbed, requests>>

CountDown ==
    /\ hand.at = "count"
    /\ conf' = [conf EXCEPT !.OutofSeqCount = IF @ > 0 THEN @ - 1 ELSE @]
    /\ hand' = AtRest
    /\ UNCHANGED <<served, cache, st, tsbs, queue, ui, gateway, freed, tearing, awaits, disturbed, requests>>

EventThread ==
    \/ HandlePendingRequest \/ HandleServeRequest
    \/ \E s \in Sessions : StopEarlier(s) \/ EarlierGone(s)
    \/ NotManaged \/ LoadSession \/ LoadConflict \/ LoadFails \/ PlaySession
    \/ HandleTeardownRequest \/ CleanUp \/ CountDown

------------------------------------------------------------------------------
(* The scheduler's thread *)

\* updateAsset for the one that the user lets go: the request itself, of which
\* the session may still be in the cache, the gateway or another client.
Resolved(at) == ui' = [ui EXCEPT !.at = at, !.asked = FALSE]

CancelRequest ==
    /\ ui.at = "idle" /\ ui.asked
    /\ IF hand.at = "cleanup" /\ hand.next = "failure" /\ hand.client = conf.client
         THEN /\ cache' = Marked(hand.session, LAMBDA e : [e EXCEPT !.isCancelled = TRUE])
              /\ UNCHANGED conf
         ELSE /\ conf' = [conf EXCEPT !.isCancelled = TRUE]
              /\ UNCHANGED cache
    /\ Resolved("apply")
    /\ UNCHANGED <<served, st, tsbs, queue, hand, gateway, freed, tearing, awaits, disturbed, requests>>

CancelGateway ==
    /\ ui.at = "idle" /\ ui.asked
    /\ gateway /\ gateway' = FALSE /\ freed' = TRUE
    /\ Resolved("apply")
    /\ UNCHANGED <<served, cache, st, tsbs, conf, queue, hand, tearing, awaits, disturbed, requests>>

CancelClient(s) ==
    /\ ui.at = "idle" /\ ui.asked
    /\ s \in Registered /\ st[s].kind # "file" /\ s # hand.session
    /\ cache' = Marked(s, LAMBDA e : [e EXCEPT !.isCancelled = TRUE])
    /\ Resolved("apply")
    /\ UNCHANGED <<served, st, tsbs, conf, queue, hand, gateway, freed, tearing, awaits, disturbed, requests>>

Applied ==
    /\ ui' = [ui EXCEPT !.at = "idle"]
    /\ UNCHANGED <<served, cache, st, tsbs, queue, hand, gateway, freed, tearing, disturbed, requests>>

\* The request is denied, unless the tuner was given to it before.
ApplyDenied ==
    /\ ui.at = "apply" /\ conf.isCancelled
    /\ conf' = setConflictStatus([conf EXCEPT !.isConflict = FALSE, !.isCancelled = FALSE],
                                 "Resolved")
    /\ awaits' = IF conf.client = "none" THEN awaits ELSE sendSse(conf.client, "retry")
    /\ Applied

CancelledEntries == {i \in DOMAIN cache : cache[i].isCancelled}

ApplyDone ==
    /\ ui.at = "apply" /\ ~conf.isCancelled /\ CancelledEntries = {}
    /\ conf' = setConflictStatus(conf, "Resolved")
    /\ awaits' = awaits
    /\ Applied

\* A session that streams is stopped by the platform, whose teardown cleans it
\* up; one that does not, or that the platform cannot stop, is torn down here,
\* if it is being served.
ApplyToSession ==
    /\ ui.at = "apply" /\ ~conf.isCancelled /\ CancelledEntries # {}
    /\ LET s == cache[CHOOSE i \in CancelledEntries : \A j \in CancelledEntries : i <= j].session
           streams == getCpeProgHandle(st[s])
           local(next) == /\ served' = served \ {s}
                          /\ ui' = IF s \in served THEN [ui EXCEPT !.at = next, !.session = s]
                                   ELSE [ui EXCEPT !.at = IF streams THEN "wait" ELSE @]
                          /\ UNCHANGED tearing
       IN  /\ conf' = IF streams THEN [conf EXCEPT !.mTunerFreeFlag = FALSE] ELSE conf
           /\ awaits' = Tell(s, "signal")
           /\ \/ /\ streams /\ Quietly
                 /\ tearing' = tearing \cup {s}
                 /\ ui' = [ui EXCEPT !.at = "wait"]
                 /\ UNCHANGED served
              \/ streams /\ Disturbance /\ local("cleanupWait")
              \/ ~streams /\ Quietly /\ local("cleanup")
    /\ UNCHANGED <<cache, st, tsbs, queue, hand, gateway, freed, requests>>

handleLocalTeardown ==
    /\ ui.at \in {"cleanup", "cleanupWait"}
    /\ cleanupStreamingSession(ui.session)
    /\ awaits' = Tell(ui.session, RetrySignal(ui.session))
    /\ ui' = [ui EXCEPT !.at = IF @ = "cleanup" THEN "apply" ELSE "wait", !.session = None]
    /\ UNCHANGED <<served, conf, queue, hand, gateway, disturbed, requests>>

TunerIsFree ==
    /\ ui.at = "wait" /\ conf.mTunerFreeFlag
    /\ ui' = [ui EXCEPT !.at = "apply"]
    /\ UNCHANGED <<served, cache, st, tsbs, conf, queue, hand, gateway, freed, tearing, awaits,
                   disturbed, requests>>

Resolution == CancelRequest \/ CancelGateway \/ \E s \in Sessions : CancelClient(s)

Scheduler == ApplyDenied \/ ApplyDone \/ ApplyToSession \/ handleLocalTeardown \/ TunerIsFree

------------------------------------------------------------------------------
(* The streamers *)

\* The event thread of a streamer; the platform may fail to stop what it is
\* asked to stop.
StreamerThread(s) ==
    /\ st[s].queue # <<>>
    /\ \E o \in streamerEvent([st[s] EXCEPT !.queue = Tail(@)], Head(st[s].queue), tsbs) :
          /\ st' = [st EXCEPT ![s] = o.x]
          /\ tsbs' = o.tsbs
          /\ cache' = IF o.said = "retryLater"
                        THEN Marked(s, LAMBDA e : [e EXCEPT !.mRetry = TRUE]) ELSE cache
          /\ awaits' = Tell(s, IF o.x.mState = "Streaming" /\ st[s].mState # "Streaming"
                                 THEN "signal" ELSE o.said)
    /\ IF Head(st[s].queue) \in {"PSIUpdate", "TunerLost"} /\ getCpeProgHandle(st[s])
         THEN tearing' \in {tearing, tearing \cup {s}} ELSE UNCHANGED tearing
    /\ UNCHANGED <<served, conf, queue, hand, ui, gateway, freed, disturbed, requests>>

PostTo(s, x, e) ==
    /\ Len(x.queue) < MaxEvents
    /\ st' = [st EXCEPT ![s] = queueTo(x, e)]
    /\ UNCHANGED <<served, cache, tsbs, conf, queue, hand, ui, gateway, freed, tearing, awaits, requests>>

Waiting(s, e) == \A i \in DOMAIN st[s].queue : st[s].queue[i] # e

SourceLocks(s) == /\ st[s].live = "started"
                  /\ st[s].mState = "WaitSourceReady" \/ st[s].mReqState = "Unlocked"
                  /\ Waiting(s, "RFCallback")
                  /\ PostTo(s, st[s], "RFCallback") /\ Quietly

TablesAreReady(s) == /\ st[s].psi = "started"
                     /\ PostTo(s, [st[s] EXCEPT !.psi = "ready"], "PSIReady") /\ Quietly

BufferIsFilled(s) == /\ st[s].rec = "on"
                     /\ PostTo(s, [st[s] EXCEPT !.rec = "reported"], "TSBStart") /\ Quietly

PsiTimer(s) == /\ st[s].timer
               /\ st' = [st EXCEPT ![s] = queueTo([@ EXCEPT !.timer = FALSE], "TimeOut")]
               /\ UNCHANGED <<served, cache, tsbs, conf, queue, hand, ui, gateway, freed,
                              tearing, awaits, disturbed, requests>>

TunerIsGranted(s) == /\ st[s].live = "open" /\ Waiting(s, "TunerRestored")
                     /\ PostTo(s, st[s], "TunerRestored") /\ Quietly

\* Losses, and the CAM's answers.
ServiceChanges(s) ==
    /\ Disturbance
    /\ \E e \in {"TunerLost", "TunerUnlocked", "TuningUpdate", "PSIUpdate", "Auth", "DeAuth"} :
          /\ st[s].live = "started" \/ e \notin {"TunerLost", "TunerUnlocked"}
          /\ st[s].psi = "ready" \/ e # "PSIUpdate"
          /\ st[s].rec \in {"on", "reported"} \/ e \notin {"Auth", "DeAuth"}
          /\ st[s].kind = "live"
          /\ PostTo(s, st[s], e)

Streamers == \E s \in Sessions :
    \/ StreamerThread(s) \/ SourceLocks(s) \/ TablesAreReady(s) \/ BufferIsFilled(s)
    \/ PsiTimer(s) \/ TunerIsGranted(s) \/ ServiceChanges(s)

------------------------------------------------------------------------------

Platform ==
    \/ \E ask \in Asks : ServerManagerCallback(ask[1], ask[2])
    \/ \E s \in Sessions : ClientLeaves(s) \/ TeardownRequired(s)
    \/ HandleTunerFreeNotification \/ GatewayTunes \/ NotifyRecordingStop

Next == Platform \/ EventThread \/ Resolution \/ Scheduler \/ Streamers

Fairness ==
    /\ WF_vars(EventThread) /\ WF_vars(Resolution) /\ WF_vars(Scheduler)
    /\ WF_vars(HandleTunerFreeNotification)
    /\ \A s \in Sessions : /\ WF_vars(TeardownRequired(s)) /\ WF_vars(StreamerThread(s))
                           /\ WF_vars(PsiTimer(s))

Spec == Init /\ [][Next]_vars /\ Fairness

------------------------------------------------------------------------------
(* Properties *)

\* The typing of the variables.
TypeOK ==
    /\ served \subseteq Sessions /\ tearing \subseteq Sessions
    /\ \A i \in DOMAIN cache : cache[i].client \in Clients /\ cache[i].session \in Sessions
    /\ \A s \in Sessions : /\ st[s].mState \in StreamerStates
                           /\ st[s].mReqState \in HnSessionStates
                           /\ \A i \in DOMAIN st[s].queue : st[s].queue[i] \in StreamerEvents
    /\ conf.mConflictState \in ConflictStates
    /\ awaits \in [Clients -> Waits]

\* A session in ServeSessList has its controller, whose program handle a
\* teardown compares without a look at whether there is one, and it has a place
\* in the cache, from which its client is told: whoever tears a session down,
\* the event thread or the scheduler's, takes it from the list first.
ServedSessionsAreOpen ==
    \A s \in served : s \in Registered /\ Entry(s) # {}

\* A session that exists is in the list, or in the hands of the one thread that
\* will put it there or clean it up; never of both, and never of none, which
\* would keep its tuner until the box restarts.
SessionsHaveOneOwner ==
    \A s \in Registered :
        Cardinality({p \in {"list", "event", "scheduler"} :
                        CASE p = "list" -> s \in served
                          [] p = "event" -> hand.session = s
                          [] OTHER -> ui.session = s}) = 1

\* A buffer that is taken is that of one session.
BuffersHaveSessions ==
    \A n \in Tsbs : tsbs[n] # "free" =>
        Cardinality({s \in Registered : st[s].mTsbNumber = n}) = 1

\* Sessions, their places in the list and the cache, and their buffers belong
\* together, whichever of the threads tears them down.
SessionsAreOwned == ServedSessionsAreOpen /\ SessionsHaveOneOwner /\ BuffersHaveSessions

\* A session is cleaned up for a reason: a teardown the platform requires, a
\* newer request of the same client, a user who cancelled it, or a request that
\* failed.  A conflict, and the requests of other clients, never end it.
CutForAReason ==
    \A s \in served : s \notin served' =>
        \/ /\ hand.at = "idle" /\ queue # <<>>
           /\ Head(queue).type = "Teardown" /\ Head(queue).session = s
        \/ hand.at = "sequence" /\ \E e \in Entry(s) : e.client = hand.client
        \/ ui.at = "apply" /\ \E e \in Entry(s) : e.isCancelled

SessionsAreCutForAReason == [][CutForAReason]_vars

\* Clients that were told of a conflict do not wait at a tuner that is free: they
\* are told to ask again when it becomes free or the user has decided.  A request
\* that is held back takes this turn away.
ConflictIsAnswered ==
    [](conf.OutofSeqCount = 0) =>
        []<>(TunersUsed >= NumTuners \/ \A c \in Clients : awaits[c] # "conflict")

\* Clients whose request was held back, the one before not being torn down yet,
\* are told to ask again, as long as the server keeps account of them: the
\* scheduler's thread tears down a session without telling them, and any teardown
\* counts down, that of another client's session too.
Held == {c \in Clients : awaits[c] = "held"}

HeldAreAccountedFor ==
    /\ conf.OutofSeqCount > 0 /\ hand.at = "cleanup" /\ hand.next = "count" =>
           \E e \in Entry(hand.session) : e.isOutofSeq
    /\ \A e \in Entry(ui.session) : ~e.isOutofSeq

HeldRequestIsRetried == []HeldAreAccountedFor => []<>(Held = {})

\* Both: a client that is told to wait is told to ask again.
ClientsAreAnswered == ConflictIsAnswered /\ HeldRequestIsRetried

==============================================================================
