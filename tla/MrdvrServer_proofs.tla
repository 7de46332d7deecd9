-------------------------- MODULE MrdvrServer_proofs --------------------------
(***************************************************************************)
(* MrdvrServer for any clients, requests, buffers and bounds: a session    *)
(* that exists has one owner, and so has a buffer that is taken; and a     *)
(* session that is served is given up for a reason only.                   *)
(***************************************************************************)
EXTENDS MrdvrServer, SequenceTheorems, FiniteSetTheorems, WellFoundedInduction, TLAPS

Kinds == {"live", "vod", "file"}

Streamer == [kind : Kinds \cup {"none"}, mState : StreamerStates,
             mReqState : HnSessionStates, mTsbState : {"NotCreated", "Created", "Started"},
             live : {"none", "loaded", "open", "started"},
             psi : {"none", "new", "started", "ready"}, timer : BOOLEAN,
             rec : {"none", "new", "on", "reported"}, mTsbNumber : Tsbs \cup {NoTsb},
             source : {"none", "closed", "open", "on"}, queue : Seq(StreamerEvents)]

\* A streamer has a buffer only for a record session; a session that does not
\* exist has nothing.
StreamerOK(x) ==
    /\ x \in Streamer
    /\ x.rec = "none" => x.mTsbNumber = NoTsb
    /\ x.kind = "none" => x = NoStreamer

Requests == [type : {"Serve", "Teardown"}, client : Clients \cup {"none"},
             url : Kinds \cup {"none"}, session : Sessions \cup {None}]

CacheEntry == [client : Clients, url : Kinds, session : Sessions, isOutofSeq : BOOLEAN,
               isCancelled : BOOLEAN, mRetry : BOOLEAN]

Conflict == [isConflict : BOOLEAN, isCancelled : BOOLEAN, client : Clients \cup {"none"},
             OutofSeqCount : Nat, mTunerFreeFlag : BOOLEAN,
             mConflictState : ConflictStates, mPrevConflictState : ConflictStates]

Hand == [at : {"idle", "sequence", "play", "cleanup", "count"},
         client : Clients \cup {"none"}, url : Kinds \cup {"none"},
         session : Sessions \cup {None}, left : SUBSET Sessions, isOutofSeq : BOOLEAN,
         next : {"idle", "failure", "count"}]

\* A request that is queued names its client and what it asks for.
QueueOK(q) ==
    /\ q \in Seq(Requests)
    /\ \A i \in 1..Len(q) : q[i].type = "Serve" => q[i].client \in Clients /\ q[i].url \in Kinds

\* The data of the server.
DataOK ==
    /\ cache \in Seq(CacheEntry)
    /\ conf \in Conflict
    /\ tearing \subseteq Sessions
    /\ awaits \in [Clients -> Waits]
    /\ QueueOK(queue)

\* The hands of the two threads that clean sessions up.
HandsOK ==
    /\ hand \in Hand
    /\ hand.at \in {"play", "cleanup"} <=> hand.session # None
    /\ hand.at \in {"sequence", "play"} => hand.client \in Clients /\ hand.url \in Kinds
    /\ ui \in [at : {"idle", "apply", "wait", "cleanup", "cleanupWait"},
               session : Sessions \cup {None}, asked : BOOLEAN]
    /\ ui.at \in {"cleanup", "cleanupWait"} <=> ui.session # None

StreamersOK == st \in [Sessions -> Streamer] /\ \A s \in Sessions : StreamerOK(st[s])

\* Buffers and streamers name each other.
BuffersOK ==
    /\ tsbs \in [Tsbs -> Users]
    /\ \A n \in Tsbs : tsbs[n] # "free" => \E s \in Sessions : st[s].mTsbNumber = n
    /\ \A s \in Sessions : st[s].mTsbNumber # NoTsb => tsbs[st[s].mTsbNumber] # "free"
    /\ \A s, t \in Sessions : st[s].mTsbNumber = st[t].mTsbNumber /\ st[s].mTsbNumber # NoTsb
                                 => s = t

\* The cache knows the session, and its client.
Cached(s) == \E i \in 1..Len(cache) : cache[i].session = s
Known(s, c) == \E i \in 1..Len(cache) : cache[i].session = s /\ cache[i].client = c

\* A session has one place in the cache, and an owner that is no other's.
CacheOK ==
    /\ \A i \in 1..Len(cache) : cache[i].session \in Registered
    /\ \A i, j \in 1..Len(cache) : cache[i].session = cache[j].session => i = j

OwnersOK ==
    /\ served \subseteq Registered
    /\ \A s \in served : Cached(s)
    /\ hand.session # None => hand.session \in Registered \ served
    /\ ui.session # None => ui.session \in Registered \ served
    /\ hand.session # None => hand.session # ui.session
    /\ \A s \in Registered \ served : s = hand.session \/ s = ui.session
    /\ hand.at = "play" => Cached(hand.session)

\* What the event thread has still to stop is of the client that it serves.
EarlierOK ==
    hand.at = "sequence" =>
        \A s \in hand.left \cap served : Known(s, hand.client)

IInv == /\ DataOK /\ HandsOK /\ StreamersOK /\ BuffersOK
        /\ CacheOK /\ OwnersOK /\ EarlierOK

------------------------------------------------------------------------------
(* The buffers *)

\* A set of numbers has a least one.
LEMMA Least ==
    ASSUME NEW T \in SUBSET Nat, T # {}
    PROVE  \E n \in T : \A m \in T : n <= m
<1>1. PICK n \in T : \A m \in T : <<m, n>> \notin OpToRel(<, Nat)
  BY NatLessThanWellFounded, WFMin
<1>2. \A m \in T : ~(m < n)
  BY <1>1 DEF OpToRel
<1>3. \A k, m \in T : ~(m < k) => k <= m
  OBVIOUS
<1> QED
  BY <1>2, <1>3

\* The search for a buffer finds one that is available, if there is one.
LEMMA GetTsb ==
    ASSUME NEW b, get_tsb(b) # NoTsb
    PROVE  get_tsb(b) \in Tsbs /\ b[get_tsb(b)] = "free"
<1> DEFINE T == Available(b)
<1>1. T # {}
  BY DEF get_tsb
<1>2. T \in SUBSET Nat
  BY NumTsbsAssumption DEF Available, Tsbs
<1>3. \E n \in T : \A m \in T : n <= m
  BY <1>1, <1>2, Least
<1>4. get_tsb(b) \in T
  BY <1>1, <1>3 DEF get_tsb
<1> QED
  BY <1>4 DEF Available

\* The number of no buffer is that of none.
LEMMA TsbNumbers == NoTsb \notin Tsbs
BY DEF NoTsb, Tsbs

\* What a streamer may do to the buffers: nothing, take one for itself, or give
\* back its own.
BuffersMove(x, y, b, c) ==
    \/ c = b /\ y.mTsbNumber = x.mTsbNumber
    \/ /\ x.mTsbNumber = NoTsb /\ y.mTsbNumber \in Tsbs
       /\ b[y.mTsbNumber] = "free" /\ c = TakenBy("streamer", b, y.mTsbNumber)
    \/ y.mTsbNumber = NoTsb /\ c = release_tsb(b, x.mTsbNumber)

\* The streamer stays, with its buffer, or with what it did to the buffers.
Same(x, y) == StreamerOK(y) /\ y.kind = x.kind /\ y.mTsbNumber = x.mTsbNumber
Moves(x, y, b, c) == StreamerOK(y) /\ y.kind = x.kind /\ BuffersMove(x, y, b, c)

Some(x) == StreamerOK(x) /\ x.kind # "none"

\* How a streamer stays and moves: the steps compose.
LEMMA SameIsSome ==
    ASSUME NEW x, NEW y, Some(x), Same(x, y)
    PROVE  Some(y)
BY DEF Some, Same

LEMMA SameMoves ==
    ASSUME NEW x, NEW y, NEW b, Same(x, y)
    PROVE  Moves(x, y, b, b)
BY DEF Same, Moves, BuffersMove

LEMMA SameThenMoves ==
    ASSUME NEW x, NEW y, NEW z, NEW b, NEW c, Same(x, y), Moves(y, z, b, c)
    PROVE  Moves(x, z, b, c)
BY DEF Same, Moves, BuffersMove

LEMMA SameThenSame ==
    ASSUME NEW x, NEW y, NEW z, Same(x, y), Same(y, z)
    PROVE  Same(x, z)
BY DEF Same

\* A session changes a part of a streamer that is no buffer.
LEMMA SomeFields ==
    ASSUME NEW x, Some(x)
    PROVE  /\ Same(x, x)
           /\ \A m \in StreamerStates : Same(x, [x EXCEPT !.mState = m])
           /\ \A r \in HnSessionStates : Same(x, [x EXCEPT !.mReqState = r])
           /\ \A a \in {"NotCreated", "Created", "Started"} : Same(x, [x EXCEPT !.mTsbState = a])
           /\ \A l \in {"none", "loaded", "open", "started"} : Same(x, [x EXCEPT !.live = l])
           /\ \A p \in {"none", "new", "started", "ready"} : Same(x, [x EXCEPT !.psi = p])
           /\ \A t \in BOOLEAN : Same(x, [x EXCEPT !.timer = t])
           /\ \A o \in {"none", "closed", "open", "on"} : Same(x, [x EXCEPT !.source = o])
           /\ \A q \in Seq(StreamerEvents) : Same(x, [x EXCEPT !.queue = q])
<1> USE DEF Some, Same, StreamerOK, Streamer
<1>1. Same(x, x)
  OBVIOUS
<1>2. \A m \in StreamerStates : Same(x, [x EXCEPT !.mState = m])
  OBVIOUS
<1>3. \A r \in HnSessionStates : Same(x, [x EXCEPT !.mReqState = r])
  OBVIOUS
<1>4. \A a \in {"NotCreated", "Created", "Started"} : Same(x, [x EXCEPT !.mTsbState = a])
  OBVIOUS
<1>5. \A l \in {"none", "loaded", "open", "started"} : Same(x, [x EXCEPT !.live = l])
  OBVIOUS
<1>6. \A p \in {"none", "new", "started", "ready"} : Same(x, [x EXCEPT !.psi = p])
  OBVIOUS
<1>7. \A t \in BOOLEAN : Same(x, [x EXCEPT !.timer = t])
  OBVIOUS
<1>8. \A o \in {"none", "closed", "open", "on"} : Same(x, [x EXCEPT !.source = o])
  OBVIOUS
<1>9. \A q \in Seq(StreamerEvents) : Same(x, [x EXCEPT !.queue = q])
  OBVIOUS
<1> QED
  BY <1>1, <1>2, <1>3, <1>4, <1>5, <1>6, <1>7, <1>8, <1>9

\* So does an event that is queued.
LEMMA QueueTo ==
    ASSUME NEW x, Some(x), NEW e \in StreamerEvents
    PROVE  Same(x, queueTo(x, e))
<1>1. x.queue \in Seq(StreamerEvents)
  BY DEF Some, StreamerOK, Streamer
<1>2. Append(x.queue, e) \in Seq(StreamerEvents)
  BY <1>1, AppendProperties
<1> QED
  BY <1>2, SomeFields DEF queueTo

------------------------------------------------------------------------------
(* The methods of a streamer *)

\* Opening, starting and stopping the source leave a streamer with its buffer.
LEMMA SourceMethods ==
    ASSUME NEW x, Some(x)
    PROVE  /\ \A o \in openSource(x) : Same(x, o.x)
           /\ \A o \in startSource(x) : Same(x, o.x)
           /\ Same(x, stopSource(x))
<1>1. \A source \in {"none", "closed", "open", "on"} : Same(x, [x EXCEPT !.source = source])
  BY SomeFields
<1>2. ASSUME NEW o \in openSource(x) PROVE Same(x, o.x)
  <2> DEFINE opened == [x EXCEPT !.source = "open"]
             closed == [x EXCEPT !.source = "closed"]
  <2>1. o \in {[x |-> opened, status |-> "Ok"], [x |-> closed, status |-> "TimeOut"],
               [x |-> closed, status |-> "Error"], [x |-> opened, status |-> "Error"]}
    BY DEF openSource
  <2>2. Same(x, opened) /\ Same(x, closed)
    BY <1>1
  <2> HIDE DEF opened, closed
  <2> QED
    BY <2>1, <2>2
<1>3. ASSUME NEW o \in startSource(x) PROVE Same(x, o.x)
  <2> DEFINE on == [x EXCEPT !.source = "on"]
             closed == [x EXCEPT !.source = "closed"]
  <2>1. o \in {[x |-> on, status |-> "Ok"], [x |-> closed, status |-> "BadSource"]}
    BY DEF startSource
  <2>2. Same(x, on) /\ Same(x, closed)
    BY <1>1
  <2> HIDE DEF on, closed
  <2> QED
    BY <2>1, <2>2
<1>4. Same(x, stopSource(x))
  BY <1>1 DEF stopSource
<1> QED
  BY <1>2, <1>3, <1>4

\* So does streaming of a recording or of a buffer.
LEMMA PlayRecordingKeeps ==
    ASSUME NEW x, Some(x), NEW o \in PlayRecording(x)
    PROVE  Same(x, o.x)
<1>1. PICK p \in openSource(x) : o \in (IF p.status = "Ok" THEN startSource(p.x) ELSE {p})
  BY DEF PlayRecording
<1>2. Same(x, p.x) /\ Some(p.x)
  BY SourceMethods, SameIsSome
<1>3. CASE o \in startSource(p.x)
  BY <1>3, <1>2, SourceMethods, SameThenSame
<1> QED
  BY <1>1, <1>2, <1>3

\* Play, Stop and the session's id leave the streamer its buffer.
LEMMA PlayStreamerKeeps ==
    ASSUME NEW x, Some(x), NEW o \in PlayStreamer(x)
    PROVE  Same(x, o.x)
<1>1. CASE x.kind = "file"
  BY <1>1, PlayRecordingKeeps DEF PlayStreamer
<1>2. CASE x.kind # "file"
  <2>1. o = [x |-> queueTo(x, "Play"), status |-> "Ok"]
    BY <1>2 DEF PlayStreamer
  <2>2. Same(x, queueTo(x, "Play"))
    BY QueueTo DEF StreamerEvents
  <2> QED
    BY <2>1, <2>2
<1> QED
  BY <1>1, <1>2

LEMMA SetSessionIDKeeps ==
    ASSUME NEW x, Some(x)
    PROVE  Same(x, SetCpeStreamingSessionID(x))
<1> DEFINE created == [x EXCEPT !.mReqState = "TsbCreated"]
<1>1. Same(x, x) /\ Same(x, created)
  BY SomeFields DEF HnSessionStates
<1>2. Same(created, queueTo(created, "TSBStart"))
  BY <1>1, SameIsSome, QueueTo DEF StreamerEvents
<1>3. SetCpeStreamingSessionID(x) \in {x, queueTo(created, "TSBStart")}
  BY DEF SetCpeStreamingSessionID, ValidateSessionState
<1> HIDE DEF created
<1> QED
  BY <1>1, <1>2, <1>3, SameThenSame

LEMMA StopStreamingKeeps ==
    ASSUME NEW x, Some(x), NEW o \in StopStreaming(x)
    PROVE  Same(x, o.x)
<1> DEFINE suspended == [x EXCEPT !.mState = "Suspended", !.queue = <<>>]
<1>1. Same(x, suspended)
  <2>1. <<>> \in Seq(StreamerEvents)
    OBVIOUS
  <2> QED
    BY <2>1, ZenonT(40) DEF Some, Same, StreamerOK, Streamer, StreamerStates
<1>2. PICK status \in releaseSource(x) :
        o = [x |-> IF x.kind = "file" THEN x ELSE suspended, status |-> status]
  BY DEF StopStreaming
<1>3. Same(x, x)
  BY SomeFields
<1> HIDE DEF suspended
<1> QED
  BY <1>1, <1>2, <1>3

\* The buffer is taken, or it is there already, or it is not.
LEMMA StartBufferMoves ==
    ASSUME NEW x, Some(x), NEW b, NEW o \in StartBuffer(x, b)
    PROVE  Moves(x, o.x, b, o.tsbs) /\ o.x.kind # "none"
<1> DEFINE n == get_tsb(b)
           taken == IF x.rec = "none" THEN TakenBy("streamer", b, n) ELSE b
           with == IF x.rec = "none" THEN [x EXCEPT !.mTsbNumber = n, !.rec = "new"] ELSE x
           on == [with EXCEPT !.rec = "on"]
<1>1. CASE x.rec = "none" /\ n = NoTsb
  <2>1. o = [x |-> x, tsbs |-> b, status |-> "Error"]
    BY <1>1 DEF StartBuffer
  <2> QED
    BY <2>1, SomeFields, SameMoves DEF Some
<1>2. CASE ~(x.rec = "none" /\ n = NoTsb)
  <2>1. o \in {[x |-> on, tsbs |-> taken, status |-> "Ok"],
               [x |-> with, tsbs |-> taken, status |-> "Error"],
               [x |-> with, tsbs |-> taken, status |-> "NotSupported"]}
    BY <1>2 DEF StartBuffer
  <2>2. x.rec = "none" => n \in Tsbs /\ b[n] = "free"
    BY <1>2, GetTsb
  <2>3. CASE x.rec = "none"
    <3> HIDE DEF n
    <3>1. StreamerOK(with) /\ StreamerOK(on) /\ with.kind = x.kind /\ on.kind = x.kind
          /\ with.mTsbNumber = n /\ on.mTsbNumber = n /\ x.mTsbNumber = NoTsb
      BY <2>2, <2>3 DEF Some, StreamerOK, Streamer
    <3>2. taken = TakenBy("streamer", b, n)
      BY <2>3
    <3> HIDE DEF with, on, taken
    <3> QED
      BY <3>1, <3>2, <2>1, <2>2, <2>3 DEF Moves, BuffersMove, Some
  <2>4. CASE x.rec # "none"
    <3>1. with = x /\ taken = b
      BY <2>4
    <3>2. Same(x, x) /\ Same(x, on)
      BY <3>1, <2>4 DEF Some, Same, StreamerOK, Streamer
    <3> HIDE DEF with, on, taken
    <3> QED
      BY <3>1, <3>2, <2>1, SameMoves DEF Same, Some
  <2> QED
    BY <2>3, <2>4
<1> QED
  BY <1>1, <1>2

\* The buffer is given back, or the session that did not stop keeps it.
LEMMA StopBufferMoves ==
    ASSUME NEW x, Some(x), NEW b, NEW o \in StopBuffer(x, b)
    PROVE  /\ Moves(x, o.x, b, o.tsbs) /\ o.x.kind # "none"
           /\ \/ o.tsbs = b /\ o.x.mTsbNumber = x.mTsbNumber
              \/ o.tsbs = release_tsb(b, x.mTsbNumber) /\ o.x.mTsbNumber = NoTsb
<1> DEFINE state == IF x.rec = "none" THEN x.mTsbState ELSE "NotCreated"
           without == [x EXCEPT !.rec = "none", !.mTsbNumber = NoTsb, !.mTsbState = state]
           free == release_tsb(b, x.mTsbNumber)
<1>1. o \in {[x |-> without, tsbs |-> free], [x |-> x, tsbs |-> b]}
  BY DEF StopBuffer
<1>2. state \in {"NotCreated", "Created", "Started"}
  BY DEF Some, StreamerOK, Streamer
<1> HIDE DEF state
<1>3. StreamerOK(without) /\ without.kind = x.kind /\ without.mTsbNumber = NoTsb
  BY <1>2 DEF Some, StreamerOK, Streamer
<1>4. Same(x, x)
  BY SomeFields
<1> HIDE DEF without, free
<1>5. CASE o = [x |-> x, tsbs |-> b]
  <2>1. o.x = x /\ o.tsbs = b
    BY <1>5
  <2> QED
    BY <2>1, <1>4, SameMoves DEF Some
<1>6. CASE o = [x |-> without, tsbs |-> free]
  <2>1. o.x = without /\ o.tsbs = free
    BY <1>6
  <2> QED
    BY <2>1, <1>3 DEF free, Moves, BuffersMove, Some
<1> QED
  BY <1>1, <1>5, <1>6

\* What is left when a session has been stopped and ejected, whether its record
\* session stopped or not: nothing, and its buffer is free.
LEMMA EjectReleases ==
    ASSUME NEW x, Some(x), NEW b, NEW o \in StopStreamer(x, b)
    PROVE  EjectStreamer(o.x, o.tsbs) = [x |-> NoStreamer, tsbs |-> release_tsb(b, x.mTsbNumber)]
<1>1. \/ o.tsbs = b /\ o.x.mTsbNumber = x.mTsbNumber
      \/ o.tsbs = release_tsb(b, x.mTsbNumber) /\ o.x.mTsbNumber = NoTsb
  <2>1. CASE x.kind = "file"
    <3>1. o = [x |-> stopSource(x), tsbs |-> b]
      BY <2>1 DEF StopStreamer
    <3>2. Same(x, stopSource(x))
      BY SourceMethods
    <3> QED
      BY <3>1, <3>2 DEF Same
  <2>2. CASE x.kind # "file"
    <3>1. o \in StopBuffer(stopped(x), b)
      BY <2>2 DEF StopStreamer
    <3>2. <<>> \in Seq(StreamerEvents)
      OBVIOUS
    <3>3. Same(x, stopped(x))
      <4> DEFINE y == stopSource(x)
      <4>1. Same(x, y) /\ Some(y)
        BY SourceMethods, SameIsSome
      <4> HIDE DEF y
      <4> DEFINE y1 == [y EXCEPT !.mState = "Stop"]
                 y2 == [y1 EXCEPT !.psi = "none"]
                 y3 == [y2 EXCEPT !.timer = FALSE]
                 y4 == [y3 EXCEPT !.live = "none"]
                 y5 == [y4 EXCEPT !.queue = <<>>]
      <4>2. stopped(x) = y5
        BY DEF stopped, y
      <4>3. Same(x, y1) /\ Some(y1)
        BY <4>1, SomeFields, SameIsSome, SameThenSame DEF StreamerStates
      <4> HIDE DEF y1
      <4>4. Same(x, y2) /\ Some(y2)
        BY <4>3, SomeFields, SameIsSome, SameThenSame
      <4> HIDE DEF y2
      <4>5. Same(x, y3) /\ Some(y3)
        BY <4>4, SomeFields, SameIsSome, SameThenSame
      <4> HIDE DEF y3
      <4>6. Same(x, y4) /\ Some(y4)
        BY <4>5, SomeFields, SameIsSome, SameThenSame
      <4> HIDE DEF y4
      <4>7. Same(x, y5)
        BY <4>6, <3>2, SomeFields, SameThenSame
      <4> QED
        BY <4>2, <4>7
    <3>4. Some(stopped(x)) /\ stopped(x).mTsbNumber = x.mTsbNumber
      BY <3>3, SameIsSome DEF Same
    <3> QED
      BY <3>1, <3>4, StopBufferMoves
  <2> QED
    BY <2>1, <2>2
<1>2. release_tsb(o.tsbs, o.x.mTsbNumber) = release_tsb(b, x.mTsbNumber)
  BY <1>1, TsbNumbers DEF release_tsb
<1> QED
  BY <1>2 DEF EjectStreamer

------------------------------------------------------------------------------
(* The event thread of a streamer *)

\* A streamer may go on changing after it did something to the buffers.
LEMMA MovesThenSame ==
    ASSUME NEW x, NEW y, NEW z, NEW b, NEW c, Moves(x, y, b, c), Same(y, z)
    PROVE  Moves(x, z, b, c)
BY DEF Same, Moves, BuffersMove

LEMMA OneGives ==
    ASSUME NEW y, NEW b, NEW said, NEW o \in Gives(y, b, said)
    PROVE  o.x = y /\ o.tsbs = b
BY DEF Gives

\* The events of a streamer, one lemma each: at most it takes or gives back a buffer.
LEMMA PlayEvent ==
    ASSUME NEW x, Some(x), NEW b, NEW o \in onPlay(x, b)
    PROVE  Moves(x, o.x, b, o.tsbs)
<1> DEFINE y1 == [x EXCEPT !.live = "open"]
           open(state) == [y1 EXCEPT !.mState = state]
           y2 == [x EXCEPT !.live = "started"]
           started == [y2 EXCEPT !.mState = "WaitSourceReady"]
<1>1. o.tsbs = b /\ o.x \in {x, open("WaitTuningParams"), open("WaitForTuner"), started}
  <2>1. CASE x.live = "none"
    BY <2>1 DEF onPlay, Gives
  <2>2. CASE x.live # "none"
    BY <2>2 DEF onPlay, Gives
  <2> QED
    BY <2>1, <2>2
<1>2. Same(x, x) /\ Same(x, y1) /\ Same(x, y2) /\ Some(y1) /\ Some(y2)
  BY SomeFields, SameIsSome
<1> HIDE DEF y1, y2
<1>3. Same(x, open("WaitTuningParams")) /\ Same(x, open("WaitForTuner")) /\ Same(x, started)
  BY <1>2, SomeFields, SameThenSame DEF StreamerStates
<1> HIDE DEF open, started
<1> QED
  BY <1>1, <1>2, <1>3, SameMoves

LEMMA RFCallbackEvent ==
    ASSUME NEW x, Some(x), NEW b, NEW o \in onRFCallback(x, b)
    PROVE  Moves(x, o.x, b, o.tsbs)
<1> DEFINE y == IF x.mReqState = "Unlocked" THEN [x EXCEPT !.mReqState = "Locked"] ELSE x
           y1 == [y EXCEPT !.mState = "SourceReady"]
           y2 == [y1 EXCEPT !.psi = "started"]
           y3 == [y2 EXCEPT !.timer = TRUE]
<1>1. o.tsbs = b /\ o.x \in {y, y3}
  BY DEF onRFCallback, Gives
<1>2. Same(x, y) /\ Some(y)
  BY SomeFields, SameIsSome DEF HnSessionStates
<1> HIDE DEF y
<1>3. Same(x, y1) /\ Some(y1)
  BY <1>2, SomeFields, SameIsSome, SameThenSame DEF StreamerStates
<1> HIDE DEF y1
<1>4. Same(x, y2) /\ Some(y2)
  BY <1>3, SomeFields, SameIsSome, SameThenSame
<1> HIDE DEF y2
<1>5. Same(x, y3)
  BY <1>4, SomeFields, SameThenSame
<1> HIDE DEF y3
<1> QED
  BY <1>1, <1>2, <1>5, SameMoves

LEMMA TunerStreamingKeeps ==
    ASSUME NEW x, Some(x), NEW b, NEW o \in StartTunerStreaming(x, b)
    PROVE  Same(x, o.x) /\ o.tsbs = b
<1> DEFINE streaming(y) == [y EXCEPT !.mReqState = "Started", !.mState = "Streaming"]
           setStreamInfo(y) ==
               {y} \cup (IF getCpeProgHandle(y)
                           THEN {IF p.status = "Ok" THEN streaming(p.x) ELSE stopSource(p.x) :
                                    p \in startSource(y)}
                           ELSE {streaming(y)})
<1>b. PICK y \in UNION {setStreamInfo(p.x) : p \in openSource(x)} : o \in Gives(y, b, "none")
  BY DEF StartTunerStreaming
<1>a. o.x = y /\ o.tsbs = b
  BY <1>b, OneGives
<1>1. PICK p \in openSource(x) : y \in setStreamInfo(p.x)
  BY <1>b
<1>2. ASSUME NEW z, Some(z) PROVE Same(z, streaming(z))
  <2> DEFINE z1 == [z EXCEPT !.mReqState = "Started"]
             z2 == [z1 EXCEPT !.mState = "Streaming"]
  <2>1. streaming(z) = z2
    OBVIOUS
  <2>2. Same(z, z1) /\ Some(z1)
    BY <1>2, SomeFields, SameIsSome DEF HnSessionStates
  <2> HIDE DEF z1
  <2>3. Same(z, z2)
    BY <2>2, SomeFields, SameThenSame DEF StreamerStates
  <2> QED
    BY <2>1, <2>3
<1> HIDE DEF streaming
<1>3. Same(x, p.x) /\ Some(p.x)
  BY SourceMethods, SameIsSome
<1>4. \A q \in startSource(p.x) : Same(p.x, q.x) /\ Some(q.x)
  BY <1>3, SourceMethods, SameIsSome
<1>5. \A q \in startSource(p.x) : Same(x, streaming(q.x)) /\ Same(x, stopSource(q.x))
  BY <1>2, <1>3, <1>4, SourceMethods, SameThenSame
<1>6. Same(x, streaming(p.x))
  BY <1>2, <1>3, SameThenSame
<1>7. Same(x, y)
  <2>1. \/ y = p.x \/ y = streaming(p.x)
        \/ \E q \in startSource(p.x) : y = streaming(q.x) \/ y = stopSource(q.x)
    BY <1>1
  <2> QED
    BY <2>1, <1>3, <1>5, <1>6
<1> QED
  BY <1>a, <1>7

LEMMA PSIReadyEvent ==
    ASSUME NEW x, Some(x), NEW b, NEW o \in onPSIReady(x, b)
    PROVE  Moves(x, o.x, b, o.tsbs)
<1> DEFINE y == [x EXCEPT !.timer = FALSE]
<1>1. Same(x, y) /\ Some(y)
  BY SomeFields, SameIsSome
<1> HIDE DEF y
<1>2. CASE IsInMemoryStreaming(y)
  <2>1. o \in StartTunerStreaming(y, b)
    BY <1>2 DEF onPSIReady, y
  <2> QED
    BY <2>1, <1>1, TunerStreamingKeeps, SameThenSame, SameMoves
<1>3. CASE ~IsInMemoryStreaming(y) /\ y.mState # "SourceReady"
  <2>1. o \in Gives(y, b, "none")
    BY <1>3 DEF onPSIReady, y
  <2> QED
    BY <2>1, <1>1, OneGives, SameMoves
<1>4. CASE ~IsInMemoryStreaming(y) /\ y.mState = "SourceReady"
  <2>1. PICK p \in StartBuffer(y, b) :
          o \in CASE p.status = "Ok" -> Gives([p.x EXCEPT !.mTsbState = "Created"], p.tsbs, "none")
                  [] p.status = "NotSupported" -> Gives(p.x, p.tsbs, "none")
                  [] OTHER -> Gives(p.x, p.tsbs, "signal")
    BY <1>4 DEF onPSIReady, y
  <2> DEFINE created == [p.x EXCEPT !.mTsbState = "Created"]
  <2>2. Moves(x, p.x, b, p.tsbs) /\ Some(p.x)
    BY <1>1, StartBufferMoves, SameThenMoves DEF Some, Moves
  <2>3. Same(p.x, created)
    BY <2>2, SomeFields
  <2>4. o.tsbs = p.tsbs /\ o.x \in {p.x, created}
    BY <2>1, OneGives
  <2> HIDE DEF created
  <2> QED
    BY <2>2, <2>3, <2>4, MovesThenSame
<1> QED
  BY <1>2, <1>3, <1>4

LEMMA TSBStartEvent ==
    ASSUME NEW x, Some(x), NEW b, NEW o \in onTSBStart(x, b)
    PROVE  Moves(x, o.x, b, o.tsbs)
<1> DEFINE created == [x EXCEPT !.mTsbState = "Created"]
           y == [x EXCEPT !.mTsbState = "Started"]
           plays(p) == [p.x EXCEPT !.mReqState = "Started", !.mState = "Streaming"]
           late(p) == [p.x EXCEPT !.mReqState = "TimedOut", !.mTsbState = "Created"]
<1>1. /\ o.tsbs = b
      /\ \/ o.x \in {x, created}
         \/ \E p \in PlayRecording(y) : o.x \in {p.x, plays(p), late(p)}
  <2>1. CASE x.mReqState \in {"Auth", "Locked", "PsiTimeOut"} /\ x.mTsbState # "Started"
    <3>1. o \in Gives(created, b, "retry")
      BY <2>1 DEF onTSBStart
    <3>2. o.x = created /\ o.tsbs = b
      BY <3>1, OneGives
    <3> HIDE DEF created
    <3> QED
      BY <3>2
  <2>2. CASE /\ ~(x.mReqState \in {"Auth", "Locked", "PsiTimeOut"} /\ x.mTsbState # "Started")
             /\ x.mTsbState # "Created" \/ x.mState # "SourceReady"
    <3>1. o \in Gives(x, b, "none")
      BY <2>2 DEF onTSBStart
    <3>2. o.x = x /\ o.tsbs = b
      BY <3>1, OneGives
    <3> HIDE DEF created
    <3> QED
      BY <3>2
  <2>3. CASE /\ ~(x.mReqState \in {"Auth", "Locked", "PsiTimeOut"} /\ x.mTsbState # "Started")
             /\ ~(x.mTsbState # "Created" \/ x.mState # "SourceReady")
    <3>1. PICK p \in PlayRecording(y) :
            o \in CASE p.status = "Ok" -> Gives(plays(p), b, "none")
                    [] p.status = "TimeOut" -> Gives(late(p), b, "retry")
                    [] OTHER -> Gives(p.x, b, "signal")
      BY <2>3 DEF onTSBStart
    <3> HIDE DEF plays, late, y
    <3>2. o.tsbs = b /\ o.x \in {p.x, plays(p), late(p)}
      BY <3>1, OneGives
    <3> QED
      BY <3>2
  <2> QED
    BY <2>1, <2>2, <2>3
<1>2. Same(x, x) /\ Same(x, created) /\ Same(x, y) /\ Some(y)
  BY SomeFields, SameIsSome
<1> HIDE DEF created, y
<1>3. ASSUME NEW p \in PlayRecording(y)
      PROVE  Same(x, p.x) /\ Same(x, plays(p)) /\ Same(x, late(p))
  <2> DEFINE z1 == [p.x EXCEPT !.mReqState = "Started"]
             z2 == [z1 EXCEPT !.mState = "Streaming"]
             z3 == [p.x EXCEPT !.mReqState = "TimedOut"]
             z4 == [z3 EXCEPT !.mTsbState = "Created"]
  <2>1. plays(p) = z2 /\ late(p) = z4
    OBVIOUS
  <2>2. Same(x, p.x) /\ Some(p.x)
    BY <1>2, PlayRecordingKeeps, SameThenSame, SameIsSome
  <2>3. Same(x, z1) /\ Some(z1) /\ Same(x, z3) /\ Some(z3)
    BY <2>2, SomeFields, SameThenSame, SameIsSome DEF HnSessionStates
  <2> HIDE DEF z1, z3
  <2>4. Same(x, z2) /\ Same(x, z4)
    BY <2>3, SomeFields, SameThenSame DEF StreamerStates
  <2> HIDE DEF z2, z4
  <2> QED
    BY <2>1, <2>2, <2>4
<1> HIDE DEF plays, late
<1> QED
  BY <1>1, <1>2, <1>3, SameMoves

LEMMA TunerLostEvent ==
    ASSUME NEW x, Some(x), NEW b, NEW o \in onTunerLost(x, b)
    PROVE  Moves(x, o.x, b, o.tsbs)
<1>1. PICK p \in tearDownClientSession(x, b) : o.x = p.x /\ o.tsbs = p.tsbs
  BY DEF onTunerLost, Gives
<1>2. CASE x.source # "none"
  <2>1. p = [x |-> x, tsbs |-> b]
    BY <1>2 DEF tearDownClientSession
  <2> QED
    BY <2>1, <1>1, SomeFields, SameMoves
<1>3. CASE x.source = "none"
  <2> DEFINE unlocked(z) == [z EXCEPT !.psi = "none", !.mState = "Stop", !.timer = FALSE,
                                      !.live = IF @ = "none" THEN @ ELSE "loaded"]
  <2>1. PICK q \in StopBuffer(x, b) : p = [x |-> unlocked(q.x), tsbs |-> q.tsbs]
    BY <1>3 DEF tearDownClientSession
  <2>2. Moves(x, q.x, b, q.tsbs) /\ Some(q.x)
    BY StopBufferMoves DEF Some, Moves
  <2> DEFINE y == q.x
             y1 == [y EXCEPT !.psi = "none"]
             y2 == [y1 EXCEPT !.mState = "Stop"]
             y3 == [y2 EXCEPT !.timer = FALSE]
             live == IF y3.live = "none" THEN y3.live ELSE "loaded"
             y4 == [y3 EXCEPT !.live = live]
  <2>3. p.x = y4 /\ p.tsbs = q.tsbs
    <3>1. unlocked(q.x) = y4
      OBVIOUS
    <3> HIDE DEF unlocked, y4
    <3> QED
      BY <2>1, <3>1
  <2> HIDE DEF y
  <2>4. Some(y)
    BY <2>2 DEF y
  <2>5. Same(y, y1) /\ Some(y1)
    BY <2>4, SomeFields, SameIsSome
  <2> HIDE DEF y1
  <2>6. Same(y, y2) /\ Some(y2)
    BY <2>5, SomeFields, SameIsSome, SameThenSame DEF StreamerStates
  <2> HIDE DEF y2
  <2>7. Same(y, y3) /\ Some(y3)
    BY <2>6, SomeFields, SameIsSome, SameThenSame
  <2> HIDE DEF y3
  <2>8. live \in {"none", "loaded"}
    OBVIOUS
  <2> HIDE DEF live
  <2>9. Same(y, y4)
    BY <2>7, <2>8, SomeFields, SameThenSame
  <2> HIDE DEF y4
  <2> QED
    BY <1>1, <2>2, <2>3, <2>9, MovesThenSame DEF y
<1> QED
  BY <1>2, <1>3

\* Whatever its event thread handles, a streamer does to the buffers what is its
\* to do.
LEMMA EventMoves ==
    ASSUME NEW x, Some(x), NEW b, NEW e \in StreamerEvents, NEW o \in streamerEvent(x, e, b)
    PROVE  Moves(x, o.x, b, o.tsbs)
<1>1. \A y, said : Same(x, y) /\ o \in Gives(y, b, said) => Moves(x, o.x, b, o.tsbs)
  BY OneGives, SameMoves
<1>2. Same(x, x)
  BY SomeFields
<1>3. CASE e = "Play"
  BY <1>3, PlayEvent DEF streamerEvent
<1>4. CASE e = "RFCallback"
  BY <1>4, RFCallbackEvent DEF streamerEvent
<1>5. CASE e = "PSIReady"
  BY <1>5, PSIReadyEvent DEF streamerEvent
<1>6. CASE e = "TSBStart"
  BY <1>6, TSBStartEvent DEF streamerEvent
<1>7. CASE e = "TimeOut"
  <2> DEFINE y == [x EXCEPT !.mReqState = "PsiTimeOut"]
  <2>1. o \in onTimeOut(x, b)
    BY <1>7 DEF streamerEvent
  <2>2. o \in Gives(y, b, "failure") \/ o \in Gives(x, b, "none")
    BY <2>1 DEF onTimeOut
  <2>3. Same(x, y)
    BY SomeFields DEF HnSessionStates
  <2> HIDE DEF y
  <2> QED
    BY <2>2, <2>3, <1>1, <1>2
<1>8. CASE e = "PSIUpdate"
  <2>1. o \in onPSIUpdate(x, b)
    BY <1>8 DEF streamerEvent
  <2>2. \/ \E p \in StopStreaming(x) : o \in Gives(p.x, b, "retryLater")
        \/ o \in Gives(x, b, "none")
    BY <2>1 DEF onPSIUpdate
  <2> QED
    BY <2>2, <1>1, <1>2, StopStreamingKeeps
<1>9. CASE e = "TuningUpdate"
  <2>1. \E said : o \in Gives(x, b, said)
    BY <1>9 DEF streamerEvent, onTuningUpdate
  <2> QED
    BY <2>1, <1>1, <1>2
<1>10. CASE e = "TunerLost"
  BY <1>10, TunerLostEvent DEF streamerEvent
<1>11. CASE e = "TunerRestored"
  <2>1. o \in Gives(queueTo(x, "Play"), b, "signal")
    BY <1>11 DEF streamerEvent, onTunerRestored
  <2> QED
    BY <2>1, <1>1, QueueTo DEF StreamerEvents
<1>12. CASE e \in {"Auth", "DeAuth", "TunerUnlocked"}
  <2>1. \E state \in {"Auth", "DeAuth", "Unlocked"} : \E said :
           o \in Gives([x EXCEPT !.mReqState = state], b, said)
    <3>1. CASE e = "Auth"
      BY <3>1 DEF streamerEvent, onServiceAuthorized
    <3>2. CASE e = "DeAuth"
      BY <3>2 DEF streamerEvent, onServiceLost
    <3>3. CASE e = "TunerUnlocked"
      BY <3>3 DEF streamerEvent, onServiceLost
    <3> QED
      BY <1>12, <3>1, <3>2, <3>3
  <2> QED
    BY <2>1, <1>1, SomeFields DEF HnSessionStates
<1> QED
  BY <1>3, <1>4, <1>5, <1>6, <1>7, <1>8, <1>9, <1>10, <1>11, <1>12 DEF StreamerEvents

------------------------------------------------------------------------------
(* The sessions and the buffers *)

\* No session has the number of none.
LEMMA SessionNumbers == None \notin Sessions /\ Sessions \subseteq Nat
BY ServerAssumption DEF None, Sessions

\* A step of one streamer that does what is its to do with the buffers.
LEMMA StreamerStep ==
    ASSUME StreamersOK, BuffersOK, NEW s \in Sessions, NEW y, StreamerOK(y),
           st' = [st EXCEPT ![s] = y], BuffersMove(st[s], y, tsbs, tsbs')
    PROVE  StreamersOK' /\ BuffersOK'
<1>1. StreamersOK'
  <2>1. y \in Streamer
    BY DEF StreamerOK
  <2> QED
    BY <2>1 DEF StreamersOK
<1> DEFINE num(t) == st[t].mTsbNumber
           m == y.mTsbNumber
<1>2. \A t \in Sessions : st'[t].mTsbNumber = IF t = s THEN m ELSE num(t)
  BY DEF StreamersOK
<1>3. m \in Tsbs \cup {NoTsb} /\ \A t \in Sessions : num(t) \in Tsbs \cup {NoTsb}
  BY DEF StreamersOK, StreamerOK, Streamer
<1>4. /\ tsbs \in [Tsbs -> Users]
      /\ \A n \in Tsbs : tsbs[n] # "free" => \E t \in Sessions : num(t) = n
      /\ \A t \in Sessions : num(t) # NoTsb => tsbs[num(t)] # "free"
      /\ \A t, u \in Sessions : num(t) = num(u) /\ num(t) # NoTsb => t = u
  BY DEF BuffersOK
<1>5. \/ tsbs' = tsbs /\ m = num(s)
      \/ /\ num(s) = NoTsb /\ m \in Tsbs
         /\ tsbs[m] = "free" /\ tsbs' = [tsbs EXCEPT ![m] = "streamer"]
      \/ m = NoTsb /\ tsbs' = release_tsb(tsbs, num(s))
  BY DEF BuffersMove, TakenBy
<1> DEFINE new(t) == IF t = s THEN m ELSE num(t)
<1>6. /\ tsbs' \in [Tsbs -> Users]
      /\ \A n \in Tsbs : tsbs'[n] # "free" => \E t \in Sessions : new(t) = n
      /\ \A t \in Sessions : new(t) # NoTsb => tsbs'[new(t)] # "free"
      /\ \A t, u \in Sessions : new(t) = new(u) /\ new(t) # NoTsb => t = u
  <2> HIDE DEF num, m
  <2>1. CASE tsbs' = tsbs /\ m = num(s)
    BY <2>1, <1>4
  <2>2. CASE /\ num(s) = NoTsb /\ m \in Tsbs
             /\ tsbs[m] = "free" /\ tsbs' = [tsbs EXCEPT ![m] = "streamer"]
    <3>1. tsbs' \in [Tsbs -> Users]
      BY <2>2, <1>4 DEF Users
    <3>2. \A t \in Sessions : num(t) # m
      BY <2>2, <1>4, TsbNumbers
    <3>3. \A n \in Tsbs : tsbs'[n] = IF n = m THEN "streamer" ELSE tsbs[n]
      BY <2>2, <1>4
    <3>4. ASSUME NEW n \in Tsbs, tsbs'[n] # "free"
          PROVE  \E t \in Sessions : new(t) = n
      <4>1. CASE n = m
        BY <4>1
      <4>2. CASE n # m
        <5>1. PICK t \in Sessions : num(t) = n
          BY <4>2, <3>3, <3>4, <1>4
        <5>2. t # s
          BY <5>1, <2>2, TsbNumbers
        <5> QED
          BY <5>1, <5>2
      <4> QED
        BY <4>1, <4>2
    <3>5. \A t \in Sessions : new(t) # NoTsb => tsbs'[new(t)] # "free"
      BY <3>2, <3>3, <1>3, <1>4, <2>2
    <3>6. \A t, u \in Sessions : new(t) = new(u) /\ new(t) # NoTsb => t = u
      BY <3>2, <1>4
    <3> QED
      BY <3>1, <3>4, <3>5, <3>6
  <2>3. CASE m = NoTsb /\ tsbs' = release_tsb(tsbs, num(s))
    <3>1. CASE num(s) = NoTsb
      <4>1. tsbs' = tsbs /\ m = num(s)
        BY <2>3, <3>1, TsbNumbers DEF release_tsb
      <4> QED
        BY <4>1, <2>1
    <3>2. CASE num(s) # NoTsb
      <4>1. num(s) \in Tsbs /\ tsbs' = [tsbs EXCEPT ![num(s)] = "free"]
        BY <2>3, <3>2, <1>3 DEF release_tsb
      <4>2. tsbs' \in [Tsbs -> Users]
        BY <4>1, <1>4 DEF Users
      <4>3. \A n \in Tsbs : tsbs'[n] = IF n = num(s) THEN "free" ELSE tsbs[n]
        BY <4>1, <1>4
      <4>4. \A t \in Sessions \ {s} : num(t) # num(s)
        BY <3>2, <1>4
      <4>5. \A n \in Tsbs : tsbs'[n] # "free" => \E t \in Sessions : new(t) = n
        BY <4>3, <1>4
      <4>6. \A t \in Sessions : new(t) # NoTsb => tsbs'[new(t)] # "free"
        BY <4>3, <4>4, <1>3, <1>4, <2>3
      <4>7. \A t, u \in Sessions : new(t) = new(u) /\ new(t) # NoTsb => t = u
        BY <1>4, <2>3
      <4> QED
        BY <4>2, <4>5, <4>6, <4>7
    <3> QED
      BY <3>1, <3>2
  <2> QED
    BY <1>5, <2>1, <2>2, <2>3
<1>7. BuffersOK'
  <2> HIDE DEF num, m
  <2> QED
    BY <1>2, <1>6 DEF BuffersOK
<1> QED
  BY <1>1, <1>7

\* A session is registered as long as its streamer is of a kind.
LEMMA RegisteredAfter ==
    ASSUME StreamersOK, NEW s \in Sessions, NEW y, st' = [st EXCEPT ![s] = y]
    PROVE  Registered' = IF y.kind = "none" THEN Registered \ {s} ELSE Registered \cup {s}
BY DEF StreamersOK, Registered

\* A registered session's streamer does something, and the session stays.
LEMMA RegisteredStep ==
    ASSUME StreamersOK, BuffersOK, NEW s \in Registered, NEW y, Moves(st[s], y, tsbs, tsbs'),
           st' = [st EXCEPT ![s] = y]
    PROVE  StreamersOK' /\ BuffersOK' /\ Registered' = Registered
<1>1. s \in Sessions /\ st[s].kind # "none"
  BY DEF Registered
<1>2. StreamerOK(y) /\ y.kind = st[s].kind /\ BuffersMove(st[s], y, tsbs, tsbs')
  BY DEF Moves
<1>3. StreamersOK' /\ BuffersOK'
  BY <1>1, <1>2, StreamerStep
<1> QED
  BY <1>1, <1>2, <1>3, RegisteredAfter

LEMMA RegisteredIsSome ==
    ASSUME StreamersOK, NEW s \in Registered
    PROVE  s \in Sessions /\ Some(st[s])
BY DEF StreamersOK, Registered, Some

LEMMA StreamersFrame ==
    ASSUME StreamersOK, BuffersOK, UNCHANGED <<st, tsbs>>
    PROVE  StreamersOK' /\ BuffersOK' /\ Registered' = Registered
BY DEF StreamersOK, BuffersOK, Registered

\* A new session has its streamer, and no buffer.
LEMMA NewStreamers ==
    ASSUME NEW kind \in Kinds
    PROVE  /\ Some(NewStreamer(kind)) /\ NewStreamer(kind).mTsbNumber = NoTsb
           /\ Same(NewStreamer(kind), LoadStreamer(NewStreamer(kind)))
<1> DEFINE x == NewStreamer(kind)
<1>1. <<>> \in Seq(StreamerEvents)
  OBVIOUS
<1>2. Some(x) /\ x.mTsbNumber = NoTsb
  BY <1>1 DEF NewStreamer, Some, StreamerOK, Streamer, Kinds, StreamerStates, HnSessionStates
<1> HIDE DEF x
<1> DEFINE f1 == [x EXCEPT !.source = "closed"]
           f2 == [f1 EXCEPT !.psi = "none"]
           l1 == [x EXCEPT !.live = "loaded"]
           l2 == [l1 EXCEPT !.mState = "Stop"]
<1>3. LoadStreamer(x) \in {f2, l2}
  BY DEF LoadStreamer
<1>4. Same(x, f1) /\ Some(f1) /\ Same(x, l1) /\ Some(l1)
  BY <1>2, SomeFields, SameIsSome
<1> HIDE DEF f1, l1
<1>5. Same(x, f2) /\ Same(x, l2)
  BY <1>4, SomeFields, SameThenSame DEF StreamerStates
<1> HIDE DEF f2, l2
<1> QED
  BY <1>2, <1>3, <1>5 DEF x

\* A session that is made takes nobody's buffer.
LEMMA RegisteredNew ==
    ASSUME StreamersOK, BuffersOK, NEW s \in Sessions \ Registered, NEW kind \in Kinds,
           NEW y \in {NewStreamer(kind), LoadStreamer(NewStreamer(kind))},
           st' = [st EXCEPT ![s] = y], tsbs' = tsbs
    PROVE  StreamersOK' /\ BuffersOK' /\ Registered' = Registered \cup {s}
<1>1. StreamerOK(y) /\ y.kind # "none" /\ y.mTsbNumber = NoTsb
  BY NewStreamers DEF Some, Same
<1>2. st[s].mTsbNumber = NoTsb
  <2>1. st[s] = NoStreamer
    BY DEF Registered, StreamersOK, StreamerOK
  <2> QED
    BY <2>1 DEF NoStreamer, NewStreamer
<1>3. BuffersMove(st[s], y, tsbs, tsbs')
  BY <1>1, <1>2 DEF BuffersMove
<1> QED
  BY <1>1, <1>3, StreamerStep, RegisteredAfter

------------------------------------------------------------------------------
(* The cache *)

\* Taking one element off a list without duplicates.
LEMMA RemoveAtOnce ==
    ASSUME NEW S, NEW q \in Seq(S), NEW k \in 1..Len(q),
           \A i, j \in 1..Len(q) : q[i] = q[j] => i = j
    PROVE  LET r == RemoveAt(q, k)
           IN  /\ r \in Seq(S)
               /\ \A i, j \in 1..Len(r) : r[i] = r[j] => i = j
               /\ Range(r) = Range(q) \ {q[k]}
<1> DEFINE front == SubSeq(q, 1, k - 1)
           back == SubSeq(q, k + 1, Len(q))
           r == front \o back
<1>1. /\ Len(q) \in Nat /\ k \in Nat /\ k >= 1 /\ k <= Len(q)
      /\ \A i \in 1..Len(q) : q[i] \in S
  BY LenProperties, ElementOfSeq
<1>2. /\ front \in Seq(S) /\ Len(front) = k - 1
      /\ \A i \in 1..k - 1 : front[i] = q[i]
  BY <1>1, SubSeqProperties
<1>3. /\ back \in Seq(S) /\ Len(back) = Len(q) - k
      /\ \A i \in 1..Len(q) - k : back[i] = q[k + i]
  BY <1>1, SubSeqProperties
<1>4. /\ r \in Seq(S) /\ Len(r) = Len(q) - 1
      /\ \A i \in 1..Len(q) - 1 : r[i] = IF i < k THEN q[i] ELSE q[i + 1]
  <2> HIDE DEF front, back
  <2>1. /\ r \in Seq(S) /\ Len(r) = Len(front) + Len(back)
        /\ \A i \in 1..Len(front) + Len(back) :
              r[i] = IF i <= Len(front) THEN front[i] ELSE back[i - Len(front)]
    <3>1. front \in Seq(S) /\ back \in Seq(S)
      BY <1>2, <1>3
    <3> HIDE DEF r
    <3>2. /\ front \o back \in Seq(S) /\ Len(front \o back) = Len(front) + Len(back)
          /\ \A i \in 1..Len(front) + Len(back) :
                (front \o back)[i] = IF i <= Len(front) THEN front[i] ELSE back[i - Len(front)]
      BY <3>1, ConcatProperties
    <3> QED
      BY <3>2 DEF r
  <2> HIDE DEF r
  <2>2. ASSUME NEW i \in 1..Len(q) - 1
        PROVE  r[i] = IF i < k THEN q[i] ELSE q[i + 1]
    <3>1. CASE i < k
      <4>1. i \in 1..k - 1 /\ i <= Len(front) /\ i \in 1..Len(front) + Len(back)
        BY <3>1, <1>1, <1>2, <1>3
      <4> QED BY <4>1, <3>1, <2>1, <1>2
    <3>2. CASE i >= k
      <4>1. /\ i - Len(front) = i - k + 1 /\ i - k + 1 \in 1..Len(q) - k
            /\ ~(i <= Len(front)) /\ i \in 1..Len(front) + Len(back)
            /\ k + (i - k + 1) = i + 1
        BY <3>2, <1>1, <1>2, <1>3
      <4>2. r[i] = back[i - k + 1] /\ back[i - k + 1] = q[k + (i - k + 1)]
        BY <4>1, <2>1, <1>3
      <4> QED BY <4>1, <4>2, <3>2, <1>1
    <3> QED BY <3>1, <3>2, <1>1
  <2> QED BY <2>1, <2>2, <1>1, <1>2, <1>3
<1>5. \A i, j \in 1..Len(r) : r[i] = r[j] => i = j
  <2> HIDE DEF r
  <2>1. TAKE i, j \in 1..Len(r)
  <2>2. HAVE r[i] = r[j]
  <2>3. Len(r) = Len(q) - 1 /\ i \in Nat /\ j \in Nat
    BY <1>1, <1>4
  <2>4. \A n \in 1..Len(r) : /\ r[n] = q[IF n < k THEN n ELSE n + 1]
                            /\ (IF n < k THEN n ELSE n + 1) \in 1..Len(q)
    BY <1>1, <1>4
  <2>5. (IF i < k THEN i ELSE i + 1) = (IF j < k THEN j ELSE j + 1)
    BY <2>2, <2>4
  <2> QED BY <2>3, <2>5, <1>1
<1>6. Range(r) = Range(q) \ {q[k]}
  <2> HIDE DEF r
  <2>1. Range(r) = {r[i] : i \in 1..Len(r)} /\ Range(q) = {q[i] : i \in 1..Len(q)}
    BY <1>4, RangeEquality
  <2>2. ASSUME NEW i \in 1..Len(r)
        PROVE  r[i] \in Range(q) \ {q[k]}
    BY <2>1, <1>1, <1>4
  <2>3. ASSUME NEW i \in 1..Len(q), q[i] # q[k]
        PROVE  q[i] \in Range(r)
    <3>1. CASE i < k
      BY <3>1, <2>1, <1>1, <1>4
    <3>2. CASE i > k
      <4>1. i - 1 \in 1..Len(r) /\ r[i - 1] = q[i]
        BY <3>2, <1>1, <1>4
      <4> QED BY <4>1, <2>1
    <3> QED BY <3>1, <3>2, <2>3, <1>1
  <2> QED BY <2>1, <2>2, <2>3
<1> QED
  BY <1>4, <1>5, <1>6 DEF RemoveAt

\* Sessions have one place each.
Once(c) == \A i, j \in 1..Len(c) : c[i].session = c[j].session => i = j

\* The three ways to mark a session's entry.
MarkedLate(s) == Marked(s, LAMBDA e : [e EXCEPT !.isOutofSeq = TRUE])
MarkedCancelled(s) == Marked(s, LAMBDA e : [e EXCEPT !.isCancelled = TRUE])
MarkedRetry(s) == Marked(s, LAMBDA e : [e EXCEPT !.mRetry = TRUE])
Marks(s) == {MarkedLate(s), MarkedCancelled(s), MarkedRetry(s)}

\* What is marked keeps its session and its client.
LEMMA MarkedCache ==
    ASSUME cache \in Seq(CacheEntry), NEW s, NEW m \in Marks(s)
    PROVE  /\ m \in Seq(CacheEntry) /\ Len(m) = Len(cache)
           /\ \A i \in 1..Len(cache) :
                 m[i].session = cache[i].session /\ m[i].client = cache[i].client
<1> DEFINE late(e) == [e EXCEPT !.isOutofSeq = TRUE]
           cancelled(e) == [e EXCEPT !.isCancelled = TRUE]
           again(e) == [e EXCEPT !.mRetry = TRUE]
<1>1. Len(cache) \in Nat /\ DOMAIN cache = 1..Len(cache)
      /\ \A i \in 1..Len(cache) : cache[i] \in CacheEntry
  BY LenProperties, ElementOfSeq
<1>2. \A e \in CacheEntry :
         /\ late(e) \in CacheEntry /\ late(e).session = e.session /\ late(e).client = e.client
         /\ cancelled(e) \in CacheEntry /\ cancelled(e).session = e.session
         /\ cancelled(e).client = e.client
         /\ again(e) \in CacheEntry /\ again(e).session = e.session /\ again(e).client = e.client
  <2> TAKE e \in CacheEntry
  <2>1. late(e) \in CacheEntry /\ late(e).session = e.session /\ late(e).client = e.client
    BY DEF CacheEntry
  <2>2. /\ cancelled(e) \in CacheEntry /\ cancelled(e).session = e.session
        /\ cancelled(e).client = e.client
    BY DEF CacheEntry
  <2>3. again(e) \in CacheEntry /\ again(e).session = e.session /\ again(e).client = e.client
    BY DEF CacheEntry
  <2> QED
    BY <2>1, <2>2, <2>3
<1>3. \/ m = [i \in 1..Len(cache) |-> IF cache[i].session = s THEN late(cache[i]) ELSE cache[i]]
      \/ m = [i \in 1..Len(cache) |-> IF cache[i].session = s THEN cancelled(cache[i]) ELSE cache[i]]
      \/ m = [i \in 1..Len(cache) |-> IF cache[i].session = s THEN again(cache[i]) ELSE cache[i]]
  BY <1>1 DEF Marks, MarkedLate, MarkedCancelled, MarkedRetry, Marked
<1> HIDE DEF late, cancelled, again
<1>4. /\ m = [i \in 1..Len(cache) |-> m[i]]
      /\ \A i \in 1..Len(cache) :
            /\ m[i] \in CacheEntry
            /\ m[i].session = cache[i].session /\ m[i].client = cache[i].client
  <2>1. CASE m = [i \in 1..Len(cache) |-> IF cache[i].session = s THEN late(cache[i]) ELSE cache[i]]
    BY <2>1, <1>1, <1>2
  <2>2. CASE m = [i \in 1..Len(cache) |->
                    IF cache[i].session = s THEN cancelled(cache[i]) ELSE cache[i]]
    BY <2>2, <1>1, <1>2
  <2>3. CASE m = [i \in 1..Len(cache) |-> IF cache[i].session = s THEN again(cache[i]) ELSE cache[i]]
    BY <2>3, <1>1, <1>2
  <2> QED
    BY <1>3, <2>1, <2>2, <2>3
<1>5. m \in [1..Len(cache) -> CacheEntry]
  BY <1>4
<1>6. m \in Seq(CacheEntry) /\ Len(m) = Len(cache)
  BY <1>1, <1>5
<1> QED
  BY <1>4, <1>6

\* So the cache knows whom it knew.
LEMMA CacheMarks ==
    ASSUME CacheOK, cache \in Seq(CacheEntry), NEW s,
           cache' \in Marks(s) \cup {cache}, Registered' = Registered
    PROVE  /\ cache' \in Seq(CacheEntry) /\ CacheOK'
           /\ \A t : Cached(t) => Cached(t)'
           /\ \A t, c : Known(t, c) => Known(t, c)'
<1>1. /\ cache' \in Seq(CacheEntry) /\ Len(cache') = Len(cache)
      /\ \A i \in 1..Len(cache) :
            cache'[i].session = cache[i].session /\ cache'[i].client = cache[i].client
  <2>1. CASE cache' = cache
    BY <2>1
  <2>2. CASE cache' # cache
    BY <2>2, MarkedCache
  <2> QED
    BY <2>1, <2>2
<1> QED
  BY <1>1 DEF CacheOK, Cached, Known

\* What is removed from the cache is what it knew of this session.
LEMMA RemovedCache ==
    ASSUME cache \in Seq(CacheEntry), Once(cache), NEW s
    PROVE  LET r == removeFromCache(s)
           IN  /\ r \in Seq(CacheEntry) /\ Once(r)
               /\ \A i \in 1..Len(r) :
                     r[i].session # s /\ \E j \in 1..Len(cache) : r[i] = cache[j]
               /\ \A j \in 1..Len(cache) :
                     cache[j].session # s => \E i \in 1..Len(r) : r[i] = cache[j]
<1> DEFINE places == {i \in DOMAIN cache : cache[i].session = s}
           r == removeFromCache(s)
<1>1. Len(cache) \in Nat /\ DOMAIN cache = 1..Len(cache)
      /\ \A i \in 1..Len(cache) : cache[i] \in CacheEntry
  BY LenProperties, ElementOfSeq
<1>2. CASE places = {}
  <2>1. r = cache
    BY <1>2 DEF removeFromCache
  <2> HIDE DEF r
  <2>2. r \in Seq(CacheEntry) /\ Once(r)
    BY <2>1
  <2>3. \A i \in 1..Len(cache) : cache[i].session # s
    BY <1>1, <1>2
  <2>4. \A i \in 1..Len(r) : r[i].session # s /\ \E j \in 1..Len(cache) : r[i] = cache[j]
    BY <2>1, <2>3
  <2>5. \A j \in 1..Len(cache) : cache[j].session # s => \E i \in 1..Len(r) : r[i] = cache[j]
    BY <2>1
  <2> QED
    BY <2>2, <2>4, <2>5 DEF r
<1>3. CASE places # {}
  <2>1. PICK k \in places : places = {k}
    BY <1>1, <1>3 DEF Once
  <2>2. k \in 1..Len(cache) /\ cache[k].session = s
    BY <1>1
  <2>3. (CHOOSE i \in places : \A j \in places : i <= j) = k
    <3>1. k <= k
      BY <1>1, <2>2
    <3> HIDE DEF places
    <3>2. \E i \in places : \A j \in places : i <= j
      BY <2>1, <3>1
    <3> QED
      BY <2>1, <3>2
  <2>4. r = RemoveAt(cache, k)
    BY <1>3, <2>3 DEF removeFromCache
  <2>5. \A i, j \in 1..Len(cache) : cache[i] = cache[j] => i = j
    BY DEF Once
  <2>6. /\ r \in Seq(CacheEntry)
        /\ \A i, j \in 1..Len(r) : r[i] = r[j] => i = j
        /\ Range(r) = Range(cache) \ {cache[k]}
    BY <2>2, <2>4, <2>5, RemoveAtOnce
  <2> HIDE DEF r, places
  <2>7. Range(r) = {r[i] : i \in 1..Len(r)} /\ Range(cache) = {cache[i] : i \in 1..Len(cache)}
    BY <2>6, RangeEquality
  <2>8. ASSUME NEW i \in 1..Len(r)
        PROVE  r[i].session # s /\ \E j \in 1..Len(cache) : r[i] = cache[j]
    <3>1. PICK j \in 1..Len(cache) : r[i] = cache[j] /\ cache[j] # cache[k]
      <4>1. r[i] \in Range(r)
        BY <2>7
      <4>2. r[i] \in Range(cache) /\ r[i] # cache[k]
        BY <4>1, <2>6
      <4> QED
        BY <4>2, <2>7
    <3>2. cache[j].session # s
      BY <2>2, <3>1 DEF Once
    <3> QED
      BY <3>1, <3>2
  <2>9. ASSUME NEW j \in 1..Len(cache), cache[j].session # s
        PROVE  \E i \in 1..Len(r) : r[i] = cache[j]
    <3>1. cache[j] \in Range(cache) \ {cache[k]}
      BY <2>2, <2>7, <2>9
    <3>2. cache[j] \in Range(r)
      BY <3>1, <2>6
    <3> QED
      BY <3>2, <2>7
  <2>10. ASSUME NEW i \in 1..Len(r), NEW j \in 1..Len(r), r[i].session = r[j].session
         PROVE  i = j
    <3>1. PICK a \in 1..Len(cache) : r[i] = cache[a]
      BY <2>8
    <3>2. PICK b \in 1..Len(cache) : r[j] = cache[b]
      BY <2>8
    <3>3. a = b
      BY <2>10, <3>1, <3>2 DEF Once
    <3> QED
      BY <2>6, <3>1, <3>2, <3>3
  <2> QED
    BY <2>6, <2>8, <2>9, <2>10 DEF r, Once
<1> QED
  BY <1>2, <1>3

\* What cleaning up leaves of the cache.
LEMMA CacheRemoves ==
    ASSUME CacheOK, cache \in Seq(CacheEntry), NEW s, cache' = removeFromCache(s),
           Registered \ {s} \subseteq Registered'
    PROVE  /\ cache' \in Seq(CacheEntry) /\ CacheOK'
           /\ \A t : t # s /\ Cached(t) => Cached(t)'
           /\ \A t, c : t # s /\ Known(t, c) => Known(t, c)'
<1>1. Once(cache)
  BY DEF CacheOK, Once
<1>2. /\ cache' \in Seq(CacheEntry) /\ Once(cache')
      /\ \A i \in 1..Len(cache') :
            cache'[i].session # s /\ \E j \in 1..Len(cache) : cache'[i] = cache[j]
      /\ \A j \in 1..Len(cache) :
            cache[j].session # s => \E i \in 1..Len(cache') : cache'[i] = cache[j]
  BY <1>1, RemovedCache
<1>3. \A i \in 1..Len(cache') : cache'[i].session \in Registered'
  BY <1>2 DEF CacheOK
<1>4. CacheOK'
  BY <1>2, <1>3 DEF CacheOK, Once
<1>5. ASSUME NEW t, t # s, Cached(t)
      PROVE  Cached(t)'
  <2>1. PICK j \in 1..Len(cache) : cache[j].session = t
    BY <1>5 DEF Cached
  <2>2. PICK i \in 1..Len(cache') : cache'[i] = cache[j]
    BY <1>2, <1>5, <2>1
  <2> QED
    BY <2>1, <2>2 DEF Cached
<1>6. ASSUME NEW t, NEW c, t # s, Known(t, c)
      PROVE  Known(t, c)'
  <2>1. PICK j \in 1..Len(cache) : cache[j].session = t /\ cache[j].client = c
    BY <1>6 DEF Known
  <2>2. PICK i \in 1..Len(cache') : cache'[i] = cache[j]
    BY <1>2, <1>6, <2>1
  <2> QED
    BY <2>1, <2>2 DEF Known
<1> QED
  BY <1>2, <1>4, <1>5, <1>6

\* A new session is known, and the others as before.
LEMMA CacheAdds ==
    ASSUME CacheOK, cache \in Seq(CacheEntry), NEW s \in Sessions \ Registered,
           NEW c \in Clients, NEW url \in Kinds,
           cache' = addToCache(c, url, s), Registered' = Registered \cup {s}
    PROVE  /\ cache' \in Seq(CacheEntry) /\ CacheOK' /\ Cached(s)'
           /\ \A t : Cached(t) => Cached(t)'
<1> DEFINE e == [client |-> c, url |-> url, session |-> s, isOutofSeq |-> FALSE,
                 isCancelled |-> FALSE, mRetry |-> FALSE]
<1>1. cache' = Append(cache, e) /\ e \in CacheEntry /\ e.session = s
  BY DEF addToCache, CacheEntry
<1> HIDE DEF e
<1>2. Len(cache) \in Nat /\ \A i \in 1..Len(cache) : cache[i].session \in Registered
  BY LenProperties DEF CacheOK
<1>3. /\ cache' \in Seq(CacheEntry) /\ Len(cache') = Len(cache) + 1
      /\ \A i \in 1..Len(cache) : cache'[i] = cache[i]
      /\ cache'[Len(cache) + 1] = e
  BY <1>1, AppendProperties
<1>4. \A i \in 1..Len(cache') : i \in 1..Len(cache) \/ i = Len(cache) + 1
  BY <1>2, <1>3
<1>5. Len(cache) + 1 \in 1..Len(cache') /\ 1..Len(cache) \subseteq 1..Len(cache')
  BY <1>2, <1>3
<1>6. \A i \in 1..Len(cache') : cache'[i].session \in Registered'
  BY <1>1, <1>2, <1>3, <1>4
<1>7. ASSUME NEW i \in 1..Len(cache'), NEW j \in 1..Len(cache'),
             cache'[i].session = cache'[j].session
      PROVE  i = j
  <2>1. CASE i \in 1..Len(cache) /\ j \in 1..Len(cache)
    BY <2>1, <1>3, <1>7 DEF CacheOK
  <2>2. CASE i = Len(cache) + 1 /\ j \in 1..Len(cache)
    BY <2>2, <1>1, <1>2, <1>3, <1>7
  <2>3. CASE j = Len(cache) + 1 /\ i \in 1..Len(cache)
    BY <2>3, <1>1, <1>2, <1>3, <1>7
  <2> QED
    BY <1>4, <2>1, <2>2, <2>3
<1>8. CacheOK'
  BY <1>6, <1>7 DEF CacheOK
<1>9. Cached(s)'
  BY <1>1, <1>3, <1>5 DEF Cached
<1>10. ASSUME NEW t, Cached(t) PROVE Cached(t)'
  <2>1. PICK i \in 1..Len(cache) : cache[i].session = t
    BY <1>10 DEF Cached
  <2>2. i \in 1..Len(cache') /\ cache'[i].session = t
    BY <2>1, <1>3, <1>5
  <2> QED
    BY <2>2 DEF Cached
<1> QED
  BY <1>3, <1>8, <1>9, <1>10

\* A session is cleaned up: nothing of it is left.
LEMMA CleanUps ==
    ASSUME StreamersOK, BuffersOK, CacheOK, cache \in Seq(CacheEntry), tearing \subseteq Sessions,
           NEW s \in Registered, cleanupStreamingSession(s)
    PROVE  /\ StreamersOK' /\ BuffersOK' /\ CacheOK' /\ cache' \in Seq(CacheEntry)
           /\ tearing' \subseteq Sessions
           /\ Registered' = Registered \ {s}
           /\ \A t : t # s /\ Cached(t) => Cached(t)'
           /\ \A t, c : t # s /\ Known(t, c) => Known(t, c)'
<1>1. s \in Sessions /\ Some(st[s])
  BY RegisteredIsSome
<1>2. PICK o \in StopStreamer(st[s], tsbs) :
        /\ st' = [st EXCEPT ![s] = EjectStreamer(o.x, o.tsbs).x]
        /\ tsbs' = EjectStreamer(o.x, o.tsbs).tsbs
  BY DEF cleanupStreamingSession
<1>3. st' = [st EXCEPT ![s] = NoStreamer] /\ tsbs' = release_tsb(tsbs, st[s].mTsbNumber)
  <2>1. EjectStreamer(o.x, o.tsbs)
           = [x |-> NoStreamer, tsbs |-> release_tsb(tsbs, st[s].mTsbNumber)]
    BY <1>1, EjectReleases
  <2> QED
    BY <1>2, <2>1
<1>4. NoStreamer.kind = "none" /\ NoStreamer.mTsbNumber = NoTsb /\ StreamerOK(NoStreamer)
  <2>1. <<>> \in Seq(StreamerEvents)
    OBVIOUS
  <2> QED
    BY <2>1 DEF NoStreamer, NewStreamer, StreamerOK, Streamer, StreamerStates, HnSessionStates
<1>5. BuffersMove(st[s], NoStreamer, tsbs, tsbs')
  BY <1>3, <1>4 DEF BuffersMove
<1>6. StreamersOK' /\ BuffersOK' /\ Registered' = Registered \ {s}
  BY <1>1, <1>3, <1>4, <1>5, StreamerStep, RegisteredAfter
<1>7. cache' = removeFromCache(s) /\ tearing' \subseteq Sessions
  BY DEF cleanupStreamingSession
<1> QED
  BY <1>6, <1>7, CacheRemoves

------------------------------------------------------------------------------
(* What clients wait for, the conflict and the queue *)

\* Whatever clients are told, they wait for something or for nothing.
LEMMA TellTypes ==
    ASSUME awaits \in [Clients -> Waits], NEW s, NEW said, NEW c
    PROVE  Tell(s, said) \in [Clients -> Waits] /\ sendSse(c, said) \in [Clients -> Waits]
<1>1. \A w \in Waits : After(w, said) \in Waits
  BY DEF After, Waits
<1>2. \A t \in Clients : awaits[t] \in Waits
  OBVIOUS
<1>3. Tell(s, said) \in [Clients -> Waits]
  BY <1>1, <1>2 DEF Tell
<1>4. sendSse(c, said) \in [Clients -> Waits]
  <2>1. sendSse(c, said) = [awaits EXCEPT ![c] = After(awaits[c], said)]
    BY DEF sendSse
  <2>2. CASE c \in Clients
    <3>1. After(awaits[c], said) \in Waits
      BY <1>1, <2>2
    <3> QED
      BY <2>1, <3>1
  <2>3. CASE c \notin Clients
    <3>1. sendSse(c, said) = awaits
      BY <2>1, <2>3
    <3> QED
      BY <3>1
  <2> QED
    BY <2>2, <2>3
<1> QED
  BY <1>3, <1>4

\* The account of the conflict keeps its type.
LEMMA ConflictTypes ==
    ASSUME NEW k \in Conflict, NEW status \in ConflictStates
    PROVE  setConflictStatus(k, status) \in Conflict /\ Retry(k) \in Conflict
<1>1. setConflictStatus(k, status) \in Conflict
  <2> DEFINE k1 == [k EXCEPT !.mPrevConflictState = k.mConflictState]
             k2 == [k1 EXCEPT !.mConflictState = "Busy"]
             k3 == [k EXCEPT !.mConflictState = status]
             prev == IF status = "Resolved" THEN status ELSE k3.mPrevConflictState
             k4 == [k3 EXCEPT !.mPrevConflictState = prev]
  <2>1. setConflictStatus(k, status) \in {k2, k4}
    BY DEF setConflictStatus
  <2>2. k1 \in Conflict
    BY DEF Conflict
  <2> HIDE DEF k1
  <2>3. k2 \in Conflict
    BY <2>2 DEF Conflict, ConflictStates
  <2>4. k3 \in Conflict
    BY DEF Conflict
  <2> HIDE DEF k2, k3
  <2>5. prev \in ConflictStates
    BY <2>4 DEF Conflict
  <2> HIDE DEF prev
  <2>6. k4 \in Conflict
    BY <2>4, <2>5 DEF Conflict
  <2> HIDE DEF k4
  <2> QED
    BY <2>1, <2>3, <2>6
<1>2. Retry(k) \in Conflict
  <2> DEFINE k1 == [k EXCEPT !.isConflict = FALSE]
             k2 == [k1 EXCEPT !.isCancelled = FALSE]
             k3 == [k2 EXCEPT !.client = "none"]
  <2>1. Retry(k) \in {k, k3}
    BY DEF Retry
  <2>2. k1 \in Conflict
    BY DEF Conflict
  <2> HIDE DEF k1
  <2>3. k2 \in Conflict
    BY <2>2 DEF Conflict
  <2> HIDE DEF k2
  <2>4. k3 \in Conflict
    BY <2>3 DEF Conflict
  <2> HIDE DEF k3
  <2> QED
    BY <2>1, <2>4
<1> QED
  BY <1>1, <1>2

LEMMA ConflictFields ==
    ASSUME NEW k \in Conflict
    PROVE  /\ \A b \in BOOLEAN : /\ [k EXCEPT !.isConflict = b] \in Conflict
                                 /\ [k EXCEPT !.isCancelled = b] \in Conflict
                                 /\ [k EXCEPT !.mTunerFreeFlag = b] \in Conflict
           /\ \A n \in Nat : [k EXCEPT !.OutofSeqCount = n] \in Conflict
           /\ \A c \in Clients : [k EXCEPT !.client = c] \in Conflict
           /\ \A m \in ConflictStates : [k EXCEPT !.mConflictState = m] \in Conflict
<1>1. \A b \in BOOLEAN : [k EXCEPT !.isConflict = b] \in Conflict
  BY DEF Conflict
<1>2. \A b \in BOOLEAN : [k EXCEPT !.isCancelled = b] \in Conflict
  BY DEF Conflict
<1>3. \A b \in BOOLEAN : [k EXCEPT !.mTunerFreeFlag = b] \in Conflict
  BY DEF Conflict
<1>4. \A n \in Nat : [k EXCEPT !.OutofSeqCount = n] \in Conflict
  BY DEF Conflict
<1>5. \A c \in Clients : [k EXCEPT !.client = c] \in Conflict
  BY DEF Conflict
<1>6. \A m \in ConflictStates : [k EXCEPT !.mConflictState = m] \in Conflict
  BY DEF Conflict
<1> QED
  BY <1>1, <1>2, <1>3, <1>4, <1>5, <1>6

\* What is left of the queue, and what is added to it, is well formed.
LEMMA QueueTail ==
    ASSUME NEW q, QueueOK(q), q # <<>>
    PROVE  /\ QueueOK(Tail(q))
           /\ Head(q) \in Requests
           /\ Head(q).type = "Serve" => Head(q).client \in Clients /\ Head(q).url \in Kinds
<1>1. Len(q) \in Nat /\ Len(q) > 0
  BY EmptySeq, LenProperties DEF QueueOK
<1>2. Head(q) = q[1] /\ Head(q) \in Requests
  BY HeadTailProperties DEF QueueOK
<1>3. /\ Tail(q) \in Seq(Requests) /\ Len(Tail(q)) = Len(q) - 1
      /\ \A i \in 1..Len(Tail(q)) : Tail(q)[i] = q[i + 1]
  BY HeadTailProperties DEF QueueOK
<1>4. \A i \in 1..Len(Tail(q)) : i + 1 \in 1..Len(q)
  BY <1>1, <1>3
<1> QED
  BY <1>1, <1>2, <1>3, <1>4 DEF QueueOK

LEMMA QueueAppend ==
    ASSUME NEW q, QueueOK(q), NEW e \in Requests,
           e.type = "Serve" => e.client \in Clients /\ e.url \in Kinds
    PROVE  QueueOK(Append(q, e))
<1>1. Len(q) \in Nat
  BY LenProperties DEF QueueOK
<1>2. /\ Append(q, e) \in Seq(Requests) /\ Len(Append(q, e)) = Len(q) + 1
      /\ \A i \in 1..Len(q) : Append(q, e)[i] = q[i]
      /\ Append(q, e)[Len(q) + 1] = e
  BY AppendProperties DEF QueueOK
<1>3. \A i \in 1..Len(Append(q, e)) : i \in 1..Len(q) \/ i = Len(q) + 1
  BY <1>1, <1>2
<1> QED
  BY <1>2, <1>3 DEF QueueOK

\* Hands that change in a part only.
LEMMA HandFields ==
    ASSUME NEW h \in Hand
    PROVE  /\ AtRest \in Hand /\ AtRest.session = None /\ AtRest.at = "idle"
           /\ \A a \in {"idle", "sequence", "play", "cleanup", "count"} : [h EXCEPT !.at = a] \in Hand
           /\ \A c \in Clients : [h EXCEPT !.client = c] \in Hand
           /\ \A u \in Kinds : [h EXCEPT !.url = u] \in Hand
           /\ \A s \in Sessions \cup {None} : [h EXCEPT !.session = s] \in Hand
           /\ \A l \in SUBSET Sessions : [h EXCEPT !.left = l] \in Hand
           /\ \A b \in BOOLEAN : [h EXCEPT !.isOutofSeq = b] \in Hand
           /\ \A n \in {"idle", "failure", "count"} : [h EXCEPT !.next = n] \in Hand
<1>1. AtRest \in Hand /\ AtRest.session = None /\ AtRest.at = "idle"
  BY DEF Hand, AtRest
<1>2. \A a \in {"idle", "sequence", "play", "cleanup", "count"} : [h EXCEPT !.at = a] \in Hand
  BY DEF Hand
<1>3. \A c \in Clients : [h EXCEPT !.client = c] \in Hand
  BY DEF Hand
<1>4. \A u \in Kinds : [h EXCEPT !.url = u] \in Hand
  BY DEF Hand
<1>5. \A s \in Sessions \cup {None} : [h EXCEPT !.session = s] \in Hand
  BY DEF Hand
<1>6. \A l \in SUBSET Sessions : [h EXCEPT !.left = l] \in Hand
  BY DEF Hand
<1>7. \A b \in BOOLEAN : [h EXCEPT !.isOutofSeq = b] \in Hand
  BY DEF Hand
<1>8. \A n \in {"idle", "failure", "count"} : [h EXCEPT !.next = n] \in Hand
  BY DEF Hand
<1> QED
  BY <1>1, <1>2, <1>3, <1>4, <1>5, <1>6, <1>7, <1>8

------------------------------------------------------------------------------
(* Steps that leave the sessions with their owners *)

\* The owners stay the owners when nobody forgets a session.
LEMMA OwnersStay ==
    ASSUME IInv, UNCHANGED <<served, hand>>, ui'.session = ui.session, Registered' = Registered,
           \A t : Cached(t) => Cached(t)', \A t, c : Known(t, c) => Known(t, c)'
    PROVE  OwnersOK' /\ EarlierOK'
<1>1. OwnersOK'
  BY DEF IInv, OwnersOK
<1>2. EarlierOK'
  BY DEF IInv, EarlierOK
<1> QED
  BY <1>1, <1>2

\* A step that leaves sessions, cache and hands alone may do to the rest what it likes.
LEMMA OwnersFrame ==
    ASSUME IInv, UNCHANGED <<served, cache, st, tsbs, hand, ui>>
    PROVE  /\ HandsOK' /\ StreamersOK' /\ BuffersOK' /\ CacheOK' /\ OwnersOK' /\ EarlierOK'
           /\ cache' \in Seq(CacheEntry)
<1>1. StreamersOK' /\ BuffersOK' /\ Registered' = Registered
  BY StreamersFrame DEF IInv
<1>2. \A t : Cached(t) => Cached(t)'
  BY DEF Cached
<1>3. \A t, c : Known(t, c) => Known(t, c)'
  BY DEF Known
<1>4. CacheOK' /\ cache' \in Seq(CacheEntry)
  BY <1>1 DEF IInv, CacheOK, DataOK
<1>5. HandsOK'
  BY DEF IInv, HandsOK
<1>6. ui'.session = ui.session
  OBVIOUS
<1> QED
  BY <1>1, <1>2, <1>3, <1>4, <1>5, <1>6, OwnersStay

\* The platform's steps leave the sessions alone.
LEMMA PlatformKeepsIInv ==
    ASSUME IInv, Platform
    PROVE  IInv'
<1> USE DEF IInv
<1>1. ASSUME NEW ask \in Asks, ServerManagerCallback(ask[1], ask[2])
      PROVE  IInv'
  <2> DEFINE e == [type |-> "Serve", client |-> ask[1], url |-> ask[2], session |-> None]
  <2>1. ask[1] \in Clients /\ ask[2] \in Kinds
    BY AsksAssumption DEF Kinds
  <2>2. e \in Requests /\ (e.type = "Serve" => e.client \in Clients /\ e.url \in Kinds)
    BY <2>1 DEF Requests
  <2>3. queue' = Append(queue, e)
    BY <1>1 DEF ServerManagerCallback
  <2> HIDE DEF e
  <2>4. QueueOK(queue')
    BY <2>2, <2>3, QueueAppend DEF DataOK
  <2>5. awaits' \in [Clients -> Waits]
    BY <1>1 DEF ServerManagerCallback, DataOK, Waits
  <2>6. UNCHANGED <<served, cache, st, tsbs, hand, ui, conf, tearing>>
    BY <1>1 DEF ServerManagerCallback
  <2>7. DataOK'
    BY <2>4, <2>5, <2>6 DEF DataOK
  <2> QED
    BY <2>6, <2>7, OwnersFrame
<1>2. ASSUME NEW s \in Sessions, ClientLeaves(s)
      PROVE  IInv'
  <2>1. UNCHANGED <<served, cache, st, tsbs, hand, ui>>
    BY <1>2 DEF ClientLeaves
  <2>2. DataOK'
    BY <1>2 DEF ClientLeaves, DataOK
  <2> QED
    BY <2>1, <2>2, OwnersFrame
<1>3. ASSUME NEW s \in Sessions, TeardownRequired(s)
      PROVE  IInv'
  <2> DEFINE e == [type |-> "Teardown", client |-> "none", url |-> "none", session |-> s]
  <2>1. e \in Requests /\ e.type # "Serve"
    BY DEF Requests
  <2>2. queue' = Append(queue, e)
    BY <1>3 DEF TeardownRequired
  <2> HIDE DEF e
  <2>3. QueueOK(queue')
    BY <2>1, <2>2, QueueAppend DEF DataOK
  <2>4. UNCHANGED <<served, cache, st, tsbs, hand, ui, conf, awaits>> /\ tearing' \subseteq Sessions
    BY <1>3 DEF TeardownRequired, DataOK
  <2>5. DataOK'
    BY <2>3, <2>4 DEF DataOK
  <2> QED
    BY <2>4, <2>5, OwnersFrame
<1>4. CASE HandleTunerFreeNotification
  <2> DEFINE k == [conf EXCEPT !.mTunerFreeFlag = TRUE]
  <2>1. conf' = Retry(k)
    BY <1>4 DEF HandleTunerFreeNotification
  <2>2. k \in Conflict
    BY ConflictFields DEF DataOK
  <2> HIDE DEF k
  <2>3. conf' \in Conflict
    BY <2>1, <2>2, ConflictTypes DEF ConflictStates
  <2>4. awaits' \in [Clients -> Waits]
    BY <1>4, TellTypes DEF HandleTunerFreeNotification, RetryTells, DataOK
  <2>5. UNCHANGED <<served, cache, st, tsbs, hand, ui, queue, tearing>>
    BY <1>4 DEF HandleTunerFreeNotification
  <2>6. DataOK'
    BY <2>3, <2>4, <2>5 DEF DataOK
  <2> QED
    BY <2>5, <2>6, OwnersFrame
<1>5. CASE GatewayTunes
  <2>1. UNCHANGED <<served, cache, st, tsbs, hand, ui>>
    BY <1>5 DEF GatewayTunes
  <2>2. DataOK'
    BY <1>5 DEF GatewayTunes, DataOK
  <2> QED
    BY <2>1, <2>2, OwnersFrame
<1>6. CASE NotifyRecordingStop
  <2>1. setConflictStatus(conf, "Resolved") \in Conflict
    BY ConflictTypes DEF ConflictStates, DataOK
  <2>2. Retry(setConflictStatus(conf, "Resolved")) \in Conflict
    BY <2>1, ConflictTypes DEF ConflictStates
  <2>3. conf' \in Conflict
    BY <1>6, <2>2 DEF NotifyRecordingStop, DataOK
  <2>4. awaits' \in [Clients -> Waits]
    BY <1>6, TellTypes DEF NotifyRecordingStop, RetryTells, DataOK
  <2>5. UNCHANGED <<served, cache, st, tsbs, hand, ui, queue, tearing>>
    BY <1>6 DEF NotifyRecordingStop
  <2>6. DataOK'
    BY <2>3, <2>4, <2>5 DEF DataOK
  <2> QED
    BY <2>5, <2>6, OwnersFrame
<1> QED
  BY <1>1, <1>2, <1>3, <1>4, <1>5, <1>6 DEF Platform

------------------------------------------------------------------------------
(* The streamers *)

\* A step of a registered session's streamer, whatever it tells.
LEMMA StreamerKeepsIInv ==
    ASSUME IInv, NEW s \in Registered, NEW y, Moves(st[s], y, tsbs, tsbs'),
           st' = [st EXCEPT ![s] = y], tearing' \in SUBSET Sessions,
           cache' \in Marks(s) \cup {cache},
           awaits' \in [Clients -> Waits], QueueOK(queue'),
           UNCHANGED <<served, conf, hand, ui>>
    PROVE  IInv'
<1> USE DEF IInv
<1>1. StreamersOK' /\ BuffersOK' /\ Registered' = Registered
  BY RegisteredStep
<1>2. /\ cache' \in Seq(CacheEntry) /\ CacheOK'
      /\ \A t : Cached(t) => Cached(t)'
      /\ \A t, c : Known(t, c) => Known(t, c)'
  <2>1. cache \in Seq(CacheEntry)
    BY DEF DataOK
  <2> QED
    BY <1>1, <2>1, CacheMarks
<1>3. OwnersOK' /\ EarlierOK'
  BY <1>1, <1>2, OwnersStay
<1>4. DataOK'
  BY <1>2 DEF DataOK
<1>5. HandsOK'
  BY DEF HandsOK
<1> QED
  BY <1>1, <1>2, <1>3, <1>4, <1>5

\* Something is posted to a session that has a streamer.
LEMMA PostKeepsIInv ==
    ASSUME IInv, NEW s \in Sessions, st[s] # NoStreamer, NEW x, Same(st[s], x),
           NEW e \in StreamerEvents, st' = [st EXCEPT ![s] = queueTo(x, e)],
           UNCHANGED <<served, cache, tsbs, conf, queue, hand, ui, tearing, awaits>>
    PROVE  IInv'
<1>1. s \in Registered /\ Some(st[s])
  BY DEF IInv, StreamersOK, StreamerOK, Registered, Some
<1>2. Same(st[s], queueTo(x, e))
  BY <1>1, SameIsSome, QueueTo, SameThenSame
<1>3. Moves(st[s], queueTo(x, e), tsbs, tsbs')
  BY <1>2, SameMoves
<1>4. tearing' \in SUBSET Sessions /\ awaits' \in [Clients -> Waits] /\ QueueOK(queue')
  BY DEF IInv, DataOK
<1> QED
  BY <1>1, <1>3, <1>4, StreamerKeepsIInv

\* A streamer's thread handles the event that is next.
LEMMA ThreadKeepsIInv ==
    ASSUME IInv, NEW s \in Sessions, StreamerThread(s)
    PROVE  IInv'
<1> USE DEF IInv
<1>1. st[s] # NoStreamer
  BY DEF StreamerThread, NoStreamer, NewStreamer
<1>2. s \in Registered /\ Some(st[s]) /\ st[s].queue \in Seq(StreamerEvents)
  BY <1>1 DEF StreamersOK, StreamerOK, Registered, Some, Streamer
<1> DEFINE x == [st[s] EXCEPT !.queue = Tail(@)]
           e == Head(st[s].queue)
<1>3. e \in StreamerEvents /\ Tail(st[s].queue) \in Seq(StreamerEvents)
  BY <1>2, EmptySeq, HeadTailProperties DEF StreamerThread
<1>4. Same(st[s], x) /\ Some(x)
  <2>1. \A q \in Seq(StreamerEvents) : Same(st[s], [st[s] EXCEPT !.queue = q])
    BY <1>2, SomeFields
  <2>2. Same(st[s], x)
    BY <1>3, <2>1
  <2> HIDE DEF x
  <2> QED
    BY <1>2, <2>2, SameIsSome
<1>5. PICK o \in streamerEvent(x, e, tsbs) :
        /\ st' = [st EXCEPT ![s] = o.x]
        /\ tsbs' = o.tsbs
        /\ cache' \in {MarkedRetry(s), cache}
        /\ \E said : awaits' = Tell(s, said)
  BY DEF StreamerThread, MarkedRetry
<1> HIDE DEF x, e
<1>6. Moves(st[s], o.x, tsbs, tsbs')
  BY <1>3, <1>4, <1>5, EventMoves, SameThenMoves
<1>7. awaits' \in [Clients -> Waits]
  BY <1>5, TellTypes DEF DataOK
<1>8. /\ tearing' \in SUBSET Sessions /\ cache' \in Marks(s) \cup {cache}
      /\ QueueOK(queue') /\ UNCHANGED <<served, conf, hand, ui>>
  BY <1>5 DEF StreamerThread, DataOK, Marks
<1> QED
  BY <1>2, <1>5, <1>6, <1>7, <1>8, StreamerKeepsIInv

\* Every step of a streamer keeps the invariant.
LEMMA StreamersKeepIInv ==
    ASSUME IInv, Streamers
    PROVE  IInv'
<1>1. PICK s \in Sessions :
        \/ StreamerThread(s) \/ SourceLocks(s) \/ TablesAreReady(s) \/ BufferIsFilled(s)
        \/ PsiTimer(s) \/ TunerIsGranted(s) \/ ServiceChanges(s)
  BY DEF Streamers
<1> DEFINE none == /\ NoStreamer.live = "none" /\ NoStreamer.psi = "none"
                   /\ NoStreamer.rec = "none" /\ NoStreamer.timer = FALSE
                   /\ NoStreamer.kind = "none" /\ NoStreamer.queue = <<>>
<1>2. none
  BY DEF NoStreamer, NewStreamer
<1>3. st[s] # NoStreamer => Some(st[s])
  BY DEF IInv, StreamersOK, StreamerOK, Some
<1>4. CASE StreamerThread(s)
  BY <1>4, ThreadKeepsIInv
<1>5. CASE SourceLocks(s)
  <2>1. st[s] # NoStreamer /\ "RFCallback" \in StreamerEvents
    BY <1>2, <1>5 DEF SourceLocks, StreamerEvents
  <2>2. Same(st[s], st[s])
    BY <1>3, <2>1, SomeFields
  <2>3. /\ st' = [st EXCEPT ![s] = queueTo(st[s], "RFCallback")]
        /\ UNCHANGED <<served, cache, tsbs, conf, queue, hand, ui, tearing, awaits>>
    BY <1>5 DEF SourceLocks, PostTo
  <2> QED
    BY <2>1, <2>2, <2>3, PostKeepsIInv
<1>6. CASE TablesAreReady(s)
  <2> DEFINE x == [st[s] EXCEPT !.psi = "ready"]
  <2>1. st[s] # NoStreamer /\ "PSIReady" \in StreamerEvents
    BY <1>2, <1>6 DEF TablesAreReady, StreamerEvents
  <2>2. Same(st[s], x)
    BY <1>3, <2>1, SomeFields
  <2>3. /\ st' = [st EXCEPT ![s] = queueTo(x, "PSIReady")]
        /\ UNCHANGED <<served, cache, tsbs, conf, queue, hand, ui, tearing, awaits>>
    BY <1>6 DEF TablesAreReady, PostTo
  <2> HIDE DEF x
  <2> QED
    BY <2>1, <2>2, <2>3, PostKeepsIInv
<1>7. CASE BufferIsFilled(s)
  <2> DEFINE x == [st[s] EXCEPT !.rec = "reported"]
  <2>1. st[s] # NoStreamer /\ "TSBStart" \in StreamerEvents /\ st[s].rec # "none"
    BY <1>2, <1>7 DEF BufferIsFilled, StreamerEvents
  <2>2. Same(st[s], x)
    BY <1>3, <2>1 DEF Some, Same, StreamerOK, Streamer
  <2>3. /\ st' = [st EXCEPT ![s] = queueTo(x, "TSBStart")]
        /\ UNCHANGED <<served, cache, tsbs, conf, queue, hand, ui, tearing, awaits>>
    BY <1>7 DEF BufferIsFilled, PostTo
  <2> HIDE DEF x
  <2> QED
    BY <2>1, <2>2, <2>3, PostKeepsIInv
<1>8. CASE PsiTimer(s)
  <2> DEFINE x == [st[s] EXCEPT !.timer = FALSE]
  <2>1. st[s] # NoStreamer /\ "TimeOut" \in StreamerEvents
    BY <1>2, <1>8 DEF PsiTimer, StreamerEvents
  <2>2. Same(st[s], x)
    BY <1>3, <2>1, SomeFields
  <2>3. /\ st' = [st EXCEPT ![s] = queueTo(x, "TimeOut")]
        /\ UNCHANGED <<served, cache, tsbs, conf, queue, hand, ui, tearing, awaits>>
    BY <1>8 DEF PsiTimer, IInv, StreamersOK
  <2> HIDE DEF x
  <2> QED
    BY <2>1, <2>2, <2>3, PostKeepsIInv
<1>9. CASE TunerIsGranted(s)
  <2>1. st[s] # NoStreamer /\ "TunerRestored" \in StreamerEvents
    BY <1>2, <1>9 DEF TunerIsGranted, StreamerEvents
  <2>2. Same(st[s], st[s])
    BY <1>3, <2>1, SomeFields
  <2>3. /\ st' = [st EXCEPT ![s] = queueTo(st[s], "TunerRestored")]
        /\ UNCHANGED <<served, cache, tsbs, conf, queue, hand, ui, tearing, awaits>>
    BY <1>9 DEF TunerIsGranted, PostTo
  <2> QED
    BY <2>1, <2>2, <2>3, PostKeepsIInv
<1>10. CASE ServiceChanges(s)
  <2>1. PICK e \in StreamerEvents :
          /\ st[s].kind = "live" /\ PostTo(s, st[s], e)
    BY <1>10 DEF ServiceChanges, StreamerEvents
  <2>2. st[s] # NoStreamer
    BY <1>2, <2>1
  <2>3. Same(st[s], st[s])
    BY <1>3, <2>2, SomeFields
  <2>4. /\ st' = [st EXCEPT ![s] = queueTo(st[s], e)]
        /\ UNCHANGED <<served, cache, tsbs, conf, queue, hand, ui, tearing, awaits>>
    BY <2>1 DEF PostTo
  <2> QED
    BY <2>2, <2>3, <2>4, PostKeepsIInv
<1> QED
  BY <1>1, <1>4, <1>5, <1>6, <1>7, <1>8, <1>9, <1>10

------------------------------------------------------------------------------
(* The server's event thread *)

\* The first session of a client is in the cache.
LEMMA FirstOfClient ==
    ASSUME cache \in Seq(CacheEntry), NEW c, \E i \in DOMAIN cache : cache[i].client = c
    PROVE  \E i \in 1..Len(cache) : getHandleFromMac(c) = cache[i].session
<1> DEFINE T == {i \in DOMAIN cache : cache[i].client = c}
<1>1. DOMAIN cache = 1..Len(cache) /\ Len(cache) \in Nat
  BY LenProperties
<1>2. T \in SUBSET Nat /\ T # {}
  BY <1>1
<1>3. \E n \in T : \A m \in T : n <= m
  BY <1>2, Least
<1>4. \E i \in DOMAIN cache :
         cache[i].client = c /\ \A j \in DOMAIN cache : cache[j].client = c => i <= j
  BY <1>3
<1> QED
  BY <1>1, <1>4 DEF getHandleFromMac

\* A request for what the client is waiting for already.
LEMMA PendingKeepsIInv ==
    ASSUME IInv, HandlePendingRequest
    PROVE  IInv'
<1> DEFINE e == Head(queue)
           s == getHandleFromMac(e.client)
<1>1. s \in Registered
  <2>1. \E i \in DOMAIN cache : cache[i].client = e.client
    BY DEF HandlePendingRequest, IsSrvReqPending
  <2> HIDE DEF e
  <2>2. cache \in Seq(CacheEntry)
    BY DEF IInv, DataOK
  <2>3. PICK i \in 1..Len(cache) : s = cache[i].session
    BY <2>1, <2>2, FirstOfClient
  <2> QED
    BY <2>3 DEF IInv, CacheOK
<1>2. /\ st' = [st EXCEPT ![s] = SetCpeStreamingSessionID(st[s])]
      /\ queue # <<>> /\ queue' = Tail(queue)
      /\ UNCHANGED <<served, cache, tsbs, conf, hand, ui, tearing, awaits>>
  BY DEF HandlePendingRequest, Popped
<1> HIDE DEF s
<1>3. Moves(st[s], SetCpeStreamingSessionID(st[s]), tsbs, tsbs')
  <2>1. Some(st[s])
    BY <1>1, RegisteredIsSome DEF IInv
  <2> QED
    BY <1>2, <2>1, SetSessionIDKeeps, SameMoves
<1>4. QueueOK(queue') /\ awaits' \in [Clients -> Waits] /\ tearing' \in SUBSET Sessions
  BY <1>2, QueueTail DEF IInv, DataOK
<1> QED
  BY <1>1, <1>2, <1>3, <1>4, StreamerKeepsIInv

\* A request of a client: its earlier sessions are still to be stopped.
LEMMA ServeKeepsIInv ==
    ASSUME IInv, HandleServeRequest
    PROVE  IInv'
<1> USE DEF IInv
<1> DEFINE e == Head(queue)
           h1 == [AtRest EXCEPT !.at = "sequence"]
           h2 == [h1 EXCEPT !.client = e.client]
           h3 == [h2 EXCEPT !.url = e.url]
           h4 == [h3 EXCEPT !.left = SessionsOf(e.client)]
<1>1. hand' = h4
  BY DEF HandleServeRequest
<1>2. /\ hand.at = "idle" /\ queue # <<>> /\ e.type = "Serve" /\ queue' = Tail(queue)
      /\ UNCHANGED <<served, cache, st, tsbs, conf, ui, tearing, awaits>>
  BY DEF HandleServeRequest, Popped
<1>3. QueueOK(queue') /\ e.client \in Clients /\ e.url \in Kinds
  BY <1>2, QueueTail DEF DataOK
<1> HIDE DEF e
<1>4. /\ Len(cache) \in Nat /\ DOMAIN cache = 1..Len(cache)
      /\ \A i \in 1..Len(cache) : cache[i].session \in Sessions
  BY LenProperties DEF DataOK, CacheOK, Registered
<1>5. SessionsOf(e.client) \subseteq Sessions
      /\ \A s \in SessionsOf(e.client) : Known(s, e.client)
  BY <1>4 DEF SessionsOf, Known
<1>6. h1 \in Hand /\ h1.at = "sequence" /\ h1.session = None
  <2>1. hand \in Hand
    BY DEF HandsOK
  <2>2. AtRest \in Hand /\ AtRest.session = None
    BY <2>1, HandFields
  <2> QED
    BY <2>2 DEF Hand
<1> HIDE DEF h1
<1>7. h2 \in Hand /\ h2.at = "sequence" /\ h2.session = None /\ h2.client = e.client
  BY <1>3, <1>6 DEF Hand
<1> HIDE DEF h2
<1>8. /\ h3 \in Hand /\ h3.at = "sequence" /\ h3.session = None /\ h3.client = e.client
      /\ h3.url = e.url
  BY <1>3, <1>7 DEF Hand
<1> HIDE DEF h3
<1>9. /\ h4 \in Hand /\ h4.at = "sequence" /\ h4.session = None /\ h4.client = e.client
      /\ h4.url = e.url /\ h4.left = SessionsOf(e.client)
  BY <1>5, <1>8 DEF Hand
<1> HIDE DEF h4
<1>10. HandsOK'
  BY <1>1, <1>2, <1>3, <1>9 DEF HandsOK
<1>11. StreamersOK' /\ BuffersOK' /\ Registered' = Registered
  BY <1>2, StreamersFrame
<1>12. DataOK' /\ CacheOK'
  BY <1>2, <1>3, <1>11 DEF DataOK, CacheOK
<1>13. hand.session = None
  BY <1>2 DEF HandsOK
<1>14. OwnersOK'
  BY <1>1, <1>2, <1>9, <1>11, <1>13 DEF OwnersOK, Cached
<1>15. EarlierOK'
  BY <1>1, <1>2, <1>5, <1>9 DEF EarlierOK, Known
<1> QED
  BY <1>10, <1>11, <1>12, <1>14, <1>15

\* An earlier session of the client is stopped.
LEMMA EarlierKeepsIInv ==
    ASSUME IInv, NEW s \in Sessions, StopEarlier(s)
    PROVE  IInv'
<1> USE DEF IInv
<1>1. s \in Registered /\ s \in hand.left /\ hand.at = "sequence" /\ hand.session = None
  BY DEF StopEarlier, HandsOK
<1>2. PICK o \in StopStreaming(st[s]) :
        IF o.status = "Ok"
          THEN /\ cache' = MarkedLate(s)
               /\ st' = [st EXCEPT ![s] = o.x]
               /\ tearing' = tearing \cup {s}
               /\ hand' = [hand EXCEPT !.left = hand.left \ {s}, !.isOutofSeq = TRUE]
               /\ UNCHANGED <<served, tsbs, awaits>>
        ELSE /\ hand' = [hand EXCEPT !.left = hand.left \ {s}]
             /\ served' = served \ {s}
             /\ awaits' = awaits
             /\ IF s \in served THEN cleanupStreamingSession(s)
                ELSE /\ cache' = removeFromCache(s)
                     /\ st' = [st EXCEPT ![s] = o.x]
                     /\ UNCHANGED <<tsbs, tearing>>
  BY DEF StopEarlier, MarkedLate
<1>3. UNCHANGED <<conf, queue, ui>>
  BY DEF StopEarlier
<1>4. Same(st[s], o.x) /\ Moves(st[s], o.x, tsbs, tsbs)
  BY <1>1, RegisteredIsSome, StopStreamingKeeps, SameMoves
<1>5. /\ hand' \in Hand /\ hand'.at = "sequence" /\ hand'.session = None
      /\ hand'.client = hand.client /\ hand'.url = hand.url /\ hand'.left = hand.left \ {s}
  <2>1. hand \in Hand /\ hand.left \ {s} \in SUBSET Sessions
    BY DEF HandsOK, Hand
  <2> DEFINE h1 == [hand EXCEPT !.left = hand.left \ {s}]
             h2 == [h1 EXCEPT !.isOutofSeq = TRUE]
  <2>2. hand' \in {h1, h2}
    BY <1>2
  <2>3. /\ h1 \in Hand /\ h1.at = "sequence" /\ h1.session = None
        /\ h1.client = hand.client /\ h1.url = hand.url /\ h1.left = hand.left \ {s}
    BY <1>1, <2>1 DEF Hand
  <2> HIDE DEF h1
  <2>4. /\ h2 \in Hand /\ h2.at = "sequence" /\ h2.session = None
        /\ h2.client = hand.client /\ h2.url = hand.url /\ h2.left = hand.left \ {s}
    BY <2>3 DEF Hand
  <2> HIDE DEF h2
  <2> QED
    BY <2>2, <2>3, <2>4
<1>6. HandsOK'
  BY <1>1, <1>3, <1>5 DEF HandsOK
<1>7. cache \in Seq(CacheEntry) /\ tearing \subseteq Sessions
  BY DEF DataOK
<1>8. CASE o.status = "Ok"
  <2>1. StreamersOK' /\ BuffersOK' /\ Registered' = Registered
    BY <1>1, <1>2, <1>4, <1>8, RegisteredStep
  <2>2. /\ cache' \in Seq(CacheEntry) /\ CacheOK'
        /\ \A t : Cached(t) => Cached(t)'
        /\ \A t, c : Known(t, c) => Known(t, c)'
    <3>1. cache' \in Marks(s) \cup {cache}
      BY <1>2, <1>8 DEF Marks
    <3> QED
      BY <1>7, <2>1, <3>1, CacheMarks
  <2>3. DataOK'
    BY <1>2, <1>3, <1>8, <2>2 DEF DataOK
  <2>4. OwnersOK'
    BY <1>1, <1>2, <1>3, <1>5, <1>8, <2>1, <2>2 DEF OwnersOK
  <2>5. EarlierOK'
    BY <1>1, <1>2, <1>5, <1>8, <2>2 DEF EarlierOK
  <2> QED
    BY <1>6, <2>1, <2>2, <2>3, <2>4, <2>5
<1>9. CASE o.status # "Ok" /\ s \in served
  <2>1. cleanupStreamingSession(s) /\ served' = served \ {s} /\ awaits' = awaits
    BY <1>2, <1>9
  <2>2. /\ StreamersOK' /\ BuffersOK' /\ CacheOK' /\ cache' \in Seq(CacheEntry)
        /\ tearing' \subseteq Sessions
        /\ Registered' = Registered \ {s}
        /\ \A t : t # s /\ Cached(t) => Cached(t)'
        /\ \A t, c : t # s /\ Known(t, c) => Known(t, c)'
    BY <1>1, <1>7, <2>1, CleanUps
  <2>3. DataOK'
    BY <1>3, <2>1, <2>2 DEF DataOK
  <2>4. OwnersOK'
    BY <1>1, <1>3, <1>5, <1>9, <2>1, <2>2 DEF OwnersOK
  <2>5. EarlierOK'
    BY <1>1, <1>5, <2>1, <2>2 DEF EarlierOK
  <2> QED
    BY <1>6, <2>2, <2>3, <2>4, <2>5
<1>10. CASE o.status # "Ok" /\ s \notin served
  <2>1. /\ cache' = removeFromCache(s) /\ st' = [st EXCEPT ![s] = o.x]
        /\ served' = served /\ awaits' = awaits /\ UNCHANGED <<tsbs, tearing>>
    BY <1>2, <1>10
  <2>2. StreamersOK' /\ BuffersOK' /\ Registered' = Registered
    BY <1>1, <1>4, <2>1, RegisteredStep
  <2>3. /\ cache' \in Seq(CacheEntry) /\ CacheOK'
        /\ \A t : t # s /\ Cached(t) => Cached(t)'
        /\ \A t, c : t # s /\ Known(t, c) => Known(t, c)'
    BY <1>7, <2>1, <2>2, CacheRemoves
  <2>4. DataOK'
    BY <1>3, <2>1, <2>3 DEF DataOK
  <2>5. OwnersOK'
    BY <1>1, <1>3, <1>5, <1>10, <2>1, <2>2, <2>3 DEF OwnersOK
  <2>6. EarlierOK'
    BY <1>1, <1>5, <1>10, <2>1, <2>3 DEF EarlierOK
  <2> QED
    BY <1>6, <2>2, <2>3, <2>4, <2>5, <2>6
<1> QED
  BY <1>8, <1>9, <1>10

\* An earlier session was cleaned up by the other thread.
LEMMA GoneKeepsIInv ==
    ASSUME IInv, NEW s \in Sessions, EarlierGone(s)
    PROVE  IInv'
<1> USE DEF IInv
<1>1. /\ UNCHANGED <<served, cache, st, tsbs, conf, queue, ui, tearing, awaits>>
      /\ hand' = [hand EXCEPT !.left = hand.left \ {s}]
  BY DEF EarlierGone
<1>2. /\ hand' \in Hand /\ hand'.at = hand.at /\ hand'.session = hand.session
      /\ hand'.client = hand.client /\ hand'.url = hand.url /\ hand'.left = hand.left \ {s}
  BY <1>1 DEF HandsOK, Hand
<1>3. HandsOK'
  BY <1>1, <1>2 DEF HandsOK
<1>4. StreamersOK' /\ BuffersOK' /\ Registered' = Registered
  BY <1>1, StreamersFrame
<1>5. DataOK' /\ CacheOK'
  BY <1>1, <1>4 DEF DataOK, CacheOK
<1>6. OwnersOK'
  BY <1>1, <1>2, <1>4 DEF OwnersOK, Cached
<1>7. EarlierOK'
  BY <1>1, <1>2 DEF EarlierOK, Known
<1> QED
  BY <1>3, <1>4, <1>5, <1>6, <1>7

\* The request of a device that is not managed.
LEMMA NotManagedKeepsIInv ==
    ASSUME IInv, NotManaged
    PROVE  IInv'
<1> USE DEF IInv
<1>1. /\ hand.at = "sequence" /\ hand' = AtRest /\ awaits' = sendSse(hand.client, "failure")
      /\ UNCHANGED <<served, cache, st, tsbs, conf, queue, ui, tearing>>
  BY DEF NotManaged
<1>2. hand.session = None /\ hand' \in Hand /\ hand'.at = "idle" /\ hand'.session = None
  BY <1>1, HandFields DEF HandsOK
<1>3. HandsOK'
  BY <1>1, <1>2 DEF HandsOK
<1>4. StreamersOK' /\ BuffersOK' /\ Registered' = Registered
  BY <1>1, StreamersFrame
<1>5. awaits' \in [Clients -> Waits]
  BY <1>1, TellTypes DEF DataOK
<1>6. DataOK' /\ CacheOK'
  BY <1>1, <1>4, <1>5 DEF DataOK, CacheOK
<1>7. OwnersOK' /\ EarlierOK'
  BY <1>1, <1>2, <1>4 DEF OwnersOK, EarlierOK, Cached
<1> QED
  BY <1>3, <1>4, <1>6, <1>7

\* A conflict that is handled changes the account of it, what the client waits
\* for, and whether the user is asked.
LEMMA ConflictHandled ==
    ASSUME conf \in Conflict, awaits \in [Clients -> Waits], NEW c \in Clients, NEW late,
           ui \in [at : {"idle", "apply", "wait", "cleanup", "cleanupWait"},
                   session : Sessions \cup {None}, asked : BOOLEAN],
           HandleTunerConflict(c, late)
    PROVE  /\ conf' \in Conflict /\ awaits' \in [Clients -> Waits]
           /\ ui'.at = ui.at /\ ui'.session = ui.session
           /\ ui' \in [at : {"idle", "apply", "wait", "cleanup", "cleanupWait"},
                       session : Sessions \cup {None}, asked : BOOLEAN]
<1> DEFINE k == setConflictStatus(conf, "Detected")
           k1 == [k EXCEPT !.OutofSeqCount = k.OutofSeqCount + 1]
           k2 == [k1 EXCEPT !.mConflictState = k.mPrevConflictState]
           j1 == [k EXCEPT !.mTunerFreeFlag = FALSE]
           j2 == [j1 EXCEPT !.client = c]
           j3 == [j2 EXCEPT !.isConflict = TRUE]
           j4 == [j3 EXCEPT !.isCancelled = FALSE]
<1>1. k \in Conflict
  BY ConflictTypes DEF ConflictStates
<1>2. conf' \in {k, k2, j4}
  BY DEF HandleTunerConflict
<1> HIDE DEF k
<1>3. k2 \in Conflict
  <2>1. k.OutofSeqCount + 1 \in Nat /\ k.mPrevConflictState \in ConflictStates
    BY <1>1 DEF Conflict
  <2>2. k1 \in Conflict
    BY <1>1, <2>1, ConflictFields
  <2> HIDE DEF k1
  <2> QED
    BY <2>1, <2>2, ConflictFields
<1>4. j4 \in Conflict
  <2>1. j1 \in Conflict
    BY <1>1, ConflictFields
  <2> HIDE DEF j1
  <2>2. j2 \in Conflict
    BY <2>1, ConflictFields
  <2> HIDE DEF j2
  <2>3. j3 \in Conflict
    BY <2>2, ConflictFields
  <2> HIDE DEF j3
  <2> QED
    BY <2>3, ConflictFields
<1> HIDE DEF k2, j4
<1>5. conf' \in Conflict
  BY <1>1, <1>2, <1>3, <1>4
<1>6. \E w \in Waits : awaits' = [awaits EXCEPT ![c] = w]
  BY DEF HandleTunerConflict, Waits
<1>7. \E b \in BOOLEAN : ui' = [ui EXCEPT !.asked = b]
  <2>1. CASE late
    <3>1. ui' = ui
      BY <2>1 DEF HandleTunerConflict
    <3>2. ui' = [ui EXCEPT !.asked = ui.asked] /\ ui.asked \in BOOLEAN
      BY <3>1
    <3> QED
      BY <3>2
  <2>2. CASE ~late
    <3> DEFINE first == ~k.isConflict /\ k.mConflictState # "Busy"
               d == ui.asked \/ first
    <3>1. ui' = [ui EXCEPT !.asked = d]
      BY <2>2 DEF HandleTunerConflict, k
    <3>2. d \in BOOLEAN
      OBVIOUS
    <3> HIDE DEF d
    <3> QED
      BY <3>1, <3>2
  <2> QED
    BY <2>1, <2>2
<1>8. awaits' \in [Clients -> Waits]
  BY <1>6
<1>9. /\ ui'.at = ui.at /\ ui'.session = ui.session
      /\ ui' \in [at : {"idle", "apply", "wait", "cleanup", "cleanupWait"},
                  session : Sessions \cup {None}, asked : BOOLEAN]
  BY <1>7
<1> QED
  BY <1>5, <1>8, <1>9

\* The number of a new session is nobody's.
LEMMA NewSessionIsFree ==
    ASSUME FreeSessions # {}
    PROVE  NewSession \in Sessions \ Registered
<1> DEFINE T == FreeSessions
<1>1. T \subseteq Sessions \ Registered /\ T \in SUBSET Nat
  BY SessionNumbers DEF FreeSessions
<1>2. \E s \in T : \A other \in T : s <= other
  BY <1>1, Least
<1>3. NewSession \in T
  BY <1>2 DEF NewSession
<1> QED
  BY <1>1, <1>3

\* A session is made for a request that is in sequence, and is the thread's.
LEMMA NewKeepsIInv ==
    ASSUME IInv, Sequenced, NEW y \in {NewStreamer(hand.url), LoadStreamer(NewStreamer(hand.url))},
           st' = [st EXCEPT ![NewSession] = y],
           cache' = addToCache(hand.client, hand.url, NewSession),
           hand' \in Hand, hand'.at \in {"play", "cleanup"}, hand'.session = NewSession,
           hand'.client = hand.client, hand'.url = hand.url,
           UNCHANGED <<served, tsbs, queue, tearing>>,
           conf' \in Conflict, awaits' \in [Clients -> Waits],
           ui'.at = ui.at, ui'.session = ui.session,
           ui' \in [at : {"idle", "apply", "wait", "cleanup", "cleanupWait"},
                    session : Sessions \cup {None}, asked : BOOLEAN]
    PROVE  IInv'
<1> USE DEF IInv
<1>0. PICK s \in Sessions \ Registered : s = NewSession
  BY NewSessionIsFree DEF Sequenced
<1>1. s # None
  BY SessionNumbers
<1>2. /\ hand.at = "sequence" /\ hand.session = None
      /\ hand.client \in Clients /\ hand.url \in Kinds
  BY DEF Sequenced, HandsOK
<1>3. StreamersOK' /\ BuffersOK' /\ Registered' = Registered \cup {s}
  <2>1. st' = [st EXCEPT ![s] = y] /\ tsbs' = tsbs
    BY <1>0
  <2>2. PICK kind \in Kinds : kind = hand.url
    BY <1>2
  <2>3. y \in {NewStreamer(kind), LoadStreamer(NewStreamer(kind))}
    BY <2>2
  <2>4. StreamersOK /\ BuffersOK
    OBVIOUS
  <2> QED
    BY ONLY <2>1, <2>3, <2>4, RegisteredNew
<1>4. /\ cache' \in Seq(CacheEntry) /\ CacheOK' /\ Cached(s)'
      /\ \A t : Cached(t) => Cached(t)'
  <2>1. cache' = addToCache(hand.client, hand.url, s) /\ cache \in Seq(CacheEntry)
    BY <1>0 DEF DataOK
  <2> QED
    BY <1>1, <1>2, <1>3, <2>1, CacheAdds
<1>5. DataOK'
  BY <1>4 DEF DataOK
<1>6. HandsOK'
  BY <1>0, <1>1, <1>2 DEF HandsOK
<1>7. OwnersOK'
  <2>1. hand'.session = s /\ served' = served /\ ui'.session = ui.session
    BY <1>0
  <2>2. \A t \in served' : Cached(t)'
    BY <1>4, <2>1 DEF OwnersOK
  <2>3. hand'.at = "play" => Cached(hand.session)'
    BY <1>4, <2>1 DEF Cached
  <2>4. ui.session # s
    BY <1>1 DEF OwnersOK
  <2>5. None \notin Registered
    BY SessionNumbers DEF Registered
  <2> QED
    BY <1>2, <1>3, <2>1, <2>2, <2>3, <2>4, <2>5 DEF OwnersOK
<1>8. EarlierOK'
  BY DEF EarlierOK
<1> QED
  BY <1>3, <1>4, <1>5, <1>6, <1>7, <1>8

\* The session is loaded, or is to be cleaned up at once.
LEMMA LoadKeepsIInv ==
    ASSUME IInv, LoadSession \/ LoadConflict \/ LoadFails
    PROVE  IInv'
<1>1. Sequenced
  BY DEF LoadSession, LoadConflict, LoadFails
<1>2. /\ hand \in Hand /\ hand.client \in Clients /\ conf \in Conflict
      /\ awaits \in [Clients -> Waits]
      /\ ui \in [at : {"idle", "apply", "wait", "cleanup", "cleanupWait"},
                 session : Sessions \cup {None}, asked : BOOLEAN]
  BY <1>1 DEF IInv, DataOK, HandsOK, Sequenced
<1>3. NewSession \in Sessions
  BY <1>1, NewSessionIsFree DEF Sequenced
<1> DEFINE h1 == [hand EXCEPT !.at = "play"]
           p == [h1 EXCEPT !.session = NewSession]
           h2 == [hand EXCEPT !.at = "cleanup"]
           h3 == [h2 EXCEPT !.session = NewSession]
           c == [h3 EXCEPT !.next = "failure"]
<1>4. \A h \in {p, c} : /\ h \in Hand /\ h.at \in {"play", "cleanup"} /\ h.session = NewSession
                        /\ h.client = hand.client /\ h.url = hand.url
  <2>1. /\ h1 \in Hand /\ h1.at = "play" /\ h1.client = hand.client /\ h1.url = hand.url
        /\ h2 \in Hand /\ h2.at = "cleanup" /\ h2.client = hand.client /\ h2.url = hand.url
    BY <1>2 DEF Hand
  <2> HIDE DEF h1, h2
  <2>2. /\ p \in Hand /\ p.at = "play" /\ p.client = hand.client /\ p.url = hand.url
        /\ p.session = NewSession
    BY <1>3, <2>1 DEF Hand
  <2>3. /\ h3 \in Hand /\ h3.at = "cleanup" /\ h3.client = hand.client /\ h3.url = hand.url
        /\ h3.session = NewSession
    BY <1>3, <2>1 DEF Hand
  <2> HIDE DEF p, h3
  <2>4. /\ c \in Hand /\ c.at = "cleanup" /\ c.client = hand.client /\ c.url = hand.url
        /\ c.session = NewSession
    BY <2>3 DEF Hand
  <2> HIDE DEF c
  <2> QED
    BY <2>2, <2>4
<1>5. hand' \in {p, c} /\ UNCHANGED <<served, tsbs, queue, tearing>>
  BY DEF LoadSession, LoadConflict, LoadFails
<1>6. /\ \E z \in {NewStreamer(hand.url), LoadStreamer(NewStreamer(hand.url))} :
            st' = [st EXCEPT ![NewSession] = z]
      /\ cache' = addToCache(hand.client, hand.url, NewSession)
  BY DEF LoadSession, LoadConflict, LoadFails
<1> HIDE DEF p, c
<1>7. /\ conf' \in Conflict /\ awaits' \in [Clients -> Waits]
      /\ ui'.at = ui.at /\ ui'.session = ui.session
      /\ ui' \in [at : {"idle", "apply", "wait", "cleanup", "cleanupWait"},
                  session : Sessions \cup {None}, asked : BOOLEAN]
  <2>1. CASE LoadConflict
    <3>1. HandleTunerConflict(hand.client, hand.isOutofSeq)
      BY <2>1 DEF LoadConflict
    <3> QED
      BY <1>2, <3>1, ConflictHandled
  <2>2. CASE UNCHANGED <<conf, awaits, ui>>
    BY <1>2, <2>2
  <2> QED
    BY <2>1, <2>2 DEF LoadSession, LoadFails
<1> QED
  BY <1>1, <1>4, <1>5, <1>6, <1>7, NewKeepsIInv

\* The session that plays goes to the list; the other one is cleaned up.
LEMMA PlayKeepsIInv ==
    ASSUME IInv, PlaySession
    PROVE  IInv'
<1> USE DEF IInv
<1>1. /\ hand.at = "play" /\ hand.session \in Registered \ served /\ Cached(hand.session)
      /\ hand \in Hand /\ hand.session # ui.session
  BY SessionNumbers DEF PlaySession, HandsOK, OwnersOK
<1>2. PICK s \in Registered : s = hand.session
  BY <1>1
<1>3. PICK o \in PlayStreamer(SetCpeStreamingSessionID(st[s])) :
        /\ st' = [st EXCEPT ![s] = o.x]
        /\ IF o.status = "Ok"
             THEN /\ served' = served \cup {s}
                  /\ hand' = AtRest
                  /\ awaits' \in {sendSse(hand.client, "signal"), awaits}
             ELSE /\ hand' = [hand EXCEPT !.at = "cleanup", !.next = "idle"]
                  /\ UNCHANGED <<served, awaits>>
  BY <1>2 DEF PlaySession
<1>4. UNCHANGED <<cache, tsbs, conf, queue, ui, tearing>>
  BY DEF PlaySession
<1>5. Moves(st[s], o.x, tsbs, tsbs')
  <2>1. Some(st[s])
    BY RegisteredIsSome
  <2>2. Same(st[s], SetCpeStreamingSessionID(st[s])) /\ Some(SetCpeStreamingSessionID(st[s]))
    BY <2>1, SetSessionIDKeeps, SameIsSome
  <2>3. Same(SetCpeStreamingSessionID(st[s]), o.x)
    BY <1>3, <2>2, PlayStreamerKeeps
  <2> QED
    BY <1>4, <2>2, <2>3, SameThenSame, SameMoves
<1>6. StreamersOK' /\ BuffersOK' /\ Registered' = Registered
  BY <1>3, <1>5, RegisteredStep
<1>7. CacheOK' /\ \A t : Cached(t) => Cached(t)'
  BY <1>4, <1>6 DEF CacheOK, Cached
<1>8. awaits' \in [Clients -> Waits]
  BY <1>3, TellTypes DEF DataOK
<1>9. DataOK'
  BY <1>4, <1>8 DEF DataOK
<1>10. CASE o.status = "Ok"
  <2>1. served' = served \cup {s} /\ hand' = AtRest
    BY <1>3, <1>10
  <2>2. hand' \in Hand /\ hand'.session = None /\ hand'.at = "idle"
    BY <1>1, <2>1, HandFields
  <2>3. HandsOK'
    BY <1>4, <2>2 DEF HandsOK
  <2>4. OwnersOK'
    BY <1>1, <1>2, <1>4, <1>6, <1>7, <2>1, <2>2 DEF OwnersOK
  <2>5. EarlierOK'
    BY <2>2 DEF EarlierOK
  <2> QED
    BY <1>6, <1>7, <1>9, <2>3, <2>4, <2>5
<1>11. CASE o.status # "Ok"
  <2>1. hand' \in Hand /\ hand'.session = s /\ hand'.at = "cleanup"
    <3> DEFINE h1 == [hand EXCEPT !.at = "cleanup"]
               h2 == [h1 EXCEPT !.next = "idle"]
    <3>1. hand' = h2
      BY <1>3, <1>11
    <3>2. h1 \in Hand /\ h1.session = s /\ h1.at = "cleanup"
      BY <1>1, <1>2 DEF Hand
    <3> HIDE DEF h1
    <3>3. h2 \in Hand /\ h2.session = s /\ h2.at = "cleanup"
      BY <3>2 DEF Hand
    <3> HIDE DEF h2
    <3> QED
      BY <3>1, <3>3
  <2>2. served' = served /\ s # None
    BY <1>3, <1>11, SessionNumbers DEF Registered
  <2>3. HandsOK'
    BY <1>4, <2>1, <2>2 DEF HandsOK
  <2>4. OwnersOK'
    BY <1>1, <1>2, <1>4, <1>6, <1>7, <2>1, <2>2 DEF OwnersOK
  <2>5. EarlierOK'
    BY <2>1 DEF EarlierOK
  <2> QED
    BY <1>6, <1>7, <1>9, <2>3, <2>4, <2>5
<1> QED
  BY <1>10, <1>11

\* The session of a required teardown goes from the list to the event thread.
LEMMA TeardownKeepsIInv ==
    ASSUME IInv, HandleTeardownRequest
    PROVE  IInv'
<1> USE DEF IInv
<1>1. /\ hand.at = "idle" /\ hand.session = None /\ queue # <<>> /\ queue' = Tail(queue)
      /\ UNCHANGED <<cache, st, tsbs, conf, ui, tearing>>
  BY DEF HandleTeardownRequest, Popped, HandsOK
<1>2. QueueOK(queue')
  BY <1>1, QueueTail DEF DataOK
<1>3. StreamersOK' /\ BuffersOK' /\ Registered' = Registered
  BY <1>1, StreamersFrame
<1>4. CacheOK' /\ \A t : Cached(t) => Cached(t)'
  BY <1>1, <1>3 DEF CacheOK, Cached
<1>5. PICK s : s = Head(queue).session
  OBVIOUS
<1>6. CASE s \in served /\ getCpeProgHandle(st[s])
  <2>1. /\ served' = served \ {s}
        /\ awaits' \in {Tell(s, "retry"), awaits}
        /\ hand' = [AtRest EXCEPT !.at = "cleanup", !.session = s, !.next = "count"]
    BY <1>5, <1>6 DEF HandleTeardownRequest
  <2>2. s \in Registered /\ s \in Sessions /\ s # None /\ s # ui.session
    BY <1>6, SessionNumbers DEF OwnersOK, Registered
  <2>3. hand' \in Hand /\ hand'.session = s /\ hand'.at = "cleanup"
    <3> DEFINE h1 == [AtRest EXCEPT !.at = "cleanup"]
               h2 == [h1 EXCEPT !.session = s]
               h3 == [h2 EXCEPT !.next = "count"]
    <3>1. hand' = h3
      BY <2>1
    <3>2. hand \in Hand
      BY DEF HandsOK
    <3>3. AtRest \in Hand
      BY <3>2, HandFields
    <3>4. h1 \in Hand /\ h1.at = "cleanup"
      BY <3>3 DEF Hand
    <3> HIDE DEF h1
    <3>5. h2 \in Hand /\ h2.at = "cleanup" /\ h2.session = s
      BY <2>2, <3>4 DEF Hand
    <3> HIDE DEF h2
    <3>6. h3 \in Hand /\ h3.session = s /\ h3.at = "cleanup"
      BY <3>5 DEF Hand
    <3> HIDE DEF h3
    <3> QED
      BY <3>1, <3>6
  <2>4. HandsOK'
    BY <1>1, <2>2, <2>3 DEF HandsOK
  <2>5. awaits' \in [Clients -> Waits]
    BY <2>1, TellTypes DEF DataOK
  <2>6. DataOK'
    BY <1>1, <1>2, <2>5 DEF DataOK
  <2>7. None \notin Registered
    BY SessionNumbers DEF Registered
  <2>8. OwnersOK'
    BY <1>1, <1>3, <1>4, <1>6, <2>1, <2>2, <2>3, <2>7 DEF OwnersOK
  <2>9. EarlierOK'
    BY <2>3 DEF EarlierOK
  <2> QED
    BY <1>3, <1>4, <2>4, <2>6, <2>8, <2>9
<1>7. CASE ~(s \in served /\ getCpeProgHandle(st[s]))
  <2>1. UNCHANGED <<served, awaits, hand>>
    BY <1>5, <1>7 DEF HandleTeardownRequest
  <2>2. DataOK'
    BY <1>1, <1>2, <2>1 DEF DataOK
  <2> QED
    BY <1>1, <2>1, <2>2, OwnersFrame
<1> QED
  BY <1>6, <1>7

\* The event thread cleans up the session that it has.
LEMMA CleanUpKeepsIInv ==
    ASSUME IInv, CleanUp
    PROVE  IInv'
<1> USE DEF IInv
<1>1. PICK s \in Registered \ served : s = hand.session /\ s # ui.session
  BY DEF CleanUp, HandsOK, OwnersOK
<1>2. /\ cleanupStreamingSession(s)
      /\ hand' \in {[AtRest EXCEPT !.at = "count"], AtRest}
      /\ UNCHANGED <<served, conf, queue, ui>>
      /\ \E t, said, c : awaits' \in {Tell(t, said), sendSse(c, said)}
  BY <1>1 DEF CleanUp
<1>3. /\ StreamersOK' /\ BuffersOK' /\ CacheOK' /\ cache' \in Seq(CacheEntry)
      /\ tearing' \subseteq Sessions /\ Registered' = Registered \ {s}
      /\ \A t : t # s /\ Cached(t) => Cached(t)'
  <2>1. cache \in Seq(CacheEntry) /\ tearing \subseteq Sessions
    BY DEF DataOK
  <2> QED
    BY <1>2, <2>1, CleanUps
<1>4. hand' \in Hand /\ hand'.session = None /\ hand'.at \in {"idle", "count"}
  <2>1. hand \in Hand
    BY DEF HandsOK
  <2>2. AtRest \in Hand /\ AtRest.session = None /\ AtRest.at = "idle"
    BY <2>1, HandFields
  <2> QED
    BY <1>2, <2>2 DEF Hand
<1>5. HandsOK'
  BY <1>2, <1>4 DEF HandsOK
<1>6. awaits' \in [Clients -> Waits]
  <2>1. PICK t, said, c : awaits' = Tell(t, said) \/ awaits' = sendSse(c, said)
    BY <1>2
  <2>2. awaits \in [Clients -> Waits]
    BY DEF DataOK
  <2>3. Tell(t, said) \in [Clients -> Waits] /\ sendSse(c, said) \in [Clients -> Waits]
    BY <2>2, TellTypes
  <2> QED
    BY <2>1, <2>3
<1>7. DataOK'
  BY <1>2, <1>3, <1>6 DEF DataOK
<1>8. OwnersOK'
  BY <1>1, <1>2, <1>3, <1>4 DEF OwnersOK
<1>9. EarlierOK'
  BY <1>4 DEF EarlierOK
<1> QED
  BY <1>3, <1>5, <1>7, <1>8, <1>9

\* The count of sessions to be torn down touches no session.
LEMMA CountDownKeepsIInv ==
    ASSUME IInv, CountDown
    PROVE  IInv'
<1> USE DEF IInv
<1>1. /\ hand.session = None /\ hand' = AtRest
      /\ UNCHANGED <<served, cache, st, tsbs, queue, ui, tearing, awaits>>
  BY DEF CountDown, HandsOK
<1>2. conf' \in Conflict
  <2> DEFINE m == conf.OutofSeqCount
             n == IF m > 0 THEN m - 1 ELSE m
  <2>1. conf' = [conf EXCEPT !.OutofSeqCount = n]
    BY DEF CountDown
  <2>2. conf \in Conflict /\ m \in Nat
    BY DEF DataOK, Conflict
  <2> HIDE DEF m
  <2>3. n \in Nat
    BY <2>2
  <2> HIDE DEF n
  <2> QED
    BY <2>1, <2>2, <2>3, ConflictFields
<1>3. hand' \in Hand /\ hand'.session = None /\ hand'.at = "idle"
  BY <1>1, HandFields DEF HandsOK
<1>4. StreamersOK' /\ BuffersOK' /\ Registered' = Registered
  BY <1>1, StreamersFrame
<1>5. DataOK' /\ CacheOK'
  BY <1>1, <1>2, <1>4 DEF DataOK, CacheOK
<1>6. HandsOK'
  BY <1>1, <1>3 DEF HandsOK
<1>7. OwnersOK' /\ EarlierOK'
  BY <1>1, <1>3, <1>4 DEF OwnersOK, EarlierOK, Cached
<1> QED
  BY <1>4, <1>5, <1>6, <1>7

\* Every step of the event thread keeps the invariant.
LEMMA EventThreadKeepsIInv ==
    ASSUME IInv, EventThread
    PROVE  IInv'
BY PendingKeepsIInv, ServeKeepsIInv, EarlierKeepsIInv, GoneKeepsIInv, NotManagedKeepsIInv,
   LoadKeepsIInv, PlayKeepsIInv, TeardownKeepsIInv, CleanUpKeepsIInv, CountDownKeepsIInv
   DEF EventThread

------------------------------------------------------------------------------
(* The scheduler's thread *)

\* The scheduler's thread goes on, and has no session before or after.
LEMMA UiFields ==
    ASSUME HandsOK, NEW a \in {"idle", "apply", "wait"}, NEW b \in BOOLEAN
    PROVE  /\ [ui EXCEPT !.at = a, !.asked = b]
                 \in [at : {"idle", "apply", "wait", "cleanup", "cleanupWait"},
                      session : Sessions \cup {None}, asked : BOOLEAN]
           /\ [ui EXCEPT !.at = a, !.asked = b].at = a
           /\ [ui EXCEPT !.at = a, !.asked = b].session = ui.session
BY DEF HandsOK

\* A step of the scheduler's thread that takes no session may mark one.
LEMMA UiKeepsIInv ==
    ASSUME IInv, ui.session = None,
           NEW a \in {"idle", "apply", "wait"}, NEW b \in BOOLEAN,
           ui' = [ui EXCEPT !.at = a, !.asked = b],
           cache' = cache \/ \E s \in Sessions : cache' \in Marks(s),
           conf' \in Conflict, awaits' \in [Clients -> Waits], tearing' \in SUBSET Sessions,
           UNCHANGED <<served, st, tsbs, queue, hand>>
    PROVE  IInv'
<1> USE DEF IInv
<1>1. StreamersOK' /\ BuffersOK' /\ Registered' = Registered
  BY StreamersFrame
<1>2. /\ cache' \in Seq(CacheEntry) /\ CacheOK'
      /\ \A t : Cached(t) => Cached(t)'
      /\ \A t, c : Known(t, c) => Known(t, c)'
  <2>1. cache \in Seq(CacheEntry)
    BY DEF DataOK
  <2>2. \E s : cache' \in Marks(s) \cup {cache}
    OBVIOUS
  <2> QED
    BY <1>1, <2>1, <2>2, CacheMarks
<1>3. /\ ui' \in [at : {"idle", "apply", "wait", "cleanup", "cleanupWait"},
                  session : Sessions \cup {None}, asked : BOOLEAN]
      /\ ui'.at = a /\ ui'.session = None
  BY UiFields
<1>4. HandsOK'
  BY <1>3 DEF HandsOK
<1>5. DataOK'
  BY <1>2 DEF DataOK
<1>6. OwnersOK' /\ EarlierOK'
  BY <1>1, <1>2, <1>3, OwnersStay
<1> QED
  BY <1>1, <1>2, <1>4, <1>5, <1>6

\* The user's choice marks a session at most.
LEMMA ResolutionKeepsIInv ==
    ASSUME IInv, Resolution
    PROVE  IInv'
<1>1. /\ ui.session = None /\ ui' = [ui EXCEPT !.at = "apply", !.asked = FALSE]
      /\ UNCHANGED <<served, st, tsbs, queue, hand>>
      /\ awaits' \in [Clients -> Waits] /\ tearing' \in SUBSET Sessions
  BY DEF Resolution, CancelRequest, CancelGateway, CancelClient, Resolved, IInv, HandsOK, DataOK
<1>2. conf' \in Conflict
  <2>1. conf' = conf \/ conf' = [conf EXCEPT !.isCancelled = TRUE]
    BY DEF Resolution, CancelRequest, CancelGateway, CancelClient
  <2> QED
    BY <2>1, ConflictFields DEF IInv, DataOK
<1>3. cache' = cache \/ \E s \in Sessions : cache' \in Marks(s)
  <2>1. CASE CancelRequest
    <3>1. hand.at = "cleanup" => hand.session \in Sessions
      BY DEF IInv, HandsOK, Hand
    <3> QED
      BY <2>1, <3>1 DEF CancelRequest, Marks, MarkedCancelled
  <2>2. CASE CancelGateway
    BY <2>2 DEF CancelGateway
  <2>3. ASSUME NEW s \in Sessions, CancelClient(s)
        PROVE  cache' \in Marks(s)
    BY <2>3 DEF CancelClient, Marks, MarkedCancelled
  <2> QED
    BY <2>1, <2>2, <2>3 DEF Resolution
<1> QED
  BY <1>1, <1>2, <1>3, UiKeepsIInv

\* The end of a resolution.
LEMMA DeniedKeepsIInv ==
    ASSUME IInv, ApplyDenied \/ ApplyDone
    PROVE  IInv'
<1>1. /\ ui.session = None /\ ui' = [ui EXCEPT !.at = "idle"]
      /\ UNCHANGED <<served, cache, st, tsbs, queue, hand>>
      /\ tearing' \in SUBSET Sessions
  BY DEF ApplyDenied, ApplyDone, Applied, IInv, HandsOK, DataOK
<1>2. ui' = [ui EXCEPT !.at = "idle", !.asked = ui.asked] /\ ui.asked \in BOOLEAN
  BY <1>1 DEF IInv, HandsOK
<1>3. awaits' \in [Clients -> Waits]
  BY TellTypes DEF ApplyDenied, ApplyDone, IInv, DataOK
<1>4. conf' \in Conflict
  <2> DEFINE k1 == [conf EXCEPT !.isConflict = FALSE]
             k2 == [k1 EXCEPT !.isCancelled = FALSE]
  <2>1. conf' \in {setConflictStatus(conf, "Resolved"), setConflictStatus(k2, "Resolved")}
    BY DEF ApplyDenied, ApplyDone
  <2>2. conf \in Conflict
    BY DEF IInv, DataOK
  <2>3. k1 \in Conflict
    BY <2>2, ConflictFields
  <2> HIDE DEF k1
  <2>4. k2 \in Conflict
    BY <2>3, ConflictFields
  <2> HIDE DEF k2
  <2> QED
    BY <2>1, <2>2, <2>4, ConflictTypes DEF ConflictStates
<1> QED
  BY <1>1, <1>2, <1>3, <1>4, UiKeepsIInv

\* The tuner that the thread waits for is free.
LEMMA TunerKeepsIInv ==
    ASSUME IInv, TunerIsFree
    PROVE  IInv'
<1>1. /\ ui.session = None /\ ui' = [ui EXCEPT !.at = "apply"]
      /\ UNCHANGED <<served, cache, st, tsbs, queue, hand, conf, awaits, tearing>>
  BY DEF TunerIsFree, IInv, HandsOK
<1>2. ui' = [ui EXCEPT !.at = "apply", !.asked = ui.asked] /\ ui.asked \in BOOLEAN
  BY <1>1 DEF IInv, HandsOK
<1>3. conf' \in Conflict /\ awaits' \in [Clients -> Waits] /\ tearing' \in SUBSET Sessions
  BY <1>1 DEF IInv, DataOK
<1> QED
  BY <1>1, <1>2, <1>3, UiKeepsIInv

\* The first of the entries that are cancelled is one.
LEMMA FirstCancelled ==
    ASSUME cache \in Seq(CacheEntry), CancelledEntries # {}
    PROVE  \E i \in 1..Len(cache) :
              /\ cache[i].isCancelled
              /\ cache[CHOOSE k \in CancelledEntries : \A j \in CancelledEntries : k <= j]
                    = cache[i]
<1> DEFINE T == CancelledEntries
<1>1. DOMAIN cache = 1..Len(cache) /\ Len(cache) \in Nat
  BY LenProperties
<1>2. T \in SUBSET Nat /\ \A i \in T : i \in 1..Len(cache) /\ cache[i].isCancelled
  BY <1>1 DEF CancelledEntries
<1>3. \E n \in T : \A m \in T : n <= m
  BY <1>2, Least
<1>4. (CHOOSE k \in T : \A j \in T : k <= j) \in T
  BY <1>3
<1> QED
  BY <1>2, <1>4

\* The session that the user lets go is asked to stop, or goes from the list to
\* the scheduler's thread.
LEMMA ApplyKeepsIInv ==
    ASSUME IInv, ApplyToSession
    PROVE  IInv'
<1> USE DEF IInv
<1>1. ui.at = "apply" /\ ui.session = None /\ CancelledEntries # {} /\ cache \in Seq(CacheEntry)
  BY DEF ApplyToSession, HandsOK, DataOK
<1>2. PICK i \in 1..Len(cache) :
        cache[CHOOSE k \in CancelledEntries : \A j \in CancelledEntries : k <= j] = cache[i]
  BY <1>1, FirstCancelled
<1>3. PICK s \in Registered : s = cache[i].session
  BY DEF CacheOK
<1>4. s \in Sessions /\ s # None
  BY SessionNumbers DEF Registered
<1> DEFINE streams == getCpeProgHandle(st[s])
           wait == [ui EXCEPT !.at = "wait"]
           goes == [ui EXCEPT !.at = IF streams THEN "wait" ELSE @]
           taken(next) == [ui EXCEPT !.at = next, !.session = s]
<1>5. /\ UNCHANGED <<cache, st, tsbs, queue, hand>>
      /\ awaits' = Tell(s, "signal")
      /\ conf' = IF streams THEN [conf EXCEPT !.mTunerFreeFlag = FALSE] ELSE conf
      /\ \/ tearing' = tearing \cup {s} /\ ui' = wait /\ served' = served
         \/ \E next \in {"cleanup", "cleanupWait"} :
               /\ served' = served \ {s} /\ tearing' = tearing
               /\ ui' = IF s \in served THEN taken(next) ELSE goes
  <2> HIDE DEF wait, goes, taken
  <2>1. s = cache[CHOOSE k \in CancelledEntries : \A j \in CancelledEntries : k <= j].session
    BY <1>2, <1>3
  <2> DEFINE local(next) == /\ served' = served \ {s}
                            /\ ui' = IF s \in served THEN taken(next) ELSE goes
                            /\ UNCHANGED tearing
  <2>2. /\ conf' = IF streams THEN [conf EXCEPT !.mTunerFreeFlag = FALSE] ELSE conf
        /\ awaits' = Tell(s, "signal")
        /\ \/ tearing' = tearing \cup {s} /\ ui' = wait /\ UNCHANGED served
           \/ local("cleanupWait") \/ local("cleanup")
    BY <2>1 DEF ApplyToSession, wait, goes, taken
  <2>3. UNCHANGED <<cache, st, tsbs, queue, hand>>
    BY DEF ApplyToSession
  <2> QED
    BY <2>2, <2>3
<1>10. /\ conf' = conf \/ conf' = [conf EXCEPT !.mTunerFreeFlag = FALSE]
       /\ tearing' \in {tearing, tearing \cup {s}}
       /\ \/ served' = served /\ ui' \in {ui, wait}
          \/ /\ s \in served /\ served' = served \ {s}
             /\ \E next \in {"cleanup", "cleanupWait"} : ui' = taken(next)
  <2>1. goes \in {ui, wait}
    <3>1. [ui EXCEPT !.at = @] = ui
      BY DEF HandsOK
    <3> QED
      BY <3>1
  <2>2. s \notin served => served \ {s} = served
    OBVIOUS
  <2> HIDE DEF wait, goes, taken
  <2>3. s \notin served /\ served' = served \ {s} /\ ui' = goes
            => served' = served /\ ui' \in {ui, wait}
    BY <2>1, <2>2
  <2> QED
    BY <1>5, <2>3
<1>6. conf' \in Conflict /\ awaits' \in [Clients -> Waits] /\ tearing' \in SUBSET Sessions
  <2>1. conf' \in Conflict
    BY <1>10, ConflictFields DEF DataOK
  <2>2. awaits' \in [Clients -> Waits]
    BY <1>5, TellTypes DEF DataOK
  <2> QED
    BY <1>4, <1>10, <2>1, <2>2 DEF DataOK
<1>7. CASE served' = served /\ ui' \in {ui, [ui EXCEPT !.at = "wait"]}
  <2>1. /\ ui.asked \in BOOLEAN
        /\ \E a \in {"idle", "apply", "wait"} : ui' = [ui EXCEPT !.at = a, !.asked = ui.asked]
    BY <1>1, <1>7 DEF HandsOK
  <2> QED
    BY <1>1, <1>5, <1>6, <1>7, <2>1, UiKeepsIInv
<1>8. CASE /\ s \in served /\ served' = served \ {s}
           /\ \E next \in {"cleanup", "cleanupWait"} :
                 ui' = [ui EXCEPT !.at = next, !.session = s]
  <2>1. PICK next \in {"cleanup", "cleanupWait"} : ui' = [ui EXCEPT !.at = next, !.session = s]
    BY <1>8
  <2>2. /\ ui' \in [at : {"idle", "apply", "wait", "cleanup", "cleanupWait"},
                    session : Sessions \cup {None}, asked : BOOLEAN]
        /\ ui'.at = next /\ ui'.session = s
    BY <1>4, <2>1 DEF HandsOK
  <2>3. HandsOK'
    BY <1>4, <1>5, <2>2 DEF HandsOK
  <2>4. StreamersOK' /\ BuffersOK' /\ Registered' = Registered
    BY <1>5, StreamersFrame
  <2>5. CacheOK' /\ DataOK'
    BY <1>5, <1>6, <2>4 DEF CacheOK, DataOK
  <2>6. hand.session # s /\ None \notin Registered
    BY <1>4, <1>8, SessionNumbers DEF OwnersOK, Registered
  <2>7. OwnersOK'
    BY <1>1, <1>3, <1>4, <1>5, <1>8, <2>2, <2>4, <2>6 DEF OwnersOK, Cached
  <2>8. EarlierOK'
    BY <1>5, <1>8 DEF EarlierOK, Known
  <2> QED
    BY <2>3, <2>4, <2>5, <2>7, <2>8
<1> QED
  BY <1>10, <1>7, <1>8

\* The scheduler's thread cleans up the session that it has.
LEMMA LocalKeepsIInv ==
    ASSUME IInv, handleLocalTeardown
    PROVE  IInv'
<1> USE DEF IInv
<1>1. PICK s \in Registered \ served : s = ui.session /\ s # hand.session
  BY DEF handleLocalTeardown, HandsOK, OwnersOK
<1>2. /\ cleanupStreamingSession(s)
      /\ awaits' = Tell(s, RetrySignal(s))
      /\ \E a \in {"apply", "wait"} : ui' = [ui EXCEPT !.at = a, !.session = None]
      /\ UNCHANGED <<served, conf, queue, hand>>
  BY <1>1 DEF handleLocalTeardown
<1>3. /\ StreamersOK' /\ BuffersOK' /\ CacheOK' /\ cache' \in Seq(CacheEntry)
      /\ tearing' \subseteq Sessions /\ Registered' = Registered \ {s}
      /\ \A t : t # s /\ Cached(t) => Cached(t)'
      /\ \A t, c : t # s /\ Known(t, c) => Known(t, c)'
  <2>1. cache \in Seq(CacheEntry) /\ tearing \subseteq Sessions
    BY DEF DataOK
  <2> QED
    BY <1>2, <2>1, CleanUps
<1>4. /\ ui' \in [at : {"idle", "apply", "wait", "cleanup", "cleanupWait"},
                  session : Sessions \cup {None}, asked : BOOLEAN]
      /\ ui'.at \in {"apply", "wait"} /\ ui'.session = None
  BY <1>2 DEF HandsOK
<1>5. HandsOK'
  BY <1>2, <1>4 DEF HandsOK
<1>6. awaits' \in [Clients -> Waits]
  <2>1. awaits \in [Clients -> Waits]
    BY DEF DataOK
  <2> QED
    BY <1>2, <2>1, TellTypes
<1>7. DataOK'
  BY <1>2, <1>3, <1>6 DEF DataOK
<1>8. OwnersOK'
  <2>1. hand.at = "play" => Cached(hand.session)'
    BY <1>1, <1>2, <1>3 DEF OwnersOK, Cached
  <2> QED
    BY <1>1, <1>2, <1>3, <1>4, <2>1 DEF OwnersOK
<1>9. EarlierOK'
  <2>1. hand.at = "sequence" => \A t \in hand.left \cap served : Known(t, hand.client)'
    BY <1>1, <1>2, <1>3 DEF EarlierOK, Known
  <2> QED
    BY <1>2, <2>1 DEF EarlierOK
<1> QED
  BY <1>3, <1>5, <1>7, <1>8, <1>9

\* Every step of the scheduler's thread keeps the invariant.
LEMMA SchedulerKeepsIInv ==
    ASSUME IInv, Scheduler
    PROVE  IInv'
BY DeniedKeepsIInv, ApplyKeepsIInv, LocalKeepsIInv, TunerKeepsIInv DEF Scheduler

------------------------------------------------------------------------------
(* The invariant *)

\* At the start there are no sessions.
LEMMA InitIInv ==
    ASSUME Init
    PROVE  IInv
<1>1. <<>> \in Seq(StreamerEvents) /\ <<>> \in Seq(CacheEntry) /\ <<>> \in Seq(Requests)
      /\ Len(<<>>) = 0
  OBVIOUS
<1>2. /\ NoStreamer.kind = "none" /\ NoStreamer.mTsbNumber = NoTsb /\ StreamerOK(NoStreamer)
      /\ NoStreamer \in Streamer
  BY <1>1 DEF NoStreamer, NewStreamer, StreamerOK, Streamer, StreamerStates, HnSessionStates
<1>3. StreamersOK /\ Registered = {}
  BY <1>2 DEF Init, StreamersOK, Registered
<1>4. BuffersOK
  BY <1>2 DEF Init, BuffersOK, AllAvailable, Users
<1>5. DataOK
  <2>1. conf \in Conflict
    BY DEF Init, NoConflict, Conflict, ConflictStates
  <2>2. QueueOK(queue)
    BY <1>1 DEF Init, QueueOK
  <2> QED
    BY <1>1, <2>1, <2>2 DEF Init, DataOK, Waits
<1>6. HandsOK
  BY DEF Init, HandsOK, Hand, AtRest
<1>7. CacheOK
  BY <1>1 DEF Init, CacheOK
<1>8. OwnersOK /\ EarlierOK
  BY <1>3 DEF Init, OwnersOK, EarlierOK, AtRest
<1> QED
  BY <1>3, <1>4, <1>5, <1>6, <1>7, <1>8 DEF IInv

\* Every step keeps the invariant.
LEMMA NextIInv ==
    ASSUME IInv, [Next]_vars
    PROVE  IInv'
<1>1. CASE Next
  BY <1>1, PlatformKeepsIInv, EventThreadKeepsIInv, ResolutionKeepsIInv, SchedulerKeepsIInv,
     StreamersKeepIInv DEF Next
<1>2. CASE UNCHANGED vars
  <2>1. UNCHANGED <<served, cache, st, tsbs, hand, ui, conf, queue, awaits, tearing>>
    BY <1>2 DEF vars
  <2>2. DataOK'
    BY <2>1 DEF IInv, DataOK
  <2> QED
    BY <2>1, <2>2, OwnersFrame DEF IInv
<1> QED
  BY <1>1, <1>2

\* The invariant that the theorems rest on.
LEMMA InductiveInvariant == Spec => []IInv
<1>1. Init => IInv
  BY InitIInv
<1>2. IInv /\ [Next]_vars => IInv'
  BY NextIInv
<1> QED
  BY <1>1, <1>2, PTL DEF Spec

------------------------------------------------------------------------------
(* The theorems *)

\* The invariant gives the types, and below, the owners.
LEMMA IInvTypes ==
    ASSUME IInv
    PROVE  TypeOK
<1> USE DEF IInv
<1>1. served \subseteq Sessions /\ tearing \subseteq Sessions
  BY DEF DataOK, OwnersOK, Registered
<1>2. \A i \in DOMAIN cache : cache[i].client \in Clients /\ cache[i].session \in Sessions
  <2>1. cache \in Seq(CacheEntry)
    BY DEF DataOK
  <2>2. \A i \in DOMAIN cache : cache[i] \in CacheEntry
    BY <2>1, LenProperties, ElementOfSeq
  <2> QED
    BY <2>2 DEF CacheEntry
<1>3. ASSUME NEW s \in Sessions
      PROVE  /\ st[s].mState \in StreamerStates /\ st[s].mReqState \in HnSessionStates
             /\ \A i \in DOMAIN st[s].queue : st[s].queue[i] \in StreamerEvents
  <2>1. st[s] \in Streamer
    BY DEF StreamersOK
  <2>2. /\ st[s].mState \in StreamerStates /\ st[s].mReqState \in HnSessionStates
        /\ st[s].queue \in Seq(StreamerEvents)
    BY <2>1 DEF Streamer
  <2>3. \A i \in DOMAIN st[s].queue : st[s].queue[i] \in StreamerEvents
    BY <2>2, LenProperties, ElementOfSeq
  <2> QED
    BY <2>2, <2>3
<1>4. conf.mConflictState \in ConflictStates /\ awaits \in [Clients -> Waits]
  BY DEF DataOK, Conflict
<1> QED
  BY <1>1, <1>2, <1>3, <1>4 DEF TypeOK

\* Every variable of the server keeps to its values (MrdvrServer's TypeOK).
THEOREM TypeCorrect == Spec => []TypeOK
BY InductiveInvariant, IInvTypes, PTL

\* Whom the cache knows has an entry.
LEMMA CachedEntry ==
    ASSUME cache \in Seq(CacheEntry), NEW s, NEW c
    PROVE  /\ Cached(s) => Entry(s) # {}
           /\ Known(s, c) => \E e \in Entry(s) : e.client = c
<1>1. DOMAIN cache = 1..Len(cache)
  BY LenProperties
<1> QED
  BY <1>1 DEF Cached, Known, Entry

\* A set of one element has the size one.
LEMMA OneIsOne ==
    ASSUME NEW S, NEW x \in S, \A y \in S : y = x
    PROVE  Cardinality(S) = 1
<1>1. S = {x}
  OBVIOUS
<1> QED
  BY <1>1, FS_Singleton

\* The invariant counts one owner, and one session for a buffer.
LEMMA IInvOwned ==
    ASSUME IInv
    PROVE  SessionsAreOwned
<1> USE DEF IInv
<1>1. ServedSessionsAreOpen
  <2>1. cache \in Seq(CacheEntry)
    BY DEF DataOK
  <2> QED
    BY <2>1, CachedEntry DEF OwnersOK, ServedSessionsAreOpen
<1>2. ASSUME NEW s \in Registered
      PROVE  Cardinality({p \in {"list", "event", "scheduler"} :
                             CASE p = "list" -> s \in served
                               [] p = "event" -> hand.session = s
                               [] OTHER -> ui.session = s}) = 1
  <2> DEFINE owns(p) == CASE p = "list" -> s \in served
                          [] p = "event" -> hand.session = s
                          [] OTHER -> ui.session = s
             S == {p \in {"list", "event", "scheduler"} : owns(p)}
  <2>1. s # None
    BY SessionNumbers DEF Registered
  <2>2. /\ s \in served \/ hand.session = s \/ ui.session = s
        /\ s \in served => hand.session # s /\ ui.session # s
        /\ hand.session = s => ui.session # s
    BY <2>1 DEF OwnersOK
  <2>3. /\ owns("list") <=> s \in served
        /\ owns("event") <=> hand.session = s
        /\ owns("scheduler") <=> ui.session = s
    OBVIOUS
  <2> HIDE DEF owns
  <2>4. \E p \in S : \A q \in S : q = p
    BY <2>2, <2>3
  <2> HIDE DEF S
  <2>5. Cardinality(S) = 1
    BY <2>4, OneIsOne
  <2> QED
    BY <2>5 DEF S, owns
<1>3. ASSUME NEW n \in Tsbs, tsbs[n] # "free"
      PROVE  Cardinality({s \in Registered : st[s].mTsbNumber = n}) = 1
  <2>1. PICK s \in Sessions : st[s].mTsbNumber = n
    BY <1>3 DEF BuffersOK
  <2>2. n # NoTsb
    BY TsbNumbers
  <2>3. s \in Registered
    BY <2>1, <2>2 DEF Registered, StreamersOK, StreamerOK, NoStreamer, NewStreamer
  <2>4. \A t \in Registered : st[t].mTsbNumber = n => t = s
    BY <2>1, <2>2 DEF BuffersOK, Registered
  <2> QED
    BY <2>1, <2>3, <2>4, OneIsOne
<1> QED
  BY <1>1, <1>2, <1>3 DEF SessionsAreOwned, SessionsHaveOneOwner, BuffersHaveSessions

\* A served session is open and known; whoever tears down a session, the event
\* thread or the scheduler's, is its only owner; and a buffer that is taken is of
\* one session (mrdvrserver.cpp:938, 1116; MrdvrTsbStreamer.cpp:918).
THEOREM SessionsOwned == Spec => []SessionsAreOwned
BY InductiveInvariant, IInvOwned, PTL

\* The three steps that take a session from the list have their reason.
LEMMA CutSteps ==
    ASSUME IInv, [Next]_vars
    PROVE  CutForAReason
<1>1. CASE HandleTeardownRequest
  BY <1>1 DEF HandleTeardownRequest, Popped, CutForAReason
<1>2. ASSUME NEW s \in Sessions, StopEarlier(s)
      PROVE  CutForAReason
  <2>1. hand.at = "sequence" /\ s \in hand.left /\ served \ {s} \subseteq served'
    BY <1>2 DEF StopEarlier
  <2>2. s \in served => \E e \in Entry(s) : e.client = hand.client
    <3>1. s \in served => Known(s, hand.client)
      BY <2>1 DEF IInv, EarlierOK
    <3> QED
      BY <3>1, CachedEntry DEF IInv, DataOK
  <2> QED
    BY <2>1, <2>2 DEF CutForAReason
<1>3. CASE ApplyToSession
  <2>1. ui.at = "apply" /\ CancelledEntries # {} /\ cache \in Seq(CacheEntry)
    BY <1>3 DEF ApplyToSession, IInv, DataOK
  <2>2. PICK i \in 1..Len(cache) :
          /\ cache[i].isCancelled
          /\ cache[CHOOSE k \in CancelledEntries : \A j \in CancelledEntries : k <= j] = cache[i]
    BY <2>1, FirstCancelled
  <2>3. served \ {cache[i].session} \subseteq served'
    BY <1>3, <2>2 DEF ApplyToSession
  <2>4. cache[i] \in Entry(cache[i].session)
    BY <2>1, LenProperties DEF Entry
  <2> QED
    BY <2>1, <2>2, <2>3, <2>4 DEF CutForAReason
<1>4. CASE served \subseteq served'
  BY <1>4 DEF CutForAReason
<1>5. Platform \/ Resolution \/ Streamers => served \subseteq served'
  BY DEF Platform, ServerManagerCallback, ClientLeaves, TeardownRequired,
         HandleTunerFreeNotification, GatewayTunes, NotifyRecordingStop, Resolution,
         CancelRequest, CancelGateway, CancelClient, Streamers, StreamerThread, SourceLocks,
         TablesAreReady, BufferIsFilled, PsiTimer, TunerIsGranted, ServiceChanges, PostTo
<1>6. EventThread => \/ served \subseteq served' \/ HandleTeardownRequest
                     \/ \E s \in Sessions : StopEarlier(s)
  BY DEF EventThread, HandlePendingRequest, HandleServeRequest, EarlierGone, NotManaged,
         LoadSession, LoadConflict, LoadFails, PlaySession, CleanUp, CountDown
<1>7. Scheduler => served \subseteq served' \/ ApplyToSession
  BY DEF Scheduler, ApplyDenied, ApplyDone, Applied, handleLocalTeardown, TunerIsFree
<1>8. UNCHANGED vars => served \subseteq served'
  BY DEF vars
<1> QED
  BY <1>1, <1>2, <1>3, <1>4, <1>5, <1>6, <1>7, <1>8 DEF Next

\* A session leaves the list for a teardown, a newer request of its own client, or
\* because the user let it go: never for another client's request
\* (mrdvrserver.cpp:938, 1116, 1954).
THEOREM CutsHaveReasons == Spec => SessionsAreCutForAReason
<1>1. IInv /\ [Next]_vars => [CutForAReason]_vars
  BY CutSteps
<1> QED
  BY <1>1, InductiveInvariant, PTL DEF Spec, SessionsAreCutForAReason
==============================================================================
