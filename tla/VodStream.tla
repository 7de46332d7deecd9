----------------------------- MODULE VodStream ------------------------------
(***************************************************************************)
(* The stream control of a movie (VOD_StreamControl.cpp,                   *)
(* SeaChange_StreamControl.cpp) and the stream server at the other end of  *)
(* its TCP connection: play and pause requests one way, their replies and  *)
(* the end of the stream the other way, in order and without loss until    *)
(* the connection breaks.  The control reads ReadSize bytes at a time, and *)
(* a message arrives whole.  Speeds are numerators over SpeedUnit, 0 is a  *)
(* pause; positions and the polling of speed and position are left out.    *)
(* Bounds: StreamFailLimit stands for the 100 failed reads; an end of the  *)
(* stream has a cost of the Budget.                                        *)
(***************************************************************************)
EXTENDS OnDemandLoop, Integers

CONSTANT StreamFailLimit

VARIABLES strm,        \* the stream control
          toStream,    \* the requests the server has not read
          fromStream,  \* the messages the control has not read
          streamer     \* the speed of the server

streamVars == <<strm, toStream, fromStream, streamer>>

SpeedUnit == 100
Forward == 750
Rewind == -750

NoStream == [exists |-> FALSE, set |-> FALSE, socketFd |-> "none", numerator |-> SpeedUnit,
             retstatus |-> "LSC_OK", failCount |-> 0, cut |-> 0, sent |-> SpeedUnit,
             moved |-> FALSE, lost |-> FALSE]

\* cut is how much of the first message was read with the one before it, in
\* bytes.  The rest is for the properties: lost says that a message was; sent
\* is the last speed that was sent, and moved that a position, which resets the
\* speed, has been sent after it.
NewStream == [NoStream EXCEPT !.exists = TRUE]

\* The replies and the end of the stream: a header of eight bytes, position,
\* speed and mode.
LSC_HEADER_SIZE == 8
ReplySize == LSC_HEADER_SIZE + 4 + 2 + 2 + 1
ReadSize == 20

StreamStatuses == {"LSC_OK", "LSC_BAD_SCALE", "LSC_SERVER_ERROR"}
Scales == {Rewind, 0, SpeedUnit, Forward}

StreamTypeOK ==
    /\ strm.exists \in BOOLEAN /\ strm.set \in BOOLEAN
    /\ strm.socketFd \in {"none", "open", "broken"}
    /\ strm.numerator \in Scales /\ strm.sent \in Scales /\ strm.moved \in BOOLEAN
    /\ strm.retstatus \in StreamStatuses
    /\ strm.failCount \in Nat
    /\ strm.cut \in 0..ReplySize - 1 /\ strm.lost \in BOOLEAN
    /\ toStream \in Seq(Scales)
    /\ \A i \in DOMAIN fromStream : /\ fromStream[i].type \in {"reply", "LSC_DONE"}
                                    /\ fromStream[i].num \in Scales
    /\ streamer \in Scales

StreamInit ==
    /\ strm = NoStream
    /\ toStream = <<>> /\ fromStream = <<>>
    /\ streamer = 0

------------------------------------------------------------------------------
(* Requests: the control and the requests in flight as b.strm and b.out *)

\* What StreamSetSpeed makes of a numerator: the quotient is an integer.
Scale(num) ==
    CASE num \div SpeedUnit = 1 -> SpeedUnit
      [] num \div SpeedUnit > 1 -> Forward
      [] OTHER -> Rewind

Send(b, request) ==
    IF b.strm.socketFd = "none" THEN b ELSE [b EXCEPT !.out = Append(@, request)]

\* The first request connects to the server, which may fail.
StreamPlay(b, connects) ==
    LET s == IF b.strm.set THEN b.strm
             ELSE [b.strm EXCEPT !.set = TRUE,
                                 !.socketFd = IF connects THEN "open" ELSE "none"]
    IN  Send([b EXCEPT !.strm = s], s.numerator)

StreamSetSpeed(b, num) ==
    StreamPlay([b EXCEPT !.strm.numerator = Scale(num), !.strm.sent = Scale(num),
                         !.strm.moved = FALSE], TRUE)

StreamPause(b) == Send([b EXCEPT !.strm.sent = 0, !.strm.moved = FALSE], 0)

StreamSetNPT(b, connects) ==
    StreamPlay([b EXCEPT !.strm.numerator = SpeedUnit, !.strm.moved = TRUE], connects)

StreamTearDown ==
    /\ strm' = [strm EXCEPT !.socketFd = "none", !.cut = 0]
    /\ toStream' = <<>> /\ fromStream' = <<>>
    /\ streamer' = 0

------------------------------------------------------------------------------
(* The loop reads the socket, without the controller's mutex *)

\* How far a read comes, from the beginning of the first message.
BytesRead ==
    LET arrived == ReplySize * Len(fromStream)
    IN  IF strm.cut + ReadSize < arrived THEN strm.cut + ReadSize ELSE arrived

AfterRead == [strm EXCEPT !.failCount = 0, !.cut = BytesRead % ReplySize,
                          !.lost = @ \/ BytesRead % ReplySize # 0]

HandleDone(m) ==
    /\ strm' = [AfterRead EXCEPT !.retstatus = m.status]
    /\ queueEvent(IF strm.numerator < 0 THEN "PlayBOF" ELSE "PlayEOF")

\* Mutant: the speed in the reply is not taken.
HandleReplyStatus(m) ==
    /\ strm' = [AfterRead EXCEPT !.retstatus = m.status]
    /\ queueEvent("PlayResp")

HandleReply(m) ==
    /\ strm' = [AfterRead EXCEPT !.retstatus = m.status, !.numerator = m.num]
    /\ queueEvent("PlayResp")

\* What begins within a message is taken for one of an unknown kind.
ReadMessage ==
    /\ strm.socketFd # "none" /\ fromStream # <<>>
    /\ fromStream' = SubSeq(fromStream, (BytesRead \div ReplySize) + 1, Len(fromStream))
    /\ \/ strm.cut = 0 /\ Head(fromStream).type = "LSC_DONE" /\ HandleDone(Head(fromStream))
       \/ strm.cut = 0 /\ Head(fromStream).type = "reply" /\ HandleReply(Head(fromStream))
       \/ strm.cut > 0 /\ strm' = AfterRead /\ UNCHANGED queue
    /\ UNCHANGED <<toStream, streamer, spent>>

\* A connection that is broken stays readable: every read fails, and after
\* StreamFailLimit of them each one reports the error (the model ends after two).
ReadFails ==
    /\ strm.socketFd = "broken" /\ fromStream = <<>>
    /\ strm.failCount <= StreamFailLimit + 2
    /\ strm' = [strm EXCEPT !.failCount = @ + 1]
    /\ IF strm.failCount > StreamFailLimit THEN queueEvent("StreamError")
                                           ELSE UNCHANGED queue
    /\ UNCHANGED <<toStream, fromStream, streamer, spent>>

ReadStreamSocketData == ReadMessage \/ ReadFails

------------------------------------------------------------------------------
(* The stream server: code of another system *)

StreamerAnswers ==
    /\ strm.socketFd = "open" /\ toStream # <<>>
    /\ toStream' = Tail(toStream)
    /\ \E status \in StreamStatuses :
          LET speed == IF status = "LSC_OK" THEN Head(toStream) ELSE streamer
          IN  /\ Cost(status # "LSC_OK")
              /\ streamer' = speed
              /\ fromStream' = Append(fromStream,
                                      [type |-> "reply", num |-> speed, status |-> status])
    /\ UNCHANGED <<strm, queue>>

StreamerEnds ==
    /\ strm.socketFd = "open" /\ streamer # 0
    /\ Cost(TRUE)
    /\ fromStream' = Append(fromStream,
                            [type |-> "LSC_DONE", num |-> streamer, status |-> "LSC_OK"])
    /\ UNCHANGED <<strm, toStream, streamer, queue>>

ConnectionBreaks ==
    /\ strm.socketFd = "open"
    /\ Cost(TRUE)
    /\ strm' = [strm EXCEPT !.socketFd = "broken"]
    /\ toStream' = <<>>
    /\ UNCHANGED <<fromStream, streamer, queue>>

Streamer == StreamerAnswers \/ StreamerEnds \/ ConnectionBreaks

==============================================================================
