----------------------------- MODULE VodSession -----------------------------
(***************************************************************************)
(* The session control of a movie (VOD_SessionControl.cpp,                 *)
(* SeaChange_SessionControl.cpp) and the session resource manager it talks *)
(* to over UDP.  Only a set-up request waits for its answer in the send    *)
(* list, with a timer: it is sent again, and then reported as failed.      *)
(*                                                                         *)
(* The model keeps the answers that travel to the box; a request is        *)
(* represented by its answer.  An answer may be lost, overtaken, or so     *)
(* late that the timer runs out before it, which all have a cost; a        *)
(* request that is sent again may have two.  What the session carries      *)
(* (tuning parameters, the address of the stream server) is left out, and  *)
(* so are connect and keep alive requests, which nobody answers, and the   *)
(* manager's indication that it ended the session, which the box answers   *)
(* and then forgets.  Bound: MaxSessions.                                  *)
(***************************************************************************)
EXTENDS OnDemandLoop, Bags

CONSTANTS messageRetryCount,  \* how often a set-up request is sent again
          MaxSessions         \* bound: movies the client loads

VARIABLES ses,               \* the session control; id = 0: there is none
          mPrevVodSessionId, \* the number of the last session
          net                \* the bag of the answers in flight

sessionVars == <<ses, mPrevVodSessionId, net>>

NoSession == [id |-> 0, trans |-> 0, sends |-> {}, mistaken |-> FALSE]

\* trans is the last transaction, sends is sendMsgInfoList with the retries
\* that are left.  mistaken records, for the properties, that what is not for
\* this session may be taken for it: a confirm came for no message of the list,
\* or events of an earlier controller were in the queue when it began.
NewSession(n) == [NoSession EXCEPT !.id = n, !.mistaken = queue # <<>>]

Answer(type, trans, ok) == [type |-> type, session |-> ses.id, trans |-> trans, ok |-> ok]

SessionTypeOK ==
    /\ ses.id \in {0, mPrevVodSessionId} /\ mPrevVodSessionId \in 0..MaxSessions
    /\ \A m \in ses.sends : m.trans \in 1..ses.trans /\ m.count \in 1..(messageRetryCount + 1)
    /\ ses.mistaken \in BOOLEAN
    /\ IsABag(net)
    /\ \A m \in BagToSet(net) : /\ m.type \in {"SetUpConfirm", "ReleaseConfirm"}
                                /\ m.session \in 1..mPrevVodSessionId

SessionInit ==
    /\ ses = NoSession
    /\ mPrevVodSessionId = 0
    /\ net = EmptyBag

------------------------------------------------------------------------------

\* A set-up request of transaction trans goes out: the manager grants or
\* refuses it, or request or answer are lost.  late: it is sent again too soon.
SendSetUpRequest(trans, late) ==
    \/ \E ok \in BOOLEAN : /\ net' = net (+) SetToBag({Answer("SetUpConfirm", trans, ok)})
                           /\ Costs(~ok, late)
    \/ UNCHANGED net /\ Costs(TRUE, late)

SendReleaseRequest == net' = net (+) SetToBag({Answer("ReleaseConfirm", 0, TRUE)})

NextTransaction(s) == [s EXCEPT !.trans = @ + 1]

\* Mutant: one retry too many.
AddMessageWithRetries(s) ==
    [s EXCEPT !.sends = @ \cup {[trans |-> s.trans, count |-> messageRetryCount + 2]}]

AddMessageToSendList(s) ==
    [s EXCEPT !.sends = @ \cup {[trans |-> s.trans, count |-> messageRetryCount + 1]}]

\* Mutant: the answered message stays in the list.
KeepMessageInSendList(s, trans) ==
    [s EXCEPT !.mistaken = @ \/ \A m \in s.sends : m.trans # trans]

RemoveMessageFromSendList(s, trans) ==
    [s EXCEPT !.sends = {m \in @ : m.trans # trans},
              !.mistaken = @ \/ \A m \in s.sends : m.trans # trans]

HandleSessionConfirmResp(m) ==
    /\ ses' = RemoveMessageFromSendList(ses, m.trans)
    /\ queueEvent(IF m.ok THEN "SetupResp" ELSE "SessionError")

HandleReleaseConfirmResp ==
    /\ queueEvent("ReleaseResp")
    /\ UNCHANGED ses

\* The socket is read without the controller's mutex.  An answer is given to
\* the session it names; the transaction it answers is not looked at.
ReadSessionSocketCallback ==
    /\ \E m \in BagToSet(net) :
          /\ m.session = ses.id
          /\ net' = net (-) SetToBag({m})
          /\ \/ m.type = "SetUpConfirm" /\ HandleSessionConfirmResp(m)
             \/ m.type = "ReleaseConfirm" /\ HandleReleaseConfirmResp
    /\ UNCHANGED <<mPrevVodSessionId, spent>>

IsLate(m) == \E a \in BagToSet(net) : a.type = "SetUpConfirm" /\ a.trans = m.trans

Resend(m) ==
    /\ m.count > 1
    /\ ses' = [ses EXCEPT !.sends = (@ \ {m}) \cup {[m EXCEPT !.count = @ - 1]}]
    /\ SendSetUpRequest(m.trans, IsLate(m))
    /\ UNCHANGED queue

\* Mutant: the last failure is not reported.
GiveUpSilently(m, kept) ==
    /\ m.count <= 1
    /\ ses' = [ses EXCEPT !.sends = @ \ {m}]
    /\ Costs(~kept, IsLate(m))
    /\ UNCHANGED <<queue, net>>

\* The controller to tell is read from the record that was just deleted:
\* kept says whether its memory still holds it.
GiveUp(m, kept) ==
    /\ m.count <= 1
    /\ ses' = [ses EXCEPT !.sends = @ \ {m}]
    /\ IF kept THEN queueEvent("SessionError") ELSE UNCHANGED queue
    /\ Costs(~kept, IsLate(m))
    /\ UNCHANGED net

\* The session leaves the map: what is in flight for it finds nobody any more.
DeleteSessionControl ==
    /\ ses' = NoSession
    /\ net' = EmptyBag
    /\ UNCHANGED mPrevVodSessionId

==============================================================================
