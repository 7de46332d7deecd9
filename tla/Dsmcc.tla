------------------------------- MODULE Dsmcc --------------------------------
(***************************************************************************)
(* The messages of a movie's session (dsmccProtocol.cpp) as the three      *)
(* kinds of session control build and read them: what the box asks of the        *)
(* session manager, and how it takes the resources of a confirm.           *)
(*                                                                         *)
(* A message is the sequence of its items, each with its width in bytes    *)
(* and what it says: a number where it is a length or a count, a tag, or   *)
(* an opaque value.  A reader that expects an item of another width than   *)
(* the next one has lost its place.  Transaction numbers, losses and       *)
(* retries are in VodSession; adaptation headers, the uu data of a confirm *)
(* and truncated messages are left out.                                    *)
(* Bounds: MaxConfirms confirms for a session, TextLengths of a request's  *)
(* text, MaxResources resources and descriptors of a confirm.              *)
(***************************************************************************)
EXTENDS Integers, SequencesExt, TLC

CONSTANTS TextLengths,   \* lengths of the text of an Arris request
          MaxResources,
          MaxConfirms

VARIABLES dsm,      \* the session control
          wire,     \* the message under way between box and manager
          granted   \* what the last confirm grants

dsmVars == <<dsm, wire, granted>>

MSGBODY_BUFFER_LEN == 300

------------------------------------------------------------------------------
(* Items *)

Put(width, value) == <<[width |-> width, value |-> value]>>

Size(items) == FoldLeft(LAMBDA n, i : n + i.width, 0, items)

PutFields(widths, value) == [i \in DOMAIN widths |-> [width |-> widths[i], value |-> value]]

\* The widths of the fields of each value of a descriptor or resource.
IdFields == [ASSETID |-> <<8>>, NODEGROUPID |-> <<6>>, STREAMHANDLE |-> <<4>>]
TransportFields == [DOWNSTREAMTRANS |-> <<2, 4, 2, 4>>,
                    MPEGPROG |-> <<2, 2, 2, 2, 2, 2, 2, 2>>]
ChannelFields == [PHYSICALCHAN |-> <<2, 4, 2>>,
                  ATSCMODMODE |-> <<1, 1, 1, 1, 4, 1, 1, 1, 1>>]
PurchaseFields == [FUNCTION |-> <<1>>, SUBFUNCTION |-> <<1>>, BILLINGID |-> <<4>>,
                   PURCHASETIME |-> <<4>>, TIMEREMAINING |-> <<4>>]
IPFields == [IPDESC |-> <<2, 4>>]
CAFields == [CLIENTCA |-> <<4, 2, 6>>]
OtherFields == [HEADENDID |-> <<20>>, SERVICENAME |-> <<5>>]

Fields == IdFields @@ TransportFields @@ ChannelFields @@ PurchaseFields @@ IPFields
          @@ CAFields @@ OtherFields

\* The types for which the box has a reader, by category.
GenericTypes == {"ASSETID", "NODEGROUPID", "IPDESC", "STREAMHANDLE"}
ResourceTypes == {"MPEGPROG", "PHYSICALCHAN", "DOWNSTREAMTRANS", "ATSCMODMODE", "CLIENTCA"}

------------------------------------------------------------------------------
(* Packing *)

PackDescriptor(tag, len, value) == Put(1, tag) \o Put(1, len) \o value

Leaf(tag, len) == PackDescriptor(tag, len, PutFields(Fields[tag], tag))

\* A value that holds descriptors: SeaReqData and AppReqData.
PackReqData(owner, version, count, descs) ==
    Put(1, owner) \o Put(1, version) \o Put(1, count) \o FlattenSeq(descs)

PackUserPrivateData(version, count, descs, pad) ==
    Put(1, 1) \o Put(1, version) \o Put(1, count) \o FlattenSeq(descs)
        \o [i \in 1..pad |-> [width |-> 1, value |-> "pad"]]

\* The same under protocol 2: the descriptors are those of a service.
PackServicePrivateData(gatewayLength, serviceLength, count, descs) ==
    Put(1, 2) \o Put(1, 1) \o Put(16, "gateway") \o Put(4, gatewayLength)
        \o Put(16, "service") \o Put(4, serviceLength) \o Put(1, count) \o FlattenSeq(descs)

\* There is no uu data.
PackUserData(count, private) ==
    Put(2, 0) \o Put(2, count) \o (IF count = 0 THEN <<>> ELSE private)

PackDsmccMessageHdr(id, body) ==
    Put(1, "discriminator") \o Put(1, "session") \o Put(2, id) \o Put(4, "transaction")
        \o Put(1, "reserved") \o Put(1, 0) \o Put(2, Size(body)) \o body

HeaderItems == 7

PackSessionSetup(sid, userData) ==
    PackDsmccMessageHdr("SetUpRequest", Put(10, sid) \o Put(2, "reserved") \o Put(20, "client")
                                            \o Put(20, "server") \o userData)

PackConnect(sid) == PackDsmccMessageHdr("ConnectRequest", Put(10, sid) \o PackUserData(0, <<>>))

PackRelease(id, sid, reason) ==
    PackDsmccMessageHdr(id, Put(10, sid) \o Put(2, reason) \o PackUserData(0, <<>>))

PackInProgress(sids) ==
    PackDsmccMessageHdr("InProgressRequest",
                        Put(2, Len(sids)) \o FlattenSeq([i \in DOMAIN sids |-> Put(10, sids[i])]))

------------------------------------------------------------------------------
(* The requests of a set-up *)

\* Mutant: the count leaves out the three bytes before the descriptors.
SeaChangePrivateDataShort(sid) ==
    PackSessionSetup(sid, PackUserData(52, PackUserPrivateData(1, 4,
        <<Leaf("ASSETID", 8), Leaf("NODEGROUPID", 6),
          PackDescriptor("VENREQ", 9,
              PackReqData(1, 1, 2, <<Leaf("FUNCTION", 1), Leaf("SUBFUNCTION", 1)>>)),
          PackDescriptor("APPREQ", 21,
              PackReqData(128, 1, 3, <<Leaf("BILLINGID", 4), Leaf("PURCHASETIME", 4),
                                       Leaf("TIMEREMAINING", 4)>>))>>, 0)))

SeaChangeSessionSetup(sid) ==
    PackSessionSetup(sid, PackUserData(55, PackUserPrivateData(1, 4,
        <<Leaf("ASSETID", 8), Leaf("NODEGROUPID", 6),
          PackDescriptor("VENREQ", 9,
              PackReqData(1, 1, 2, <<Leaf("FUNCTION", 1), Leaf("SUBFUNCTION", 1)>>)),
          PackDescriptor("APPREQ", 21,
              PackReqData(128, 1, 3, <<Leaf("BILLINGID", 4), Leaf("PURCHASETIME", 4),
                                       Leaf("TIMEREMAINING", 4)>>))>>, 0)))

NODE_GROUP_ASSETID_LEN == 23
ARRIS_PAD_BYTES == 4

\* The private data is padded, by four bytes when it needs none.
ArrisSessionSetup(sid, textLength) ==
    LET length == textLength + NODE_GROUP_ASSETID_LEN
        pad == ARRIS_PAD_BYTES - (length % ARRIS_PAD_BYTES)
    IN  PackSessionSetup(sid, PackUserData(length + pad, PackUserPrivateData(0, 3,
            <<Leaf("NODEGROUPID", 6),
              PackDescriptor("APPREQ", textLength, Put(textLength, "text")),
              Leaf("ASSETID", 8)>>, pad)))

ASSET_ID_DESC_LEN == 10
NODE_GRP_ID_DESC_LEN == 8
SVC_DESC_COUNT_LEN == 1
SVC_GW_DATA_LEN == 20
PRIVATE_DATA_DESC_LEN == 22

CloudDvrSessionSetup(sid) ==
    LET serviceLength == ASSET_ID_DESC_LEN + NODE_GRP_ID_DESC_LEN + SVC_DESC_COUNT_LEN
        gatewayLength == serviceLength + SVC_GW_DATA_LEN
    IN  PackSessionSetup(sid, PackUserData(gatewayLength + PRIVATE_DATA_DESC_LEN,
            PackServicePrivateData(gatewayLength, serviceLength, 2,
                <<Leaf("ASSETID", 8), Leaf("NODEGROUPID", 6)>>)))

------------------------------------------------------------------------------
(* Reading: a reader holds the items left, the value it read last, whether *)
(* it has lost its place, and the descriptors it found, in order           *)

Reader(items) == [in |-> items, last |-> 0, lost |-> FALSE, found |-> <<>>]

Get(r, width) ==
    IF r.lost \/ r.in = <<>> \/ Head(r.in).width # width THEN [r EXCEPT !.lost = TRUE]
    ELSE [r EXCEPT !.in = Tail(@), !.last = Head(r.in).value]

GetFields(r, widths) == FoldLeft(Get, r, widths)

Times(Op(_), n, r) == FoldLeft(LAMBDA a, i : Op(a), r, [i \in 1..n |-> i])

\* A value of a type the box knows is read; any other is not skipped.
ParseValue(r, type, types) ==
    IF r.lost \/ type \notin types THEN r
    ELSE LET v == GetFields(r, Fields[type])
         IN  IF v.lost THEN v ELSE [v EXCEPT !.found = Append(@, [type |-> type, value |-> v.last])]

ParseDescriptor(r) ==
    LET tag == Get(r, 1)
    IN  ParseValue(Get(tag, 1), tag.last, GenericTypes)

ParseResourceDesc(r) ==
    LET type == GetFields(r, <<2, 2>>)
    IN  ParseValue(GetFields(type, <<2, 2, 1, 1, 2, 2>>), type.last, ResourceTypes)

ParseUserPrivateData(r) ==
    LET ssp == Get(r, 1)
        version == Get(ssp, 1)
        count == IF ssp.last = 1 THEN Get(version, 1)
                 ELSE GetFields(version, <<16, 4, 16, 4, 1>>)
    IN  IF count.lost THEN count ELSE Times(ParseDescriptor, count.last, count)

ParseUserData(r) ==
    LET count == GetFields(r, <<2, 2>>)
    IN  IF count.lost \/ count.last = 0 THEN count ELSE ParseUserPrivateData(count)

\* The body of a confirm: its session, response and resources, then its user
\* data; what is left over makes it a bad message.
ParseConfirm(items) ==
    LET sid == Get(Reader(items), 10)
        response == Get(sid, 2)
        count == GetFields(response, <<20, 2>>)
        resources == Times(ParseResourceDesc, count.last, count)
        end == IF resources.in = <<>> THEN resources ELSE ParseUserData(resources)
    IN  [sid |-> sid.last, response |-> response.last, found |-> end.found,
         lost |-> end.lost, left |-> end.in # <<>>]

------------------------------------------------------------------------------
(* The session control: kind; whether the box gives sessions their ids     *)
(* (own); its phase; what it holds of each resource (tuning), as the       *)
(* number of the confirm that granted it                                   *)

Tuning == {"MPEGPROG", "PHYSICALCHAN", "ATSCMODMODE", "CLIENTCA", "IPDESC", "STREAMHANDLE"}

\* What each kind takes out of a confirm: the same, each in code of its own.
SeaChangeTakes == {"MPEGPROG", "PHYSICALCHAN", "ATSCMODMODE", "CLIENTCA"}
                  \cup {"IPDESC", "STREAMHANDLE"}
ArrisTakes == {"MPEGPROG", "PHYSICALCHAN", "ATSCMODMODE", "CLIENTCA"}
              \cup {"IPDESC", "STREAMHANDLE"}
CloudDvrTakes == {"MPEGPROG", "PHYSICALCHAN", "ATSCMODMODE", "CLIENTCA"}
                 \cup {"IPDESC", "STREAMHANDLE"}
Takes == [SeaChange |-> SeaChangeTakes, Arris |-> ArrisTakes, CloudDvr |-> CloudDvrTakes]

\* Without an id of its own the box asks with zeros, and so it does for ever.
BoxId == IF dsm.own THEN "number" ELSE "zeros"
ManagerId == IF dsm.own THEN "number" ELSE "of the manager"

NoGrant == [n |-> 0, types |-> {}, plain |-> TRUE, state |-> "none"]

DsmInit ==
    /\ dsm \in [kind : {"SeaChange", "Arris", "CloudDvr"}, own : BOOLEAN, phase : {"idle"},
                tuning : [Tuning -> {0}]]
    /\ wire = <<>>
    /\ granted = NoGrant

Id(m) == m[3].value
Body(m) == SubSeq(m, HeaderItems + 1, Len(m))
Requests == {"SetUpRequest", "ConnectRequest", "ReleaseRequest", "ReleaseResponse",
             "InProgressRequest"}
FromBox(m) == m # <<>> /\ Id(m) \in Requests

Ask(message) == wire = <<>> /\ wire' = message

SessionSetup ==
    /\ dsm.phase \in {"idle", "asked", "up"} /\ granted.n < MaxConfirms
    /\ \/ dsm.kind = "SeaChange" /\ Ask(SeaChangeSessionSetup(BoxId))
       \/ dsm.kind = "Arris" /\ \E n \in TextLengths : Ask(ArrisSessionSetup(BoxId, n))
       \/ dsm.kind = "CloudDvr" /\ Ask(CloudDvrSessionSetup(BoxId))
    /\ dsm' = [dsm EXCEPT !.phase = IF @ = "up" THEN @ ELSE "asked"]
    /\ granted' = [NoGrant EXCEPT !.n = granted.n]

\* A cloud recording is kept alive by its stream control.
SendKeepAlive ==
    /\ dsm.phase = "up" /\ dsm.kind # "CloudDvr"
    /\ Ask(PackInProgress(<<BoxId>>))
    /\ UNCHANGED <<dsm, granted>>

DsmTeardown ==
    /\ dsm.phase = "up"
    /\ Ask(PackRelease("ReleaseRequest", BoxId, "client"))
    /\ dsm' = [dsm EXCEPT !.phase = "released"]
    /\ UNCHANGED granted

\* A session control that serves both kinds of message routes them by the
\* number in the session's id.
Routed(sid) == sid = "number"

\* What the resources and descriptors found say, the later ones last.
Retuned(found) ==
    FoldLeft(LAMBDA t, d : IF d.type \in Takes[dsm.kind] THEN [t EXCEPT ![d.type] = d.value] ELSE t,
             dsm.tuning, found)

\* A bad message and one of another session are dropped; a refusal leaves the
\* session to be asked for again.  A reader that has lost its place may end
\* anywhere.  Only one kind answers with a connect request.
HandleSessionConfirm ==
    /\ wire # <<>> /\ Id(wire) = "SetUpConfirm"
    /\ LET c == ParseConfirm(Body(wire))
           good == Routed(c.sid) /\ c.response = "OK"
       IN  \/ /\ ~c.left \/ c.lost
              /\ good
              /\ dsm' = [dsm EXCEPT !.tuning = Retuned(c.found),
                                    !.phase = IF @ = "asked" THEN "up" ELSE @]
              /\ wire' = IF dsm.kind = "SeaChange" THEN PackConnect(BoxId) ELSE <<>>
              /\ granted' = [granted EXCEPT !.state = "taken"]
           \/ /\ c.left \/ c.lost \/ ~good
              /\ wire' = <<>>
              /\ granted' = [granted EXCEPT !.state = "dropped"]
              /\ UNCHANGED dsm

HandleReleaseIndication ==
    /\ wire # <<>> /\ Id(wire) = "ReleaseIndication"
    /\ LET r == ParseUserData(GetFields(Reader(Body(wire)), <<10, 2>>))
       IN  wire' = IF r.in = <<>> /\ Routed(wire[HeaderItems + 1].value) /\ dsm.phase = "up"
                   THEN PackRelease("ReleaseResponse", BoxId, "server") ELSE <<>>
    /\ UNCHANGED <<dsm, granted>>

------------------------------------------------------------------------------
(* The session manager: code of another system *)

ManagerReads == FromBox(wire) /\ wire' = <<>> /\ UNCHANGED <<dsm, granted>>

Unknown == {"HEADENDID", "SERVICENAME"}

\* The orders in which n of the types can come.
Orders(types, n) == UNION {{f \in [1..k -> types] : IsInjective(f)} : k \in 0..n}

PackResource(type, n) ==
    LET value == PutFields(Fields[type], n)
    IN  Put(2, "request") \o Put(2, type) \o Put(2, "number") \o Put(2, "tag") \o Put(1, "flags")
            \o Put(1, "status") \o Put(2, Size(value)) \o Put(2, Len(value)) \o value

PackGranted(kind, types, n) ==
    LET descs == FlattenSeq([i \in DOMAIN types |->
                     PackDescriptor(types[i], Size(PutFields(Fields[types[i]], n)),
                                    PutFields(Fields[types[i]], n))])
    IN  IF kind # "CloudDvr" THEN Put(1, 1) \o Put(1, 1) \o Put(1, Len(types)) \o descs
        ELSE Put(1, 2) \o Put(1, 1) \o Put(16, "gateway") \o Put(4, 16) \o Put(16, "service")
                 \o Put(4, "length") \o Put(1, Len(types)) \o descs

\* plain: nothing the box cannot read stands before something else.
Confirm ==
    /\ wire # <<>> /\ Id(wire) = "SetUpRequest" /\ granted.n < MaxConfirms
    /\ \E resources \in Orders({"MPEGPROG", "PHYSICALCHAN", "ATSCMODMODE", "CLIENTCA",
                                "HEADENDID"}, MaxResources),
          descs \in Orders({"IPDESC", "STREAMHANDLE", "SERVICENAME"}, MaxResources),
          response \in {"OK", "NeNoCalls"} :
          LET n == granted.n + 1
              private == PackGranted(dsm.kind, descs, n)
          IN  /\ Len(resources) + Len(descs) <= MaxResources
              /\ response = "OK" \/ (resources = <<>> /\ descs = <<>>)
              /\ wire' = PackDsmccMessageHdr("SetUpConfirm",
                     Put(10, ManagerId) \o Put(2, response) \o Put(20, "server")
                     \o Put(2, Len(resources))
                     \o FlattenSeq([i \in DOMAIN resources |-> PackResource(resources[i], n)])
                     \o PackUserData(Size(private), private))
              /\ granted' = [n |-> n, types |-> Range(resources) \cup Range(descs),
                             plain |-> Range(resources \o descs) \cap Unknown = {},
                             state |-> IF response = "OK" THEN "sent" ELSE "refusal"]
    /\ UNCHANGED dsm

Indicate ==
    /\ wire = <<>> /\ dsm.phase = "up"
    /\ wire' = PackRelease("ReleaseIndication", ManagerId, "server")
    /\ UNCHANGED <<dsm, granted>>

DsmNext == SessionSetup \/ SendKeepAlive \/ DsmTeardown \/ HandleSessionConfirm
           \/ HandleReleaseIndication \/ ManagerReads \/ Confirm \/ Indicate

------------------------------------------------------------------------------
(* Properties *)

\* What follows the first n bytes of the items, when they end with an item.
Cut(items, n) == {SubSeq(items, k + 1, Len(items)) :
                     k \in {j \in 0..Len(items) : Size(SubSeq(items, 1, j)) = n}}

\* The items after a descriptor, as its length tells; what is inside a
\* descriptor of descriptors agrees with its count and its length.
AfterLeaf(rests) == UNION {Cut(SubSeq(r, 3, Len(r)), r[2].value) : r \in {s \in rests : Len(s) > 2}}

After(rests) ==
    UNION {LET after == Cut(SubSeq(r, 3, Len(r)), r[2].value)
               inner(a) == SubSeq(r, 3, Len(r) - Len(a))
           IN  {a \in after : Len(inner(a)) > 3 =>
                    Times(AfterLeaf, inner(a)[3].value, {SubSeq(inner(a), 4, Len(inner(a)))}) = {<<>>}}
           : r \in {s \in rests : Len(s) > 2}}

DescriptorsAgree(items) ==
    \E rest \in Times(After, Head(items).value, {Tail(items)}) :
        \A i \in DOMAIN rest : rest[i].value = "pad"

\* Of a service, the lengths of its gateway and of its own too.
PrivateDataAgrees(private, count) ==
    /\ Size(private) = count
    /\ \/ private[1].value = 1 /\ DescriptorsAgree(SubSeq(private, 3, Len(private)))
       \/ /\ private[1].value = 2
          /\ private[4].value = Size(SubSeq(private, 5, Len(private)))
          /\ private[6].value = Size(SubSeq(private, 7, Len(private)))
          /\ DescriptorsAgree(SubSeq(private, 7, Len(private)))

\* A request of the box fits its buffer and is what its own lengths and counts
\* say, those that are worked out by hand among them: the manager, which goes
\* by them, reads every descriptor (SeaChange_SessionControl.cpp:276,
\* Arris_SessionControl.cpp:213, CloudDvr_SessionControl.cpp:192-199).
RequestsAgree ==
    FromBox(wire) =>
        /\ wire[HeaderItems].value = Size(Body(wire))
        /\ Size(Body(wire)) <= MSGBODY_BUFFER_LEN
        /\ Id(wire) = "SetUpRequest" =>
              PrivateDataAgrees(SubSeq(wire, HeaderItems + 7, Len(wire)), wire[HeaderItems + 6].value)

\* The box tunes to what the manager granted, in whatever order it comes: a
\* confirm is not dropped, and everything in it is taken.  Two things stand
\* against it: ids that the manager gives, which the box does not learn
\* (VOD_SessionControl.cpp:238), and a resource or descriptor the box does not
\* know, as it is not skipped (dsmccProtocol.cpp:1524, 1834).
GrantIsTaken ==
    granted.state \in {"taken", "dropped"} /\ granted.types # {} /\ granted.plain /\ dsm.own =>
        /\ granted.state = "taken"
        /\ \A t \in granted.types : dsm.tuning[t] = granted.n

\* Box and manager understand each other's messages.
MessagesAreUnderstood == RequestsAgree /\ GrantIsTaken

==============================================================================
