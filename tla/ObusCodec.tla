----------------------------- MODULE ObusCodec -----------------------------
(***************************************************************************)
(* The payload codec of the obus Python client: Buffer (buffer.py), the   *)
(* sparse struct encoding (data/obus_struct.py), objects, events, calls    *)
(* and bus events (data/*.py) and the Rx packet classes of protocol.py.   *)
(*                                                                         *)
(* A byte is an integer 0..255 and a buffer a sequence of them.  Every    *)
(* read returns a record [err, v, p]: the value and the new position, or  *)
(* the exception Python raises ("struct.error" when the data runs out,    *)
(* "DecodeError", or "TypeError").  A step that fails hands the error on  *)
(* unchanged, which is how the exception unwinds to the first try that    *)
(* catches it.                                                             *)
(***************************************************************************)
EXTENDS Naturals, Integers, Sequences, FiniteSets, TLC

LOCAL SeqX == INSTANCE SequencesExt

CONSTANTS
    ObjDescs,    \* the client's bus descriptor: object uid -> [struct, events]
    BusEvtUids,  \* uids of the bus event descriptors the client knows
    EnumItems,   \* the enum driver of ENUM fields: item name -> int
    ServerEnum,  \* the server's enum driver, which may know more items
    Packets,     \* packets the server may send
    Buses,       \* registries the client may hold: handle -> object uid
    None         \* Python None

VARIABLES
    bus,         \* Client.bus at the time the main thread decodes
    pkt,         \* the packet the server sends
    wire,        \* its payload bytes, as the Decoder hands them over
    res          \* RxRawPacket.decode's outcome: [exc, packet]

vars == <<bus, pkt, wire, res>>

-----------------------------------------------------------------------------
(* FieldType (descriptors.py). *)
OBUS_FIELD_U8 == 0
OBUS_FIELD_I8 == 1
OBUS_FIELD_U16 == 2
OBUS_FIELD_I16 == 3
OBUS_FIELD_U32 == 4
OBUS_FIELD_I32 == 5
OBUS_FIELD_U64 == 6
OBUS_FIELD_I64 == 7
OBUS_FIELD_ENUM == 8
OBUS_FIELD_STRING == 9
OBUS_FIELD_BOOL == 10
OBUS_FIELD_F32 == 11
OBUS_FIELD_F64 == 12
OBUS_FIELD_ARRAY == 128

KnownTypes == 0..12
Mask(t) == t % 128                 \* t & OBUS_FIELD_MASK, t a U8
IsArray(t) == t \div 128 = 1       \* (t & OBUS_FIELD_ARRAY) != 0

(* Bytes of the struct formats B/b, H/h, I/i, Q/q; f and d are taken as  *)
(* opaque 4- and 8-byte patterns.                                         *)
Width(t) ==
    CASE Mask(t) \in {OBUS_FIELD_U8, OBUS_FIELD_I8, OBUS_FIELD_BOOL} -> 1
      [] Mask(t) \in {OBUS_FIELD_U16, OBUS_FIELD_I16}     -> 2
      [] Mask(t) \in {OBUS_FIELD_U32, OBUS_FIELD_I32, OBUS_FIELD_ENUM, OBUS_FIELD_F32} -> 4
      [] Mask(t) \in {OBUS_FIELD_U64, OBUS_FIELD_I64, OBUS_FIELD_F64} -> 8
      [] OTHER -> 4    \* a type of a later version, as its server writes it
Signed(t) == Mask(t) \in {OBUS_FIELD_I8, OBUS_FIELD_I16, OBUS_FIELD_I32, OBUS_FIELD_I64, OBUS_FIELD_ENUM}

-----------------------------------------------------------------------------
(* Buffer: big-endian ('>') packing of w bytes, two's complement. *)

RECURSIVE Pack(_, _)
Pack(v, w) == IF w = 0 THEN <<>> ELSE Pack(v \div 256, w - 1) \o <<v % 256>>

UnpackU(s) == SeqX!FoldLeft(LAMBDA acc, b : acc * 256 + b, 0, s)

UnpackS(s) ==
    SeqX!FoldLeft(LAMBDA acc, b : acc * 256 + b,
                  IF s[1] >= 128 THEN s[1] - 256 ELSE s[1], Tail(s))

Ok(v, p) == [err |-> "none", v |-> v, p |-> p]
Fail(e, p) == [err |-> e, v |-> None, p |-> p]
Failed(r) == r.err # "none"

(* The next statement after the one that gave r: an exception r holds   *)
(* propagates, else F continues with r's value and position.             *)
AndThen(r, F(_)) == IF Failed(r) THEN r ELSE F(r)

(* data.read(w) then struct.unpack: struct.error when fewer bytes remain. *)
ReadInt(buf, p, w, signed) ==
    IF p + w > Len(buf) THEN Fail("struct.error", Len(buf))
    ELSE LET s == SubSeq(buf, p + 1, p + w)
         IN  Ok(IF signed THEN UnpackS(s) ELSE UnpackU(s), p + w)

ReadU8(buf, p)  == ReadInt(buf, p, 1, FALSE)
ReadU16(buf, p) == ReadInt(buf, p, 2, FALSE)
ReadU32(buf, p) == ReadInt(buf, p, 4, FALSE)

(* writeString: None as a size 0, else size len+1, the bytes and a NUL. *)
WriteString(s) == IF s = None THEN Pack(0, 4) ELSE Pack(Len(s) + 1, 4) \o s \o <<0>>

(* readString: the size, then size bytes unpacked as ">%dsB"; the NUL   *)
(* byte is read but not checked.                                          *)
ReadString(buf, p) ==
    AndThen(ReadU32(buf, p), LAMBDA n :
        IF n.v = 0 THEN Ok(None, n.p)
        ELSE IF n.p + n.v > Len(buf) THEN Fail("struct.error", Len(buf))
        ELSE Ok(SubSeq(buf, n.p + 1, n.p + n.v - 1), n.p + n.v))

(* prepareSizeMarker / writeSizeMarker around the bytes s. *)
SizeMarked(s) == Pack(Len(s), 4) \o s

-----------------------------------------------------------------------------
(* ObusStruct: fields are keyed by uid; a present field maps to its value. *)

(* _encodeField; drv is the encoding side's enum driver (toInt). *)
EncodeField(t, v, drv) ==
    CASE Mask(t) = OBUS_FIELD_BOOL   -> <<IF v = TRUE THEN 1 ELSE 0>>
      [] Mask(t) = OBUS_FIELD_STRING -> WriteString(v)
      [] Mask(t) = OBUS_FIELD_ENUM   -> Pack(drv[v], 4)
      [] OTHER                       -> Pack(v, Width(t))

EncodeArray(t, vs, drv) ==
    Pack(Len(vs), 4) \o SeqX!FoldLeft(LAMBDA acc, v : acc \o EncodeField(t, v, drv), <<>>, vs)

(* The fields of a struct in the order fieldsDesc.values() yields them:  *)
(* a dict with small int keys iterates in ascending key order.            *)
Ordered(S) == SortSeq(SeqX!SetToSeq(S), LAMBDA a, b : a < b)

(* ObusStruct.encode; types gives each present field's wire type. *)
EncodeStruct(types, fields, drv) ==
    Pack(Cardinality(DOMAIN fields), 2) \o
    SeqX!FoldLeft(LAMBDA acc, u :
                    acc \o Pack(u, 2) \o <<types[u]>> \o
                    (IF IsArray(types[u]) THEN EncodeArray(types[u], fields[u], drv)
                                          ELSE EncodeField(types[u], fields[u], drv)),
                  <<>>, Ordered(DOMAIN fields))

(* FieldDriverEnum.fromInt: DecodeError on a value of no item. *)
EnumFromInt(r) ==
    IF \E k \in DOMAIN EnumItems : EnumItems[k] = r.v
    THEN Ok(CHOOSE k \in DOMAIN EnumItems : EnumItems[k] = r.v, r.p)
    ELSE Fail("DecodeError", r.p)

(* _decodeField, for a type of the client's descriptor. *)
DecodeField(t, buf, p) ==
    IF Mask(t) = OBUS_FIELD_STRING THEN ReadString(buf, p)
    ELSE AndThen(ReadInt(buf, p, Width(t), Signed(t)), LAMBDA r :
             CASE Mask(t) = OBUS_FIELD_BOOL -> Ok(r.v = 1, r.p)
               [] Mask(t) = OBUS_FIELD_ENUM -> EnumFromInt(r)
               [] OTHER                     -> r)

(* _skipField: an unknown wire type ends in the "%"/"&" precedence of its *)
(* DecodeError message: str & int raises TypeError.                       *)
SkipField(t, buf, p) ==
    IF Mask(t) \notin KnownTypes THEN Fail("TypeError", p)
    ELSE IF Mask(t) = OBUS_FIELD_STRING THEN ReadString(buf, p)
    ELSE ReadInt(buf, p, Width(t), Signed(t))

RECURSIVE DecodeItems(_, _, _, _, _)
DecodeItems(t, buf, p, n, acc) ==
    IF n = 0 THEN Ok(acc, p)
    ELSE AndThen(DecodeField(t, buf, p), LAMBDA r :
             DecodeItems(t, buf, r.p, n - 1, Append(acc, r.v)))

RECURSIVE SkipItems(_, _, _, _)
SkipItems(t, buf, p, n) ==
    IF n = 0 THEN Ok(None, p)
    ELSE AndThen(SkipField(t, buf, p), LAMBDA r : SkipItems(t, buf, r.p, n - 1))

(* _decodeArray / _skipArray: the item count is read and trusted. *)
DecodeArray(t, buf, p) ==
    AndThen(ReadU32(buf, p), LAMBDA n : DecodeItems(t, buf, n.p, n.v, <<>>))

SkipArray(t, buf, p) ==
    AndThen(ReadU32(buf, p), LAMBDA n : SkipItems(t, buf, n.p, n.v))

(* One field of ObusStruct.decode: skip an unknown uid or a type that     *)
(* differs from the descriptor's, else decode and store (a later field   *)
(* with the same uid overwrites an earlier one).                          *)
DecodeOneField(sd, buf, p, acc) ==
    AndThen(ReadU16(buf, p), LAMBDA u :
    AndThen(ReadU8(buf, u.p), LAMBDA t :
        IF u.v \notin DOMAIN sd \/ sd[u.v] # t.v
        THEN AndThen(IF IsArray(t.v) THEN SkipArray(t.v, buf, t.p) ELSE SkipField(t.v, buf, t.p),
                     LAMBDA s : Ok(acc, s.p))
        ELSE AndThen(IF IsArray(t.v) THEN DecodeArray(t.v, buf, t.p) ELSE DecodeField(t.v, buf, t.p),
                     LAMBDA d : Ok((u.v :> d.v) @@ acc, d.p))))

RECURSIVE DecodeFields(_, _, _, _, _)
DecodeFields(sd, buf, p, n, acc) ==
    IF n = 0 THEN Ok(acc, p)
    ELSE AndThen(DecodeOneField(sd, buf, p, acc), LAMBDA r :
             DecodeFields(sd, buf, r.p, n - 1, r.v))

(* ObusStruct.decode(structDesc, buf). *)
DecodeStruct(sd, buf, p) ==
    AndThen(ReadU16(buf, p), LAMBDA n : DecodeFields(sd, buf, n.p, n.v, <<>>))


-----------------------------------------------------------------------------
(* Objects, events and bus events.  A server-side object is              *)
(* [uid, handle, types, fields]: types gives the wire type of each        *)
(* present field, which a server built from another version of the bus   *)
(* description may choose differently from the client's descriptor.       *)

(* ObusObject.encode: uid, handle, then the struct behind a size marker. *)
EncodeObject(o, drv) ==
    Pack(o.uid, 2) \o Pack(o.handle, 2) \o SizeMarked(EncodeStruct(o.types, o.fields, drv))

(* ObusEvent.encode: object uid and handle, event uid, sized struct. *)
EncodeEvent(e, drv) ==
    Pack(e.objUid, 2) \o Pack(e.handle, 2) \o Pack(e.uid, 2) \o
    SizeMarked(EncodeStruct(e.types, e.fields, drv))

(* ObusBusEvent.encode. *)
EncodeBusEvent(b, drv) ==
    Pack(b.uid, 2) \o Pack(Len(b.adds), 4) \o Pack(Len(b.removes), 4) \o Pack(Len(b.events), 4) \o
    SeqX!FoldLeft(LAMBDA acc, o : acc \o EncodeObject(o, drv), <<>>, b.adds) \o
    SeqX!FoldLeft(LAMBDA acc, r : acc \o Pack(r.uid, 2) \o Pack(r.handle, 2), <<>>, b.removes) \o
    SeqX!FoldLeft(LAMBDA acc, e : acc \o EncodeEvent(e, drv), <<>>, b.events)

(* ObusCall.encode: object uid and handle, method uid, call handle,     *)
(* sized struct. *)
EncodeCall(c, drv) ==
    Pack(c.objUid, 2) \o Pack(c.handle, 2) \o Pack(c.uid, 2) \o Pack(c.callHandle, 2) \o
    SizeMarked(EncodeStruct(c.types, c.fields, drv))

(* The try of ObusObject.decode and ObusEvent.decode: a DecodeError is   *)
(* logged and the buffer set to posData + sizeData; None is returned.    *)
SkipRecordNoSeek(r, end) == IF r.err = "DecodeError" THEN Ok(None, r.p) ELSE r

SkipRecord(r, end) == IF r.err = "DecodeError" THEN Ok(None, end) ELSE r

(* ObusObject.decode(bus, buf): uid, handle and size are read outside  *)
(* the try, the descriptor lookup and the struct inside it.             *)
DecodeObject(buf, p) ==
    AndThen(ReadU16(buf, p), LAMBDA uid :
    AndThen(ReadU16(buf, uid.p), LAMBDA handle :
    AndThen(ReadU32(buf, handle.p), LAMBDA size :
        SkipRecord(
            IF uid.v \notin DOMAIN ObjDescs THEN Fail("DecodeError", size.p)
            ELSE AndThen(DecodeStruct(ObjDescs[uid.v].struct, buf, size.p), LAMBDA st :
                     Ok([uid |-> uid.v, handle |-> handle.v, fields |-> st.v], st.p)),
            size.p + size.v))))

(* ObusEvent.decode(bus, buf): the object is looked up on the live bus  *)
(* (reg: handle -> object uid); events share their object's struct desc. *)
DecodeEvent(reg, buf, p) ==
    AndThen(ReadU16(buf, p), LAMBDA uidObj :
    AndThen(ReadU16(buf, uidObj.p), LAMBDA handle :
    AndThen(ReadU16(buf, handle.p), LAMBDA uidEvt :
    AndThen(ReadU32(buf, uidEvt.p), LAMBDA size :
        SkipRecord(
            IF \/ handle.v \notin DOMAIN reg
               \/ reg[handle.v] # uidObj.v
               \/ uidEvt.v \notin ObjDescs[uidObj.v].events
            THEN Fail("DecodeError", size.p)
            ELSE AndThen(DecodeStruct(ObjDescs[uidObj.v].struct, buf, size.p), LAMBDA st :
                     Ok([handle |-> handle.v, uid |-> uidEvt.v, fields |-> st.v], st.p)),
            size.p + size.v)))))

(* ObusCall.decode(bus, buf): the object on the bus, then its method. *)
DecodeCall(reg, buf, p) ==
    AndThen(ReadU16(buf, p), LAMBDA uidObj :
    AndThen(ReadU16(buf, uidObj.p), LAMBDA handleObj :
    AndThen(ReadU16(buf, handleObj.p), LAMBDA uidCall :
    AndThen(ReadU16(buf, uidCall.p), LAMBDA handleCall :
    AndThen(ReadU32(buf, handleCall.p), LAMBDA size :
        SkipRecord(
            IF \/ handleObj.v \notin DOMAIN reg
               \/ reg[handleObj.v] # uidObj.v
               \/ uidCall.v \notin DOMAIN ObjDescs[uidObj.v].methods
            THEN Fail("DecodeError", size.p)
            ELSE AndThen(DecodeStruct(ObjDescs[uidObj.v].methods[uidCall.v], buf, size.p), LAMBDA st :
                     Ok([handle |-> handleObj.v, uid |-> uidCall.v, callHandle |-> handleCall.v,
                         fields |-> st.v], st.p)),
            size.p + size.v))))))

(* A record left out (None) is not appended. *)
Collect(acc, v) == IF v = None THEN acc ELSE Append(acc, v)

RECURSIVE DecodeObjects(_, _, _, _)
DecodeObjects(buf, p, n, acc) ==
    IF n = 0 THEN Ok(acc, p)
    ELSE AndThen(DecodeObject(buf, p), LAMBDA r :
             DecodeObjects(buf, r.p, n - 1, Collect(acc, r.v)))

RECURSIVE DecodeEvents(_, _, _, _, _)
DecodeEvents(reg, buf, p, n, acc) ==
    IF n = 0 THEN Ok(acc, p)
    ELSE AndThen(DecodeEvent(reg, buf, p), LAMBDA r :
             DecodeEvents(reg, buf, r.p, n - 1, Collect(acc, r.v)))

(* The unregistrations of a bus event: an unknown handle or a wrong uid *)
(* is logged and left out.                                              *)
RECURSIVE DecodeRemoves(_, _, _, _, _)
DecodeRemoves(reg, buf, p, n, acc) ==
    IF n = 0 THEN Ok(acc, p)
    ELSE AndThen(ReadU16(buf, p), LAMBDA uid :
         AndThen(ReadU16(buf, uid.p), LAMBDA handle :
             DecodeRemoves(reg, buf, handle.p, n - 1,
                 IF handle.v \in DOMAIN reg /\ reg[handle.v] = uid.v
                 THEN Append(acc, handle.v) ELSE acc)))

(* ObusBusEvent.decode: an unknown bus event uid raises DecodeError. *)
DecodeBusEvent(reg, buf, p) ==
    AndThen(ReadU16(buf, p), LAMBDA uid :
        IF uid.v \notin BusEvtUids THEN Fail("DecodeError", uid.p)
        ELSE AndThen(ReadU32(buf, uid.p), LAMBDA nAdd :
             AndThen(ReadU32(buf, nAdd.p), LAMBDA nRem :
             AndThen(ReadU32(buf, nRem.p), LAMBDA nEvt :
             AndThen(DecodeObjects(buf, nEvt.p, nAdd.v, <<>>), LAMBDA adds :
             AndThen(DecodeRemoves(reg, buf, adds.p, nRem.v, <<>>), LAMBDA rems :
             AndThen(DecodeEvents(reg, buf, rems.p, nEvt.v, <<>>), LAMBDA evts :
                 Ok([uid |-> uid.v, adds |-> adds.v, removes |-> rems.v, events |-> evts.v],
                    evts.p))))))))


-----------------------------------------------------------------------------
(* Packets.  Packet types of protocol.py. *)
OBUS_PKT_CONREQ == 0
OBUS_PKT_CONRESP == 1
OBUS_PKT_ADD == 2
OBUS_PKT_REMOVE == 3
OBUS_PKT_BUS_EVENT == 4
OBUS_PKT_EVENT == 5
OBUS_PKT_CALL == 6
OBUS_PKT_ACK == 7
OBUS_CONRESP_STATUS_COUNT == 2
CallAckValues == 0..6

PktType == [CONREQ |-> OBUS_PKT_CONREQ, CALL |-> OBUS_PKT_CALL, CONRESP |-> OBUS_PKT_CONRESP, ADD |-> OBUS_PKT_ADD, REMOVE |-> OBUS_PKT_REMOVE,
            BUS_EVENT |-> OBUS_PKT_BUS_EVENT, EVENT |-> OBUS_PKT_EVENT, ACK |-> OBUS_PKT_ACK]

(* TxPacketConnReq and TxPacketCall, which the client sends, and the    *)
(* payloads an obus server sends (there is no server code here: the      *)
(* layouts of CONRESP, REMOVE and ACK are those the Rx classes read).    *)
Payload(k, drv) ==
    CASE k.kind = "CONREQ" ->
            <<k.version>> \o WriteString(k.busName) \o Pack(k.crc, 4) \o WriteString(k.clientName)
      [] k.kind = "CALL" -> EncodeCall(k.call, drv)
      [] k.kind = "CONRESP" ->
            <<k.status>> \o Pack(Len(k.objs), 4) \o
            SeqX!FoldLeft(LAMBDA acc, o : acc \o EncodeObject(o, drv), <<>>, k.objs)
      [] k.kind = "ADD"       -> EncodeObject(k.obj, drv)
      [] k.kind = "REMOVE"    -> Pack(k.uid, 2) \o Pack(k.handle, 2)
      [] k.kind = "EVENT"     -> EncodeEvent(k.evt, drv)
      [] k.kind = "BUS_EVENT" -> EncodeBusEvent(k.busEvt, drv)
      [] k.kind = "ACK"       -> Pack(k.handle, 2) \o <<k.ack>>

(* RxPacketConnReq: read back without checks. *)
RxConnReq(buf) ==
    AndThen(ReadU8(buf, 0), LAMBDA version :
    AndThen(ReadString(buf, version.p), LAMBDA busName :
    AndThen(ReadU32(buf, busName.p), LAMBDA crc :
    AndThen(ReadString(buf, crc.p), LAMBDA clientName :
        Ok([kind |-> "CONREQ", version |-> version.v, busName |-> busName.v,
            crc |-> crc.v, clientName |-> clientName.v], clientName.p)))))

(* RxPacketCall: "no call decoded" is a DecodeError. *)
RxCall(reg, buf) ==
    AndThen(DecodeCall(reg, buf, 0), LAMBDA c :
        IF c.v = None THEN Fail("DecodeError", c.p) ELSE Ok([kind |-> "CALL", call |-> c.v], c.p))

(* RxPacketConnResp: a status out of range raises DecodeError; objects  *)
(* that fail to decode are left out.                                     *)
RxConnResp(buf) ==
    AndThen(ReadU8(buf, 0), LAMBDA status :
        IF status.v >= OBUS_CONRESP_STATUS_COUNT THEN Fail("DecodeError", status.p)
        ELSE AndThen(ReadU32(buf, status.p), LAMBDA n :
             AndThen(DecodeObjects(buf, n.p, n.v, <<>>), LAMBDA objs :
                 Ok([kind |-> "CONRESP", status |-> status.v, objs |-> objs.v], objs.p))))

(* RxPacketAdd: "no object decoded" is a DecodeError. *)
RxAdd(buf) ==
    AndThen(DecodeObject(buf, 0), LAMBDA o :
        IF o.v = None THEN Fail("DecodeError", o.p) ELSE Ok([kind |-> "ADD", obj |-> o.v], o.p))

(* RxPacketRemove: the object must be registered with that uid. *)
RxRemove(reg, buf) ==
    AndThen(ReadU16(buf, 0), LAMBDA uid :
    AndThen(ReadU16(buf, uid.p), LAMBDA handle :
        IF handle.v \notin DOMAIN reg \/ reg[handle.v] # uid.v THEN Fail("DecodeError", handle.p)
        ELSE Ok([kind |-> "REMOVE", handle |-> handle.v], handle.p)))

RxEvent(reg, buf) ==
    AndThen(DecodeEvent(reg, buf, 0), LAMBDA e :
        IF e.v = None THEN Fail("DecodeError", e.p) ELSE Ok([kind |-> "EVENT", evt |-> e.v], e.p))

RxBusEvent(reg, buf) ==
    AndThen(DecodeBusEvent(reg, buf, 0), LAMBDA b : Ok([kind |-> "BUS_EVENT", busEvt |-> b.v], b.p))

(* RxPacketAck: CallAck.fromInt raises KeyError, turned into DecodeError. *)
RxAck(buf) ==
    AndThen(ReadU16(buf, 0), LAMBDA handle :
    AndThen(ReadU8(buf, handle.p), LAMBDA ack :
        IF ack.v \notin CallAckValues THEN Fail("DecodeError", ack.p)
        ELSE Ok([kind |-> "ACK", handle |-> handle.v, ack |-> ack.v], ack.p)))

(* RxRawPacket.decode(bus): DecodeError and struct.error are logged and  *)
(* give None; any other exception leaves decode, recvPacket and the main *)
(* looper's run(), which catches only queue.Empty.                       *)
RxRawPacketDecode(type, reg, buf) ==
    LET r == CASE type = OBUS_PKT_CONREQ    -> RxConnReq(buf)
               [] type = OBUS_PKT_CALL      -> RxCall(reg, buf)
               [] type = OBUS_PKT_CONRESP   -> RxConnResp(buf)
               [] type = OBUS_PKT_ADD       -> RxAdd(buf)
               [] type = OBUS_PKT_REMOVE    -> RxRemove(reg, buf)
               [] type = OBUS_PKT_EVENT     -> RxEvent(reg, buf)
               [] type = OBUS_PKT_BUS_EVENT -> RxBusEvent(reg, buf)
               [] type = OBUS_PKT_ACK       -> RxAck(buf)
    IN  IF r.err \in {"DecodeError", "struct.error"} THEN [exc |-> "none", packet |-> None]
        ELSE [exc |-> r.err, packet |-> r.v]


-----------------------------------------------------------------------------
Init ==
    /\ pkt \in Packets
    /\ bus \in Buses
    /\ wire = None
    /\ res = None

(* The sender encodes the packet: the client a CONREQ or CALL, the       *)
(* server the others.                                                    *)
serverSend ==
    /\ wire = None
    /\ wire' = Payload(pkt, IF pkt.kind \in {"CONREQ", "CALL"} THEN EnumItems ELSE ServerEnum)
    /\ UNCHANGED <<bus, pkt, res>>

(* Client.recvPacket: rawPacket.decode(self.bus) on the main thread. *)
recvPacket ==
    /\ wire # None /\ res = None
    /\ res' = RxRawPacketDecode(PktType[pkt.kind], bus, wire)
    /\ UNCHANGED <<bus, pkt, wire>>

Next == serverSend \/ recvPacket

Spec == Init /\ [][Next]_vars

-----------------------------------------------------------------------------
(* The reference, from the spec's decode rules: a field is kept when the *)
(* client's descriptor has its uid with the same type; a record (object  *)
(* or event) of an unknown type, on an object that is not registered     *)
(* with that uid, or with an enum value the client's driver does not     *)
(* know, is left out; the packet is dropped when its own header fields   *)
(* are invalid or its one record is left out.                            *)

Kept(x, sd) == [u \in {u \in DOMAIN x.fields : u \in DOMAIN sd /\ sd[u] = x.types[u]} |-> x.fields[u]]

ValidEnums(x, sd) ==
    \A u \in DOMAIN Kept(x, sd) :
        Mask(x.types[u]) = OBUS_FIELD_ENUM =>
            IF IsArray(x.types[u])
            THEN \A i \in DOMAIN x.fields[u] : x.fields[u][i] \in DOMAIN EnumItems
            ELSE x.fields[u] \in DOMAIN EnumItems

ExpObj(o) ==
    IF o.uid \in DOMAIN ObjDescs /\ ValidEnums(o, ObjDescs[o.uid].struct)
    THEN [uid |-> o.uid, handle |-> o.handle, fields |-> Kept(o, ObjDescs[o.uid].struct)]
    ELSE None

Registered(b, h, uid) == h \in DOMAIN b /\ b[h] = uid

ExpEvt(b, e) ==
    IF /\ Registered(b, e.handle, e.objUid)
       /\ e.uid \in ObjDescs[e.objUid].events
       /\ ValidEnums(e, ObjDescs[e.objUid].struct)
    THEN [handle |-> e.handle, uid |-> e.uid, fields |-> Kept(e, ObjDescs[e.objUid].struct)]
    ELSE None

Present(s) == SelectSeq(s, LAMBDA x : x # None)

ExpCall(b, c) ==
    IF /\ Registered(b, c.handle, c.objUid)
       /\ c.uid \in DOMAIN ObjDescs[c.objUid].methods
       /\ ValidEnums(c, ObjDescs[c.objUid].methods[c.uid])
    THEN [handle |-> c.handle, uid |-> c.uid, callHandle |-> c.callHandle,
          fields |-> Kept(c, ObjDescs[c.objUid].methods[c.uid])]
    ELSE None

Expected(b, k) ==
    CASE k.kind = "CONREQ" -> k
      [] k.kind = "CALL" ->
            IF ExpCall(b, k.call) = None THEN None ELSE [kind |-> "CALL", call |-> ExpCall(b, k.call)]
      [] k.kind = "CONRESP" ->
            IF k.status < OBUS_CONRESP_STATUS_COUNT
            THEN [kind |-> "CONRESP", status |-> k.status,
                  objs |-> Present([i \in DOMAIN k.objs |-> ExpObj(k.objs[i])])]
            ELSE None
      [] k.kind = "ADD" ->
            IF ExpObj(k.obj) = None THEN None ELSE [kind |-> "ADD", obj |-> ExpObj(k.obj)]
      [] k.kind = "REMOVE" ->
            IF Registered(b, k.handle, k.uid) THEN [kind |-> "REMOVE", handle |-> k.handle] ELSE None
      [] k.kind = "EVENT" ->
            IF ExpEvt(b, k.evt) = None THEN None ELSE [kind |-> "EVENT", evt |-> ExpEvt(b, k.evt)]
      [] k.kind = "BUS_EVENT" ->
            LET be == k.busEvt IN
            IF be.uid \notin BusEvtUids THEN None
            ELSE [kind |-> "BUS_EVENT",
                  busEvt |-> [uid |-> be.uid,
                              adds |-> Present([i \in DOMAIN be.adds |-> ExpObj(be.adds[i])]),
                              removes |-> Present([i \in DOMAIN be.removes |->
                                            IF Registered(b, be.removes[i].handle, be.removes[i].uid)
                                            THEN be.removes[i].handle ELSE None]),
                              events |-> Present([i \in DOMAIN be.events |-> ExpEvt(b, be.events[i])])]]
      [] k.kind = "ACK" ->
            IF k.ack \in CallAckValues THEN [kind |-> "ACK", handle |-> k.handle, ack |-> k.ack] ELSE None

(* Every wire type in the packet is one of the 13 types this client knows. *)
Records(k) ==
    CASE k.kind = "CONRESP" -> {k.objs[i] : i \in DOMAIN k.objs}
      [] k.kind = "ADD" -> {k.obj}
      [] k.kind = "EVENT" -> {k.evt}
      [] k.kind = "CALL" -> {k.call}
      [] k.kind = "BUS_EVENT" -> {k.busEvt.adds[i] : i \in DOMAIN k.busEvt.adds}
                                 \cup {k.busEvt.events[i] : i \in DOMAIN k.busEvt.events}
      [] OTHER -> {}

TypesKnown(k) == \A x \in Records(k) : \A u \in DOMAIN x.types : Mask(x.types[u]) \in KnownTypes

-----------------------------------------------------------------------------
(* Properties. *)

\* Whatever descriptor version the server was built from, as long as it
\* uses field types this client knows, the packet the main thread gets from
\* rawPacket.decode is the server's packet with unknown or retyped fields
\* dropped, records of unknown types, unregistered objects or unknown enum
\* items left out, and the rest decoded field for field: the sparse skip,
\* the size-marker seek and the lookups keep the buffer aligned.
DecodeMatchesSpec ==
    (res # None /\ TypesKnown(pkt)) => res = [exc |-> "none", packet |-> Expected(bus, pkt)]

\* The client never crashes on malformed input from the wire (spec.md,
\* error taxonomy): rawPacket.decode returns a packet or None.
ClientNeverCrashes == res # None => res.exc = "none"

=============================================================================
