---------------------------- MODULE MCObusCodec ----------------------------
EXTENDS ObusCodec

(* One object type (uid 1) with a U8, a string, an enum and an I16 array, *)
(* one event (uid 1), one method (uid 1) with a BOOL and an enum          *)
(* argument, and one bus event (uid 1).                                   *)
MCStruct == (1 :> OBUS_FIELD_U8) @@ (2 :> OBUS_FIELD_STRING) @@ (3 :> OBUS_FIELD_ENUM)
            @@ (4 :> OBUS_FIELD_ARRAY + OBUS_FIELD_I16)
MCMethod == (1 :> OBUS_FIELD_BOOL) @@ (2 :> OBUS_FIELD_ENUM)
MCObjDescs == 1 :> [struct |-> MCStruct, events |-> {1}, methods |-> (1 :> MCMethod)]
MCEnumItems == ("A" :> 0) @@ ("B" :> 1)
MCServerEnum == MCEnumItems @@ ("C" :> 2)

(* Objects a server may send: one of the client's version with the edge  *)
(* values 255, -1, an empty and a None string; one of a newer version     *)
(* (an unknown U64 field, the string field retyped as U32, an unknown     *)
(* string array); one with an enum item the client lacks; one of an       *)
(* unknown object type.                                                    *)
MCSame == [uid |-> 1, handle |-> 1,
           types |-> MCStruct,
           fields |-> (1 :> 255) @@ (2 :> <<97, 0>>) @@ (3 :> "B") @@ (4 :> <<-1, 300>>)]
MCEmpty == [uid |-> 1, handle |-> 2, types |-> (2 :> OBUS_FIELD_STRING), fields |-> (2 :> None)]
MCNewer == [uid |-> 1, handle |-> 2,
            types |-> (5 :> OBUS_FIELD_U64) @@ (2 :> OBUS_FIELD_U32) @@ (6 :> OBUS_FIELD_ARRAY + OBUS_FIELD_STRING)
                      @@ (1 :> OBUS_FIELD_U8),
            fields |-> (5 :> 7) @@ (2 :> 5) @@ (6 :> <<<<>>, None>>) @@ (1 :> 3)]
MCBadEnum == [uid |-> 1, handle |-> 1, types |-> (3 :> OBUS_FIELD_ENUM) @@ (1 :> OBUS_FIELD_U8),
              fields |-> (3 :> "C") @@ (1 :> 1)]
MCOtherType == [uid |-> 3, handle |-> 3, types |-> (1 :> OBUS_FIELD_U8), fields |-> (1 :> 0)]
MCObjs == {MCSame, MCEmpty, MCNewer, MCBadEnum, MCOtherType}

(* An object of a future version, with a field of a type (13) this       *)
(* client does not know.                                                  *)
MCFuture == [uid |-> 1, handle |-> 2, types |-> (7 :> 13) @@ (1 :> OBUS_FIELD_U8),
             fields |-> (7 :> 0) @@ (1 :> 4)]

AsEvent(o, evtUid) == [objUid |-> o.uid, handle |-> o.handle, uid |-> evtUid,
                       types |-> o.types, fields |-> o.fields]

MCEvents(objs) == {AsEvent(o, u) : o \in objs, u \in {1, 2}}

(* Calls the client makes: on objects 1 and 3, of method 1 or of an      *)
(* unknown method 2, with both arguments or none.                         *)
MCCalls == {[objUid |-> o, handle |-> h, uid |-> m, callHandle |-> 65535,
             types |-> MCMethod, fields |-> (1 :> TRUE) @@ (2 :> "A")] : o \in {1, 3}, h \in {1, 3}, m \in {1, 2}}
           \cup {[objUid |-> 1, handle |-> 1, uid |-> 1, callHandle |-> 1,
                  types |-> <<>>, fields |-> <<>>]}

UpTo2(S) == {<<>>} \cup {<<x>> : x \in S} \cup {<<x, y>> : x, y \in S}
UpTo1(S) == {<<>>} \cup {<<x>> : x \in S}

MCPackets(objs) ==
    [kind : {"CONRESP"}, status : {0, 2}, objs : UpTo2(objs)]
    \cup [kind : {"ADD"}, obj : objs]
    \cup [kind : {"REMOVE"}, uid : {1, 3}, handle : {1, 2}]
    \cup [kind : {"EVENT"}, evt : MCEvents(objs)]
    \cup [kind : {"BUS_EVENT"},
          busEvt : [uid : {1, 2}, adds : UpTo1(objs),
                    removes : UpTo1([uid : {1}, handle : {1, 2}]),
                    events : UpTo1(MCEvents(objs))]]
    \cup [kind : {"ACK"}, handle : {1}, ack : {6, 7}]
    \cup [kind : {"CONREQ"}, version : {2}, busName : {None, <<98>>}, crc : {0, 2147483647},
          clientName : {<<>>}]
    \cup [kind : {"CALL"}, call : MCCalls]

MCPacketsKnown == MCPackets(MCObjs)
MCPacketsFuture == MCPackets(MCObjs \cup {MCFuture})

(* No object registered, or objects 1 and 2 of type 1. *)
MCBuses == {<<>>, (1 :> 1) @@ (2 :> 1)}
=============================================================================
