----------------------------- MODULE ObusClient -----------------------------
(***************************************************************************)
(* The obus client protocol runtime on its owner (main) thread:            *)
(* obus.Client (src/python/obus/client.py), the Bus registry (bus.py), the *)
(* payload decoding done on the main thread (protocol.py RxRawPacket and   *)
(* the data/obus_*.py decoders) and bus-event dispatch with its observer   *)
(* callbacks.                                                              *)
(*                                                                         *)
(* The environment is kept at the level the client sees it: the transport  *)
(* is a link that comes up and goes down and delivers, in order, the       *)
(* reader's CONNECTED / PACKET / DISCONNECTED messages into the main       *)
(* looper queue `mq`; the server is an obus server that owns the real      *)
(* object set `srv` and talks the wire protocol of spec section 6.  The    *)
(* threads of Transport are refined in ObusTransport.                      *)
(*                                                                         *)
(* Observer callbacks run user code on the main thread.  Each callback is  *)
(* a pc value; while the main thread is inside one of the callbacks in     *)
(* CallPoints, the user may issue Client.sendMethodCall (UserCall).        *)
(***************************************************************************)
EXTENDS Integers, Sequences, FiniteSets, TLC

CONSTANTS
    Handles,          \* object handles the server may assign (u16, never 0)
    Values,           \* abstract values of an object's property struct
    CallHandleLimit,  \* client.py:155, 65536 in the code: handles wrap to 1
    MaxCalls,         \* bound on Client.sendMethodCall invocations
    MaxConns,         \* bound on socket connections made by the reader
    MaxStarts,        \* bound on Client.start invocations
    MaxSrvOps,        \* bound on changes the server makes to its objects
    AllowRefuse,      \* whether the server may answer CONRESP(REFUSED)
    UserCallsStale,   \* whether the user may call on objects no longer on the bus
    CallPoints,       \* main-thread points at which user code may call a method
    SrvInit,          \* the server's objects when the client starts
    NoObj, NoCall, Absent

ASSUME /\ Handles \subseteq 1..65535 /\ Handles # {}
       /\ SrvInit \in [Handles -> Values \cup {Absent}]
       /\ CallHandleLimit \in 2..65536
       /\ CallPoints \subseteq {"idle", "busEvtCb", "addCb", "eventCb",
                                "removeCb", "ackCb", "abortCb"}

CallHandles == 1..(CallHandleLimit - 1)

\* A client-side ObusObject is a fresh Python object per decode
\* (ObusObject.decode): it is identified by the server emission that carried
\* it and its handle.  Its handle is obj.handle.
ObjIds == Nat \X Handles
HandleOf(o) == o[2]

VARIABLES
    state,       \* Client.state
    bus,         \* Bus.objects : handle -> ObusObject
    objVal,      \* obj.struct of every decoded ObusObject
    handleCall,  \* Client.handleCall
    pending,     \* Client.pendingCalls : call handle -> call
    calls,       \* every ObusCall sent, with its ack and ghost bookkeeping
    pc,          \* where the main thread is in processing a message
    cur,         \* the bus event being notified / dispatched
    after,       \* state to take when the dispatch of `cur` ends (_disconnect)
    cbObj,       \* object of the onObjectAdd/Remove callback / being removed
    cbEvt,       \* event of the onObjectEvent callback
    cbCall,      \* call of the onObjectCallAck callback
    abortSet,    \* calls still to abort in _removePendingCalls' loop
    tgen,        \* identity of the live Transport (its readHandler)
    running,     \* Transport.running
    link,        \* whether the reader's socket is connected
    conns, starts,
    mq,          \* main looper queue: messages posted by the reader
    wq,          \* writer looper queue: packets posted by writePacket
    down,        \* bytes sent by the server not yet read by the reader
    up,          \* packets the writer sent not yet read by the server
    srv,         \* the server's objects: handle -> value
    sess,        \* the server's view of the current connection
    srvOps,
    emit         \* number of server emissions carrying objects

clientVars == <<state, bus, objVal, handleCall, pending, calls>>
mainVars == <<pc, cur, after, cbObj, cbEvt, cbCall, abortSet>>
envVars == <<tgen, running, link, conns, starts, mq, wq, down, up, srv, sess, srvOps, emit>>
envNoMq == <<tgen, running, link, conns, starts, wq, down, up, srv, sess, srvOps, emit>>
vars == <<clientVars, mainVars, envVars>>

States == {"IDLE", "CONNECTING", "CONNECTED", "DISCONNECTING", "REFUSED"}
Acks == {"INVALID", "ACKED", "ABORTED"}
NoBusEvt == [type |-> "NONE", add |-> {}, rem |-> {}, evt |-> {}]

\* ObusBusEvent with the lists of BusEventBase.create*.
BusEvt(t, a, r, e) == [type |-> t, add |-> a, rem |-> r, evt |-> e]

Present == {h \in Handles : srv[h] # Absent}
LiveObjs == {bus[h] : h \in {k \in Handles : bus[k] # NoObj}}
PendingCalls == {pending[h] : h \in {k \in CallHandles : pending[k] # NoCall}}

\* Objects the user code holds and may call a method on.
Callable == IF UserCallsStale THEN DOMAIN objVal ELSE LiveObjs

TypeOK ==
    /\ state \in States
    /\ bus \in [Handles -> ObjIds \cup {NoObj}]
    /\ DOMAIN objVal \subseteq ObjIds /\ \A o \in DOMAIN objVal : objVal[o] \in Values
    /\ handleCall \in CallHandles
    /\ pending \in [CallHandles -> (1..MaxCalls) \cup {NoCall}]
    /\ \A c \in DOMAIN calls : calls[c] \in [obj : ObjIds, handle : CallHandles,
                                  ack : Acks, ackOf : 0..MaxCalls, cbs : Nat]
    /\ pc \in {"idle", "busEvtCb", "dispatch", "addCb", "eventCb", "removeCb",
               "abort", "abortCb", "ackCb"}
    /\ after \in {"none", "CONNECTING", "IDLE"}
    /\ running \in BOOLEAN /\ link \in {"up", "down"}
    /\ sess \in {"none", "waiting", "accepted", "refused"}
    /\ srv \in [Handles -> Values \cup {Absent}]

-----------------------------------------------------------------------------
(* Client.sendMethodCall (client.py:152-168).  The handle is incremented    *)
(* first and wraps to 1 at the limit; the call is stored under it (a call   *)
(* still pending under that handle is overwritten); Transport.writePacket   *)
(* posts the encoded CALL to the writer thread (transport.py:139-140).      *)
\* Wrapping one step late (a `>` for the `>=` of client.py:155).
NextHandleLate(hc) == IF hc + 1 > CallHandleLimit THEN 1 ELSE hc + 1

NextHandle(hc) == IF hc + 1 >= CallHandleLimit THEN 1 ELSE hc + 1

sendMethodCall(o) ==
    LET h == NextHandle(handleCall)
        c == Len(calls) + 1
    IN /\ handleCall' = h
       /\ pending' = [pending EXCEPT ![h] = c]
       /\ calls' = Append(calls, [obj |-> o, handle |-> h, ack |-> "INVALID",
                                  ackOf |-> 0, cbs |-> 0])
       /\ wq' = IF state = "IDLE"
                THEN wq
                ELSE Append(wq, [type |-> "CALL", h |-> h, oh |-> HandleOf(o), cid |-> c])

\* User code calling a method, at top level or from inside a callback.  While
\* IDLE, transport is None: writePacket raises AttributeError to the caller
\* once the call is in pendingCalls, and nothing is sent.  Only a top-level
\* call on an object kept from an earlier connection can be made then; a
\* callback run by stop() is excluded (the exception would also unwind the
\* dispatch it runs in).
UserCall ==
    /\ pc \in CallPoints
    /\ after # "IDLE"
    /\ state = "IDLE" => UserCallsStale /\ pc = "idle"
    /\ Len(calls) < MaxCalls
    /\ \E o \in Callable : sendMethodCall(o)
    /\ UNCHANGED <<state, bus, objVal, mainVars, tgen, running, link, conns, starts,
                   mq, up, down, srv, sess, srvOps, emit>>

-----------------------------------------------------------------------------
(* Client.start (client.py:84-89) with Transport.start: a new transport     *)
(* whose reader will connect.                                               *)
start ==
    /\ pc = "idle" /\ state = "IDLE" /\ starts < MaxStarts
    /\ state' = "CONNECTING"
    /\ starts' = starts + 1 /\ running' = TRUE
    /\ UNCHANGED <<bus, objVal, handleCall, pending, calls, mainVars, tgen, link,
                   conns, mq, wq, down, up, srv, sess, srvOps, emit>>

\* Client._disconnect (client.py:234-244): a DISCONNECTED bus event removing
\* every registered object if the client was CONNECTED, then CONNECTING.
\* `final` is the state taken once that event is dispatched.
\* _disconnect without the DISCONNECTED notification of client.py:239-241.
DisconnectSilently(final) == state' = final /\ UNCHANGED <<cur, pc, after>>

Disconnect(final) ==
    IF state = "CONNECTED"
    THEN /\ state' = "DISCONNECTING"
         /\ cur' = BusEvt("DISCONNECTED", {}, LiveObjs, {})
         /\ pc' = "busEvtCb"
         /\ after' = final
    ELSE /\ state' = final
         /\ UNCHANGED <<cur, pc, after>>

(* Client.stop (client.py:92-97): Transport.stop closes the socket and, once *)
(* both threads are joined, drops its packetHandler so that messages still  *)
(* queued for it are lost (transport.py:108-134, 225-228); then _disconnect *)
(* and IDLE.  The writer sends what it still has queued before TX_STOP on   *)
(* the closed socket: lost.                                                 *)
stop ==
    /\ pc = "idle" /\ state # "IDLE"
    /\ tgen' = tgen + 1 /\ running' = FALSE
    /\ link' = "down" /\ down' = <<>> /\ up' = <<>> /\ wq' = <<>> /\ sess' = "none"
    /\ Disconnect("IDLE")
    /\ UNCHANGED <<bus, objVal, handleCall, pending, calls, cbObj, cbEvt, cbCall,
                   abortSet, conns, starts, mq, srv, srvOps, emit>>

-----------------------------------------------------------------------------
(* Messages of the main looper queue (Transport._onRxMessage).             *)
Msg == Head(mq)
Pkt == Msg.pkt

\* _onRxMessage without its `packetHandler is None` test (transport.py:225):
\* messages of a stopped transport reach the client.
RecvGuardAnyGen(kind) == pc = "idle" /\ mq # <<>> /\ Msg.kind = kind

RecvGuard(kind) == pc = "idle" /\ mq # <<>> /\ Msg.gen = tgen /\ Msg.kind = kind
RecvPkt(t) == RecvGuard("packet") /\ Pkt.type = t

\* A message for a stopped transport: packetHandler is None, it is dropped.
recvStale ==
    /\ pc = "idle" /\ mq # <<>> /\ Msg.gen # tgen
    /\ mq' = Tail(mq)
    /\ UNCHANGED <<clientVars, mainVars, tgen, running, link, conns, starts, wq, down,
                   up, srv, sess, srvOps, emit>>

\* Client.onConnected -> _sendConnectionRequest: a CONREQ to the writer.
onConnected ==
    /\ RecvGuard("connected")
    /\ mq' = Tail(mq)
    /\ wq' = Append(wq, [type |-> "CONREQ"])
    /\ UNCHANGED <<clientVars, mainVars, tgen, running, link, conns, starts, down,
                   up, srv, sess, srvOps, emit>>

\* Client.onDisconnected -> _disconnect.
onDisconnected ==
    /\ RecvGuard("disconnected")
    /\ mq' = Tail(mq)
    /\ Disconnect("CONNECTING")
    /\ UNCHANGED <<bus, objVal, handleCall, pending, calls, cbObj, cbEvt, cbCall,
                   abortSet, envNoMq>>

\* _recvConnectionResponse (client.py:267-287); the objects were decoded by
\* RxPacketConnResp before the state is looked at.
RecvConnResp == RecvPkt("CONRESP") /\ mq' = Tail(mq) /\ objVal' = objVal @@ Pkt.objs

recvConnRespIgnored ==
    /\ RecvConnResp /\ state # "CONNECTING"
    /\ UNCHANGED <<state, bus, handleCall, pending, calls, mainVars, envNoMq>>

recvConnRespRefused ==
    /\ RecvConnResp /\ state = "CONNECTING" /\ Pkt.status = "REFUSED"
    /\ state' = "REFUSED"
    /\ cur' = BusEvt("CONNECTION_REFUSED", {}, {}, {})
    /\ pc' = "busEvtCb"
    /\ UNCHANGED <<bus, handleCall, pending, calls, after, cbObj, cbEvt, cbCall,
                   abortSet, envNoMq>>

recvConnRespAccepted ==
    /\ RecvConnResp /\ state = "CONNECTING" /\ Pkt.status = "ACCEPTED"
    /\ state' = "CONNECTED"
    /\ cur' = BusEvt("CONNECTED", DOMAIN Pkt.objs, {}, {})
    /\ pc' = "busEvtCb"
    /\ UNCHANGED <<bus, handleCall, pending, calls, after, cbObj, cbEvt, cbCall,
                   abortSet, envNoMq>>

\* Raising a decoded bus event: _notifyBusEvent starts with onBusEvent.
Raise(evt) ==
    /\ cur' = evt
    /\ pc' = "busEvtCb"
    /\ UNCHANGED <<state, bus, handleCall, pending, calls, after, cbObj, cbEvt,
                   cbCall, abortSet, envNoMq>>

\* _recvAdd (client.py:289-292): no state check, the object is registered.
recvAdd ==
    /\ RecvPkt("ADD") /\ mq' = Tail(mq)
    /\ objVal' = objVal @@ Pkt.objs
    /\ Raise(BusEvt("OBJECT_REGISTERED", DOMAIN Pkt.objs, {}, {}))

\* RxPacketRemove / ObusEvent.decode resolve the handle against the bus at
\* decode time (protocol.py:216-231, obus_event.py:90-110).
recvRemove ==
    /\ RecvPkt("REMOVE") /\ bus[Pkt.h] # NoObj /\ mq' = Tail(mq)
    /\ Raise(BusEvt("OBJECT_UNREGISTERED", {}, {bus[Pkt.h]}, {}))
    /\ UNCHANGED objVal

recvEvent ==
    /\ RecvPkt("EVENT") /\ bus[Pkt.h] # NoObj /\ mq' = Tail(mq)
    /\ Raise(BusEvt("OBJECT_EVENT", {}, {}, {[o |-> bus[Pkt.h], v |-> Pkt.v]}))
    /\ UNCHANGED objVal

\* ObusBusEvent.decode (obus_busevent.py:110-162): removes and events whose
\* handle is not registered are logged and left out of the lists.
recvBusEvent ==
    /\ RecvPkt("BUS_EVENT") /\ mq' = Tail(mq)
    /\ objVal' = objVal @@ Pkt.objs
    /\ LET rh == {h \in Pkt.rems : bus[h] # NoObj}
           ev == {e \in Pkt.evts : bus[e.h] # NoObj}
       IN Raise(BusEvt("SERVER", DOMAIN Pkt.objs, {bus[h] : h \in rh},
                       {[o |-> bus[e.h], v |-> e.v] : e \in ev}))

\* _recvAck (client.py:307-322).
\* _recvAck whose pendingCalls lookup misses a pending call (client.py:309).
recvAckUnknownAlways ==
    /\ RecvPkt("ACK") /\ mq' = Tail(mq)
    /\ UNCHANGED <<clientVars, mainVars, envNoMq>>

recvAckUnknown ==
    /\ RecvPkt("ACK") /\ pending[Pkt.h] = NoCall /\ mq' = Tail(mq)
    /\ UNCHANGED <<clientVars, mainVars, envNoMq>>

recvAck ==
    /\ RecvPkt("ACK") /\ pending[Pkt.h] # NoCall /\ mq' = Tail(mq)
    /\ LET c == pending[Pkt.h]
       IN /\ calls' = [calls EXCEPT ![c].ack = "ACKED", ![c].ackOf = Pkt.cid,
                                    ![c].cbs = @ + 1]
          /\ cbCall' = c
    /\ pc' = "ackCb"
    /\ UNCHANGED <<state, bus, objVal, handleCall, pending, cur, after, cbObj,
                   cbEvt, abortSet, envNoMq>>

\* After onObjectCallAck returns: del pendingCalls[call.handle].
\* _recvAck without `del self.pendingCalls[call.handle]` (client.py:322).
ackCbReturnKeep ==
    /\ pc = "ackCb"
    /\ pc' = "idle" /\ cbCall' = NoCall
    /\ UNCHANGED <<state, bus, objVal, handleCall, pending, calls, cur, after, cbObj,
                   cbEvt, abortSet, envVars>>

ackCbReturn ==
    /\ pc = "ackCb"
    /\ pending' = [pending EXCEPT ![calls[cbCall].handle] = NoCall]
    /\ pc' = "idle" /\ cbCall' = NoCall
    /\ UNCHANGED <<state, bus, objVal, handleCall, calls, cur, after, cbObj,
                   cbEvt, abortSet, envVars>>

-----------------------------------------------------------------------------
(* Client.dispatchBusEvent (client.py:170-224), run once after onBusEvent   *)
(* returns (_notifyBusEvent, client.py:226-232; the `dispatched` flag makes *)
(* a dispatch requested by the observer and the automatic one the same      *)
(* single pass): registrations, then events, then unregistrations.          *)
Dispatching(p) == pc = p /\ UNCHANGED <<state, handleCall, calls, envVars>>

busEvtCbReturn ==
    /\ Dispatching("busEvtCb")
    /\ pc' = "dispatch"
    /\ UNCHANGED <<bus, objVal, pending, cur, after, cbObj, cbEvt, cbCall, abortSet>>

\* Bus.registerObject raises KeyError for a handle already registered: logged,
\* no onObjectAdd.
dispatchAdd ==
    /\ Dispatching("dispatch") /\ cur.add # {}
    /\ \E o \in cur.add :
         /\ cur' = [cur EXCEPT !.add = @ \ {o}]
         /\ IF bus[HandleOf(o)] = NoObj
            THEN /\ bus' = [bus EXCEPT ![HandleOf(o)] = o]
                 /\ pc' = "addCb" /\ cbObj' = o
            ELSE UNCHANGED <<bus, pc, cbObj>>
    /\ UNCHANGED <<objVal, pending, after, cbEvt, cbCall, abortSet>>

addCbReturn ==
    /\ Dispatching("addCb")
    /\ pc' = "dispatch" /\ cbObj' = NoObj
    /\ UNCHANGED <<bus, objVal, pending, cur, after, cbEvt, cbCall, abortSet>>

dispatchEvent ==
    /\ Dispatching("dispatch") /\ cur.add = {} /\ cur.evt # {}
    /\ \E e \in cur.evt : cur' = [cur EXCEPT !.evt = @ \ {e}] /\ cbEvt' = e
    /\ pc' = "eventCb"
    /\ UNCHANGED <<bus, objVal, pending, after, cbObj, cbCall, abortSet>>

\* After onObjectEvent: evt.commit() merges the event into evt.obj's struct
\* (ObusEvent.commit, obus_event.py:231-235; a commit the observer already
\* did makes it a no-op, merging the same diff again is the same).
\* The dispatch loop without evt.commit() (client.py:205).
eventCbReturnNoCommit ==
    /\ Dispatching("eventCb")
    /\ pc' = "dispatch" /\ cbEvt' = NoObj
    /\ UNCHANGED <<bus, objVal, pending, cur, after, cbObj, cbCall, abortSet>>

eventCbReturn ==
    /\ Dispatching("eventCb")
    /\ objVal' = [objVal EXCEPT ![cbEvt.o] = cbEvt.v]
    /\ pc' = "dispatch" /\ cbEvt' = NoObj
    /\ UNCHANGED <<bus, pending, cur, after, cbObj, cbCall, abortSet>>

dispatchRemove ==
    /\ Dispatching("dispatch") /\ cur.add = {} /\ cur.evt = {} /\ cur.rem # {}
    /\ \E o \in cur.rem : cur' = [cur EXCEPT !.rem = @ \ {o}] /\ cbObj' = o
    /\ pc' = "removeCb"
    /\ UNCHANGED <<bus, objVal, pending, after, cbEvt, cbCall, abortSet>>

\* After onObjectRemove: _removePendingCalls iterates over a copy of the
\* pending calls (client.py:246-259); calls made from its callbacks are not in it.
removeCbReturn ==
    /\ Dispatching("removeCb")
    /\ abortSet' = {c \in PendingCalls : calls[c].obj = cbObj}
    /\ pc' = "abort"
    /\ UNCHANGED <<bus, objVal, pending, cur, after, cbObj, cbEvt, cbCall>>

abortCall ==
    /\ pc = "abort" /\ abortSet # {}
    /\ \E c \in abortSet :
         /\ calls' = [calls EXCEPT ![c].ack = "ABORTED", ![c].cbs = @ + 1]
         /\ abortSet' = abortSet \ {c}
         /\ cbCall' = c
    /\ pc' = "abortCb"
    /\ UNCHANGED <<state, bus, objVal, handleCall, pending, cur, after, cbObj,
                   cbEvt, envVars>>

\* The abort loop without `del self.pendingCalls[call.handle]` (client.py:259).
abortCbReturn ==
    /\ Dispatching("abortCb")
    /\ pending' = [pending EXCEPT ![calls[cbCall].handle] = NoCall]
    /\ pc' = "abort" /\ cbCall' = NoCall
    /\ UNCHANGED <<bus, objVal, cur, after, cbObj, cbEvt, abortSet>>

\* Bus.unregisterObject: KeyError (logged) if the handle is not registered.
unregister ==
    /\ Dispatching("abort") /\ abortSet = {}
    /\ bus' = [bus EXCEPT ![HandleOf(cbObj)] = NoObj]
    /\ pc' = "dispatch" /\ cbObj' = NoObj
    /\ UNCHANGED <<objVal, pending, cur, after, cbEvt, cbCall, abortSet>>

\* The bus event is done; _disconnect then sets its final state.
dispatchDone ==
    /\ pc = "dispatch" /\ cur.add = {} /\ cur.evt = {} /\ cur.rem = {}
    /\ pc' = "idle"
    /\ state' = IF after = "none" THEN state ELSE after
    /\ after' = "none"
    /\ cur' = NoBusEvt
    /\ UNCHANGED <<bus, objVal, handleCall, pending, calls, cbObj, cbEvt, cbCall,
                   abortSet, envVars>>

-----------------------------------------------------------------------------
(* The environment.  The reader connects while the transport runs, forwards *)
(* what it reads in order and posts DISCONNECTED when the socket ends; bytes *)
(* in flight when the connection ends are lost.                             *)
linkUp ==
    /\ running /\ link = "down" /\ conns < MaxConns
    /\ link' = "up" /\ sess' = "waiting" /\ conns' = conns + 1
    /\ mq' = Append(mq, [gen |-> tgen, kind |-> "connected"])
    /\ UNCHANGED <<clientVars, mainVars, tgen, running, starts, wq, down, up, srv, srvOps, emit>>

linkDrop ==
    /\ link = "up"
    /\ link' = "down" /\ sess' = "none" /\ down' = <<>> /\ up' = <<>>
    /\ mq' = Append(mq, [gen |-> tgen, kind |-> "disconnected"])
    /\ UNCHANGED <<clientVars, mainVars, tgen, running, conns, starts, wq, srv, srvOps, emit>>

deliver ==
    /\ link = "up" /\ down # <<>>
    /\ mq' = Append(mq, [gen |-> tgen, kind |-> "packet", pkt |-> Head(down)])
    /\ down' = Tail(down)
    /\ UNCHANGED <<clientVars, mainVars, tgen, running, link, conns, starts, wq, up, srv,
                   sess, srvOps, emit>>

\* Transport._onTxMessage (transport.py:251-272): the writer takes the socket
\* the reader holds at send time; a packet finds it connected or is lost
\* ("Tx packet lost", or sendall failing on a socket not yet connected).
writerSend ==
    /\ wq # <<>>
    /\ wq' = Tail(wq)
    /\ up' = IF link = "up" THEN Append(up, Head(wq)) ELSE up
    /\ UNCHANGED <<clientVars, mainVars, tgen, running, link, conns, starts, mq, down,
                   srv, sess, srvOps, emit>>

\* The server's objects as a CONRESP / ADD / BUS_EVENT object list.
Emitted(hs) == [o \in {emit} \X hs |-> srv'[HandleOf(o)]]
Snapshot == [o \in {emit} \X Present |-> srv[HandleOf(o)]]

SrvSend(p) == down' = IF sess = "accepted" THEN Append(down, p) ELSE down

\* CONREQ: accept (or refuse) the first one; answer a repeated one again.
srvConReq ==
    /\ up # <<>> /\ Head(up).type = "CONREQ"
    /\ up' = Tail(up)
    /\ \/ /\ sess \in {"waiting", "accepted"}
          /\ sess' = "accepted"
          /\ down' = Append(down, [type |-> "CONRESP", status |-> "ACCEPTED",
                                   objs |-> Snapshot])
          /\ emit' = emit + 1
       \/ /\ sess = "waiting" /\ AllowRefuse
          /\ sess' = "refused"
          /\ down' = Append(down, [type |-> "CONRESP", status |-> "REFUSED",
                                   objs |-> <<>>])
          /\ UNCHANGED emit
       \/ /\ sess = "refused"
          /\ UNCHANGED <<sess, down, emit>>
    /\ UNCHANGED <<clientVars, mainVars, tgen, running, link, conns, starts, mq, wq, srv, srvOps>>

\* CALL: acknowledged on an accepted connection (the ghost cid says which
\* call the server answers), ignored before.
srvCall ==
    /\ up # <<>> /\ Head(up).type = "CALL"
    /\ up' = Tail(up)
    /\ SrvSend([type |-> "ACK", h |-> Head(up).h, cid |-> Head(up).cid])
    /\ UNCHANGED <<clientVars, mainVars, tgen, running, link, conns, starts, mq, wq,
                   srv, sess, srvOps, emit>>

SrvChange == srvOps < MaxSrvOps /\ srvOps' = srvOps + 1

srvAdd ==
    /\ SrvChange
    /\ \E h \in Handles \ Present, v \in Values :
         /\ srv' = [srv EXCEPT ![h] = v]
         /\ SrvSend([type |-> "ADD", objs |-> Emitted({h})])
    /\ emit' = emit + 1
    /\ UNCHANGED <<clientVars, mainVars, tgen, running, link, conns, starts, mq, wq, up, sess>>

srvRemove ==
    /\ SrvChange
    /\ \E h \in Present :
         /\ srv' = [srv EXCEPT ![h] = Absent]
         /\ SrvSend([type |-> "REMOVE", h |-> h])
    /\ UNCHANGED <<clientVars, mainVars, tgen, running, link, conns, starts, mq, wq, up, sess, emit>>

srvEvent ==
    /\ SrvChange
    /\ \E h \in Present, v \in Values :
         /\ v # srv[h]
         /\ srv' = [srv EXCEPT ![h] = v]
         /\ SrvSend([type |-> "EVENT", h |-> h, v |-> v])
    /\ UNCHANGED <<clientVars, mainVars, tgen, running, link, conns, starts, mq, wq, up, sess, emit>>

\* A server bus event: new objects A, removed objects R, events on the other
\* present objects E (one per object; the client applies adds, events, removes).
srvBusEvent ==
    /\ SrvChange
    /\ \E A \in SUBSET (Handles \ Present), R \in SUBSET Present,
          E \in SUBSET Present :
         /\ E \cap R = {} /\ A \cup R \cup E # {}
         /\ \E av \in [A -> Values], ev \in [E -> Values] :
              /\ \A h \in E : ev[h] # srv[h]
              /\ srv' = [h \in Handles |-> CASE h \in A -> av[h]
                                             [] h \in R -> Absent
                                             [] h \in E -> ev[h]
                                             [] OTHER -> srv[h]]
              /\ SrvSend([type |-> "BUS_EVENT", objs |-> Emitted(A), rems |-> R,
                          evts |-> {[h |-> h, v |-> ev[h]] : h \in E}])
    /\ emit' = emit + 1
    /\ UNCHANGED <<clientVars, mainVars, tgen, running, link, conns, starts, mq, wq, up, sess>>

-----------------------------------------------------------------------------
Init ==
    /\ state = "IDLE"
    /\ bus = [h \in Handles |-> NoObj]
    /\ objVal = <<>>
    /\ handleCall = 1
    /\ pending = [h \in CallHandles |-> NoCall]
    /\ calls = <<>>
    /\ pc = "idle" /\ cur = NoBusEvt /\ after = "none"
    /\ cbObj = NoObj /\ cbEvt = NoObj /\ cbCall = NoCall /\ abortSet = {}
    /\ tgen = 0 /\ running = FALSE /\ link = "down" /\ conns = 0 /\ starts = 0
    /\ mq = <<>> /\ wq = <<>> /\ down = <<>> /\ up = <<>>
    /\ srv = SrvInit
    /\ sess = "none" /\ srvOps = 0 /\ emit = 0

\* Every step the main thread takes on its own once it has something to do.
MainStep ==
    \/ recvStale \/ onConnected \/ onDisconnected
    \/ recvConnRespIgnored \/ recvConnRespRefused \/ recvConnRespAccepted
    \/ recvAdd \/ recvRemove \/ recvEvent \/ recvBusEvent
    \/ recvAckUnknown \/ recvAck \/ ackCbReturn
    \/ busEvtCbReturn \/ dispatchAdd \/ addCbReturn \/ dispatchEvent
    \/ eventCbReturn \/ dispatchRemove \/ removeCbReturn \/ abortCall
    \/ abortCbReturn \/ unregister \/ dispatchDone

User == start \/ stop \/ UserCall

Server == srvConReq \/ srvCall \/ srvAdd \/ srvRemove \/ srvEvent \/ srvBusEvent

Next == MainStep \/ User \/ Server \/ linkUp \/ linkDrop \/ deliver \/ writerSend

\* The main looper, the reader, the writer and the server handle what reaches
\* them; the user, the network and the server's own changes are not assumed
\* to act.
Fairness ==
    /\ WF_vars(MainStep)
    /\ WF_vars(deliver)
    /\ WF_vars(writerSend)
    /\ WF_vars(srvConReq \/ srvCall)

Spec == Init /\ [][Next]_vars /\ Fairness
-----------------------------------------------------------------------------
(* Properties.                                                              *)

\* The client has processed everything the server sent on the connection it
\* is CONNECTED on, and has nothing in flight to the server.
Quiescent ==
    /\ state = "CONNECTED" /\ pc = "idle" /\ sess = "accepted"
    /\ wq = <<>> /\ down = <<>> /\ up = <<>>
    /\ \A i \in DOMAIN mq : mq[i].gen # tgen

\* The local mirror: once the client is CONNECTED and has applied every
\* packet of its connection, its Bus registry holds exactly the server's
\* objects with the server's values.  This is what CONRESP registration,
\* ADD/REMOVE/EVENT/BUS_EVENT decoding against the live bus, dispatch order
\* and the DISCONNECTED clean-up of earlier connections must achieve together.
MirrorConsistent ==
    Quiescent =>
        \A h \in Handles :
            /\ (bus[h] = NoObj) <=> (srv[h] = Absent)
            /\ bus[h] # NoObj => objVal[bus[h]] = srv[h]

\* A REMOVE or EVENT packet the main thread decodes always finds its object
\* on the bus: against a server that sends in order, the DecodeError path of
\* RxRawPacket.decode (protocol.py:216-231, obus_event.py) that drops the
\* packet is never taken.  It takes CONRESP registration, ADD handling, the
\* generation filter of stop() and the DISCONNECTED clean-up to hold.
PacketsResolve ==
    RecvGuard("packet") /\ Pkt.type \in {"REMOVE", "EVENT"} => bus[Pkt.h] # NoObj

\* Objects are on the bus only while the client is CONNECTED (or dispatching
\* the DISCONNECTED event that removes them): a lost connection, a stop()
\* and a reconnection never leave objects of an earlier connection behind.
RegistryOnlyWhenConnected ==
    (\E h \in Handles : bus[h] # NoObj) => state \in {"CONNECTED", "DISCONNECTING"}

\* Each call gets at most one onObjectCallAck, and an ACKED one is the
\* server's answer to that very call (pendingCalls is keyed by the wrapping
\* call handle only, client.py:154-158, 309).
AckMatchesCall ==
    \A c \in DOMAIN calls :
        /\ calls[c].cbs <= 1
        /\ calls[c].ack = "ACKED" => calls[c].ackOf = c

\* Every call sent is eventually resolved: acknowledged by the server or
\* aborted when its object goes away.
CallEventuallyResolved ==
    \A c \in 1..MaxCalls :
        (c \in DOMAIN calls /\ calls[c].ack = "INVALID")
            ~> (c \in DOMAIN calls /\ calls[c].ack # "INVALID")
=============================================================================
