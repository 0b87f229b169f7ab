---------------------------- MODULE ObusTransport ----------------------------
(***************************************************************************)
(* One obus.Transport object (src/python/obus/transport.py) from start() to *)
(* stop(): the owner (main) thread that starts it, runs the main looper and *)
(* finally stops it; the reader thread with its socket loop; the writer     *)
(* thread with its own looper.  `cond` is the Transport's lock: the reader's *)
(* socket creation and clean-up and stop()'s shutdown/close each run under  *)
(* it, so each is one step here; connect(), recv() and sendall() run        *)
(* outside it.                                                              *)
(*                                                                         *)
(* The client on the main thread is reduced to what the transport sees of  *)
(* it: on CONNECTED it writes a CONREQ (Client.onConnected).  The peer is  *)
(* an obus server: it sends nothing on a connection before it has read a   *)
(* CONREQ, then its CONRESP and later packets; it may close the connection. *)
(***************************************************************************)
EXTENDS Naturals, Sequences

CONSTANTS
    MaxSocks,        \* bound on sockets the reader creates
    MaxPush          \* bound on packets the peer sends after its CONRESP

VARIABLES
    mainPc,      \* the owner thread: in start(), running its looper, in stop()
    running,     \* Transport.running
    reconnect,   \* Transport.reconnect
    writeReady,  \* Transport.writeHandler is not None
    handlerSet,  \* Transport.packetHandler is not None
    rdPc,        \* the reader thread
    wrPc,        \* the writer thread
    nsocks,      \* number of sockets the reader has created
    sockSt,      \* Transport.sock: "none" for None, else its socket's state
    mq,          \* main looper queue (readHandler messages)
    wq,          \* writer looper queue
    peerReq,     \* the peer has read a CONREQ on the current connection
    peerData,    \* packets the peer sent that the reader has not read
    peerClosed,  \* the peer closed the current connection
    pushes,
    view         \* ghost: "up" between a CONNECTED and a DISCONNECTED seen by the client

vars == <<mainPc, running, reconnect, writeReady, handlerSet, rdPc, wrPc, nsocks,
          sockSt, mq, wq, peerReq, peerData, peerClosed, pushes, view>>
peerVars == <<peerReq, peerData, peerClosed, pushes>>

-----------------------------------------------------------------------------
(* The owner thread.                                                       *)

\* Transport.start (transport.py:82-98): the two threads are started.
start ==
    /\ mainPc = "idle"
    /\ mainPc' = "starting" /\ running' = TRUE /\ handlerSet' = TRUE
    /\ rdPc' = "top" /\ wrPc' = "init"
    /\ UNCHANGED <<reconnect, writeReady, nsocks, sockSt, mq, wq, peerVars, view>>

\* start() returns once the writer has created its handler (transport.py:100-106).
startDone ==
    /\ mainPc = "starting" /\ writeReady
    /\ mainPc' = "running"
    /\ UNCHANGED <<running, reconnect, writeReady, handlerSet, rdPc, wrPc, nsocks, sockSt,
                   mq, wq, peerVars, view>>

\* The main looper runs Transport._onRxMessage (transport.py:223-234); the
\* client answers CONNECTED with a CONREQ (client.py:324-327, 261-265).
onRxMessage ==
    /\ mainPc = "running" /\ mq # <<>> /\ handlerSet
    /\ mq' = Tail(mq)
    /\ wq' = IF Head(mq) = "connected" THEN Append(wq, "CONREQ") ELSE wq
    /\ view' = CASE Head(mq) = "connected" -> "up"
                 [] Head(mq) = "disconnected" -> "down"
                 [] OTHER -> view
    /\ UNCHANGED <<mainPc, running, reconnect, writeReady, handlerSet, rdPc, wrPc, nsocks,
                   sockSt, peerVars>>

\* Client.setAutoreconnect -> Transport.setAutoreconnect(False) (transport.py:136-137).
setAutoreconnect ==
    /\ mainPc = "running" /\ reconnect
    /\ reconnect' = FALSE
    /\ UNCHANGED <<mainPc, running, writeReady, handlerSet, rdPc, wrPc, nsocks, sockSt,
                   mq, wq, peerVars, view>>

\* shutdown() raises ENOTCONN on a socket that is not connected and EBADF on
\* a closed one; the except clause then skips close() (transport.py:115-119).
\* A connected socket is shut down (a blocked recv() returns EOF) and closed.
ShutdownClose(st) == IF st = "connected" THEN "closed" ELSE st

\* Transport.stop, the part under the lock (transport.py:108-121).
stop ==
    /\ mainPc = "running"
    /\ running' = FALSE
    /\ wq' = Append(wq, "STOP")
    /\ sockSt' = ShutdownClose(sockSt)
    /\ mainPc' = "joining"
    /\ UNCHANGED <<reconnect, writeReady, handlerSet, rdPc, wrPc, nsocks, mq, peerVars, view>>

\* Both joins return, then the clean-up drops packetHandler (transport.py:123-134).
joined ==
    /\ mainPc = "joining" /\ rdPc = "exited" /\ wrPc = "exited"
    /\ mainPc' = "stopped" /\ handlerSet' = FALSE /\ writeReady' = FALSE /\ sockSt' = "none"
    /\ UNCHANGED <<running, reconnect, rdPc, wrPc, nsocks, mq, wq, peerVars, view>>

-----------------------------------------------------------------------------
(* The reader thread, Transport._reader (transport.py:150-221).            *)

\* Under the lock: leave if stopped, else create a new socket (154-160).
readerOpen ==
    /\ rdPc = "top"
    /\ IF running
       THEN /\ nsocks < MaxSocks
            /\ nsocks' = nsocks + 1 /\ sockSt' = "new"
            /\ peerReq' = FALSE /\ peerData' = 0 /\ peerClosed' = FALSE
            /\ rdPc' = "connect"
       ELSE /\ rdPc' = "exited"
            /\ UNCHANGED <<nsocks, sockSt, peerReq, peerData, peerClosed>>
    /\ UNCHANGED <<mainPc, running, reconnect, writeReady, handlerSet, wrPc, mq, wq,
                   pushes, view>>

\* connect() with DISCONNECTED posted after the outer try instead of inside
\* it (transport.py:194), so also for a failed connect.
readerConnectNotify ==
    /\ rdPc = "connect"
    /\ \/ sockSt = "new" /\ sockSt' = "connected" /\ rdPc' = "connected" /\ UNCHANGED mq
       \/ rdPc' = "cleanup" /\ mq' = Append(mq, "disconnected") /\ UNCHANGED sockSt
    /\ UNCHANGED <<mainPc, running, reconnect, writeReady, handlerSet, wrPc, nsocks, wq,
                   peerVars, view>>

\* connect() with a 1s timeout (163-164): accepted, or refused / timed out /
\* EBADF on a socket stop() closed, all caught by the outer except (196-205);
\* a failed connect posts nothing.
readerConnect ==
    /\ rdPc = "connect"
    /\ \/ sockSt = "new" /\ sockSt' = "connected" /\ rdPc' = "connected"
       \/ rdPc' = "cleanup" /\ UNCHANGED sockSt
    /\ UNCHANGED <<mainPc, running, reconnect, writeReady, handlerSet, wrPc, nsocks, mq, wq,
                   peerVars, view>>

\* setblocking / keepalive fail with EBADF if stop() closed the socket in the
\* meantime; otherwise CONNECTED is posted (165-169).
readerConnected ==
    /\ rdPc = "connected"
    /\ IF sockSt = "connected"
       THEN rdPc' = "recv" /\ mq' = Append(mq, "connected")
       ELSE rdPc' = "cleanup" /\ UNCHANGED mq
    /\ UNCHANGED <<mainPc, running, reconnect, writeReady, handlerSet, wrPc, nsocks, sockSt,
                   wq, peerVars, view>>

\* recv() returns data: the decoder yields a packet, posted (174-185).
readerRecvData ==
    /\ rdPc = "recv" /\ sockSt = "connected" /\ peerData > 0
    /\ peerData' = peerData - 1
    /\ mq' = Append(mq, "packet")
    /\ UNCHANGED <<mainPc, running, reconnect, writeReady, handlerSet, rdPc, wrPc, nsocks,
                   sockSt, wq, peerReq, peerClosed, pushes, view>>

\* recv() returns EOF (peer closed, or stop() shut the socket down) or fails:
\* DISCONNECTED is posted (176-178, 187-194).
readerRecvEnd ==
    /\ rdPc = "recv"
    /\ \/ sockSt = "closed"
       \/ peerClosed /\ peerData = 0
    /\ rdPc' = "cleanup"
    /\ mq' = Append(mq, "disconnected")
    /\ UNCHANGED <<mainPc, running, reconnect, writeReady, handlerSet, wrPc, nsocks, sockSt,
                   wq, peerVars, view>>

\* Under the lock: close the socket and forget it (207-214); leave if
\* reconnection is off (216-217); the 1s sleep is not modelled (219-221).
readerCleanup ==
    /\ rdPc = "cleanup"
    /\ sockSt' = "none"
    /\ rdPc' = IF reconnect THEN "top" ELSE "exited"
    /\ UNCHANGED <<mainPc, running, reconnect, writeReady, handlerSet, wrPc, nsocks, mq, wq,
                   peerVars, view>>

-----------------------------------------------------------------------------
(* The writer thread, Transport._writer / _onTxMessage (transport.py:236-272). *)

writerInit ==
    /\ wrPc = "init"
    /\ wrPc' = "loop" /\ writeReady' = TRUE
    /\ UNCHANGED <<mainPc, running, reconnect, handlerSet, rdPc, nsocks, sockSt, mq, wq,
                   peerVars, view>>

\* The writer takes the socket the reader holds at send time (257-259): a
\* packet goes out only if it is connected; on None it is lost ("Tx packet
\* lost"), on a new or closed socket sendall fails and is ignored (267-269).
\* The peer answers the first CONREQ of a connection.
writerSend ==
    /\ wrPc = "loop" /\ wq # <<>> /\ Head(wq) = "CONREQ"
    /\ wq' = Tail(wq)
    /\ IF sockSt = "connected" /\ ~peerClosed /\ ~peerReq
       THEN peerReq' = TRUE /\ peerData' = peerData + 1
       ELSE UNCHANGED <<peerReq, peerData>>
    /\ UNCHANGED <<mainPc, running, reconnect, writeReady, handlerSet, rdPc, wrPc, nsocks,
                   sockSt, mq, peerClosed, pushes, view>>

writerStop ==
    /\ wrPc = "loop" /\ wq # <<>> /\ Head(wq) = "STOP"
    /\ wq' = Tail(wq) /\ wrPc' = "exited"
    /\ UNCHANGED <<mainPc, running, reconnect, writeReady, handlerSet, rdPc, nsocks, sockSt,
                   mq, peerVars, view>>

-----------------------------------------------------------------------------
(* The peer.                                                               *)

peerPush ==
    /\ sockSt = "connected" /\ peerReq /\ ~peerClosed /\ pushes < MaxPush
    /\ peerData' = peerData + 1 /\ pushes' = pushes + 1
    /\ UNCHANGED <<mainPc, running, reconnect, writeReady, handlerSet, rdPc, wrPc, nsocks,
                   sockSt, mq, wq, peerReq, peerClosed, view>>

peerClose ==
    /\ sockSt = "connected" /\ ~peerClosed
    /\ peerClosed' = TRUE
    /\ UNCHANGED <<mainPc, running, reconnect, writeReady, handlerSet, rdPc, wrPc, nsocks,
                   sockSt, mq, wq, peerReq, peerData, pushes, view>>

-----------------------------------------------------------------------------
Init ==
    /\ mainPc = "idle" /\ running = FALSE /\ reconnect = TRUE
    /\ writeReady = FALSE /\ handlerSet = FALSE
    /\ rdPc = "none" /\ wrPc = "none"
    /\ nsocks = 0 /\ sockSt = "none"
    /\ mq = <<>> /\ wq = <<>>
    /\ peerReq = FALSE /\ peerData = 0 /\ peerClosed = FALSE /\ pushes = 0
    /\ view = "down"

Owner == start \/ startDone \/ onRxMessage \/ setAutoreconnect \/ stop \/ joined
Reader == readerOpen \/ readerConnect \/ readerConnected \/ readerRecvData
          \/ readerRecvEnd \/ readerCleanup
Writer == writerInit \/ writerSend \/ writerStop

Next == Owner \/ Reader \/ Writer \/ peerPush \/ peerClose

\* The owner thread runs its looper and the rest of start()/stop(), the
\* reader and the writer threads run while they have a step to take.
\* Whether the user calls stop() or setAutoreconnect(), and whether the peer
\* pushes or closes, is left open: nothing in the code makes the peer act.
Fairness ==
    /\ WF_vars(startDone \/ onRxMessage \/ joined)
    /\ WF_vars(Reader)
    /\ WF_vars(Writer)

Spec == Init /\ [][Next]_vars /\ Fairness
-----------------------------------------------------------------------------
(* Properties.                                                              *)

\* The client sees the connection events of the transport alternate:
\* CONNECTED only while it considers the socket down, packets and
\* DISCONNECTED only while up (Client.onConnected / onDisconnected rely on
\* the reader posting them in that order, transport.py:169, 185, 194).
ConnEventsAlternate ==
    [][onRxMessage => IF Head(mq) = "connected" THEN view = "down" ELSE view = "up"]_vars

\* stop() returns: both threads exit and are joined (the spec requires stop()
\* to be safe to call while the I/O threads are blocked).
StopReturns == mainPc = "joining" ~> mainPc = "stopped"
=============================================================================
