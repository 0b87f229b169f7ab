------------------------------ MODULE ObusHmi ------------------------------
(***************************************************************************)
(* The wxpyobus HMI (src/python/hmi): MainFrame with its list of BusItf,   *)
(* each BusItf with its obus Client, the INotifyLinux registry of watched  *)
(* xml files, and the inotify thread.  Everything the main thread does     *)
(* runs as a handler of the single wx event queue mq (WxLoop posts with    *)
(* AddPendingEvent, FIFO); the inotify thread, the transport reader        *)
(* threads and the editor that writes the xml files run concurrently.      *)
(*                                                                         *)
(* A BusItf is a number 1..MaxItfs (an object identity: cbdata of a        *)
(* FileEntry, target of a transport message).  A DirEntry is identified by *)
(* its inotify watch descriptor, which the kernel never hands out twice.   *)
(***************************************************************************)
EXTENDS Naturals, Sequences, SequencesExt, FiniteSets

CONSTANTS
    Buses,        \* the BusInfo records given at start-up
    FileOf,       \* BusInfo.xmlFile
    DirOf,        \* os.path.dirname of a file
    Enabled0,     \* BusInfo.enabled as read from the configuration
    AutoReload,   \* BusInfo.autoReload
    MaxItfs,      \* bound on BusItf objects created (start-up and reloads)
    MaxWds,       \* bound on inotify watch descriptors handed out
    MaxEdits,     \* bound on writes of the xml files
    MaxTransports,\* bound on Transport objects created (Client.start)
    MaxRx         \* bound on messages posted by transport reader threads

Files == {FileOf[b] : b \in Buses}
Dirs == {DirOf[f] : f \in Files}
ItfIds == 1..MaxItfs
Wds == 1..MaxWds

FileEntry == [file : Files, itf : ItfIds]

VARIABLES
    busItfList,   \* MainFrame.busItfList, a list of BusItf
    itf,          \* the BusItf objects created so far, by identity
    nItf,         \* BusItf objects created so far
    enabled,      \* BusInfo.enabled, shared by every BusItf of a BusInfo
    good,         \* whether the current content of a file loads
    edits,        \* writes of xml files so far
    dirWd,        \* regTableByDirPath: dir -> wd, 0 if not watched
    ents,         \* DirEntry.fileEntries of the DirEntry of each wd
    nWd,          \* wds handed out by inotify_add_watch
    kq,           \* events queued in the inotify fd
    tpc,          \* the inotify thread: where it is in _threadEntry
    tbuf,         \* events read by os.read and not yet processed
    tidx,         \* index of the for loop over dirEntry.fileEntries
    running,      \* INotifyLinux.threadRunning
    pipe,         \* the STOP byte written by close()
    mq,           \* the wx pending event queue of the main thread
    mpc,          \* the main thread: running, or inside Destroy
    nT,           \* Transport objects created so far
    nRx,          \* messages posted by transport readers so far
    treeFault,    \* a handler touched a tree item it had deleted
    owed          \* history: files written since a FileEntry of theirs was
                  \* posted or their bus was reloaded

vars == <<busItfList, itf, nItf, enabled, good, edits, dirWd, ents, nWd, kq,
          tpc, tbuf, tidx, running, pipe, mq, mpc, nT, nRx, treeFault, owed>>

NoItf == [bus |-> CHOOSE b \in Buses : TRUE, loaded |-> FALSE,
          status |-> "disconnected", cstate |-> "IDLE", tgen |-> 0,
          tree |-> FALSE, up |-> FALSE, req |-> "none"]

Live == ToSet(busItfList)
LiveWds == {dirWd[d] : d \in {x \in Dirs : dirWd[x] # 0}}

\* BusItf.isStarted / Client.isStarted: the client has a transport.
IsStarted(i) == itf[i].loaded /\ itf[i].tgen # 0

(***************************************************************************)
(* What a main-thread handler reads and writes, as one record, so that the *)
(* calls a handler makes (removeBus then addBus, stop inside removeBus)    *)
(* compose in the order the code makes them.  raised: the handler has      *)
(* raised and the rest of it does not run.                                 *)
(***************************************************************************)
S == [list |-> busItfList, itf |-> itf, nItf |-> nItf, enabled |-> enabled,
      dirWd |-> dirWd, ents |-> ents, nWd |-> nWd, nT |-> nT,
      fault |-> treeFault, raised |-> FALSE]

Commit(s) ==
    /\ busItfList' = s.list
    /\ itf' = s.itf
    /\ nItf' = s.nItf
    /\ enabled' = s.enabled
    /\ dirWd' = s.dirWd
    /\ ents' = s.ents
    /\ nWd' = s.nWd
    /\ nT' = s.nT
    /\ treeFault' = s.fault

\* treeCtrl.SetItemText(busItf.treeIdBus, ...) on the item of BusItf i.
TouchTree(s, i) == [s EXCEPT !.fault = @ \/ ~s.itf[i].tree]

\* INotifyLinux.add: watch the directory (same wd if already watched),
\* then append a FileEntry unless findFileEntry finds it.
InotifyAdd(s, f, i) ==
    LET d == DirOf[f]
        w == IF s.dirWd[d] # 0 THEN s.dirWd[d] ELSE s.nWd + 1
        e == [file |-> f, itf |-> i]
    IN  IF Contains(s.ents[w], e) THEN [s EXCEPT !.dirWd[d] = w]
        ELSE [s EXCEPT !.dirWd[d] = w, !.ents[w] = Append(@, e),
                       !.nWd = IF w > s.nWd THEN w ELSE s.nWd]

\* The add above needs a fresh wd only when the directory is not watched.
AddFits(s, f) == s.dirWd[DirOf[f]] # 0 \/ s.nWd < MaxWds

\* INotifyLinux.remove: warn and return when the directory or the entry is
\* unknown; remove the entry, and the watch with its DirEntry when it was
\* the last one.  The emptied list stays with the dropped DirEntry.
InotifyRemove(s, f, i) ==
    LET d == DirOf[f]
        w == s.dirWd[d]
        e == [file |-> f, itf |-> i]
    IN  IF w = 0 \/ ~Contains(s.ents[w], e) THEN s
        ELSE [s EXCEPT !.ents[w] = RemoveFirst(@, e),
                       !.dirWd[d] = IF Len(s.ents[w]) = 1 THEN 0 ELSE w]

\* Mutant: the transport number skips one.
\* BusItf.start (busdata.py:89-92): status "connecting", then Client.start
\* (client.py:84-89: state CONNECTING, a new Transport whose reader starts
\* disconnected).  Nothing without a client.
StartItf(s, i) ==
    IF ~s.itf[i].loaded THEN s
    ELSE [s EXCEPT !.itf[i] = [@ EXCEPT !.status = "connecting",
                                 !.cstate = "CONNECTING", !.tgen = s.nT + 1,
                                 !.up = FALSE, !.req = "none"],
                   !.nT = @ + 1]

\* Mutant: BusItf.stop sets "disconnected" before calling Client.stop.
StopItfStatusFirst(s, i) ==
    LET r == s.itf[i]
        s0 == [s EXCEPT !.itf[i].status = "disconnected"]
        s1 == IF r.cstate = "CONNECTED"
              THEN TouchTree([s0 EXCEPT !.itf[i].status = "connecting"], i)
              ELSE s0
    IN  IF ~r.loaded THEN s
        ELSE [s1 EXCEPT !.itf[i] = [@ EXCEPT !.cstate = "IDLE", !.tgen = 0,
                                      !.up = FALSE, !.req = "none"]]

\* BusItf.stop -> Client.stop: when not IDLE, Transport.stop joins the
\* threads and drops the packet handler, then _disconnect notifies
\* DISCONNECTED if the client was connected (BusItf.onBusEvent sets
\* "connecting", MainFrame.onBusEvent updates the tree item); then IDLE,
\* and BusItf.stop sets "disconnected".
StopItf(s, i) ==
    LET r == s.itf[i]
        s1 == IF r.cstate = "CONNECTED" THEN TouchTree(s, i) ELSE s
    IN  IF ~r.loaded THEN s
        ELSE [s1 EXCEPT !.itf[i] = [@ EXCEPT !.status = "disconnected",
                                      !.cstate = "IDLE", !.tgen = 0,
                                      !.up = FALSE, !.req = "none"]]

\* Mutant: removeBus returns quietly for a BusItf that is not in the list.
RemoveBusTolerant(s, i) ==
    LET b == s.itf[i].bus
        s1 == IF AutoReload[b] THEN InotifyRemove(s, FileOf[b], i) ELSE s
        s2 == StopItf(s1, i)
    IN  IF ~s2.itf[i].tree THEN s2
        ELSE [s2 EXCEPT !.list = RemoveFirst(@, i), !.itf[i].tree = FALSE]

\* Mutant: the tree item is deleted before the bus is stopped.
RemoveBusDeleteFirst(s, i) ==
    LET b == s.itf[i].bus
        s1 == IF AutoReload[b] THEN InotifyRemove(s, FileOf[b], i) ELSE s
        s2 == StopItf([s1 EXCEPT !.itf[i].tree = FALSE], i)
    IN  IF ~s.itf[i].tree THEN [s2 EXCEPT !.raised = TRUE]
        ELSE [s2 EXCEPT !.list = RemoveFirst(@, i)]

\* MainFrame.removeBus: inotify.remove, stop, treeCtrl.Delete(treeIdBus),
\* busItfList.remove, treeIdBus = None.  Delete(None) of a BusItf already
\* removed raises (TypeError), as list.remove would (ValueError).
RemoveBus(s, i) ==
    LET b == s.itf[i].bus
        s1 == IF AutoReload[b] THEN InotifyRemove(s, FileOf[b], i) ELSE s
        s2 == StopItf(s1, i)
    IN  IF ~s2.itf[i].tree THEN [s2 EXCEPT !.raised = TRUE]
        ELSE [s2 EXCEPT !.list = RemoveFirst(@, i), !.itf[i].tree = FALSE]

\* BusItf.__init__ (loadBus, or str(DecodeError) and no client) and
\* MainFrame.addBus: append, add the tree item, start if busInfo.enabled,
\* register the xml file if busInfo.autoReload.
AddBus(s, b) ==
    LET n == s.nItf + 1
        ok == good[FileOf[b]]
        s1 == [s EXCEPT !.nItf = n, !.list = Append(@, n),
                        !.itf[n] = [NoItf EXCEPT !.bus = b, !.loaded = ok,
                                      !.status = IF ok THEN "disconnected"
                                                 ELSE "error",
                                      !.tree = TRUE]]
        s2 == IF s.enabled[b] THEN StartItf(s1, n) ELSE s1
    IN  IF AutoReload[b] THEN InotifyAdd(s2, FileOf[b], n) ELSE s2

\* The bounds an addBus of b needs.
AddBusFits(s, b) ==
    /\ s.nItf < MaxItfs
    /\ s.enabled[b] /\ good[FileOf[b]] => s.nT < MaxTransports
    /\ AutoReload[b] => AddFits(s, FileOf[b])

(***************************************************************************)
(* wxpyobus.main: the BusInfos are added one by one before MainLoop, from  *)
(* xml files that may or may not load.                                    *)
(***************************************************************************)
S0 == [list |-> <<>>, itf |-> [i \in ItfIds |-> NoItf], nItf |-> 0,
       enabled |-> Enabled0, dirWd |-> [d \in Dirs |-> 0],
       ents |-> [w \in Wds |-> <<>>], nWd |-> 0, nT |-> 0,
       fault |-> FALSE, raised |-> FALSE]

Startup == FoldLeft(LAMBDA s, b : AddBus(s, b), S0, SetToSeq(Buses))

Init ==
    /\ good \in [Files -> BOOLEAN]
    /\ busItfList = Startup.list
    /\ itf = Startup.itf
    /\ nItf = Startup.nItf
    /\ enabled = Startup.enabled
    /\ dirWd = Startup.dirWd
    /\ ents = Startup.ents
    /\ nWd = Startup.nWd
    /\ nT = Startup.nT
    /\ treeFault = Startup.fault
    /\ edits = 0
    /\ kq = <<>>
    /\ tpc = "poll"
    /\ tbuf = <<>>
    /\ tidx = 1
    /\ running = TRUE
    /\ pipe = FALSE
    /\ mq = <<>>
    /\ mpc = "running"
    /\ nRx = 0
    /\ owed = {}

MainVars == <<busItfList, itf, nItf, enabled, dirWd, ents, nWd, nT, treeFault>>
ThreadVars == <<tpc, tbuf, tidx>>

(***************************************************************************)
(* The editor writes an xml file.  The kernel queues IN_MODIFY for a       *)
(* watched directory, merged with the last queued event when identical.    *)
(***************************************************************************)
Edit(f, ok) ==
    LET w == dirWd[DirOf[f]]
        ev == [wd |-> w, file |-> f]
    IN  /\ edits < MaxEdits
        /\ edits' = edits + 1
        /\ good' = [good EXCEPT ![f] = ok]
        /\ kq' = IF w = 0 \/ (kq # <<>> /\ Last(kq) = ev) THEN kq
                 ELSE Append(kq, ev)
        /\ owed' = IF w = 0 THEN owed ELSE owed \cup {f}
        /\ UNCHANGED <<MainVars, ThreadVars, running, pipe, mq, mpc, nRx>>

(***************************************************************************)
(* The inotify thread, _threadEntry / _readEvt / _processEvt, one step per *)
(* access to the tables the main thread changes.                           *)
(***************************************************************************)
\* poll returns on the inotify fd or the pipe; _readEvt takes what is queued.
ThreadPoll ==
    /\ tpc = "poll"
    /\ kq # <<>> \/ pipe
    /\ tbuf' = kq
    /\ kq' = <<>>
    /\ tpc' = "next"
    /\ UNCHANGED <<MainVars, good, edits, tidx, running, pipe, mq, mpc, nT, nRx, owed>>

\* All events processed: while self.threadRunning.
ThreadLoop ==
    /\ tpc = "next"
    /\ tbuf = <<>>
    /\ tpc' = IF running THEN "poll" ELSE "stopped"
    /\ UNCHANGED <<MainVars, good, edits, kq, tbuf, tidx, running, pipe, mq,
                   mpc, nRx, owed>>

\* _processEvt: if wd not in self.regTableByWd: warning, return.
ThreadCheck ==
    /\ tpc = "next"
    /\ tbuf # <<>>
    /\ IF Head(tbuf).wd \notin LiveWds
       THEN tbuf' = Tail(tbuf) /\ tpc' = "next"
       ELSE tbuf' = tbuf /\ tpc' = "lookup"
    /\ UNCHANGED <<MainVars, good, edits, kq, tidx, running, pipe, mq, mpc, nRx, owed>>

\* dirEntry = self.regTableByWd[wd]: a KeyError ends the thread.
ThreadLookup ==
    /\ tpc = "lookup"
    /\ tpc' = IF Head(tbuf).wd \in LiveWds THEN "iter" ELSE "dead"
    /\ tidx' = 1
    /\ UNCHANGED <<MainVars, good, edits, kq, tbuf, running, pipe, mq, mpc, nRx, owed>>

\* for fileEntry in dirEntry.fileEntries, the list iterator's index over a
\* list the main thread may change in between; postMessage(fileEntry).
ThreadIter ==
    LET ev == Head(tbuf)
        es == ents[ev.wd]
    IN  /\ tpc = "iter"
        /\ IF tidx <= Len(es)
           THEN /\ mq' = IF es[tidx].file = ev.file
                         THEN Append(mq, [kind |-> "file", itf |-> es[tidx].itf])
                         ELSE mq
                /\ owed' = IF es[tidx].file = ev.file THEN owed \ {ev.file}
                          ELSE owed
                /\ tidx' = tidx + 1
                /\ UNCHANGED <<tpc, tbuf>>
           ELSE /\ tbuf' = Tail(tbuf)
                /\ tpc' = "next"
                /\ UNCHANGED <<mq, tidx, owed>>
        /\ UNCHANGED <<MainVars, good, edits, kq, running, pipe, mpc, nRx>>

Thread == ThreadPoll \/ ThreadLoop \/ ThreadCheck \/ ThreadLookup \/ ThreadIter

(***************************************************************************)
(* Main-thread handlers, run by WxLoop.onEvt for the head of mq.           *)
(***************************************************************************)
\* Mutant: the reload does not record the started state in BusInfo.
onBusModifiedKeepEnabled ==
    LET i == Head(mq).itf
        b == itf[i].bus
        s1 == RemoveBus(S, i)
    IN  /\ mpc = "running"
        /\ mq # <<>>
        /\ Head(mq).kind = "file"
        /\ s1.raised \/ AddBusFits(s1, b)
        /\ Commit(IF s1.raised THEN s1 ELSE AddBus(s1, b))
        /\ owed' = IF s1.raised THEN owed ELSE owed \ {FileOf[b]}
        /\ mq' = Tail(mq)
        /\ UNCHANGED <<good, edits, kq, ThreadVars, running, pipe, mpc, nRx>>

\* INotifyLinux._onEvt -> MainFrame.onBusModified(busItf): keep the started
\* state in the shared BusInfo, removeBus, addBus.
onBusModified ==
    LET i == Head(mq).itf
        b == itf[i].bus
        s1 == RemoveBus([S EXCEPT !.enabled[b] = IsStarted(i)], i)
    IN  /\ mpc = "running"
        /\ mq # <<>>
        /\ Head(mq).kind = "file"
        /\ s1.raised \/ AddBusFits(s1, b)
        /\ Commit(IF s1.raised THEN s1 ELSE AddBus(s1, b))
        /\ owed' = IF s1.raised THEN owed ELSE owed \ {FileOf[b]}
        /\ mq' = Tail(mq)
        /\ UNCHANGED <<good, edits, kq, ThreadVars, running, pipe, mpc, nRx>>

\* Client.onConnected: _sendConnectionRequest; the writer loses the packet
\* when the reader has no socket (Tx packet lost).
RxConnected(s, i) ==
    IF s.itf[i].up /\ s.itf[i].req = "none" THEN [s EXCEPT !.itf[i].req = "sent"]
    ELSE s

\* Client.onDisconnected -> _disconnect: DISCONNECTED is notified only from
\* CONNECTED; the client is CONNECTING again.
RxDisconnected(s, i) ==
    LET s1 == IF s.itf[i].cstate = "CONNECTED"
              THEN TouchTree([s EXCEPT !.itf[i].status = "connecting"], i)
              ELSE s
    IN  [s1 EXCEPT !.itf[i].cstate = "CONNECTING"]

\* Client._recvConnectionResponse: ignored outside CONNECTING; then
\* REFUSED or CONNECTED, notified to BusItf.onBusEvent and the tree.
RxConnResp(s, i, accepted) ==
    IF s.itf[i].cstate # "CONNECTING" THEN s
    ELSE TouchTree([s EXCEPT
           !.itf[i].cstate = IF accepted THEN "CONNECTED" ELSE "REFUSED",
           !.itf[i].status = IF accepted THEN "connected" ELSE "refused"], i)

\* Transport._onRxMessage: dropped once the packet handler is gone (this
\* Transport was stopped; a restart made another one).
OnRxMessage(s, m) ==
    CASE s.itf[m.itf].tgen # m.gen   -> s
      [] m.what = "RX_CONNECTED"     -> RxConnected(s, m.itf)
      [] m.what = "RX_DISCONNECTED"  -> RxDisconnected(s, m.itf)
      [] m.what = "CONRESP_OK"       -> RxConnResp(s, m.itf, TRUE)
      [] m.what = "CONRESP_REFUSED"  -> RxConnResp(s, m.itf, FALSE)

HandleRx ==
    /\ mpc = "running"
    /\ mq # <<>>
    /\ Head(mq).kind = "rx"
    /\ Commit(OnRxMessage(S, Head(mq)))
    /\ mq' = Tail(mq)
    /\ UNCHANGED <<good, edits, kq, ThreadVars, running, pipe, mpc, nRx, owed>>

(***************************************************************************)
(* The reader thread of BusItf i's current Transport: it connects (posts   *)
(* RX_CONNECTED), passes on the server's answer to a request that was      *)
(* sent, and loses the connection (RX_DISCONNECTED).  Transport.stop joins *)
(* it, so it runs only while the client has its transport.                 *)
(***************************************************************************)
Post(i, what) == mq' = Append(mq, [kind |-> "rx", itf |-> i,
                                   gen |-> itf[i].tgen, what |-> what])

Reader(i) ==
    /\ itf[i].loaded /\ itf[i].tgen # 0
    /\ nRx < MaxRx
    /\ nRx' = nRx + 1
    /\ \/ /\ ~itf[i].up
          /\ Post(i, "RX_CONNECTED")
          /\ itf' = [itf EXCEPT ![i].up = TRUE]
       \/ /\ itf[i].up /\ itf[i].req = "sent"
          /\ \E what \in {"CONRESP_OK", "CONRESP_REFUSED"} : Post(i, what)
          /\ itf' = [itf EXCEPT ![i].req = "answered"]
       \/ /\ itf[i].up
          /\ Post(i, "RX_DISCONNECTED")
          /\ itf' = [itf EXCEPT ![i].up = FALSE, ![i].req = "none"]
    /\ UNCHANGED <<busItfList, nItf, enabled, good, edits, dirWd, ents, nWd,
                   kq, ThreadVars, running, pipe, mpc, nT, treeFault, owed>>

(***************************************************************************)
(* The user: Connect / Disconnect of the tree's popup menu, enabled by     *)
(* canStart / canStop, and closing the frame.                              *)
(***************************************************************************)
onCmdBusConnect(i) ==
    /\ mpc = "running"
    /\ i \in Live
    /\ itf[i].loaded /\ itf[i].tgen = 0
    /\ nT < MaxTransports
    /\ Commit(TouchTree(StartItf(S, i), i))
    /\ UNCHANGED <<good, edits, kq, ThreadVars, running, pipe, mq, mpc, nRx, owed>>

onCmdBusDisconnect(i) ==
    /\ mpc = "running"
    /\ i \in Live
    /\ IsStarted(i)
    /\ Commit(TouchTree(StopItf(S, i), i))
    /\ UNCHANGED <<good, edits, kq, ThreadVars, running, pipe, mq, mpc, nRx, owed>>

\* Mutant: close() clears threadRunning without writing the pipe.
DestroyNoWake ==
    /\ mpc = "running"
    /\ Commit(FoldLeft(LAMBDA s, i : RemoveBus(s, i), S, busItfList))
    /\ running' = FALSE
    /\ pipe' = FALSE
    /\ mpc' = "joining"
    /\ UNCHANGED <<good, edits, kq, ThreadVars, mq, nRx, owed>>

\* MainFrame.Destroy: removeBus(busItfList[0]) until empty, then
\* inotify.close: threadRunning = False, write the pipe, join the thread.
Destroy ==
    /\ mpc = "running"
    /\ Commit(FoldLeft(LAMBDA s, i : RemoveBus(s, i), S, busItfList))
    /\ running' = FALSE
    /\ pipe' = TRUE
    /\ mpc' = "joining"
    /\ UNCHANGED <<good, edits, kq, ThreadVars, mq, nRx, owed>>

\* self.thread.join() returns once the thread has left _threadEntry.
Join ==
    /\ mpc = "joining"
    /\ tpc \in {"stopped", "dead"}
    /\ mpc' = "closed"
    /\ UNCHANGED <<MainVars, good, edits, kq, ThreadVars, running, pipe, mq, nRx, owed>>

Next ==
    \/ \E f \in Files, ok \in BOOLEAN : Edit(f, ok)
    \/ Thread
    \/ onBusModified
    \/ HandleRx
    \/ \E i \in ItfIds : Reader(i)
    \/ \E i \in ItfIds : onCmdBusConnect(i) \/ onCmdBusDisconnect(i)
    \/ Destroy
    \/ Join

\* The inotify thread and the main thread are scheduled by the OS: once
\* able to run they do; the editor, the user and the servers need not act.
Spec == Init /\ [][Next]_vars /\ WF_vars(Thread) /\ WF_vars(Join)

(***************************************************************************)
(* Properties                                                              *)
(***************************************************************************)
\* While the frame runs, every BusInfo has exactly one BusItf in
\* busItfList, and the inotify registry holds exactly one FileEntry for each
\* auto-reloaded one and none for a removed one: a reload (onBusModified,
\* removeBus, addBus) never leaves a duplicate or an orphan behind, even when
\* the inotify thread posts the same FileEntry twice.
BusesMatchRegistry ==
    mpc = "running" =>
    /\ \A b \in Buses : Cardinality({i \in Live : itf[i].bus = b}) = 1
    /\ Len(busItfList) = Cardinality(Live)
    /\ \A w \in LiveWds : \A k \in 1..Len(ents[w]) : ents[w][k].itf \in Live
    /\ \A i \in Live : AutoReload[itf[i].bus] =>
         LET f == FileOf[itf[i].bus] IN
         /\ dirWd[DirOf[f]] # 0
         /\ Contains(ents[dirWd[DirOf[f]]], [file |-> f, itf |-> i])

\* The status a live BusItf shows in the tree follows its client: it reads
\* "connected" exactly while the client is CONNECTED and "disconnected"
\* exactly while it has no transport, whatever order the start, stop,
\* disconnection and connection-response callbacks ran in.
StatusShowsConnection ==
    \A i \in Live : itf[i].loaded =>
        /\ (itf[i].status = "connected") <=> (itf[i].cstate = "CONNECTED")
        /\ (itf[i].status = "disconnected") <=> (itf[i].tgen = 0)

\* No handler updates or deletes a tree item after removeBus deleted it
\* (the DISCONNECTED notified by stop, a late connection response).
NoDeadTreeItem == ~treeFault

\* A reload replaces a connected bus by a connected one and a stopped bus
\* by a stopped one, when the new file loads (BusInfo.enabled = started).
ReloadKeepsConnection ==
    [][\A i \in Live, n \in ItfIds :
         (/\ mpc = "running" /\ mpc' = "running"
          /\ i \notin Live' /\ n \in Live' \ Live
          /\ itf'[n].bus = itf[i].bus /\ itf'[n].loaded)
         => ((itf'[n].tgen # 0) <=> IsStarted(i))]_vars

\* Every write of a watched xml file is eventually noticed while the frame
\* runs: the inotify thread posts a FileEntry of that file, or a reload of
\* its bus loads it, after the write.  This is what autoReload promises,
\* and what the inotify thread's reads of regTableByWd and of
\* dirEntry.fileEntries, which the main thread changes meanwhile, can break.
WriteEventuallyNoticed ==
    \A f \in Files : f \in owed ~> (f \notin owed \/ mpc # "running")

\* Closing the frame returns: the join of the inotify thread ends.
DestroyReturns == mpc = "joining" ~> mpc = "closed"

=============================================================================
