---------------------------- MODULE MCObusClient ----------------------------
(* Model-checking instance of ObusClient: two handles, two values, a call   *)
(* handle space of two (so the wrap at client.py:155 is taken), two         *)
(* connections; the .cfg files set the start, call and server-change      *)
(* bounds of each run.                                                      *)
EXTENDS ObusClient, TLC

MCHandles == {1, 2}
MCValues == {0, 1}
\* The server starts with one object; the other handle is free for an ADD.
MCSrvInit == (1 :> 0) @@ (2 :> Absent)
\* Every callback in which user code may call a method, except the one that
\* reports an abort (retrying from it: MCObusClientStale.cfg).
MCCallPoints == {"idle", "busEvtCb", "addCb", "eventCb", "removeCb", "ackCb"}
\* The same with onObjectCallAck(ABORTED) retrying the call.
MCCallPointsRetry == MCCallPoints \cup {"abortCb"}
=============================================================================
