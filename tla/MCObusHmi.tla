----------------------------- MODULE MCObusHmi -----------------------------
(* Two buses whose xml files share a directory, so that one DirEntry holds *)
(* two FileEntries; one enabled at start, both auto-reloaded.  The second  *)
(* instance adds a third bus with a directory of its own.                  *)
EXTENDS ObusHmi

CONSTANTS b1, b2, b3, f1, f2, f3, d1, d2

MCBuses == {b1, b2}
MCFileOf == [b \in MCBuses |-> IF b = b1 THEN f1 ELSE f2]
MCDirOf == [f \in {f1, f2} |-> d1]
MCEnabled0 == [b \in MCBuses |-> b = b1]
MCAutoReload == [b \in MCBuses |-> TRUE]

(* A third bus whose file is alone in its directory, so that a reload of  *)
(* it drops the watch and adds a new one (another wd).                     *)
MCBuses3 == {b1, b2, b3}
MCFileOf3 == [b \in MCBuses3 |-> CASE b = b1 -> f1 [] b = b2 -> f2 [] b = b3 -> f3]
MCDirOf3 == [f \in {f1, f2, f3} |-> IF f = f3 THEN d2 ELSE d1]
MCEnabled03 == [b \in MCBuses3 |-> b = b1]
MCAutoReload3 == [b \in MCBuses3 |-> TRUE]
=============================================================================
