------------------------------ MODULE Periphery ------------------------------
(***************************************************************************)
(* Five parts of the system that share no state, side by side: the         *)
(* back-end connections of a worker, the caches of the connections, the    *)
(* update client, the report program with the load table, and the main     *)
(* loop of a program.  A behaviour is one of one part; the others stay as  *)
(* they are, the programs among them stopped.                              *)
(***************************************************************************)
EXTENDS Backend, RawCache, UpdateClient, ReportServer, ServerBase

VARIABLE unit     \* the part that runs

vars == <<unit, backendVars, cacheVars, sockVars, clientVars, reportVars, serverVars>>

Init == /\ unit \in {"backend", "cache", "update", "report", "loop"}
        /\ BackendInit /\ CacheInit
        /\ IF unit = "update" THEN UpdateInit ELSE UpdateStopped
        /\ IF unit = "report" THEN ReportInit ELSE ReportStopped
        /\ unit \notin {"update", "report"} => SocketUnused
        /\ IF unit = "loop" THEN ServerBaseInit ELSE ServerBaseStopped /\ prog = "worker"

Next ==
    \/ /\ unit = "backend" /\ BackendNext
       /\ UNCHANGED <<unit, cacheVars, updateVars, reportVars, serverVars>>
    \/ /\ unit = "cache" /\ CacheNext
       /\ UNCHANGED <<unit, backendVars, updateVars, reportVars, serverVars>>
    \/ /\ unit = "update" /\ UpdateNext
       /\ UNCHANGED <<unit, backendVars, cacheVars, reportVars, serverVars>>
    \/ /\ unit = "report" /\ ReportNext
       /\ UNCHANGED <<unit, backendVars, cacheVars, clientVars, serverVars>>
    \/ /\ unit = "loop" /\ ServerBaseNext
       /\ UNCHANGED <<unit, backendVars, cacheVars, updateVars, reportVars>>

Spec == Init /\ [][Next]_vars /\ UpdateFair /\ ReportFair /\ ServerBaseFair
=============================================================================
