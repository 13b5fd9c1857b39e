------------------------------- MODULE Server -------------------------------
(***************************************************************************)
(* The server: a proxy and its worker groups, joined by the rings.         *)
(***************************************************************************)
EXTENDS Worker

vars == <<req, rsp, proxyVars, workerVars>>

Init == PipeInit /\ ProxyInit /\ WorkerInit

Next == \/ ProxyNext /\ UNCHANGED workerVars
        \/ WorkerNext

Spec == Init /\ [][Next]_vars

-----------------------------------------------------------------------------
(* Properties                                                              *)

\* The number of the places where request r is: with its client, waiting in the
\* cache of its connection, in a ring, handled, or given up.
Waiting(r) == {f \in DOMAIN conn :
                 r \in Range(SubSeq(conn[f].cache, Done(f) + 1, Len(conn[f].cache)))}

InRing(r) == {p \in Group \X (1 .. RingLen) :
                /\ p[2] <= Len(req[p[1]])
                /\ req[p[1]][p[2]].type = "data" /\ req[p[1]][p[2]].body = r}

Places(r) ==   (IF r \in Range(outbox[r.cl]) THEN 1 ELSE 0)
             + Cardinality(Waiting(r)) + Cardinality(InRing(r))
             + handled[r] + (IF r \in lost THEN 1 ELSE 0)

\* A request a client has sent is always in exactly one place: the early ends of
\* ator_recvdata, full rings, timeouts and restarts never duplicate one, and none
\* vanishes but at the points where the code gives it up.  Excepted are requests
\* that met a full ring when spp_handle_queue_full returned 0: the comment at
\* defaultproxy.cpp 702 has them stay in memory, and the code drops them.  They
\* are never handed on twice either.
EveryRequestOnce == \A r \in sent : /\ Places(r) <= 1
                                    /\ Places(r) = 0 => r \in unkept

\* A client is sent the responses to its own requests only, although flows outlive
\* connections in the rings and in the workers.  A response that was under way
\* when the proxy died is the exception: flow_ starts again at 1, and the rings
\* and the workers keep the flows of the earlier proxy.
AnswersReturn == \A a \in got : a.of = a.cl \/ a.stale

\* Once a group has been told that a connection has gone, it is given no request
\* of that connection: the rings keep the order of ator_recvdata, ator_timeout and
\* ator_disconn.  (Several processes of a group may still work on earlier ones.)
DisconnectLast ==
    \A g \in Group : \A i \in 1 .. Len(req[g]) :
      req[g][i].type = "data" =>
        LET id == <<req[g][i].life, req[g][i].flow>>
        IN  /\ id \notin gone[g]
            /\ \A j \in 1 .. i - 1 :
                 req[g][j].type \in {"timeout", "disconnect"} =>
                   <<req[g][j].life, req[g][j].flow>> # id
=============================================================================
