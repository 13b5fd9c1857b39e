------------------------------- MODULE Proxy -------------------------------
(***************************************************************************)
(* The proxy (CDefaultProxy, defaultproxy.cpp): one thread that accepts    *)
(* clients, cuts what they send into requests, hands each to the ring of a *)
(* worker group or to its own local handler, and sends the responses it    *)
(* finds in the rings to the connection with the flow they name.  The loop *)
(* of ator_recvdata takes one step for each request, since the workers     *)
(* empty the rings meanwhile.  The connection set is reduced to what the   *)
(* proxy sees of it (SockCommu has the rest).  The service module is any   *)
(* module: what its entry points return is a free choice.                  *)
(***************************************************************************)
EXTENDS ShmCommu, FiniteSets, Functions

CONSTANTS
    Client,       \* clients; each connects once
    MaxConn,      \* maxconn of the acceptor
    MaxReq,       \* bound: requests of one client
    MaxSent,      \* bound: requests of all clients
    MaxLife,      \* bound: incarnations of the proxy
    EventRoute,   \* the results of spp_handle_event_route: a group, every
                  \* group (0), or none (-1)
    None

ASSUME ProxyAssumption == /\ MaxConn \in Nat \ {0}
                          /\ EventRoute \subseteq -1 .. NGroup
                          /\ MaxReq \in Nat /\ MaxSent \in Nat /\ MaxLife \in Nat \ {0}
                          /\ None \notin [flow : Nat, total : Nat, processed : Nat]

VARIABLES
    local,    \* does the module have a local handler?
    life,     \* the incarnation of the proxy
    flow,     \* flow_ of the acceptor
    conn,     \* the open connections, by flow: client and cached requests
    cur,      \* the ator_recvdata in progress
    sent,     \* the requests clients have sent
    outbox,   \* requests each client sent that the proxy has not received
    there,    \* clients that are yet to come, or connected
    lost,     \* requests given up, for whatever reason but the next
    unkept,   \* requests that a full ring should have kept in memory
    handled,  \* how often each request was handed to spp_handle_process
    got       \* responses each client was sent, and whether they are its own

proxyVars == <<local, life, flow, conn, cur, sent, outbox, there, lost, unkept, handled, got>>

Request == [cl : Client, n : 1 .. MaxReq]

ProxyInit ==
    /\ local \in BOOLEAN
    /\ life = 1 /\ flow = 0 /\ conn = << >> /\ cur = None
    /\ sent = {}
    /\ outbox = [c \in Client |-> <<>>]
    /\ there = Client
    /\ lost = {} /\ unkept = {}
    /\ handled = [r \in Request |-> 0]
    /\ got = {}

\* the event callbacks put the event in the rings it is routed to
Routed(rings, f, type, r) ==
    [g \in Group |-> IF r \in {0, g} THEN Put(rings[g], Msg(f, type, None, life)) ELSE rings[g]]

\* the requests of connection f that were neither forwarded nor given up, when
\* ator_recvdata is done with the first n of its cache
Unserved(f, n) == Range(SubSeq(conn[f].cache, n + 1, Len(conn[f].cache)))
                    \cup Range(outbox[conn[f].cl])

Done(f) == IF cur # None /\ cur.flow = f THEN cur.processed ELSE 0

\* the connection goes, with whatever was not taken from it
Close(f) ==
    /\ conn' = Restrict(conn, DOMAIN conn \ {f})
    /\ lost' = lost \cup Unserved(f, Done(f))
    /\ outbox' = [outbox EXCEPT ![conn[f].cl] = <<>>]
    /\ there' = there \ {conn[f].cl}

-----------------------------------------------------------------------------
(* Clients: external                                                       *)

Sends(c) ==
    LET r == [cl |-> c, n |-> 1 + Cardinality({q \in sent : q.cl = c})]
    IN  /\ \E f \in DOMAIN conn : conn[f].cl = c
        /\ r.n <= MaxReq /\ Cardinality(sent) < MaxSent
        /\ sent' = sent \cup {r}
        /\ outbox' = [outbox EXCEPT ![c] = Append(@, r)]
    /\ UNCHANGED <<req, rsp, local, life, flow, conn, cur, there, lost, unkept, handled, got>>

-----------------------------------------------------------------------------
(* The acceptor                                                            *)

\* addconn: the next flow whose slot is free, if any
FlowFor == {k \in flow + 1 .. flow + MaxConn :
              \A f \in DOMAIN conn : f % MaxConn # k % MaxConn}

\* handle_accept with ator_connected, which is told of the flow addconn may
\* still change, and with ator_overload when addconn finds no slot.
Accept(c) ==
    /\ cur = None
    /\ c \in there /\ \A f \in DOMAIN conn : conn[f].cl # c
    /\ \/ /\ flow' = flow + 1                        \* the ip tables deny it
          /\ there' = there \ {c}
          /\ UNCHANGED <<req, conn>>
       \/ /\ FlowFor # {}
          /\ flow' = Min(FlowFor)
          /\ conn' = [f \in DOMAIN conn \cup {Min(FlowFor)} |->
                        IF f \in DOMAIN conn THEN conn[f] ELSE [cl |-> c, cache |-> <<>>]]
          /\ \E r \in EventRoute : req' = Routed(req, flow + 1, "connected", r)
          /\ UNCHANGED there
       \/ /\ FlowFor = {}
          /\ flow' = flow + 1 + MaxConn
          /\ there' = there \ {c}
          /\ \E r1, r2 \in EventRoute :
               req' = Routed(Routed(req, flow + 1, "connected", r1), 0, "overload", r2)
          /\ UNCHANGED conn
    /\ UNCHANGED <<rsp, local, life, cur, sent, outbox, lost, unkept, handled, got>>

\* recv takes some of what the client sent into the cache and calls
\* ator_recvdata for all of the cache.  A request that has arrived in part, for
\* which spp_handle_input returns 0, is still counted with the client's.
Recv(f) ==
    /\ cur = None
    /\ \E n \in 1 .. Len(outbox[conn[f].cl]) :
         LET c == conn[f].cl
             cache == conn[f].cache \o SubSeq(outbox[c], 1, n)
         IN  /\ conn' = [conn EXCEPT ![f].cache = cache]
             /\ outbox' = [outbox EXCEPT ![c] = SubSeq(@, n + 1, Len(@))]
             /\ cur' = [flow |-> f, total |-> Len(cache), processed |-> 0]
    /\ UNCHANGED <<req, rsp, local, life, flow, sent, there, lost, unkept, handled, got>>

\* the request ator_recvdata looks at
More == cur # None /\ cur.processed < cur.total
Head1 == conn[cur.flow].cache[cur.processed + 1]

\* ator_recvdata returns processed_len and the cache skips as much
Return(n) == /\ conn' = [conn EXCEPT ![cur.flow].cache = SubSeq(@, n + 1, Len(@))]
             /\ cur' = None

\* mutant of Counted: a request is counted only if the ring took it
Counted_Taken(taken) == IF taken THEN cur.processed + 1 ELSE cur.processed

\* processed_len += proto_len, whatever becomes of the request
Counted(taken) == cur.processed + 1

\* the loop ends: no request is left
RecvEnd ==
    /\ cur # None /\ cur.processed = cur.total
    /\ Return(cur.processed)
    /\ UNCHANGED <<req, rsp, local, life, flow, sent, outbox, there, lost, unkept, handled, got>>

\* spp_handle_input < 0: the caller closes the connection, without a callback
RecvBad ==
    /\ More
    /\ Close(cur.flow) /\ cur' = None
    /\ UNCHANGED <<req, rsp, local, life, flow, sent, unkept, handled, got>>

\* spp_handle_input exceeds the data: all of it is thrown away
RecvLong ==
    /\ More
    /\ Return(cur.total)
    /\ lost' = lost \cup Range(SubSeq(conn[cur.flow].cache, cur.processed + 1, cur.total))
    /\ UNCHANGED <<req, rsp, local, life, flow, sent, outbox, there, unkept, handled, got>>

\* local_handle answers, or asks for the connection to be closed
RecvLocal ==
    /\ More /\ local
    /\ handled' = [handled EXCEPT ![Head1] = @ + 1]
    /\ \/ /\ cur' = [cur EXCEPT !.processed = Counted(TRUE)]
          /\ got' = got \cup {[cl |-> conn[cur.flow].cl, of |-> Head1.cl, stale |-> FALSE]}
          /\ UNCHANGED <<conn, lost, outbox, there>>
       \/ LET f == cur.flow IN
          /\ conn' = Restrict(conn, DOMAIN conn \ {f})
          /\ lost' = lost \cup Unserved(f, cur.processed + 1)
          /\ outbox' = [outbox EXCEPT ![conn[f].cl] = <<>>]
          /\ there' = there \ {conn[f].cl}
          /\ cur' = None
          /\ UNCHANGED got
    /\ UNCHANGED <<req, rsp, local, life, flow, sent, unkept>>

\* spp_handle_route is wrong: the request is gone, the rest stays in the cache
RecvNoRoute ==
    /\ More /\ ~local
    /\ Return(Counted(FALSE))
    /\ lost' = lost \cup {Head1}
    /\ UNCHANGED <<req, rsp, local, life, flow, sent, outbox, there, unkept, handled, got>>

\* the request goes to the ring of group g
RecvForward(g) ==
    /\ More /\ ~local
    /\ ~Full(req[g])
    /\ req' = [req EXCEPT ![g] = Append(@, Msg(cur.flow, "data", Head1, life))]
    /\ cur' = [cur EXCEPT !.processed = Counted(TRUE)]
    /\ UNCHANGED <<rsp, local, life, flow, conn, sent, outbox, there, lost, unkept, handled, got>>

\* The ring of group g is full.  spp_handle_queue_full returns 0: the loop
\* ends; less: the connection is closed; more: the loop goes on.  The request
\* has been counted, also in the first case, in which the code's comment has the
\* data stay in memory.
RecvFull(g) ==
    /\ More /\ ~local
    /\ Full(req[g])
    /\ \/ /\ Return(Counted(FALSE))
          /\ unkept' = unkept \cup {Head1}
          /\ UNCHANGED <<lost, outbox, there>>
       \/ /\ Close(cur.flow) /\ cur' = None
          /\ UNCHANGED unkept
       \/ /\ cur' = [cur EXCEPT !.processed = Counted(FALSE)]
          /\ lost' = lost \cup {Head1}
          /\ UNCHANGED <<conn, outbox, there, unkept>>
    /\ UNCHANGED <<req, rsp, local, life, flow, sent, handled, got>>

\* mutant of Leave: the workers are told of a timeout before the connection is
\* closed, and new data still saves it
Leave_Warned(f, type) ==
    /\ cur = None
    /\ type = "disconnect" => Close(f)
    /\ type = "timeout" => UNCHANGED <<conn, lost, outbox, there>>
    /\ \E r \in EventRoute : req' = Routed(req, f, type, r)
    /\ UNCHANGED <<rsp, local, life, flow, cur, sent, unkept, handled, got>>

\* CB_DISCONNECT or CB_TIMEOUT, with ator_disconn or ator_timeout
Leave(f, type) ==
    /\ cur = None
    /\ Close(f)
    /\ \E r \in EventRoute : req' = Routed(req, f, type, r)
    /\ UNCHANGED <<rsp, local, life, flow, cur, sent, unkept, handled, got>>

-----------------------------------------------------------------------------
(* The connectors, and the process                                         *)

\* mutant of Addressee: a response goes to the connection in the flow's slot
Addressee_Slot(f) == {k \in DOMAIN conn : k % MaxConn = f % MaxConn}

\* the connection that sendto finds for a flow, if it is still there
Addressee(f) == {f} \cap DOMAIN conn

\* ctor_recvdata: sendto to the client, or the close it asks for
Respond(g) ==
    /\ cur = None /\ rsp[g] # <<>>
    /\ rsp' = [rsp EXCEPT ![g] = Tail(@)]
    /\ LET m == Head(rsp[g]) IN
       \/ /\ Addressee(m.flow) = {}
          /\ UNCHANGED <<conn, lost, outbox, there, got>>
       \/ \E f \in Addressee(m.flow) :
            IF m.body = CloseRequest
            THEN Close(f) /\ UNCHANGED got
            ELSE /\ got' = got \cup {[cl |-> conn[f].cl, of |-> m.body.cl,
                                      stale |-> m.life # life]}
                 /\ UNCHANGED <<conn, lost, outbox, there>>
    /\ UNCHANGED <<req, local, life, flow, cur, sent, unkept, handled>>

\* The proxy dies and the controller starts another: the connections are gone,
\* flow_ starts again, the rings are found as they were.
Restart ==
    /\ life < MaxLife
    /\ life' = life + 1 /\ flow' = 0
    /\ lost' = lost \cup UNION {Unserved(f, Done(f)) : f \in DOMAIN conn}
    /\ there' = there \ {conn[f].cl : f \in DOMAIN conn}
    /\ outbox' = [c \in Client |-> <<>>]
    /\ conn' = << >> /\ cur' = None
    /\ UNCHANGED <<req, rsp, local, sent, unkept, handled, got>>

ProxyNext ==
    \/ \E c \in Client : Accept(c) \/ Sends(c)
    \/ \E f \in DOMAIN conn : Recv(f) \/ Leave(f, "disconnect") \/ Leave(f, "timeout")
    \/ RecvEnd \/ RecvBad \/ RecvLong \/ RecvLocal \/ RecvNoRoute
    \/ \E g \in Group : RecvForward(g) \/ RecvFull(g) \/ Respond(g)
    \/ Restart
=============================================================================
