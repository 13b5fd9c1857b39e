------------------------------- MODULE Backend -------------------------------
(***************************************************************************)
(* The back-end side of a worker (defaultworker.cpp, the connector part of *)
(* sockcommu.cpp, sockcommumng.cpp).  The service module sends to a        *)
(* service type and a key; the worker finds the node of the key in its     *)
(* route table, and the connection to the node in CCommuMng, opening one   *)
(* when there is none or when sending on it shows that it has gone.        *)
(* CTSockCommu::poll tells the worker of the answers of the nodes and of   *)
(* connections that ended, one event of a fetched batch at a time.         *)
(*                                                                         *)
(* A node is a pair <<service type, node id>>.  Only a TCP node can be     *)
(* reached: connect gives a datagram socket no address to send to (send    *)
(* uses the _addr that only handle_accept_udp sets), and a Unix socket an  *)
(* Internet address.  Descriptors are modelled in SockCommu.               *)
(***************************************************************************)
EXTENDS Integers, Sequences, FiniteSets, FiniteSetsExt

CONSTANTS
    RouteConf,   \* the route file of each service type
    Body,        \* what the service module sends, each once
    Dest,        \* the service type and the route key of each body
    Junk,        \* what a callback may leave in the buffer
    BackConn,    \* max_conn_ of the connector
    FlowBound    \* flow_ stays below this bound, so that it does not wrap

\* node_id_ is unsigned; the service module sends to a type that has a route file
ASSUME BackendAssumption ==
    /\ BackConn \in Nat \ {0}
    /\ \A t \in DOMAIN RouteConf :
         \A i \in DOMAIN RouteConf[t].nodes : RouteConf[t].nodes[i].id \in Nat
    /\ \A x \in Body : Dest[x].serv_type \in DOMAIN RouteConf

VARIABLES
    flow,        \* flow_
    conns,       \* the used slots of the connector's CConnSet
    known,       \* CCommuMng: the flow of each node, 0 if it has none
    batch,       \* the events of the poll that is under way
    answering,   \* the connection whose answer is being processed, if any
    given,       \* <<node, body>> handed over for a node
    arrived      \* how often a body has come to a node

backendVars == <<flow, conns, known, batch, answering, given, arrived>>

-----------------------------------------------------------------------------
(* The route table                                                         *)

\* InitRouteTable: a later node of the file replaces an earlier one of its id
InitRouteTable(conf) ==
    LET ids == {conf.nodes[i].id : i \in DOMAIN conf.nodes}
        last(d) == Max({i \in DOMAIN conf.nodes : conf.nodes[i].id = d})
    IN  [route |-> conf.route, route_val |-> conf.route_val,
         map_node |-> [d \in ids |-> conf.nodes[last(d)]]]

\* InitRouteConfig: one table for each service type that has a file
InitRouteConfig == [t \in DOMAIN RouteConf |-> InitRouteTable(RouteConf[t])]

NodeKey(tbl, key) == CASE tbl.route = "%" -> key % tbl.route_val
                       [] tbl.route = "/" -> key \div tbl.route_val
                       [] OTHER -> 0

\* the first node, in the order of the ids, whose range has the key
GetNodeID(tbl, key) ==
    LET fit == {d \in DOMAIN tbl.map_node : /\ tbl.map_node[d].begin <= key
                                            /\ key <= tbl.map_node[d].end}
    IN  IF fit = {} THEN 0 ELSE Min(fit)

Node == UNION {{<<t, d>> : d \in DOMAIN InitRouteConfig[t].map_node} :
                 t \in DOMAIN InitRouteConfig}

GetNodeInfo(n) == InitRouteConfig[n[1]].map_node[n[2]]

-----------------------------------------------------------------------------
(* CCommuMng                                                               *)

\* mutant of AddConn: a node that is known keeps its flow
AddConn_Keep(k, n, f) == IF k[n] # 0 THEN k ELSE [k EXCEPT ![n] = f]

AddConn(k, n, f) == [k EXCEPT ![n] = f]

GetFlow(k, n) == k[n]

\* the first entry with the flow; a flow is the flow of one node at most
RMConn(k, f) == [n \in Node |-> IF k[n] = f THEN 0 ELSE k[n]]

-----------------------------------------------------------------------------
(* The connector.  An operation has a set of outcomes.                     *)

Slot(f) == f % BackConn

Named(C, f) == {c \in C : c.flow = f}

\* CTSockCommu::sendto: the data may also wait in the cache or the kernel, and
\* then comes to the node or not
sendto(C, f, x) ==
    IF Named(C, f) = {}
    THEN {[ret |-> "not_findfd", conns |-> C, out |-> {}]}
    ELSE {[ret |-> "need_close", conns |-> C \ Named(C, f), out |-> {}]}
           \cup UNION {{[ret |-> "ok", conns |-> C, out |-> {<<c.node, x>>}],
                        [ret |-> "ok", conns |-> C, out |-> {}]} :
                         c \in {d \in Named(C, f) : d.open}}

\* CTSockCommu::connect.  addconn probes from the next flow on and leaves flow_
\* where it stopped.  When the descriptor does not get into epoll it is closed,
\* and the slot stays taken.
connect(C, fl, k, n) ==
    LET first == fl + 1
        free  == {i \in 0 .. BackConn - 1 :
                     \A c \in C : Slot(c.flow) # Slot(first + i)}
        f     == first + Min(free)
        conn(open) == [flow |-> f, node |-> n, open |-> open]
    IN  IF free = {}
        THEN {[ok |-> FALSE, conns |-> C, flow |-> first + BackConn, known |-> k]}
        ELSE {[ok |-> FALSE, conns |-> C \cup {conn(FALSE)}, flow |-> f, known |-> k],
              [ok |-> TRUE, flow |-> f, known |-> AddConn(k, n, f),
               conns |-> C \cup {conn(GetNodeInfo(n).type = "tcp")}]}

\* mutant of Restored: what the callbacks left in the buffer is sent
Restored_Not(x, buffer) == buffer

\* the body is put back into the buffer before it is sent
Restored(x, buffer) == x

\* the reconnection in spp_sendto: CB_CONNECT and CB_CONNECTED run user code
\* on the buffer, then the flow is asked for again and the body sent on it
SendAgain(C, fl, k, n, x) ==
    LET sent(o, buffer) ==
          {[conns |-> s.conns, out |-> s.out, flow |-> o.flow, known |-> o.known] :
             s \in sendto(o.conns, GetFlow(o.known, n), Restored(x, buffer))}
    IN  UNION {IF o.ok
               THEN sent(o, x) \cup sent(o, Junk)
               ELSE {[conns |-> o.conns, out |-> {}, flow |-> o.flow, known |-> o.known]} :
                 o \in connect(C, fl, k, n)}

\* CDefaultWorker::spp_sendto for a node
SendOutcomes(n, x) ==
    LET f == GetFlow(known, n)
        again(C) == SendAgain(C, flow, known, n, x)
    IN  IF f = 0 THEN again(conns)
        ELSE UNION {IF s.ret = "ok"
                    THEN {[conns |-> s.conns, out |-> s.out, flow |-> flow,
                           known |-> known]}
                    ELSE again(s.conns) : s \in sendto(conns, f, x)}

-----------------------------------------------------------------------------
(* The worker                                                              *)

NoConn == [flow |-> 0, node |-> <<0, 0>>, open |-> FALSE]

\* InitExt: an empty connection set, and the first flow will be 1
ConnectorInit == flow = 0 /\ conns = {}

BackendInit ==
    /\ ConnectorInit
    /\ known = [n \in Node |-> 0]
    /\ batch = {}
    /\ answering = NoConn
    /\ given = {}
    /\ arrived = [n \in Node |-> [x \in Body \cup {Junk} |-> 0]]

Arrive(out) ==
    arrived' = [n \in Node |-> [x \in Body \cup {Junk} |->
                  arrived[n][x] + IF <<n, x>> \in out THEN 1 ELSE 0]]

\* user code runs when the acceptor is polled, that is between two polls of the
\* connector, and while an answer is processed
UserCode == batch = {} \/ answering # NoConn

Unused(x) == \A n \in Node : <<n, x>> \notin given

\* spp_sendto; a key no node serves gets an error and nothing happens
SppSendto(x) ==
    LET tbl == InitRouteConfig[Dest[x].serv_type]
        id  == GetNodeID(tbl, NodeKey(tbl, Dest[x].key))
        n   == <<Dest[x].serv_type, id>>
    IN  /\ UserCode /\ Unused(x)
        /\ flow + BackConn + 1 < FlowBound
        /\ id # 0
        /\ \E o \in SendOutcomes(n, x) :
             /\ conns' = o.conns /\ flow' = o.flow /\ known' = o.known
             /\ Arrive(o.out)
        /\ given' = given \cup {<<n, x>>}
        /\ UNCHANGED <<batch, answering>>

\* spp_sendbyflow, to the connection of the answer
SppSendbyflow(x) ==
    /\ answering # NoConn /\ Unused(x)
    /\ \E s \in sendto(conns, answering.flow, x) :
         conns' = s.conns /\ Arrive(s.out)
    /\ given' = given \cup {<<answering.node, x>>}
    /\ UNCHANGED <<flow, known, batch, answering>>

\* CTSockCommu::poll fetches events of some of the connections
Fetch ==
    /\ batch = {}
    /\ \E kind \in [{c \in conns : c.open} -> {"none", "in", "eof", "abnormal"}] :
         /\ batch' = {[conn |-> c, kind |-> kind[c]] :
                        c \in {d \in DOMAIN kind : kind[d] # "none"}}
         /\ batch' # {}
    /\ UNCHANGED <<flow, conns, known, answering, given, arrived>>

Next1(e) == answering = NoConn /\ e \in batch

\* an answer arrived: ctor_recvdata hands it to spp_handle_process
Answer(e) ==
    /\ Next1(e) /\ e.kind = "in" /\ e.conn \in conns
    /\ answering' = e.conn
    /\ UNCHANGED <<flow, conns, known, batch, given, arrived>>

\* ... which returns 0, or else the connection is closed, as it is when the
\* input is not understood; CCommuMng is not told.  The loop then reads again,
\* and may find that the node has closed.
Answered(e) ==
    /\ e \in batch /\ answering # NoConn /\ answering = e.conn
    /\ answering' = NoConn
    /\ batch' \in {batch \ {e}, (batch \ {e}) \cup {[e EXCEPT !.kind = "eof"]}}
    /\ conns' \in {conns, conns \ {e.conn}}
    /\ UNCHANGED <<flow, known, given, arrived>>

\* recv on a flow that has been closed since the batch was fetched
Stale(e) ==
    /\ Next1(e) /\ e.kind # "abnormal" /\ e.conn \notin conns
    /\ batch' = batch \ {e}
    /\ UNCHANGED <<flow, conns, known, answering, given, arrived>>

\* the node closed the connection, or an event is neither input nor output
\* (then also for a flow that has been closed): ctor_disconn.  The user's
\* EVENT_DISCONNECT is looked up by a flow RMConn has just removed: none runs.
Ended(e) ==
    /\ Next1(e)
    /\ \/ e.kind = "abnormal"
       \/ e.kind = "eof" /\ e.conn \in conns
    /\ known' = RMConn(known, e.conn.flow)
    /\ conns' = conns \ {e.conn}
    /\ batch' = batch \ {e}
    /\ UNCHANGED <<flow, answering, given, arrived>>

\* check_expire at the end of a poll, ctor_timeout: CCommuMng is not told
Expire(c) ==
    /\ batch = {} /\ c \in conns
    /\ conns' = conns \ {c}
    /\ UNCHANGED <<flow, known, batch, answering, given, arrived>>

BackendNext ==
    \/ \E x \in Body : SppSendto(x) \/ SppSendbyflow(x)
    \/ Fetch
    \/ \E e \in batch : Answer(e) \/ Answered(e) \/ Stale(e) \/ Ended(e)
    \/ \E c \in conns : Expire(c)

-----------------------------------------------------------------------------
(* Properties                                                              *)

\* However sends, answers, closes, timeouts and stale events of a batch
\* interleave, the connections that are open are those CCommuMng knows: a node
\* never has a second one nobody sends on or would close (spp_sendto,
\* ctor_disconn, ctor_timeout, CTSockCommu::poll).
OneConnPerNode == \A c \in conns : c.open => known[c.node] = c.flow

\* What comes to a node was given for it (by its key, or as a reply on the
\* flow of its answer), comes once, and is what was given, also when it was
\* sent again over a new connection whose callbacks used the same buffer
\* (spp_sendto, spp_sendbyflow).
SentAsGiven == \A n \in Node, x \in Body \cup {Junk} :
                 arrived[n][x] <= IF <<n, x>> \in given THEN 1 ELSE 0
=============================================================================
