--------------------------- MODULE PeripheryProofs ---------------------------
(***************************************************************************)
(* Proofs about the back-end connections of a worker and the caches of the *)
(* connections, for any route tables, bodies, sizes and bounds.            *)
(***************************************************************************)
EXTENDS Periphery, FiniteSetsExt, FiniteSetTheorems, SequenceTheorems,
        WellFoundedInduction, NaturalsInduction, TLAPS

-----------------------------------------------------------------------------
(* Numbers and queues                                                      *)

\* What is left of a queue without its first n elements.
LEMMA DropElements ==
    ASSUME NEW S, NEW q \in Seq(S), NEW n \in Nat
    PROVE  /\ SubSeq(q, n + 1, Len(q)) \in Seq(S)
           /\ Len(SubSeq(q, n + 1, Len(q))) = IF n <= Len(q) THEN Len(q) - n ELSE 0
           /\ \A i \in 1 .. Len(q) - n : SubSeq(q, n + 1, Len(q))[i] = q[i + n]
<1>1. \A i \in n + 1 .. Len(q) : q[i] \in S
  OBVIOUS
<1> QED BY <1>1, SubSeqProperties

\* The smallest of some natural numbers.
LEMMA LeastNat ==
    ASSUME NEW T, T \subseteq Nat, T # {}
    PROVE  Min(T) \in T /\ \A y \in T : Min(T) <= y
<1> DEFINE R == {ss \in Nat \X Nat : ss[1] < ss[2]}
<1>1. IsWellFoundedOn(R, Nat)
  BY NatLessThanWellFounded DEF OpToRel
<1>2. \A x, y \in Nat : y < x => <<y, x>> \in R
  OBVIOUS
<1> HIDE DEF R
<1>3. \E x \in T : \A y \in T : <<y, x>> \notin R
  BY <1>1, WFMin
<1>4. \A x, y \in T : <<y, x>> \notin R => x <= y
  BY <1>2
<1> QED BY <1>3, <1>4 DEF Min

-----------------------------------------------------------------------------
(* The back-end connections: what holds                                    *)

Conn == [flow : Nat \ {0}, node : Node, open : BOOLEAN]

\* The connections C, the last flow fl and the flows k of the nodes fit together.
ConnsFit(C, fl, k) ==
    /\ fl \in Nat /\ C \subseteq Conn
    /\ \A c \in C : c.flow <= fl
    /\ \A c, d \in C : c.flow = d.flow => c = d
    /\ k \in [Node -> Nat]
    /\ \A n, m \in Node : k[n] = k[m] /\ k[n] # 0 => n = m
    /\ \A n \in Node : k[n] <= fl
    /\ \A c \in C : c.open => k[c.node] = c.flow

\* An event is of a connection whose flow no other has.
EventsFit ==
    /\ \A e \in batch : /\ e.conn \in Conn /\ e.conn.flow <= flow
                        /\ \A c \in conns : c.flow = e.conn.flow => c = e.conn
    /\ answering # NoConn => \E e \in batch : e.conn = answering

\* how often each body has arrived at each node
Counts == arrived \in [Node -> [Body \cup {Junk} -> Nat]]

\* the invariant of the connector
BackendInv == ConnsFit(conns, flow, known) /\ EventsFit /\ Counts /\ SentAsGiven

\* What an operation of the connector makes of C, fl and k for node n and data x.
Made(C, fl, n, x, D, gl, m, out) ==
    /\ ConnsFit(D, gl, m)
    /\ fl <= gl
    /\ \A c \in D : c \in C \/ c.flow > fl
    /\ out \subseteq {<<n, x>>}

-----------------------------------------------------------------------------
(* The operations of the connector                                         *)

\* closeconn
LEMMA FewerConns ==
    ASSUME NEW C, NEW fl, NEW k, ConnsFit(C, fl, k), NEW D \in SUBSET C
    PROVE  ConnsFit(D, fl, k)
BY DEF ConnsFit

\* CTSockCommu::sendto on the flow of a node: it comes to that node, and when it does not
\* work the node has no open connection.
LEMMA SendtoOf ==
    ASSUME NEW C, NEW fl, NEW k, ConnsFit(C, fl, k), NEW n \in Node, NEW x,
           NEW f, f = k[n], NEW s \in sendto(C, f, x)
    PROVE  /\ s.conns \in SUBSET C /\ s.out \subseteq {<<n, x>>}
           /\ s.ret # "ok" => \A c \in s.conns : c.open => c.node # n
<1>1. f \in Nat /\ \A c \in C : c.open /\ c.node = n => c.flow = f
  BY DEF ConnsFit
<1>2. ASSUME NEW c \in Named(C, f), c.open PROVE c.node = n
  <2>1. c \in C /\ c.flow = f /\ c \in Conn
    BY <1>2 DEF Named, ConnsFit
  <2>2. f # 0 /\ c.node \in Node /\ k[c.node] = f
    BY <1>2, <2>1 DEF Conn, ConnsFit
  <2> QED BY <2>2 DEF ConnsFit
<1>3. CASE Named(C, f) = {}
  <2>1. s = [ret |-> "not_findfd", conns |-> C, out |-> {}]
    BY <1>3 DEF sendto
  <2> QED BY <1>1, <1>3, <2>1 DEF Named
<1>4. CASE Named(C, f) # {}
  <2>1. \/ s = [ret |-> "need_close", conns |-> C \ Named(C, f), out |-> {}]
        \/ \E c \in Named(C, f) : c.open /\ s.ret = "ok" /\ s.conns = C
                                  /\ s.out \in {{}, {<<c.node, x>>}}
    BY <1>4 DEF sendto
  <2>2. CASE s = [ret |-> "need_close", conns |-> C \ Named(C, f), out |-> {}]
    BY <1>1, <2>2 DEF Named
  <2> QED BY <1>2, <2>1, <2>2
<1> QED BY <1>3, <1>4

\* CTSockCommu::connect, for a node that has no open connection
LEMMA ConnectOf ==
    ASSUME NEW C, NEW fl, NEW k, ConnsFit(C, fl, k), NEW n \in Node,
           \A c \in C : c.open => c.node # n, NEW o \in connect(C, fl, k, n)
    PROVE  /\ ConnsFit(o.conns, o.flow, o.known) /\ fl <= o.flow
           /\ \A c \in o.conns : c \in C \/ c.flow > fl
<1> DEFINE first == fl + 1
           free == {i \in 0 .. BackConn - 1 : \A c \in C : Slot(c.flow) # Slot(first + i)}
           f == first + Min(free)
           b == (GetNodeInfo(n).type = "tcp")
           shut == [flow |-> f, node |-> n, open |-> FALSE]
           new == [flow |-> f, node |-> n, open |-> b]
<1>1. fl \in Nat /\ first \in Nat /\ first > fl /\ BackConn \in Nat
  BY BackendAssumption DEF ConnsFit
<1>2. CASE free = {}
  <2>1. o = [ok |-> FALSE, conns |-> C, flow |-> first + BackConn, known |-> k]
    BY <1>2 DEF connect
  <2>2. o.conns = C /\ o.known = k /\ o.flow = first + BackConn
    BY <2>1
  <2> HIDE DEF first
  <2>3. first + BackConn \in Nat /\ fl <= first + BackConn
    BY <1>1
  <2>4. ConnsFit(C, first + BackConn, k)
    BY <1>1, <2>3 DEF ConnsFit, Conn
  <2> QED BY <2>2, <2>3, <2>4
<1>3. CASE free # {}
  <2>1. free \subseteq Nat
    BY <1>1
  <2>2. \/ o = [ok |-> FALSE, conns |-> C \cup {shut}, flow |-> f, known |-> k]
        \/ o = [ok |-> TRUE, flow |-> f, known |-> AddConn(k, n, f), conns |-> C \cup {new}]
    BY <1>3 DEF connect
  <2> HIDE DEF free
  <2>3. Min(free) \in Nat
    BY <1>3, <2>1, LeastNat
  <2>4. f \in Nat /\ f > fl /\ f # 0 /\ b \in BOOLEAN
    BY <1>1, <2>3
  <2> HIDE DEF f, b
  <2>5. shut \in Conn /\ shut.flow = f /\ ~shut.open /\ new \in Conn /\ new.flow = f /\ new.node = n
    BY <2>4 DEF Conn
  <2> HIDE DEF shut, new
  <2>6. CASE o = [ok |-> FALSE, conns |-> C \cup {shut}, flow |-> f, known |-> k]
    <3>1. o.conns = C \cup {shut} /\ o.flow = f /\ o.known = k
      BY <2>6
    <3>2. ConnsFit(C \cup {shut}, f, k)
      BY <1>1, <2>4, <2>5 DEF ConnsFit, Conn
    <3> QED BY <1>1, <2>4, <2>5, <3>1, <3>2
  <2>7. CASE o = [ok |-> TRUE, flow |-> f, known |-> AddConn(k, n, f), conns |-> C \cup {new}]
    <3> DEFINE m == AddConn(k, n, f)
    <3>1. o.conns = C \cup {new} /\ o.flow = f /\ o.known = m
      BY <2>7
    <3>2. m \in [Node -> Nat] /\ m[n] = f /\ \A x \in Node \ {n} : m[x] = k[x]
      BY <2>4 DEF ConnsFit, AddConn
    <3> HIDE DEF m
    <3>3. \A x \in Node : k[x] \in Nat /\ k[x] <= fl
      BY DEF ConnsFit
    <3>4. \A x, y \in Node : m[x] = m[y] /\ m[x] # 0 => x = y
      BY <1>1, <2>4, <3>2, <3>3 DEF ConnsFit
    <3>5. \A x \in Node : m[x] <= f
      BY <1>1, <2>4, <3>2, <3>3
    <3>6. \A c \in C \cup {new} : c.open => m[c.node] = c.flow
      BY <2>5, <3>2 DEF ConnsFit, Conn
    <3>7. \A c \in C \cup {new} : c.flow <= f
      BY <1>1, <2>4, <2>5 DEF ConnsFit, Conn
    <3>8. \A c, d \in C \cup {new} : c.flow = d.flow => c = d
      BY <1>1, <2>4, <2>5 DEF ConnsFit, Conn
    <3>9. ConnsFit(C \cup {new}, f, m)
      BY <2>4, <2>5, <3>2, <3>4, <3>5, <3>6, <3>7, <3>8 DEF ConnsFit
    <3> QED BY <1>1, <2>4, <2>5, <3>1, <3>9
  <2> QED BY <2>2, <2>6, <2>7
<1> QED BY <1>2, <1>3

\* spp_sendto opens a connection and sends the body on it.
LEMMA SendAgainOf ==
    ASSUME NEW C, NEW fl, NEW k, ConnsFit(C, fl, k), NEW n \in Node, NEW x,
           \A c \in C : c.open => c.node # n, NEW o \in SendAgain(C, fl, k, n, x)
    PROVE  Made(C, fl, n, x, o.conns, o.flow, o.known, o.out)
<1>1. PICK p \in connect(C, fl, k, n) :
        \/ /\ o.flow = p.flow /\ o.known = p.known /\ o.conns = p.conns /\ o.out = {}
        \/ \E s \in sendto(p.conns, p.known[n], x) :
              o = [conns |-> s.conns, out |-> s.out, flow |-> p.flow, known |-> p.known]
  BY DEF SendAgain, Restored, GetFlow
<1>2. /\ ConnsFit(p.conns, p.flow, p.known) /\ fl <= p.flow
      /\ \A c \in p.conns : c \in C \/ c.flow > fl
  BY ConnectOf
<1>3. CASE /\ o.flow = p.flow /\ o.known = p.known /\ o.conns = p.conns /\ o.out = {}
  BY <1>2, <1>3 DEF Made
<1>4. ASSUME NEW s \in sendto(p.conns, p.known[n], x),
             o = [conns |-> s.conns, out |-> s.out, flow |-> p.flow, known |-> p.known]
      PROVE  Made(C, fl, n, x, o.conns, o.flow, o.known, o.out)
  <2> DEFINE D == p.conns
             gl == p.flow
             m == p.known
             f == m[n]
  <2>1. ConnsFit(D, gl, m) /\ f = m[n] /\ s \in sendto(D, f, x)
    BY <1>2, <1>4
  <2>2. o.conns = s.conns /\ o.out = s.out /\ o.flow = gl /\ o.known = m
    BY <1>4
  <2> HIDE DEF D, gl, m, f
  <2>3. s.conns \in SUBSET D /\ s.out \subseteq {<<n, x>>}
    BY <2>1, SendtoOf
  <2> DEFINE E == s.conns
  <2>4. E \in SUBSET D
    BY <2>3
  <2> HIDE DEF E
  <2>5. ConnsFit(E, gl, m)
    BY <2>1, <2>4, FewerConns
  <2> QED BY <1>2, <2>2, <2>3, <2>4, <2>5 DEF Made, D, gl, E
<1> QED BY <1>1, <1>3, <1>4

\* CDefaultWorker::spp_sendto for a node
LEMMA OutcomesOf ==
    ASSUME BackendInv, NEW n \in Node, NEW x, NEW o \in SendOutcomes(n, x)
    PROVE  Made(conns, flow, n, x, o.conns, o.flow, o.known, o.out)
<1> DEFINE C == conns
           fl == flow
           k == known
           f == k[n]
<1>1. ConnsFit(C, fl, k) /\ f = k[n]
  BY DEF BackendInv
<1>2. \/ f = 0 /\ o \in SendAgain(C, fl, k, n, x)
      \/ f # 0 /\ \E s \in sendto(C, f, x) :
           \/ s.ret = "ok" /\ o = [conns |-> s.conns, out |-> s.out, flow |-> fl, known |-> k]
           \/ s.ret # "ok" /\ o \in SendAgain(s.conns, fl, k, n, x)
  BY DEF SendOutcomes, GetFlow
<1> HIDE DEF C, fl, k, f
<1>3. CASE f = 0 /\ o \in SendAgain(C, fl, k, n, x)
  <2>1. ASSUME NEW c \in C, c.open, c.node = n PROVE FALSE
    <3>1. k[c.node] = c.flow /\ c \in Conn
      BY <1>1, <2>1 DEF ConnsFit
    <3> QED BY <1>1, <1>3, <2>1, <3>1 DEF Conn
  <2>2. Made(C, fl, n, x, o.conns, o.flow, o.known, o.out)
    BY <1>1, <1>3, <2>1, SendAgainOf
  <2> QED BY <2>2 DEF C, fl
<1>4. ASSUME NEW s \in sendto(C, f, x), s.ret = "ok",
             o = [conns |-> s.conns, out |-> s.out, flow |-> fl, known |-> k]
      PROVE  Made(C, fl, n, x, o.conns, o.flow, o.known, o.out)
  <2>1. s.conns \in SUBSET C /\ s.out \subseteq {<<n, x>>}
    BY <1>1, SendtoOf
  <2> DEFINE D == s.conns
  <2>2. D \in SUBSET C
    BY <2>1
  <2> HIDE DEF D
  <2>3. ConnsFit(D, fl, k)
    BY <1>1, <2>2, FewerConns
  <2>4. o.conns = D /\ o.out = s.out /\ o.flow = fl /\ o.known = k
    BY <1>4 DEF D
  <2>5. fl <= fl
    BY <1>1 DEF ConnsFit
  <2> QED BY <2>1, <2>2, <2>3, <2>4, <2>5 DEF Made
<1>5. ASSUME NEW s \in sendto(C, f, x), s.ret # "ok", o \in SendAgain(s.conns, fl, k, n, x)
      PROVE  Made(C, fl, n, x, o.conns, o.flow, o.known, o.out)
  <2>1. s.conns \in SUBSET C /\ \A c \in s.conns : c.open => c.node # n
    BY <1>1, <1>5, SendtoOf
  <2> DEFINE D == s.conns
  <2>2. D \in SUBSET C /\ (\A c \in D : c.open => c.node # n) /\ o \in SendAgain(D, fl, k, n, x)
    BY <1>5, <2>1
  <2> HIDE DEF D
  <2>3. ConnsFit(D, fl, k)
    BY <1>1, <2>2, FewerConns
  <2>4. Made(D, fl, n, x, o.conns, o.flow, o.known, o.out)
    BY <2>2, <2>3, SendAgainOf
  <2> QED BY <2>2, <2>4 DEF Made
<1> QED BY <1>2, <1>3, <1>4, <1>5 DEF C, fl

-----------------------------------------------------------------------------
(* The steps of the worker                                                 *)

\* A body that nobody was given for a node yet goes to node n, or to none.
LEMMA ArriveStep ==
    ASSUME Counts, SentAsGiven, NEW n \in Node, NEW x \in Body, Unused(x),
           NEW out, out \subseteq {<<n, x>>}, Arrive(out), given' = given \cup {<<n, x>>}
    PROVE  Counts' /\ SentAsGiven'
<1>1. ASSUME NEW m \in Node, NEW y \in Body \cup {Junk}
      PROVE  /\ arrived[m][y] \in Nat
             /\ arrived'[m][y] = arrived[m][y] + IF <<m, y>> \in out THEN 1 ELSE 0
             /\ <<m, y>> \in out => m = n /\ y = x
  BY DEF Counts, Arrive
<1>2. Counts'
  BY <1>1 DEF Counts, Arrive
<1>3. ASSUME NEW m \in Node, NEW y \in Body \cup {Junk}
      PROVE  arrived'[m][y] <= IF <<m, y>> \in given' THEN 1 ELSE 0
  <2>1. arrived[m][y] <= IF <<m, y>> \in given THEN 1 ELSE 0
    BY DEF SentAsGiven
  <2>2. CASE <<m, y>> \in out
    BY <1>1, <2>1, <2>2 DEF Unused
  <2>3. CASE <<m, y>> \notin out
    BY <1>1, <2>1, <2>3
  <2> QED BY <2>2, <2>3
<1> QED BY <1>2, <1>3 DEF SentAsGiven

\* The key of a body is that of a node, unless the route table has none for it.
LEMMA DestNode ==
    ASSUME NEW x \in Body,
           GetNodeID(InitRouteConfig[Dest[x].serv_type],
                     NodeKey(InitRouteConfig[Dest[x].serv_type], Dest[x].key)) # 0
    PROVE  <<Dest[x].serv_type, GetNodeID(InitRouteConfig[Dest[x].serv_type],
                 NodeKey(InitRouteConfig[Dest[x].serv_type], Dest[x].key))>> \in Node
<1> DEFINE t == Dest[x].serv_type
           tbl == InitRouteConfig[t]
           key == NodeKey(tbl, Dest[x].key)
           fit == {d \in DOMAIN tbl.map_node : /\ tbl.map_node[d].begin <= key
                                               /\ key <= tbl.map_node[d].end}
<1>1. t \in DOMAIN InitRouteConfig /\ tbl = InitRouteTable(RouteConf[t])
  BY BackendAssumption DEF InitRouteConfig
<1>2. DOMAIN tbl.map_node \subseteq Nat
  <2> DEFINE conf == RouteConf[t]
             ids == {conf.nodes[i].id : i \in DOMAIN conf.nodes}
             last(d) == Max({i \in DOMAIN conf.nodes : conf.nodes[i].id = d})
             m == [d \in ids |-> conf.nodes[last(d)]]
  <2>1. tbl = [route |-> conf.route, route_val |-> conf.route_val, map_node |-> m]
    BY <1>1 DEF InitRouteTable
  <2>2. ids \subseteq Nat
    BY <1>1, BackendAssumption DEF InitRouteConfig
  <2>3. DOMAIN m = ids
    OBVIOUS
  <2> HIDE DEF m, ids, tbl
  <2> QED BY <2>1, <2>2, <2>3
<1>3. fit \subseteq Nat
  BY <1>2
<1>4. fit # {} /\ GetNodeID(tbl, key) = Min(fit)
  BY DEF GetNodeID
<1>5. fit \subseteq DOMAIN tbl.map_node
  OBVIOUS
<1> HIDE DEF fit
<1>6. Min(fit) \in fit
  BY <1>3, <1>4, LeastNat
<1> QED BY <1>1, <1>4, <1>5, <1>6 DEF Node

\* Connections go, and flows of nodes with them at most.
LEMMA FewerStep ==
    ASSUME BackendInv, conns' \subseteq conns, UNCHANGED <<flow, known, arrived, given>>,
           \A e \in batch' : \E y \in batch : e.conn = y.conn,
           answering' # NoConn => \E e \in batch' : e.conn = answering'
    PROVE  BackendInv'
<1>1. ConnsFit(conns, flow, known)' 
  BY DEF BackendInv, ConnsFit
<1>2. EventsFit'
  BY DEF BackendInv, EventsFit
<1>3. Counts' /\ SentAsGiven'
  BY DEF BackendInv, Counts, SentAsGiven
<1> QED BY <1>1, <1>2, <1>3 DEF BackendInv

\* ctor_disconn: the connection goes, and CCommuMng forgets its flow.
LEMMA EndedStep ==
    ASSUME BackendInv, NEW e \in batch, Ended(e)
    PROVE  BackendInv'
<1> DEFINE f == e.conn.flow
<1>1. /\ known' = RMConn(known, f) /\ conns' = conns \ {e.conn} /\ batch' = batch \ {e}
      /\ UNCHANGED <<flow, answering, given, arrived>> /\ answering = NoConn
  BY DEF Ended, Next1
<1>2. known' \in [Node -> Nat] /\ \A n \in Node : known'[n] = IF known[n] = f THEN 0 ELSE known[n]
  BY <1>1 DEF RMConn, BackendInv, ConnsFit
<1>3. \A c \in conns' : c \in conns /\ c.flow # f
  BY <1>1 DEF BackendInv, EventsFit
<1>4. ConnsFit(conns, flow, known)
  BY DEF BackendInv
<1> HIDE DEF f
<1>5. \A c \in conns' : c.open => known'[c.node] = c.flow
  BY <1>2, <1>3, <1>4 DEF ConnsFit, Conn
<1>6. ConnsFit(conns, flow, known)'
  BY <1>1, <1>2, <1>3, <1>4, <1>5 DEF ConnsFit
<1>7. EventsFit'
  BY <1>1 DEF BackendInv, EventsFit
<1>8. Counts' /\ SentAsGiven'
  BY <1>1 DEF BackendInv, Counts, SentAsGiven
<1> QED BY <1>6, <1>7, <1>8 DEF BackendInv

\* poll fetches events of connections that are there.
LEMMA FetchStep ==
    ASSUME BackendInv, Fetch
    PROVE  BackendInv'
<1>1. /\ \A e \in batch' : e.conn \in conns
      /\ batch = {} /\ UNCHANGED <<flow, conns, known, answering, given, arrived>>
  BY DEF Fetch
<1>2. answering = NoConn
  BY <1>1 DEF BackendInv, EventsFit
<1>3. EventsFit'
  BY <1>1, <1>2 DEF BackendInv, EventsFit, ConnsFit
<1> QED BY <1>1, <1>3 DEF BackendInv, ConnsFit, Counts, SentAsGiven

\* spp_sendto
LEMMA SendtoStep ==
    ASSUME BackendInv, NEW x \in Body, SppSendto(x)
    PROVE  BackendInv'
<1> DEFINE id == GetNodeID(InitRouteConfig[Dest[x].serv_type],
                           NodeKey(InitRouteConfig[Dest[x].serv_type], Dest[x].key))
           n == <<Dest[x].serv_type, id>>
<1>1. /\ Unused(x) /\ id # 0 /\ given' = given \cup {<<n, x>>}
      /\ UNCHANGED <<batch, answering>>
  BY DEF SppSendto
<1>2. PICK o \in SendOutcomes(n, x) :
         conns' = o.conns /\ flow' = o.flow /\ known' = o.known /\ Arrive(o.out)
  BY DEF SppSendto
<1>3. n \in Node
  BY <1>1, DestNode
<1> HIDE DEF id, n
<1>4. Made(conns, flow, n, x, o.conns, o.flow, o.known, o.out)
  BY <1>2, <1>3, OutcomesOf
<1>5. /\ ConnsFit(o.conns, o.flow, o.known) /\ flow <= o.flow /\ o.out \subseteq {<<n, x>>}
      /\ \A c \in o.conns : c \in conns \/ c.flow > flow
  BY <1>4 DEF Made
<1>6. ConnsFit(conns, flow, known)'
  BY <1>2, <1>5 DEF ConnsFit
<1>7. EventsFit'
  <2>1. flow \in Nat /\ flow' \in Nat /\ flow <= flow'
    BY <1>2, <1>5 DEF BackendInv, ConnsFit
  <2>2. ASSUME NEW e \in batch
        PROVE  e.conn.flow <= flow' /\ \A c \in conns' : c.flow = e.conn.flow => c = e.conn
    <3>1. e.conn \in Conn /\ e.conn.flow <= flow /\ \A c \in conns : c.flow = e.conn.flow => c = e.conn
      BY DEF BackendInv, EventsFit
    <3>2. e.conn.flow \in Nat
      BY <3>1 DEF Conn
    <3>3. \A c \in conns' : c \in conns \/ c.flow > flow
      BY <1>2, <1>5
    <3>4. \A c \in conns' : c.flow \in Nat
      BY <1>6 DEF ConnsFit, Conn
    <3> QED BY <2>1, <3>1, <3>2, <3>3, <3>4
  <2> QED BY <1>1, <2>2 DEF BackendInv, EventsFit
<1> DEFINE out == o.out
<1>8. out \subseteq {<<n, x>>} /\ Arrive(out)
  BY <1>2, <1>5
<1> HIDE DEF out
<1>9. Counts' /\ SentAsGiven'
  BY <1>1, <1>3, <1>8, ArriveStep DEF BackendInv
<1> QED BY <1>6, <1>7, <1>9 DEF BackendInv

\* spp_sendbyflow
LEMMA SendbyflowStep ==
    ASSUME BackendInv, NEW x \in Body, SppSendbyflow(x)
    PROVE  BackendInv'
<1> DEFINE n == answering.node
           f == answering.flow
<1>1. /\ Unused(x) /\ given' = given \cup {<<n, x>>}
      /\ UNCHANGED <<flow, known, batch, answering>>
  BY DEF SppSendbyflow
<1>2. PICK s \in sendto(conns, f, x) : conns' = s.conns /\ Arrive(s.out)
  BY DEF SppSendbyflow
<1>3. PICK e \in batch : e.conn = answering
  BY DEF SppSendbyflow, BackendInv, EventsFit
<1>4. n \in Node /\ \A c \in conns : c.flow = f => c.node = n
  BY <1>3 DEF BackendInv, EventsFit, Conn
<1>5. s.conns \subseteq conns /\ s.out \subseteq {<<n, x>>}
  <2>1. \A c \in Named(conns, f) : c.node = n
    BY <1>4 DEF Named
  <2>2. \/ s = [ret |-> "not_findfd", conns |-> conns, out |-> {}]
        \/ s = [ret |-> "need_close", conns |-> conns \ Named(conns, f), out |-> {}]
        \/ \E c \in Named(conns, f) : s.conns = conns /\ s.out \in {{}, {<<c.node, x>>}}
    BY DEF sendto
  <2> QED BY <2>1, <2>2
<1> HIDE DEF n, f
<1>6. ConnsFit(conns, flow, known)'
  BY <1>1, <1>2, <1>5 DEF BackendInv, ConnsFit
<1>7. EventsFit'
  BY <1>1, <1>2, <1>5 DEF BackendInv, EventsFit
<1> DEFINE out == s.out
<1>8. out \subseteq {<<n, x>>} /\ Arrive(out)
  BY <1>2, <1>5
<1> HIDE DEF out
<1>9. Counts' /\ SentAsGiven'
  BY <1>1, <1>4, <1>8, ArriveStep DEF BackendInv
<1> QED BY <1>6, <1>7, <1>9 DEF BackendInv

\* Every step of the worker keeps the invariant.
LEMMA BackendStep ==
    ASSUME BackendInv, BackendNext \/ UNCHANGED backendVars
    PROVE  BackendInv'
<1>1. CASE UNCHANGED backendVars
  BY <1>1 DEF backendVars, BackendInv, ConnsFit, EventsFit, Counts, SentAsGiven
<1>2. ASSUME NEW e \in batch, Answer(e) \/ Answered(e) \/ Stale(e) PROVE BackendInv'
  <2>1. CASE Answer(e)
    BY <2>1, FewerStep DEF Answer
  <2>2. CASE Answered(e)
    <3>1. \A y \in batch' : y \in batch \/ y = [e EXCEPT !.kind = "eof"]
      BY <2>2 DEF Answered
    <3>2. [e EXCEPT !.kind = "eof"].conn = e.conn
      OBVIOUS
    <3> QED BY <2>2, <3>1, <3>2, FewerStep DEF Answered
  <2>3. CASE Stale(e)
    BY <2>3, FewerStep DEF Stale, Next1
  <2> QED BY <1>2, <2>1, <2>2, <2>3
<1>3. ASSUME NEW c \in conns, Expire(c) PROVE BackendInv'
  BY <1>3, FewerStep DEF Expire, BackendInv, EventsFit
<1> QED BY <1>1, <1>2, <1>3, SendtoStep, SendbyflowStep, FetchStep, EndedStep DEF BackendNext

\* The worker starts with no connection.
LEMMA BackendStart ==
    ASSUME BackendInit PROVE BackendInv
<1>1. ConnsFit(conns, flow, known)
  BY DEF BackendInit, ConnectorInit, ConnsFit
<1>2. EventsFit /\ Counts
  BY DEF BackendInit, EventsFit, Counts
<1>3. SentAsGiven
  BY DEF BackendInit, SentAsGiven
<1> QED BY <1>1, <1>2, <1>3 DEF BackendInv

\* A step of the system is one of the worker, or leaves its connections alone.
LEMMA BackendUnit == [Next]_vars => BackendNext \/ UNCHANGED backendVars
BY DEF Next, vars

\* spp_sendto, ctor_disconn, ctor_timeout and CTSockCommu::poll: the connections that are
\* open are those CCommuMng knows, so that a node never has a second one.
THEOREM NodesHaveOneConn == Spec => []OneConnPerNode
<1>1. Init => BackendInv
  BY BackendStart DEF Init
<1>2. BackendInv /\ [Next]_vars => BackendInv'
  BY BackendStep, BackendUnit
<1>3. BackendInv => OneConnPerNode
  BY DEF BackendInv, ConnsFit, OneConnPerNode
<1> QED BY <1>1, <1>2, <1>3, PTL DEF Spec

\* spp_sendto and spp_sendbyflow: what comes to a node was given for it, comes once, and is
\* what was given.
THEOREM BodiesArriveAsGiven == Spec => []SentAsGiven
<1>1. Init => BackendInv
  BY BackendStart DEF Init
<1>2. BackendInv /\ [Next]_vars => BackendInv'
  BY BackendStep, BackendUnit
<1>3. BackendInv => SentAsGiven
  BY DEF BackendInv
<1> QED BY <1>1, <1>2, <1>3, PTL DEF Spec

-----------------------------------------------------------------------------
(* The memory pool: what holds                                             *)

PoolType == [free : [BlockSize -> SUBSET Index], live : [BlockSize -> SUBSET Index],
             allocated : Nat]

\* The free blocks are among those there are, and the account is right.
PoolFit(p) ==
    /\ p \in PoolType
    /\ \A s \in BlockSize : p.free[s] \subseteq p.live[s]
    /\ p.allocated = Cardinality(Bytes(p.live))

\* the blocks of size s that are not free
InUse(p, s) == p.live[s] \ p.free[s]

\* What giving back free blocks makes of p.
Smaller(p, q) ==
    /\ PoolFit(q) /\ q.allocated <= p.allocated
    /\ \A t \in BlockSize : InUse(q, t) = InUse(p, t) /\ q.free[t] \subseteq p.free[t]

-----------------------------------------------------------------------------
(* Counting blocks and bytes                                               *)

\* Lowest takes as many blocks as it is asked for.
LEMMA LowestCount ==
    ASSUME NEW S \in SUBSET Nat, IsFiniteSet(S), NEW n \in Nat, n <= Cardinality(S)
    PROVE  Cardinality(Lowest(S, n)) = n
<1> DEFINE below(a) == {b \in S : b < a}
           c == Cardinality(S)
           rank == [a \in S |-> Cardinality(below(a))]
           L == Lowest(S, n)
           low == [a \in L |-> rank[a]]
<1>1. c \in Nat
  BY FS_CardinalityType
<1>2. ASSUME NEW a \in S PROVE IsFiniteSet(below(a)) /\ rank[a] \in 0 .. c - 1
  <2>1. IsFiniteSet(below(a)) /\ Cardinality(below(a)) <= c /\ (c = Cardinality(below(a)) => S = below(a))
    BY FS_Subset
  <2>2. a \notin below(a) /\ Cardinality(below(a)) \in Nat
    BY <2>1, FS_CardinalityType
  <2> QED BY <1>1, <2>1, <2>2
<1>3. ASSUME NEW a \in S, NEW b \in S, a < b PROVE rank[a] < rank[b]
  <2> DEFINE A == below(a)
             B == below(b)
  <2>1. A \subseteq B /\ a \in B /\ a \notin A
    <3>1. a \in Nat /\ b \in Nat /\ \A x \in S : x \in Nat
      OBVIOUS
    <3>2. ~(a < a) /\ \A x \in S : x < a => x < b
      BY <1>3, <3>1
    <3>3. /\ \A x : x \in A <=> x \in S /\ x < a
          /\ \A x : x \in B <=> x \in S /\ x < b
      OBVIOUS
    <3> HIDE DEF A, B
    <3> QED BY <1>3, <3>2, <3>3
  <2>2. IsFiniteSet(B) /\ rank[a] = Cardinality(A) /\ rank[b] = Cardinality(B)
        /\ rank[a] \in 0 .. c - 1 /\ rank[b] \in 0 .. c - 1
    BY <1>2
  <2> HIDE DEF A, B, rank
  <2>3. Cardinality(A) <= Cardinality(B) /\ Cardinality(A) # Cardinality(B)
    BY <2>1, <2>2, FS_Subset
  <2> QED BY <1>1, <2>2, <2>3
<1>4. rank \in [S -> 0 .. c - 1]
  BY <1>2
<1>5. \A a, b \in S : rank[a] = rank[b] => a = b
  <2>1. SUFFICES ASSUME NEW a \in S, NEW b \in S, rank[a] = rank[b], a # b PROVE FALSE
    OBVIOUS
  <2>2. a \in Nat /\ b \in Nat /\ rank[a] \in Nat /\ rank[b] \in Nat
    BY <1>2
  <2> QED BY <1>3, <2>1, <2>2
<1> HIDE DEF rank, c
<1>6. rank \in Surjection(S, 0 .. c - 1)
  <2>1. rank \in Injection(S, 0 .. c - 1)
    BY <1>4, <1>5 DEF Injection, IsInjective
  <2>2. IsFiniteSet(0 .. c - 1) /\ Cardinality(0 .. c - 1) = c
    BY <1>1, FS_Interval
  <2> QED BY <2>1, <2>2, FS_Injection DEF c
<1>7. L = {a \in S : rank[a] < n} /\ n <= c
  BY DEF Lowest, rank, c
<1> HIDE DEF L
<1>8. low \in [L -> 0 .. n - 1] /\ \A a, b \in L : low[a] = low[b] => a = b
  <2>1. \A a \in S : rank[a] \in 0 .. c - 1
    BY <1>4
  <2>2. \A a \in L : a \in S /\ rank[a] \in 0 .. n - 1
    BY <1>1, <1>7, <2>1
  <2> QED BY <1>5, <2>2
<1>9. \A k \in 0 .. n - 1 : \E a \in L : low[a] = k
  BY <1>1, <1>6, <1>7 DEF Surjection
<1> HIDE DEF low
<1>10. low \in Injection(L, 0 .. n - 1) /\ low \in Surjection(L, 0 .. n - 1)
  BY <1>8, <1>9 DEF Injection, IsInjective, Surjection
<1>11. IsFiniteSet(0 .. n - 1) /\ Cardinality(0 .. n - 1) = n
  <2>1. n - 1 \in Int /\ 0 \in Int /\ (0 > n - 1 => n = 0)
    OBVIOUS
  <2>2. /\ IsFiniteSet(0 .. n - 1)
        /\ Cardinality(0 .. n - 1) = IF 0 > n - 1 THEN 0 ELSE (n - 1) - 0 + 1
    BY <2>1, FS_Interval
  <2> QED BY <2>1, <2>2
<1> QED BY <1>10, <1>11, FS_Injection DEF L

\* There are finitely many sizes.
LEMMA SizesFinite == IsFiniteSet(BlockSize)
<1> DEFINE nth == [i \in 0 .. Shifts |-> SizeAt(i)]
<1>1. nth \in [0 .. Shifts -> BlockSize] /\ \A s \in BlockSize : \E i \in 0 .. Shifts : nth[i] = s
  BY DEF BlockSize
<1> HIDE DEF nth
<1>2. nth \in Surjection(0 .. Shifts, BlockSize)
  BY <1>1 DEF Surjection
<1>3. IsFiniteSet(0 .. Shifts)
  BY PoolAssumption, FS_Interval
<1> QED BY <1>2, <1>3, FS_Surjection

\* the bytes of the blocks A of size s
OfSize(s, A) == {s} \X (A \X (1 .. s))

\* What is counted for blocks of one size is the number of their bytes.
LEMMA OfSizeCount ==
    ASSUME NEW s \in BlockSize, NEW A \in SUBSET Index
    PROVE  /\ IsFiniteSet(OfSize(s, A)) /\ Cardinality(A) \in Nat
           /\ Cardinality(OfSize(s, A)) = s * Cardinality(A)
<1>1. s \in Nat \ {0} /\ IsFiniteSet(A)
  BY PoolAssumption, FS_Subset
<1>2. IsFiniteSet(1 .. s) /\ Cardinality(1 .. s) = s
  BY <1>1, FS_Interval
<1>3. IsFiniteSet(A \X (1 .. s)) /\ Cardinality(A \X (1 .. s)) = Cardinality(A) * s
  BY <1>1, <1>2, FS_Product
<1>4. IsFiniteSet({s}) /\ Cardinality({s}) = 1
  BY FS_Singleton
<1>5. IsFiniteSet(OfSize(s, A)) /\ Cardinality(OfSize(s, A)) = 1 * (Cardinality(A) * s)
  BY <1>3, <1>4, FS_Product DEF OfSize
<1>6. Cardinality(A) \in Nat
  BY <1>1, FS_CardinalityType
<1> QED BY <1>1, <1>5, <1>6

\* The bytes of all blocks are finitely many.
LEMMA BytesFinite ==
    ASSUME NEW f \in [BlockSize -> SUBSET Index]
    PROVE  IsFiniteSet(Bytes(f)) /\ Cardinality(Bytes(f)) \in Nat
<1> DEFINE each == [s \in BlockSize |-> OfSize(s, f[s])]
           all == {OfSize(s, f[s]) : s \in BlockSize}
<1>1. each \in [BlockSize -> all] /\ \A x \in all : \E s \in BlockSize : each[s] = x
  OBVIOUS
<1>2. \A x \in all : IsFiniteSet(x)
  BY OfSizeCount
<1>3. Bytes(f) = UNION all
  BY DEF Bytes, OfSize
<1> HIDE DEF each, all
<1>4. each \in Surjection(BlockSize, all)
  BY <1>1 DEF Surjection
<1>5. IsFiniteSet(all)
  BY <1>4, SizesFinite, FS_Surjection
<1>6. IsFiniteSet(Bytes(f))
  BY <1>2, <1>3, <1>5, FS_UNION
<1> QED BY <1>6, FS_CardinalityType

\* Blocks that go take their bytes with them.
LEMMA BytesLess ==
    ASSUME NEW f \in [BlockSize -> SUBSET Index], NEW s \in BlockSize, NEW gone \in SUBSET f[s]
    PROVE  Cardinality(Bytes([f EXCEPT ![s] = @ \ gone])) = Cardinality(Bytes(f)) - s * Cardinality(gone)
<1> DEFINE g == [f EXCEPT ![s] = @ \ gone]
<1>1. Bytes(g) = Bytes(f) \ OfSize(s, gone)
  BY DEF Bytes, OfSize
<1>2. Bytes(f) \cap OfSize(s, gone) = OfSize(s, gone)
  BY DEF Bytes, OfSize
<1>3. gone \in SUBSET Index
  OBVIOUS
<1>4. Cardinality(Bytes(g)) = Cardinality(Bytes(f)) - Cardinality(Bytes(f) \cap OfSize(s, gone))
  BY <1>1, BytesFinite, FS_Difference
<1> QED BY <1>2, <1>3, <1>4, OfSizeCount

\* New blocks bring theirs.
LEMMA BytesMore ==
    ASSUME NEW f \in [BlockSize -> SUBSET Index], NEW s \in BlockSize, NEW new \in SUBSET Index,
           f[s] \cap new = {}
    PROVE  Cardinality(Bytes([f EXCEPT ![s] = @ \cup new])) = Cardinality(Bytes(f)) + s * Cardinality(new)
<1> DEFINE g == [f EXCEPT ![s] = @ \cup new]
<1>1. Bytes(g) = Bytes(f) \cup OfSize(s, new)
  BY DEF Bytes, OfSize
<1>2. Bytes(f) \cap OfSize(s, new) = {}
  BY DEF Bytes, OfSize
<1>3. Cardinality(Bytes(f) \cap OfSize(s, new)) = 0
  BY <1>2, FS_EmptySet
<1>4. Cardinality(Bytes(g)) = Cardinality(Bytes(f)) + Cardinality(OfSize(s, new))
                              - Cardinality(Bytes(f) \cap OfSize(s, new))
  BY <1>1, BytesFinite, OfSizeCount, FS_Union
<1>5. Cardinality(Bytes(f)) \in Nat /\ Cardinality(OfSize(s, new)) = s * Cardinality(new)
      /\ Cardinality(OfSize(s, new)) \in Nat
  BY BytesFinite, OfSizeCount, FS_CardinalityType
<1> QED BY <1>3, <1>4, <1>5

-----------------------------------------------------------------------------
(* The operations of the pool                                              *)

\* Giving back free blocks of a size keeps the account.
LEMMA GiveBackFit ==
    ASSUME NEW p, PoolFit(p), NEW s \in BlockSize, NEW released \in SUBSET p.free[s]
    PROVE  Smaller(p, GiveBack(p, s, released))
<1> DEFINE q == GiveBack(p, s, released)
<1>1. p \in PoolType /\ p.live \in [BlockSize -> SUBSET Index] /\ released \in SUBSET p.live[s]
  BY DEF PoolFit, PoolType
<1>2. /\ q.free = [p.free EXCEPT ![s] = @ \ released]
      /\ q.live = [p.live EXCEPT ![s] = @ \ released]
      /\ q.allocated = p.allocated - s * Cardinality(released)
      /\ q = [free |-> q.free, live |-> q.live, allocated |-> q.allocated]
  <2>1. /\ p = [free |-> p.free, live |-> p.live, allocated |-> p.allocated]
        /\ p.free \in [BlockSize -> SUBSET Index] /\ p.live \in [BlockSize -> SUBSET Index]
    BY <1>1 DEF PoolType
  <2>2. q = [free |-> [p.free EXCEPT ![s] = @ \ released],
             live |-> [p.live EXCEPT ![s] = @ \ released],
             allocated |-> p.allocated - s * Cardinality(released)]
    <3> DEFINE k == s * Cardinality(released)
               n == p.allocated - k
    <3>1. q = [p EXCEPT !.free[s] = @ \ released, !.live[s] = @ \ released, !.allocated = n]
      BY DEF GiveBack
    <3> HIDE DEF n, q
    <3>2. q = [free |-> [p.free EXCEPT ![s] = @ \ released],
               live |-> [p.live EXCEPT ![s] = @ \ released], allocated |-> n]
      BY <2>1, <3>1
    <3> QED BY <3>2 DEF n
  <2> HIDE DEF q
  <2> QED BY <2>2
<1> HIDE DEF q
<1>3. /\ q.free \in [BlockSize -> SUBSET Index] /\ q.live \in [BlockSize -> SUBSET Index]
      /\ \A t \in BlockSize : /\ q.free[t] \subseteq q.live[t] /\ q.free[t] \subseteq p.free[t]
                              /\ InUse(q, t) = InUse(p, t)
  BY <1>1, <1>2 DEF PoolFit, PoolType, InUse
<1>4. q.allocated = Cardinality(Bytes(q.live)) /\ q.allocated \in Nat
  BY <1>1, <1>2, <1>3, BytesLess, BytesFinite DEF PoolFit
<1>5. s * Cardinality(released) \in Nat /\ p.allocated \in Nat
  <2>1. IsFiniteSet(OfSize(s, released)) /\ Cardinality(OfSize(s, released)) = s * Cardinality(released)
    BY <1>1, OfSizeCount
  <2> QED BY <1>1, <2>1, FS_CardinalityType DEF PoolType
<1>6. q.allocated <= p.allocated
  <2> DEFINE k == s * Cardinality(released)
  <2>1. k \in Nat /\ q.allocated = p.allocated - k
    BY <1>2, <1>5
  <2> HIDE DEF k
  <2> QED BY <1>5, <2>1
<1> QED BY <1>2, <1>3, <1>4, <1>6 DEF Smaller, PoolFit, PoolType, q

\* release gives back free blocks only.
LEMMA ReleaseFit ==
    ASSUME NEW p, PoolFit(p), NEW s \in BlockSize, NEW water, NEW stale
    PROVE  Smaller(p, release(p, s, water, stale))
<1>1. ToRelease(p, s, water, stale) \in SUBSET p.free[s]
  BY DEF ToRelease, Lowest
<1> QED BY <1>1, GiveBackFit DEF release

\* One after the other.
LEMMA SmallerAgain ==
    ASSUME NEW p, NEW q, NEW r, PoolFit(p), Smaller(p, q), Smaller(q, r)
    PROVE  Smaller(p, r)
<1>1. p.allocated \in Nat /\ q.allocated \in Nat /\ r.allocated \in Nat
  BY DEF PoolFit, Smaller, PoolType
<1> QED BY <1>1 DEF Smaller

\* The loop of release_size: what it makes of the pool at each size.
LEMMA PurgedAt ==
    ASSUME NEW p, NEW need, NEW stale
    PROVE  LET f == Purged(p, need, stale)
           IN  f = [i \in 0 .. Shifts + 1 |->
                      IF i = Shifts + 1 THEN p
                      ELSE IF SizeAt(i) >= Slot1 \div 2 /\ p.allocated - f[i + 1].allocated < need
                           THEN release(f[i + 1], SizeAt(i), AllocCapacity, stale) ELSE f[i + 1]]
<1> DEFINE purge(i, q) == IF SizeAt(i) >= Slot1 \div 2 /\ p.allocated - q.allocated < need
                          THEN release(q, SizeAt(i), AllocCapacity, stale) ELSE q
           From(f, n) == f = [i \in n .. Shifts + 1 |->
                                IF i = Shifts + 1 THEN p ELSE purge(i, f[i + 1])]
           Bad == {k \in 0 .. Shifts + 1 : ~\E f : From(f, Shifts + 1 - k)}
<1>1. Shifts \in Nat
  BY PoolAssumption
<1>2. \E f : From(f, Shifts + 1)
  <2> DEFINE f == [i \in Shifts + 1 .. Shifts + 1 |-> p]
  <2>1. From(f, Shifts + 1)
    BY <1>1
  <2> QED BY <2>1
<1>3. ASSUME NEW n \in 0 .. Shifts, NEW f, From(f, n + 1) PROVE \E g : From(g, n)
  <2> DEFINE g == [i \in n .. Shifts + 1 |-> IF i = n THEN purge(n, f[n + 1]) ELSE f[i]]
  <2>1. \A i \in n + 1 .. Shifts + 1 :
          f[i] = IF i = Shifts + 1 THEN p ELSE purge(i, f[i + 1])
    BY <1>3
  <2> HIDE DEF purge
  <2>2. \A i \in n .. Shifts + 1 : g[i] = IF i = Shifts + 1 THEN p ELSE purge(i, g[i + 1])
    BY <1>1, <2>1
  <2>3. From(g, n)
    BY <2>2
  <2> QED BY <2>3
<1> HIDE DEF From
<1>4. Bad = {}
  <2>1. SUFFICES ASSUME Bad # {} PROVE FALSE
    OBVIOUS
  <2> DEFINE k == Min(Bad)
  <2>2. k \in Bad /\ \A y \in Bad : k <= y
    <3>1. Bad \subseteq Nat
      BY <1>1
    <3> HIDE DEF Bad
    <3> QED BY <2>1, <3>1, LeastNat
  <2> HIDE DEF k
  <2>3. k # 0
    BY <1>1, <1>2, <2>2
  <2>4. k - 1 \in 0 .. Shifts + 1 /\ k - 1 \notin Bad /\ Shifts + 1 - k \in 0 .. Shifts
        /\ Shifts + 1 - (k - 1) = (Shifts + 1 - k) + 1
    BY <1>1, <2>2, <2>3
  <2>5. PICK f : From(f, (Shifts + 1 - k) + 1)
    BY <2>4
  <2> QED BY <1>3, <2>2, <2>4, <2>5
<1>5. PICK f : From(f, 0)
  <2>1. Shifts + 1 \in 0 .. Shifts + 1 /\ Shifts + 1 - (Shifts + 1) = 0
    BY <1>1
  <2> QED BY <1>4, <2>1
<1> QED BY <1>5 DEF Purged, From

\* At each size the loop has given back free blocks, and no others.
LEMMA PurgedFit ==
    ASSUME NEW p, PoolFit(p), NEW need, NEW stale
    PROVE  \A i \in 0 .. Shifts + 1 : Smaller(p, Purged(p, need, stale)[i])
<1> DEFINE f == Purged(p, need, stale)
           Bad == {k \in 0 .. Shifts + 1 : ~Smaller(p, f[Shifts + 1 - k])}
<1>1. Shifts \in Nat
  BY PoolAssumption
<1>2. \A i \in 0 .. Shifts + 1 :
        f[i] = IF i = Shifts + 1 THEN p
               ELSE IF SizeAt(i) >= Slot1 \div 2 /\ p.allocated - f[i + 1].allocated < need
                    THEN release(f[i + 1], SizeAt(i), AllocCapacity, stale) ELSE f[i + 1]
  <2> DEFINE E(i) == IF i = Shifts + 1 THEN p
                     ELSE IF SizeAt(i) >= Slot1 \div 2 /\ p.allocated - f[i + 1].allocated < need
                          THEN release(f[i + 1], SizeAt(i), AllocCapacity, stale) ELSE f[i + 1]
  <2>1. f = [i \in 0 .. Shifts + 1 |-> E(i)]
    BY PurgedAt
  <2> HIDE DEF f, E
  <2>2. \A i \in 0 .. Shifts + 1 : f[i] = E(i)
    BY <2>1
  <2> QED BY <2>2 DEF E
<1> HIDE DEF f
<1>3. Smaller(p, p)
  BY DEF Smaller, PoolFit, PoolType
<1>4. Smaller(p, f[Shifts + 1])
  BY <1>1, <1>2, <1>3
<1>5. ASSUME NEW i \in 0 .. Shifts, Smaller(p, f[i + 1]) PROVE Smaller(p, f[i])
  <2>1. SizeAt(i) \in BlockSize /\ PoolFit(f[i + 1]) /\ i \in 0 .. Shifts + 1 /\ i # Shifts + 1
    BY <1>1, <1>5 DEF BlockSize, Smaller
  <2>2. f[i] \in {f[i + 1], release(f[i + 1], SizeAt(i), AllocCapacity, stale)}
    BY <1>2, <2>1
  <2>3. Smaller(f[i + 1], release(f[i + 1], SizeAt(i), AllocCapacity, stale))
    BY <2>1, ReleaseFit
  <2> QED BY <1>5, <2>2, <2>3, SmallerAgain
<1>6. Bad = {}
  <2>1. SUFFICES ASSUME Bad # {} PROVE FALSE
    OBVIOUS
  <2> DEFINE k == Min(Bad)
  <2>2. k \in Bad /\ \A y \in Bad : k <= y
    <3>1. Bad \subseteq Nat
      BY <1>1
    <3> HIDE DEF Bad
    <3> QED BY <2>1, <3>1, LeastNat
  <2> HIDE DEF k
  <2>3. k # 0
    BY <1>1, <1>4, <2>2
  <2>4. k - 1 \in 0 .. Shifts + 1 /\ k - 1 \notin Bad /\ Shifts + 1 - k \in 0 .. Shifts
        /\ Shifts + 1 - (k - 1) = (Shifts + 1 - k) + 1
    BY <1>1, <2>2, <2>3
  <2> QED BY <1>5, <2>2, <2>4
<1>7. ASSUME NEW i \in 0 .. Shifts + 1 PROVE Smaller(p, f[i])
  <2>1. Shifts + 1 - i \in 0 .. Shifts + 1 /\ Shifts + 1 - (Shifts + 1 - i) = i
    BY <1>1
  <2> QED BY <1>6, <2>1
<1> QED BY <1>7 DEF f

\* release_size gives back free blocks, and enough of them if it says so.
LEMMA ReleaseSizeFit ==
    ASSUME NEW p, PoolFit(p), NEW need \in Nat, NEW stale
    PROVE  LET r == release_size(p, need, stale)
           IN  /\ Smaller(p, r.pool) /\ r.ok \in BOOLEAN
               /\ r.ok => p.allocated - r.pool.allocated >= need
<1>1. 0 \in 0 .. Shifts + 1
  BY PoolAssumption
<1>2. Smaller(p, Purged(p, need, stale)[0])
  BY <1>1, PurgedFit
<1> DEFINE q == Purged(p, need, stale)[0]
           enough == p.allocated - q.allocated >= need
<1>3. release_size(p, need, stale) = [ok |-> enough, pool |-> q]
  BY DEF release_size
<1>4. enough \in BOOLEAN
  OBVIOUS
<1>5. Smaller(p, q) /\ (enough => p.allocated - q.allocated >= need)
  BY <1>2
<1> HIDE DEF q, enough
<1> QED BY <1>3, <1>4, <1>5

\* What the pool holds of a size, when one is made larger.
Larger(p, q, s) ==
    /\ PoolFit(q) /\ q.allocated <= PoolMax
    /\ \A t \in BlockSize : InUse(q, t) = InUse(p, t)

\* fit_extend_set: an extension has blocks.
LEMMA ExtendSetNat ==
    ASSUME NEW s \in BlockSize PROVE fit_extend_set(s) \in Nat /\ fit_extend_set(s) # 0
<1>1. s \in Nat /\ s # 0 /\ ExtendSet \in Nat \ {0} /\ Slot1 \in Nat /\ Slot2 \in Nat
  BY PoolAssumption
<1>2. ASSUME s < Slot2 PROVE (2 * Slot2) \div s \in Nat /\ (2 * Slot2) \div s # 0
  BY <1>1, <1>2
<1> QED BY <1>1, <1>2 DEF fit_extend_set, AllocCapacity

\* extend_new_size
LEMMA NewBlocksFit ==
    ASSUME NEW p, PoolFit(p), NEW s \in BlockSize, NEW n \in Nat \ {0},
           Cardinality(p.live[s]) + n <= Cardinality(Index), p.allocated + s * n <= PoolMax
    PROVE  LET q == extend_new_size(p, s, n)
           IN  Larger(p, q, s) /\ q.free[s] # {}
<1> DEFINE q == extend_new_size(p, s, n)
           S == Index \ p.live[s]
           new == Lowest(S, n)
           k == s * n
<1>1. /\ p \in PoolType /\ p.live \in [BlockSize -> SUBSET Index]
      /\ p.free \in [BlockSize -> SUBSET Index] /\ p.live[s] \in SUBSET Index
      /\ p.allocated \in Nat
  BY DEF PoolFit, PoolType
<1>2. Cardinality(new) = n /\ new \in SUBSET Index /\ new \cap p.live[s] = {}
  <2>1. Index \cap p.live[s] = p.live[s] /\ IsFiniteSet(Index) /\ IsFiniteSet(p.live[s])
    BY <1>1, PoolAssumption, FS_Subset
  <2>2. IsFiniteSet(S) /\ Cardinality(S) = Cardinality(Index) - Cardinality(p.live[s])
    BY <2>1, FS_Difference
  <2>3. Cardinality(Index) \in Nat /\ Cardinality(p.live[s]) \in Nat /\ S \in SUBSET Nat
    BY <2>1, PoolAssumption, FS_CardinalityType
  <2>4. n <= Cardinality(S)
    BY <2>2, <2>3
  <2>5. new \subseteq S
    BY DEF Lowest
  <2> QED BY <2>2, <2>3, <2>4, <2>5, LowestCount
<1>3. new # {}
  BY <1>2, FS_EmptySet
<1>4. k \in Nat /\ p.allocated + k <= PoolMax /\ PoolMax \in Nat
  <2>1. s \in Nat
    BY PoolAssumption
  <2> QED BY <2>1, PoolAssumption
<1> HIDE DEF S
<1>5. q = [free |-> [p.free EXCEPT ![s] = @ \cup new], live |-> [p.live EXCEPT ![s] = @ \cup new],
           allocated |-> p.allocated + k]
  <2>1. p = [free |-> p.free, live |-> p.live, allocated |-> p.allocated]
    BY <1>1 DEF PoolType
  <2> DEFINE m == p.allocated + k
  <2>2. q = [p EXCEPT !.free[s] = @ \cup new, !.live[s] = @ \cup new, !.allocated = m]
    BY DEF extend_new_size, S
  <2> HIDE DEF m, q, new
  <2>3. q = [free |-> [p.free EXCEPT ![s] = @ \cup new], live |-> [p.live EXCEPT ![s] = @ \cup new],
             allocated |-> m]
    BY <1>1, <2>1, <2>2
  <2> QED BY <2>3 DEF m
<1> HIDE DEF q, new
<1>6. /\ q.free \in [BlockSize -> SUBSET Index] /\ q.live \in [BlockSize -> SUBSET Index]
      /\ \A t \in BlockSize : q.free[t] \subseteq q.live[t] /\ InUse(q, t) = InUse(p, t)
      /\ q.free[s] # {}
  BY <1>1, <1>2, <1>3, <1>5 DEF PoolFit, InUse
<1>7. q.allocated \in Nat /\ q.allocated <= PoolMax
  <2> HIDE DEF k
  <2> QED BY <1>1, <1>4, <1>5
<1>8. q.allocated = Cardinality(Bytes(q.live))
  <2>1. Cardinality(Bytes(q.live)) = Cardinality(Bytes(p.live)) + s * Cardinality(new)
    BY <1>1, <1>2, <1>5, BytesMore
  <2> QED BY <1>2, <1>5, <2>1 DEF PoolFit
<1> QED BY <1>5, <1>6, <1>7, <1>8 DEF Larger, PoolFit, PoolType, q

\* extend: there is room for the new blocks, or free ones are given back for them.
LEMMA ExtendFit ==
    ASSUME NEW p, PoolFit(p), p.allocated <= PoolMax, NEW s \in BlockSize, p.free[s] = {},
           Cardinality(p.live[s]) + fit_extend_set(s) <= Cardinality(Index), NEW stale
    PROVE  LET e == extend(p, s, stale)
           IN  /\ Larger(p, e.pool, s) /\ e.ok \in BOOLEAN
               /\ e.ok => e.pool.free[s] # {}
<1> DEFINE n == fit_extend_set(s)
           k == s * n
           need == p.allocated + k - PoolMax
           room == IF need >= 0 THEN release_size(p, need, stale) ELSE [ok |-> TRUE, pool |-> p]
           e == extend(p, s, stale)
           q == room.pool
<1>1. e = IF ~room.ok THEN room ELSE [room EXCEPT !.pool = extend_new_size(@, s, n)]
  BY DEF extend
<1>2. p.allocated \in Nat /\ PoolMax \in Nat /\ n \in Nat \ {0} /\ k \in Nat
  <2>1. s \in Nat /\ n \in Nat \ {0}
    BY PoolAssumption, ExtendSetNat
  <2>2. k \in Nat
    BY <2>1
  <2> QED BY <2>1, <2>2, PoolAssumption DEF PoolFit, PoolType
<1> HIDE DEF n, k
<1>3. room.ok \in BOOLEAN /\ Smaller(p, q) /\ (room.ok => q.allocated + k <= PoolMax)
      /\ room = [ok |-> room.ok, pool |-> q]
  <2>1. CASE need >= 0
    <3>1. need \in Nat
      BY <1>2, <2>1
    <3>2. room = release_size(p, need, stale)
      BY <2>1
    <3>3. room = [ok |-> room.ok, pool |-> q]
      BY <3>2 DEF release_size
    <3>4. Smaller(p, q) /\ room.ok \in BOOLEAN /\ (room.ok => p.allocated - q.allocated >= need)
      <4> HIDE DEF need
      <4> QED BY <3>1, <3>2, ReleaseSizeFit
    <3>5. q.allocated \in Nat
      BY <3>4 DEF Smaller, PoolFit, PoolType
    <3> HIDE DEF room
    <3> QED BY <1>2, <3>3, <3>4, <3>5
  <2>2. CASE ~(need >= 0)
    <3>1. room = [ok |-> TRUE, pool |-> p]
      BY <2>2
    <3>2. Smaller(p, p) /\ p.allocated + k <= PoolMax
      BY <1>2, <2>2 DEF Smaller, PoolFit, PoolType
    <3> HIDE DEF room
    <3>3. room.ok = TRUE /\ q = p
      BY <3>1
    <3> QED BY <3>1, <3>2, <3>3
  <2> QED BY <2>1, <2>2
<1> HIDE DEF room
<1>4. PoolFit(q) /\ q.allocated <= PoolMax /\ \A t \in BlockSize : InUse(q, t) = InUse(p, t)
  <2>1. q.allocated \in Nat
    BY <1>3 DEF Smaller, PoolFit, PoolType
  <2> QED BY <1>2, <1>3, <2>1 DEF Smaller
<1>5. CASE ~room.ok
  BY <1>1, <1>3, <1>4, <1>5 DEF Larger
<1>6. CASE room.ok
  <2>1. q.free[s] = {} /\ q.live[s] = p.live[s]
    <3>1. q.free[s] = {} /\ InUse(q, s) = InUse(p, s)
      BY <1>3 DEF Smaller
    <3> QED BY <3>1 DEF InUse
  <2>2. Cardinality(q.live[s]) + n <= Cardinality(Index) /\ q.allocated + s * n <= PoolMax
    BY <1>3, <1>6, <2>1 DEF n, k
  <2> DEFINE m == extend_new_size(q, s, n)
  <2>3. Larger(q, m, s) /\ m.free[s] # {}
    BY <1>2, <1>4, <2>2, NewBlocksFit
  <2>4. e = [ok |-> room.ok, pool |-> m]
    BY <1>1, <1>3, <1>6
  <2> HIDE DEF m, q, e
  <2>5. Larger(p, m, s)
    BY <1>4, <2>3 DEF Larger
  <2> QED BY <1>3, <2>3, <2>4, <2>5 DEF e
<1> QED BY <1>5, <1>6

\* a block of the heap
Block == [num : Index, size : BlockSize]

\* What allocate makes of the pool: a block more is in use.
Taken(p, r, n) ==
    /\ PoolFit(r.pool) /\ r.pool.allocated <= PoolMax
    /\ \/ /\ r.block = NoBlock
          /\ \A t \in BlockSize : InUse(r.pool, t) = InUse(p, t)
       \/ LET b == r.block
          IN  /\ b \in Block /\ n < b.size /\ b.num \notin InUse(p, b.size)
              /\ InUse(r.pool, b.size) = InUse(p, b.size) \cup {b.num}
              /\ \A t \in BlockSize \ {b.size} : InUse(r.pool, t) = InUse(p, t)

\* A free block is taken.
LEMMA TakeFit ==
    ASSUME NEW p, PoolFit(p), p.allocated <= PoolMax, NEW s \in BlockSize, NEW n, n < s,
           NEW a \in p.free[s]
    PROVE  Taken(p, [block |-> [num |-> a, size |-> s], pool |-> [p EXCEPT !.free[s] = @ \ {a}]], n)
<1> DEFINE q == [p EXCEPT !.free[s] = @ \ {a}]
<1>1. /\ p \in PoolType /\ p.live \in [BlockSize -> SUBSET Index]
      /\ p.free \in [BlockSize -> SUBSET Index] /\ a \in p.live[s] /\ a \in Index
      /\ p.allocated \in Nat
  BY DEF PoolFit, PoolType
<1>2. q = [free |-> [p.free EXCEPT ![s] = @ \ {a}], live |-> p.live, allocated |-> p.allocated]
  BY <1>1 DEF PoolType
<1> HIDE DEF q
<1>3. /\ q.free \in [BlockSize -> SUBSET Index]
      /\ \A t \in BlockSize : q.free[t] \subseteq q.live[t]
      /\ InUse(q, s) = InUse(p, s) \cup {a} /\ a \notin InUse(p, s)
      /\ \A t \in BlockSize \ {s} : InUse(q, t) = InUse(p, t)
  BY <1>1, <1>2 DEF PoolFit, InUse
<1>4. PoolFit(q) /\ q.allocated <= PoolMax
  BY <1>1, <1>2, <1>3 DEF PoolFit, PoolType
<1> DEFINE b == [num |-> a, size |-> s]
           r == [block |-> b, pool |-> q]
<1>5. b \in Block /\ b.num = a /\ b.size = s /\ r.block = b /\ r.pool = q
  BY <1>1 DEF Block
<1> HIDE DEF b, r
<1>6. Taken(p, r, n)
  BY <1>3, <1>4, <1>5 DEF Taken
<1> QED BY <1>6 DEF r, b, q

\* fit_block_size: a block that is larger than what is asked for.
LEMMA FitBlockSize ==
    ASSUME NEW n \in Nat, n <= MaxData
    PROVE  fit_block_size(n) \in BlockSize /\ n < fit_block_size(n)
<1> DEFINE T == {s \in BlockSize : n < s}
<1>1. T \subseteq Nat
  BY PoolAssumption
<1>2. PICK s \in BlockSize : MaxData < s
  BY CacheAssumption
<1>3. s \in Nat /\ MaxData \in Nat
  BY PoolAssumption, CacheAssumption
<1>4. T # {}
  BY <1>2, <1>3
<1>5. fit_block_size(n) = Min(T)
  BY DEF fit_block_size
<1>6. Min(T) \in T
  <2> HIDE DEF T
  <2> QED BY <1>1, <1>4, LeastNat
<1> QED BY <1>5, <1>6

\* allocate: a block that is in use by nobody, or none.
LEMMA AllocateFit ==
    ASSUME NEW p, PoolFit(p), p.allocated <= PoolMax, NEW n \in Nat, n <= MaxData, NEW stale,
           \A s \in BlockSize : Cardinality(InUse(p, s)) <= Cardinality(Cache)
    PROVE  Taken(p, allocate(p, n, stale), n)
<1> DEFINE s == fit_block_size(n)
           take(q, a) == [block |-> [num |-> a, size |-> s], pool |-> [q EXCEPT !.free[s] = @ \ {a}]]
           e == IF p.free[s] = {} THEN extend(p, s, stale) ELSE [ok |-> TRUE, pool |-> p]
           r == allocate(p, n, stale)
<1>1. s \in BlockSize /\ n < s
  BY FitBlockSize
<1>2. r = IF e.ok THEN take(e.pool, Min(e.pool.free[s])) ELSE [block |-> NoBlock, pool |-> e.pool]
  BY DEF allocate
<1> HIDE DEF s
<1>3. e.ok \in BOOLEAN /\ Larger(p, e.pool, s) /\ (e.ok => e.pool.free[s] # {})
  <2>1. CASE p.free[s] = {}
    <3>1. InUse(p, s) = p.live[s] /\ p.live[s] \in SUBSET Index
      BY <1>1, <2>1 DEF InUse, PoolFit, PoolType
    <3>2. Cardinality(p.live[s]) <= Cardinality(Cache)
      BY <1>1, <3>1
    <3>3. /\ Cardinality(Cache) + fit_extend_set(s) <= Cardinality(Index)
          /\ Cardinality(Cache) \in Nat /\ Cardinality(Index) \in Nat
          /\ fit_extend_set(s) \in Nat /\ Cardinality(p.live[s]) \in Nat
      BY <1>1, <3>1, CacheAssumption, PoolAssumption, ExtendSetNat, FS_CardinalityType, FS_Subset
    <3> DEFINE a == Cardinality(p.live[s])
               b == Cardinality(Cache)
               c == Cardinality(Index)
               d == fit_extend_set(s)
    <3>4. a + d <= c
      <4>1. a <= b /\ b + d <= c /\ a \in Nat /\ b \in Nat /\ c \in Nat /\ d \in Nat
        BY <3>2, <3>3
      <4> HIDE DEF a, b, c, d
      <4> QED BY <4>1
    <3>5. e = extend(p, s, stale)
      BY <2>1
    <3> QED BY <1>1, <2>1, <3>4, <3>5, ExtendFit
  <2>2. CASE p.free[s] # {}
    <3>1. e.ok = TRUE /\ e.pool = p
      BY <2>2
    <3> QED BY <2>2, <3>1 DEF Larger
  <2> QED BY <2>1, <2>2
<1> HIDE DEF e
<1>4. CASE ~e.ok
  <2>1. r.block = NoBlock /\ r.pool = e.pool
    BY <1>2, <1>4
  <2> QED BY <1>3, <2>1 DEF Taken, Larger
<1>5. CASE e.ok
  <2> DEFINE q == e.pool
             a == Min(q.free[s])
  <2>1. PoolFit(q) /\ q.allocated <= PoolMax /\ \A t \in BlockSize : InUse(q, t) = InUse(p, t)
    BY <1>3 DEF Larger
  <2>2. a \in q.free[s]
    <3>1. q.free[s] \subseteq Nat /\ q.free[s] # {}
      BY <1>1, <1>3, <1>5, <2>1, PoolAssumption DEF PoolFit, PoolType
    <3> QED BY <3>1, LeastNat
  <2>3. r = take(q, a)
    BY <1>2, <1>5
  <2> HIDE DEF q, a, r
  <2>4. Taken(q, take(q, a), n)
    BY <1>1, <2>1, <2>2, TakeFit
  <2> HIDE DEF take
  <2>5. Taken(p, r, n)
    BY <2>1, <2>3, <2>4 DEF Taken, Block
  <2> QED BY <2>5 DEF r
<1> QED BY <1>3, <1>4, <1>5

\* recycle: the block is in use no more.
LEMMA RecycleFit ==
    ASSUME NEW p, PoolFit(p), p.allocated <= PoolMax, NEW b \in Block, b.num \in InUse(p, b.size),
           NEW stale
    PROVE  LET q == recycle(p, b, stale)
           IN  /\ PoolFit(q) /\ q.allocated <= PoolMax
               /\ InUse(q, b.size) = InUse(p, b.size) \ {b.num}
               /\ \A t \in BlockSize \ {b.size} : InUse(q, t) = InUse(p, t)
<1> DEFINE m == [p EXCEPT !.free[b.size] = @ \cup {b.num}]
           q == recycle(p, b, stale)
<1>1. /\ p \in PoolType /\ p.live \in [BlockSize -> SUBSET Index] /\ b.size \in BlockSize
      /\ p.free \in [BlockSize -> SUBSET Index] /\ b.num \in p.live[b.size]
      /\ b.num \in Index /\ p.allocated \in Nat /\ PoolMax \in Nat
  BY PoolAssumption DEF PoolFit, PoolType, InUse, Block
<1>2. m = [free |-> [p.free EXCEPT ![b.size] = @ \cup {b.num}], live |-> p.live,
           allocated |-> p.allocated]
  <2>1. p = [free |-> p.free, live |-> p.live, allocated |-> p.allocated]
    BY <1>1 DEF PoolType
  <2> DEFINE g == p.free[b.size] \cup {b.num}
  <2>2. m = [p EXCEPT !.free[b.size] = g]
    OBVIOUS
  <2> HIDE DEF m, g
  <2>3. m = [free |-> [p.free EXCEPT ![b.size] = g], live |-> p.live, allocated |-> p.allocated]
    BY <2>1, <2>2
  <2> QED BY <2>3 DEF g
<1>3. q = release(m, b.size, WaterMax, stale)
  BY <1>1 DEF recycle
<1> HIDE DEF m, q
<1>4. /\ m.free \in [BlockSize -> SUBSET Index]
      /\ \A t \in BlockSize : m.free[t] \subseteq m.live[t]
      /\ InUse(m, b.size) = InUse(p, b.size) \ {b.num}
      /\ \A t \in BlockSize \ {b.size} : InUse(m, t) = InUse(p, t)
  BY <1>1, <1>2 DEF PoolFit, InUse
<1>5. PoolFit(m)
  BY <1>1, <1>2, <1>4 DEF PoolFit, PoolType
<1>6. Smaller(m, q)
  BY <1>1, <1>3, <1>5, ReleaseFit
<1>7. q.allocated \in Nat /\ m.allocated = p.allocated
  BY <1>2, <1>6 DEF Smaller, PoolFit, PoolType
<1>8. q.allocated <= PoolMax
  BY <1>1, <1>6, <1>7 DEF Smaller
<1> QED BY <1>1, <1>4, <1>6, <1>8 DEF Smaller, q

-----------------------------------------------------------------------------
(* The caches: what holds                                                  *)

CacheType == [block : Block \cup {NoBlock}, head : Nat, len : Nat]

MemOK == /\ cache \in [Cache -> CacheType]
         /\ mem \in [Block -> Seq(Int)]
         /\ want \in [Cache -> Seq(Int)]

PoolOK == PoolFit(pool) /\ pool.allocated <= PoolMax

\* the blocks that are not free
UsedBlocks(p) == {b \in Block : b.num \in InUse(p, b.size)}

\* The block of a cache is in use; its data lies within the block.
Holds(c) == ~Empty(c) => LET x == cache[c]
                         IN  /\ x.block \in UsedBlocks(pool)
                             /\ x.head + x.len <= x.block.size
                             /\ Len(mem[x.block]) = x.block.size

\* what the cache promises for c
Promise(c) == IF Empty(c) THEN want[c] = <<>> ELSE data(cache[c]) = want[c]

\* Two caches have different blocks; a block that is not free is of a cache.
OwnBlock == /\ \A c, e \in Cache : ~Empty(c) /\ ~Empty(e) /\ cache[c].block = cache[e].block => c = e
            /\ \A b \in UsedBlocks(pool) : \E c \in Cache : ~Empty(c) /\ cache[c].block = b

CacheInv == /\ MemOK /\ PoolOK /\ OwnBlock
            /\ \A c \in Cache : Holds(c) /\ Promise(c)

\* A cache that has a block has one of the heap's.
LEMMA BlockOfCache ==
    ASSUME MemOK, NEW c \in Cache
    PROVE  /\ cache[c] \in CacheType /\ cache[c].head \in Nat /\ cache[c].len \in Nat
           /\ ~Empty(c) => /\ cache[c].block \in Block
                           /\ cache[c].block.num \in Index /\ cache[c].block.size \in BlockSize
                           /\ cache[c].block.size \in Nat
           /\ NoBlock \notin Block
<1>1. cache[c] \in CacheType
  BY DEF MemOK
<1>2. NoBlock \notin Block
  BY PoolAssumption DEF NoBlock, Block
<1>3. BlockSize \subseteq Nat
  BY PoolAssumption
<1> QED BY <1>1, <1>2, <1>3 DEF CacheType, Block, Empty

\* No more blocks of a size are in use than there are caches.
LEMMA FewInUse ==
    ASSUME PoolOK, OwnBlock, NEW s \in BlockSize
    PROVE  Cardinality(InUse(pool, s)) <= Cardinality(Cache)
<1> DEFINE of(a) == [num |-> a, size |-> s]
           holder == [a \in InUse(pool, s) |->
                        CHOOSE c \in Cache : ~Empty(c) /\ cache[c].block = of(a)]
<1>1. ASSUME NEW a \in InUse(pool, s)
      PROVE  holder[a] \in Cache /\ cache[holder[a]].block.num = a
  <2>1. a \in Index
    BY DEF PoolOK, PoolFit, PoolType, InUse
  <2>2. of(a) \in UsedBlocks(pool) /\ of(a).num = a
    BY <2>1 DEF UsedBlocks, Block
  <2> HIDE DEF of
  <2>3. \E c \in Cache : ~Empty(c) /\ cache[c].block = of(a)
    BY <2>2 DEF OwnBlock
  <2> QED BY <2>2, <2>3
<1> HIDE DEF holder
<1>2. holder \in [InUse(pool, s) -> Cache]
  BY <1>1 DEF holder
<1>3. \A a, b \in InUse(pool, s) : holder[a] = holder[b] => a = b
  BY <1>1
<1>4. holder \in Injection(InUse(pool, s), Cache)
  BY <1>2, <1>3 DEF Injection, IsInjective
<1> QED BY <1>4, CacheAssumption, FS_Injection

-----------------------------------------------------------------------------
(* The bytes of a block                                                    *)

\* l bytes of m from offset h on
Part(m, h, l) == [i \in 1 .. l |-> IF h + i \in DOMAIN m THEN m[h + i] ELSE -1]

\* k bytes from h on lie within n; a is the sum of h and k
Within(h, k, n) == h + k <= n
Adds(a, h, k) == a = h + k

\* Bytes that are copied into a block leave the rest of it.
LEMMA CopiedBytes ==
    ASSUME NEW m \in Seq(Int), NEW k \in Nat, NEW d \in Seq(Int)
    PROVE  /\ Copied(m, k, d) \in Seq(Int) /\ Len(Copied(m, k, d)) = Len(m)
           /\ \A i \in 1 .. Len(m) :
                Copied(m, k, d)[i] = IF i > k /\ i <= k + Len(d) THEN d[i - k] ELSE m[i]
<1> DEFINE n == Len(m)
           l == Len(d)
           c == Copied(m, k, d)
<1>1. n \in Nat /\ l \in Nat /\ m \in [1 .. n -> Int] /\ d \in [1 .. l -> Int]
  BY LenProperties
<1>2. c = [i \in 1 .. n |-> IF i > k /\ i <= k + l THEN d[i - k] ELSE m[i]]
  BY <1>1 DEF Copied
<1> HIDE DEF n, l, c
<1>3. ASSUME NEW i \in 1 .. n, i > k, i <= k + l PROVE d[i - k] \in Int
  <2>1. i - k \in 1 .. l
    BY <1>1, <1>3
  <2> QED BY <1>1, <2>1
<1>4. c \in [1 .. n -> Int]
      /\ \A i \in 1 .. n : c[i] = IF i > k /\ i <= k + l THEN d[i - k] ELSE m[i]
  BY <1>1, <1>2, <1>3
<1>5. c \in Seq(Int) /\ Len(c) = n
  BY <1>1, <1>4, SeqDef
<1> QED BY <1>4, <1>5 DEF n, l, c

\* A part of a block.
LEMMA PartBytes ==
    ASSUME NEW m \in Seq(Int), NEW h \in Nat, NEW l \in Nat, Within(h, l, Len(m))
    PROVE  /\ Part(m, h, l) \in Seq(Int) /\ Len(Part(m, h, l)) = l
           /\ \A i \in 1 .. l : Part(m, h, l)[i] = m[h + i]
<1> DEFINE n == Len(m)
           j == Part(m, h, l)
<1>1. n \in Nat /\ m \in [1 .. n -> Int]
  BY LenProperties
<1>2. Within(h, l, n)
  OBVIOUS
<1> HIDE DEF n
<1>3. \A i \in 1 .. l : h + i \in 1 .. n
  BY <1>1, <1>2 DEF Within
<1>4. j \in [1 .. l -> Int] /\ \A i \in 1 .. l : j[i] = m[h + i]
  BY <1>1, <1>3 DEF Part
<1> HIDE DEF j
<1>5. j \in Seq(Int) /\ Len(j) = l
  BY <1>4, SeqDef
<1> QED BY <1>4, <1>5 DEF j

\* Data that is put behind what a block has (the second branch of append).
LEMMA BytesBehind ==
    ASSUME NEW m \in Seq(Int), NEW h \in Nat, NEW l \in Nat, NEW d \in Seq(Int), NEW a \in Nat,
           NEW b \in Nat, Adds(a, h, l), Adds(b, l, Len(d)), Within(h, b, Len(m))
    PROVE  Part(Copied(m, a, d), h, b) = Part(m, h, l) \o d
<1> DEFINE n == Len(m)
           k == Len(d)
           c == Copied(m, a, d)
           j == Part(c, h, b)
           s == Part(m, h, l)
           t == s \o d
<1>1. n \in Nat /\ k \in Nat /\ a = h + l /\ b = l + k /\ h + b <= n
  BY LenProperties DEF Within, Adds
<1>2. Within(h, l, Len(m))
  BY <1>1 DEF Within
<1>3. c \in Seq(Int) /\ Len(c) = n
      /\ \A i \in 1 .. n : c[i] = IF i > a /\ i <= a + k THEN d[i - a] ELSE m[i]
  BY CopiedBytes
<1> HIDE DEF c
<1>4. j \in Seq(Int) /\ Len(j) = b /\ \A i \in 1 .. b : j[i] = c[h + i]
  BY <1>3, PartBytes
<1>5. s \in Seq(Int) /\ Len(s) = l /\ \A i \in 1 .. l : s[i] = m[h + i]
  BY <1>2, PartBytes
<1> HIDE DEF j, s
<1>6. t \in Seq(Int) /\ Len(t) = b
      /\ \A i \in 1 .. b : t[i] = IF i <= l THEN s[i] ELSE d[i - l]
  <2>1. /\ t \in Seq(Int) /\ Len(t) = Len(s) + Len(d)
        /\ \A i \in 1 .. Len(s) + Len(d) : t[i] = IF i <= Len(s) THEN s[i] ELSE d[i - Len(s)]
    BY <1>5, ConcatProperties
  <2> HIDE DEF t
  <2> QED BY <1>1, <1>5, <2>1
<1> HIDE DEF t, n, k
<1>7. ASSUME NEW i \in 1 .. b PROVE j[i] = t[i]
  <2> DEFINE y == h + i
  <2>1. y \in 1 .. n /\ j[i] = c[y]
    BY <1>1, <1>4
  <2>2. CASE i <= l
    <3>1. i \in 1 .. l /\ ~(y > a)
      BY <1>1, <2>2
    <3> QED BY <1>3, <1>5, <1>6, <2>1, <2>2, <3>1
  <2>3. CASE ~(i <= l)
    <3>1. y > a /\ y <= a + k /\ y - a = i - l
      BY <1>1, <2>3
    <3>2. c[y] = d[y - a]
      <4> HIDE DEF y
      <4> QED BY <1>3, <2>1, <3>1
    <3> QED BY <1>6, <2>1, <2>3, <3>1, <3>2
  <2> QED BY <2>2, <2>3
<1>8. j = t
  BY <1>4, <1>6, <1>7, SeqEqual
<1> QED BY <1>8 DEF j, t, s, c

\* Data at the head of a block.
LEMMA BytesFirst ==
    ASSUME NEW m \in Seq(Int), NEW d \in Seq(Int), NEW z \in Nat, z = 0, Within(z, Len(d), Len(m))
    PROVE  Part(Copied(m, z, d), z, Len(d)) = d
<1> DEFINE n == Len(m)
           k == Len(d)
           c == Copied(m, z, d)
           j == Part(c, z, k)
<1>1. n \in Nat /\ k \in Nat /\ z = 0 /\ z + k <= n
  BY LenProperties DEF Within
<1>2. c \in Seq(Int) /\ Len(c) = n
      /\ \A i \in 1 .. n : c[i] = IF i > z /\ i <= z + k THEN d[i - z] ELSE m[i]
  BY CopiedBytes
<1> HIDE DEF c
<1>3. j \in Seq(Int) /\ Len(j) = k /\ \A i \in 1 .. k : j[i] = c[z + i]
  BY <1>1, <1>2, PartBytes
<1> HIDE DEF j, n, k
<1>4. ASSUME NEW i \in 1 .. k PROVE j[i] = d[i]
  <2>1. i \in 1 .. n /\ i > z /\ i <= z + k /\ i - z = i /\ z + i = i
    BY <1>1
  <2> QED BY <1>2, <1>3, <2>1
<1>5. j = d
  BY <1>3, <1>4, SeqEqual DEF k
<1> QED BY <1>5 DEF j, c, k

\* Data that is moved to the head of its block, and more behind it (the last branch of append).
LEMMA BytesMoved ==
    ASSUME NEW m \in Seq(Int), NEW s \in Seq(Int), NEW d \in Seq(Int), NEW z \in Nat, NEW l \in Nat,
           NEW b \in Nat, Adds(l, z, l), Adds(l, z, Len(s)), Adds(b, l, Len(d)),
           Within(z, b, Len(m))
    PROVE  Part(Copied(Copied(m, z, s), l, d), z, b) = s \o d
<1> DEFINE c == Copied(m, z, s)
<1>1. c \in Seq(Int) /\ Len(c) = Len(m)
  BY CopiedBytes
<1>2. z = 0 /\ l = Len(s) /\ Within(z, b, Len(c)) /\ Within(z, l, Len(m))
  <2>1. Len(m) \in Nat /\ Len(d) \in Nat /\ Len(s) \in Nat
    BY LenProperties
  <2> QED BY <1>1, <2>1 DEF Within, Adds
<1>3. Part(c, z, l) = s
  BY <1>2, BytesFirst
<1> HIDE DEF c
<1>4. Part(Copied(c, l, d), z, b) = Part(c, z, l) \o d
  <2>1. Within(z, b, Len(c))
    BY <1>2
  <2> QED BY <1>1, <2>1, BytesBehind
<1> QED BY <1>3, <1>4 DEF c

\* s without its first k bytes
Without(s, k) == SubSeq(s, k + 1, Len(s))

\* The first k bytes of the data are skipped.
LEMMA BytesSkipped ==
    ASSUME NEW m \in Seq(Int), NEW h \in Nat, NEW l \in Nat, NEW k \in Nat, NEW d \in Seq(Int),
           NEW a \in Nat, NEW b \in Nat,
           Len(d) = k, Adds(a, h, k), Adds(l, b, k), Within(h, l, Len(m))
    PROVE  Part(Copied(m, h, d), a, b) = Without(Part(m, h, l), k)
<1> DEFINE n == Len(m)
           c == Copied(m, h, d)
           j == Part(c, a, b)
           s == Part(m, h, l)
           t == Without(s, k)
<1>1. n \in Nat /\ a = h + k /\ l = b + k /\ h + l <= n
  BY LenProperties DEF Within, Adds
<1>2. Within(a, b, n)
  BY <1>1 DEF Within
<1>3. c \in Seq(Int) /\ Len(c) = n
      /\ \A i \in 1 .. n : c[i] = IF i > h /\ i <= h + k THEN d[i - h] ELSE m[i]
  BY CopiedBytes, SMTT(30)
<1> HIDE DEF c
<1>4. j \in Seq(Int) /\ Len(j) = b /\ \A i \in 1 .. b : j[i] = c[a + i]
  BY <1>2, <1>3, PartBytes
<1>5. s \in Seq(Int) /\ Len(s) = l /\ \A i \in 1 .. l : s[i] = m[h + i]
  BY PartBytes
<1> HIDE DEF s
<1>6. t \in Seq(Int) /\ Len(t) = b /\ \A i \in 1 .. b : t[i] = s[i + k]
  <2>1. /\ SubSeq(s, k + 1, Len(s)) \in Seq(Int)
        /\ Len(SubSeq(s, k + 1, Len(s))) = IF k <= Len(s) THEN Len(s) - k ELSE 0
        /\ \A i \in 1 .. Len(s) - k : SubSeq(s, k + 1, Len(s))[i] = s[i + k]
    BY <1>5, DropElements
  <2>2. t = SubSeq(s, k + 1, Len(s)) /\ Len(s) - k = b /\ k <= Len(s)
    BY <1>1, <1>5 DEF Without
  <2> HIDE DEF t
  <2> QED BY <2>1, <2>2
<1> HIDE DEF j, t, n
<1>7. ASSUME NEW i \in 1 .. b PROVE j[i] = t[i]
  <2>1. /\ i + k \in 1 .. l /\ a + i \in 1 .. n /\ ~(a + i <= h + k)
        /\ h + (i + k) = a + i
    BY <1>1
  <2>2. j[i] = m[a + i]
    BY <1>3, <1>4, <2>1
  <2>3. t[i] = m[h + (i + k)]
    BY <1>5, <1>6, <2>1
  <2> QED BY <2>1, <2>2, <2>3
<1>8. j = t
  BY <1>4, <1>6, <1>7, SeqEqual
<1> QED BY <1>8 DEF j, t, s, c

-----------------------------------------------------------------------------
(* What a step does to the caches                                          *)

\* The blocks in use after allocate.
LEMMA UsedTaken ==
    ASSUME NEW p, NEW r, NEW n, Taken(p, r, n)
    PROVE  /\ PoolFit(r.pool) /\ r.pool.allocated <= PoolMax
           /\ \/ r.block = NoBlock /\ UsedBlocks(r.pool) = UsedBlocks(p)
              \/ /\ r.block \in Block /\ n < r.block.size /\ r.block \notin UsedBlocks(p)
                 /\ UsedBlocks(r.pool) = UsedBlocks(p) \cup {r.block}
<1>1. CASE r.block = NoBlock /\ \A t \in BlockSize : InUse(r.pool, t) = InUse(p, t)
  BY <1>1 DEF Taken, UsedBlocks, Block
<1> DEFINE b == r.block
<1>2. CASE /\ b \in Block /\ n < b.size /\ b.num \notin InUse(p, b.size)
           /\ InUse(r.pool, b.size) = InUse(p, b.size) \cup {b.num}
           /\ \A t \in BlockSize \ {b.size} : InUse(r.pool, t) = InUse(p, t)
  <2>1. \A x \in Block : x.num = b.num /\ x.size = b.size => x = b
    BY <1>2 DEF Block
  <2>2. \A x \in Block : x \in UsedBlocks(r.pool) <=> x \in UsedBlocks(p) \/ x = b
    BY <1>2, <2>1 DEF UsedBlocks, Block
  <2>3. UsedBlocks(r.pool) = UsedBlocks(p) \cup {b}
    BY <1>2, <2>2 DEF UsedBlocks
  <2> QED BY <1>2, <2>3 DEF Taken, UsedBlocks
<1> QED BY <1>1, <1>2 DEF Taken

\* The blocks in use after recycle.
LEMMA UsedRecycled ==
    ASSUME NEW p, PoolFit(p), p.allocated <= PoolMax, NEW b \in UsedBlocks(p), NEW stale
    PROVE  LET q == recycle(p, b, stale)
           IN  PoolFit(q) /\ q.allocated <= PoolMax /\ UsedBlocks(q) = UsedBlocks(p) \ {b}
<1> DEFINE q == recycle(p, b, stale)
<1>1. b \in Block /\ b.num \in InUse(p, b.size)
  BY DEF UsedBlocks
<1>2. /\ PoolFit(q) /\ q.allocated <= PoolMax
      /\ InUse(q, b.size) = InUse(p, b.size) \ {b.num}
      /\ \A t \in BlockSize \ {b.size} : InUse(q, t) = InUse(p, t)
  BY <1>1, RecycleFit
<1> HIDE DEF q
<1>3. \A x \in Block : x.num = b.num /\ x.size = b.size => x = b
  BY <1>1 DEF Block
<1>4. \A x \in Block : x \in UsedBlocks(q) <=> x \in UsedBlocks(p) /\ x # b
  BY <1>2, <1>3 DEF UsedBlocks, Block
<1>5. UsedBlocks(q) = UsedBlocks(p) \ {b}
  BY <1>4 DEF UsedBlocks
<1> QED BY <1>2, <1>5 DEF q

\* the block of a cache
BlockOf(c) == IF Empty(c) THEN {} ELSE {cache[c].block}

\* A step changes one cache; the others keep their blocks and what is in them.
LEMMA OneCache ==
    ASSUME CacheInv, NEW c \in Cache, MemOK', PoolOK', Holds(c)', Promise(c)',
           \A e \in Cache \ {c} : /\ cache'[e] = cache[e] /\ want'[e] = want[e]
                                  /\ ~Empty(e) => mem'[cache[e].block] = mem[cache[e].block],
           UsedBlocks(pool') = (UsedBlocks(pool) \ BlockOf(c)) \cup BlockOf(c)',
           BlockOf(c)' \cap UsedBlocks(pool) \subseteq BlockOf(c)
    PROVE  CacheInv'
<1>1. \A e \in Cache : ~Empty(e) => cache[e].block \in UsedBlocks(pool)
  BY DEF CacheInv, Holds
<1>2. ASSUME NEW e \in Cache \ {c}
      PROVE  /\ Empty(e)' = Empty(e)
             /\ ~Empty(e) => cache[e].block \in UsedBlocks(pool') /\ cache[e].block \notin BlockOf(c)
                             /\ cache[e].block \notin BlockOf(c)'
  <2>1. Empty(e)' = Empty(e)
    BY DEF Empty
  <2>2. ~Empty(e) => cache[e].block \notin BlockOf(c)
    BY DEF CacheInv, OwnBlock, BlockOf
  <2> QED BY <1>1, <2>1, <2>2
<1>3. ASSUME NEW e \in Cache \ {c} PROVE Holds(e)' /\ Promise(e)'
  <2>1. Holds(e) /\ Promise(e)
    BY DEF CacheInv
  <2>2. Holds(e)'
    BY <1>2, <2>1 DEF Holds
  <2>3. ~Empty(e) => data(cache[e])' = data(cache[e])
    BY DEF data
  <2>4. Promise(e)'
    BY <1>2, <2>1, <2>3 DEF Promise
  <2> QED BY <2>2, <2>4
<1>4. OwnBlock'
  <2>1. ASSUME NEW e \in Cache, NEW g \in Cache, ~Empty(e)', ~Empty(g)',
               cache'[e].block = cache'[g].block
        PROVE  e = g
    <3>1. CASE e # c /\ g # c
      BY <1>2, <2>1, <3>1 DEF CacheInv, OwnBlock
    <3>2. CASE e = c /\ g # c
      BY <1>2, <2>1, <3>2 DEF BlockOf
    <3>3. CASE e # c /\ g = c
      BY <1>2, <2>1, <3>3 DEF BlockOf
    <3> QED BY <3>1, <3>2, <3>3
  <2>2. ASSUME NEW b \in UsedBlocks(pool') PROVE \E e \in Cache : ~Empty(e)' /\ cache'[e].block = b
    <3>1. CASE b \in BlockOf(c)'
      BY <3>1 DEF BlockOf
    <3>2. CASE b \in UsedBlocks(pool) \ BlockOf(c)
      <4>1. PICK e \in Cache : ~Empty(e) /\ cache[e].block = b
        BY <3>2 DEF CacheInv, OwnBlock
      <4>2. e # c
        BY <3>2, <4>1 DEF BlockOf
      <4> QED BY <1>2, <4>1, <4>2
    <3> QED BY <3>1, <3>2
  <2> QED BY <2>1, <2>2 DEF OwnBlock
<1> QED BY <1>3, <1>4 DEF CacheInv

\* The data of a cache is a part of its block.
LEMMA DataPart ==
    ASSUME NEW x PROVE data(x) = Part(mem[x.block], x.head, x.len)
BY DEF data, Part

\* A cache keeps its block: what is written there, and where its data is, is m, h and l.
LEMMA SameBlock ==
    ASSUME CacheInv, NEW c \in Cache, ~Empty(c), NEW m \in Seq(Int), NEW h \in Nat, NEW l \in Nat,
           Len(m) = cache[c].block.size, Within(h, l, Len(m)), NEW w \in Seq(Int), Part(m, h, l) = w,
           mem' = [mem EXCEPT ![cache[c].block] = m], pool' = pool,
           cache' = [cache EXCEPT ![c] = [block |-> cache[c].block, head |-> h, len |-> l]],
           want' = [want EXCEPT ![c] = w]
    PROVE  CacheInv'
<1> DEFINE b == cache[c].block
           x == [block |-> b, head |-> h, len |-> l]
<1>1. MemOK /\ PoolOK /\ b \in Block /\ b # NoBlock /\ b \in UsedBlocks(pool)
  BY BlockOfCache DEF CacheInv, Holds, Empty
<1>2. x \in CacheType /\ x.block = b /\ x.head = h /\ x.len = l
  BY <1>1 DEF CacheType
<1> HIDE DEF b, x
<1>3. cache' = [cache EXCEPT ![c] = x] /\ mem' = [mem EXCEPT ![b] = m]
  BY DEF b, x
<1>4. cache'[c] = x /\ mem'[b] = m /\ want'[c] = w
  BY <1>1, <1>3 DEF MemOK
<1>5. MemOK'
  BY <1>1, <1>2, <1>3 DEF MemOK
<1>6. PoolOK'
  BY <1>1 DEF PoolOK
<1>7. ~Empty(c)' /\ BlockOf(c) = {b} /\ BlockOf(c)' = {b}
  BY <1>1, <1>2, <1>4 DEF Empty, BlockOf, b
<1>8. Holds(c)'
  BY <1>1, <1>2, <1>4 DEF Holds, Within, b
<1>9. Promise(c)'
  <2>1. data(cache[c])' = Part(mem'[cache'[c].block], cache'[c].head, cache'[c].len)
    BY DEF data, Part
  <2>2. data(cache[c])' = Part(m, h, l)
    BY <1>2, <1>4, <2>1
  <2> QED BY <1>4, <1>7, <2>2 DEF Promise
<1>10. ASSUME NEW e \in Cache \ {c}
       PROVE  /\ cache'[e] = cache[e] /\ want'[e] = want[e]
              /\ ~Empty(e) => mem'[cache[e].block] = mem[cache[e].block]
  <2>1. cache'[e] = cache[e] /\ want'[e] = want[e]
    BY <1>1, <1>3 DEF MemOK
  <2>2. ~Empty(e) => cache[e].block # b /\ cache[e].block \in Block
    BY <1>1, BlockOfCache DEF CacheInv, OwnBlock, b
  <2> QED BY <1>1, <1>3, <2>1, <2>2 DEF MemOK
<1>11. UsedBlocks(pool') = (UsedBlocks(pool) \ BlockOf(c)) \cup BlockOf(c)'
       /\ BlockOf(c)' \cap UsedBlocks(pool) \subseteq BlockOf(c)
  BY <1>1, <1>7
<1> QED BY <1>5, <1>6, <1>8, <1>9, <1>10, <1>11, OneCache

\* A block nobody has written.
LEMMA UnwrittenBytes ==
    ASSUME NEW n \in Nat PROVE Unwritten(n) \in Seq(Int) /\ Len(Unwritten(n)) = n
<1> DEFINE u == Unwritten(n)
<1>1. u \in [1 .. n -> Int]
  BY DEF Unwritten
<1> HIDE DEF u
<1>2. u \in Seq(Int) /\ Len(u) = n
  BY <1>1, SeqDef
<1> QED BY <1>2 DEF u

\* A cache gets a block that nobody uses, and gives back the one it may have.
LEMMA NewBlock ==
    ASSUME CacheInv, NEW c \in Cache, NEW b \in Block, b \notin UsedBlocks(pool), PoolOK',
           NEW z \in Nat, z = 0, NEW d \in Seq(Int), Len(d) < b.size,
           NEW m \in [Block -> Seq(Int)],
           \A e \in Cache \ {c} : ~Empty(e) => m[cache[e].block] = mem[cache[e].block],
           mem' = [m EXCEPT ![b] = Copied(Unwritten(b.size), z, d)],
           cache' = [cache EXCEPT ![c] = [block |-> b, head |-> z, len |-> Len(d)]],
           want' = [want EXCEPT ![c] = d],
           UsedBlocks(pool') = (UsedBlocks(pool) \ BlockOf(c)) \cup {b}
    PROVE  CacheInv'
<1> DEFINE l == Len(d)
           x == [block |-> b, head |-> z, len |-> l]
           n == Copied(Unwritten(b.size), z, d)
<1>1. MemOK /\ b # NoBlock /\ b.size \in Nat /\ b \in UsedBlocks(pool') /\ l \in Nat
  <2>1. b.size \in Nat
    BY PoolAssumption DEF Block
  <2> QED BY <2>1, BlockOfCache, LenProperties DEF CacheInv
<1>2. x \in CacheType /\ x.block = b /\ x.head = z /\ x.len = l
  BY <1>1 DEF CacheType
<1>3. n \in Seq(Int) /\ Len(n) = b.size
  BY <1>1, UnwrittenBytes, CopiedBytes
<1>4. Within(z, l, Len(Unwritten(b.size))) /\ Within(z, l, b.size)
  <2>1. Len(Unwritten(b.size)) = b.size
    BY <1>1, UnwrittenBytes
  <2> HIDE DEF l
  <2>2. l < b.size
    BY DEF l
  <2> QED BY <1>1, <2>1, <2>2 DEF Within
<1>5. Part(n, z, l) = d
  BY <1>1, <1>4, UnwrittenBytes, BytesFirst
<1>6. cache' = [cache EXCEPT ![c] = x] /\ mem' = [m EXCEPT ![b] = n]
  OBVIOUS
<1> HIDE DEF x, n, l
<1>7. cache'[c] = x /\ mem'[b] = n /\ want'[c] = d
  BY <1>1, <1>6 DEF MemOK
<1>8. MemOK'
  BY <1>1, <1>2, <1>3, <1>6 DEF MemOK
<1>9. ~Empty(c)' /\ BlockOf(c)' = {b}
  BY <1>1, <1>2, <1>7 DEF Empty, BlockOf
<1>10. Holds(c)'
  BY <1>1, <1>2, <1>3, <1>4, <1>7 DEF Holds, Within
<1>11. Promise(c)'
  <2>1. data(cache[c])' = Part(mem'[cache'[c].block], cache'[c].head, cache'[c].len)
    BY DEF data, Part
  <2>2. data(cache[c])' = d
    BY <1>2, <1>5, <1>7, <2>1
  <2> QED BY <1>7, <1>9, <2>2 DEF Promise
<1>12. ASSUME NEW e \in Cache \ {c}
       PROVE  /\ cache'[e] = cache[e] /\ want'[e] = want[e]
              /\ ~Empty(e) => mem'[cache[e].block] = mem[cache[e].block]
  <2>1. cache'[e] = cache[e] /\ want'[e] = want[e]
    BY <1>1, <1>6 DEF MemOK
  <2>2. ~Empty(e) => cache[e].block # b /\ cache[e].block \in Block
    BY <1>1, BlockOfCache DEF CacheInv, Holds
  <2> QED BY <1>6, <2>1, <2>2
<1>13. UsedBlocks(pool') = (UsedBlocks(pool) \ BlockOf(c)) \cup BlockOf(c)'
       /\ BlockOf(c)' \cap UsedBlocks(pool) \subseteq BlockOf(c)
  BY <1>9
<1> QED BY <1>8, <1>10, <1>11, <1>12, <1>13, OneCache

\* What is appended is bytes; a cache has as many bytes as it promises.
LEMMA BytesToAppend ==
    ASSUME CacheInv, NEW c \in Cache, NEW n \in Nat
    PROVE  /\ NextBytes(c, n) \in Seq(Int) /\ Len(NextBytes(c, n)) = n
           /\ want[c] \in Seq(Int) /\ Len(want[c]) \in Nat
           /\ Empty(c) => want[c] = <<>>
           /\ ~Empty(c) => Len(want[c]) = cache[c].len /\ data(cache[c]) = want[c]
<1>1. want[c] \in Seq(Int) /\ Promise(c) /\ Holds(c) /\ MemOK
  BY DEF CacheInv, MemOK
<1> DEFINE w == want[c]
           from == IF w = <<>> THEN 0 ELSE Last(w) + 1
           u == NextBytes(c, n)
<1>2. from \in Int
  <2> HIDE DEF w
  <2>1. w \in Seq(Int)
    BY <1>1 DEF w
  <2>2. CASE w # <<>>
    <3>1. Last(w) \in Int
      <4>1. Len(w) \in 1 .. Len(w)
        BY <2>1, <2>2, EmptySeq, LenProperties
      <4> QED BY <2>1, <4>1, ElementOfSeq DEF Last
    <3> DEFINE y == Last(w)
    <3>2. from = y + 1 /\ y \in Int
      BY <2>2, <3>1
    <3> HIDE DEF y, from
    <3> QED BY <3>2
  <2>3. CASE w = <<>>
    BY <2>3
  <2> QED BY <2>2, <2>3
<1>3. u = [i \in 1 .. n |-> (from + i - 1) % ByteMod]
  BY DEF NextBytes
<1> HIDE DEF from, u
<1>4. u \in [1 .. n -> Int]
  <2>1. \A i \in 1 .. n : (from + i - 1) % ByteMod \in Int
    BY <1>2, CacheAssumption
  <2> QED BY <1>3, <2>1
<1>5. u \in Seq(Int) /\ Len(u) = n
  BY <1>4, SeqDef
<1>6. ~Empty(c) => Len(data(cache[c])) = cache[c].len
  <2>1. SUFFICES ASSUME ~Empty(c) PROVE Len(data(cache[c])) = cache[c].len
    OBVIOUS
  <2> DEFINE x == cache[c]
  <2>2. x.head \in Nat /\ x.len \in Nat /\ x.block \in Block /\ mem[x.block] \in Seq(Int)
    BY <1>1, <2>1, BlockOfCache DEF MemOK
  <2>3. Within(x.head, x.len, Len(mem[x.block]))
    BY <1>1, <2>1 DEF Holds, Within
  <2> HIDE DEF x
  <2>4. Len(Part(mem[x.block], x.head, x.len)) = x.len
    BY <2>2, <2>3, PartBytes
  <2>5. data(x) = Part(mem[x.block], x.head, x.len)
    BY DataPart
  <2> QED BY <2>4, <2>5 DEF x
<1>7. Empty(c) => want[c] = <<>>
  BY <1>1 DEF Promise
<1>8. ~Empty(c) => data(cache[c]) = want[c]
  BY <1>1 DEF Promise
<1>9. Len(want[c]) \in Nat
  BY <1>1, LenProperties
<1> QED BY <1>1, <1>5, <1>6, <1>7, <1>8, <1>9 DEF u

\* The pool may change for the worse: no block comes or goes.
LEMMA OnlyPool ==
    ASSUME CacheInv, PoolOK', UsedBlocks(pool') = UsedBlocks(pool),
           cache' = cache, mem' = mem, want' = want
    PROVE  CacheInv'
<1>1. MemOK' /\ (\A c \in Cache : Empty(c)' = Empty(c) /\ data(cache[c])' = data(cache[c]))
  BY DEF CacheInv, MemOK, Empty, data
<1>2. OwnBlock'
  BY <1>1 DEF CacheInv, OwnBlock
<1>3. \A c \in Cache : Holds(c)' /\ Promise(c)'
  BY <1>1 DEF CacheInv, Holds, Promise
<1> QED BY <1>1, <1>2, <1>3 DEF CacheInv

\* The first append to a cache.
LEMMA FirstKeeps ==
    ASSUME CacheInv, NEW c \in Cache, NEW d \in Seq(Int), Len(d) <= MaxData, NEW stale,
           AppendFirst(c, d, stale)
    PROVE  CacheInv'
<1> DEFINE r == allocate(pool, Len(d), stale)
<1>1. /\ Empty(c) /\ pool' = r.pool /\ want[c] = <<>> /\ MemOK
      /\ IF r.block = NoBlock THEN UNCHANGED <<cache, mem, want>> ELSE Filled(c, r.block, mem, d, d)
  BY DEF AppendFirst, CacheInv, Promise
<1>2. Taken(pool, r, Len(d))
  <2>1. \A s \in BlockSize : Cardinality(InUse(pool, s)) <= Cardinality(Cache)
    BY FewInUse DEF CacheInv
  <2>2. PoolFit(pool) /\ pool.allocated <= PoolMax /\ Len(d) \in Nat
    BY LenProperties DEF CacheInv, PoolOK
  <2> DEFINE n == Len(d)
  <2>3. n \in Nat /\ n <= MaxData
    BY <2>2
  <2> HIDE DEF n
  <2>4. Taken(pool, allocate(pool, n, stale), n)
    BY <2>1, <2>2, <2>3, AllocateFit
  <2> QED BY <2>4 DEF n
<1> HIDE DEF r
<1>3. /\ PoolFit(r.pool) /\ r.pool.allocated <= PoolMax
      /\ \/ r.block = NoBlock /\ UsedBlocks(r.pool) = UsedBlocks(pool)
         \/ /\ r.block \in Block /\ Len(d) < r.block.size /\ r.block \notin UsedBlocks(pool)
            /\ UsedBlocks(r.pool) = UsedBlocks(pool) \cup {r.block}
  BY <1>2, UsedTaken
<1>4. PoolOK'
  BY <1>1, <1>3 DEF PoolOK
<1>5. NoBlock \notin Block
  BY PoolAssumption DEF NoBlock, Block
<1>6. CASE r.block = NoBlock
  BY <1>1, <1>3, <1>4, <1>5, <1>6, OnlyPool
<1>7. CASE r.block # NoBlock
  <2> DEFINE b == r.block
  <2>1. PICK z \in Nat : z = 0
    OBVIOUS
  <2>2. /\ b \in Block /\ Len(d) < b.size /\ b \notin UsedBlocks(pool)
        /\ UsedBlocks(pool') = UsedBlocks(pool) \cup {b}
    BY <1>1, <1>3, <1>7
  <2>3. /\ mem' = [mem EXCEPT ![b] = Copied(Unwritten(b.size), z, d)]
        /\ cache' = [cache EXCEPT ![c] = [block |-> b, head |-> z, len |-> Len(d)]]
    BY <1>1, <1>7, <2>1 DEF Filled
  <2>4. want' = [want EXCEPT ![c] = d]
    <3>1. want[c] \o d = d
      BY <1>1, ConcatEmptySeq
    <3> QED BY <1>1, <1>7, <3>1 DEF Filled
  <2>5. BlockOf(c) = {} /\ mem \in [Block -> Seq(Int)]
    BY <1>1 DEF BlockOf, MemOK
  <2>6. UsedBlocks(pool') = (UsedBlocks(pool) \ BlockOf(c)) \cup {b}
    BY <2>2, <2>5
  <2> HIDE DEF b
  <2> QED BY <1>4, <2>1, <2>2, <2>3, <2>4, <2>5, <2>6, NewBlock
<1> QED BY <1>6, <1>7

\* More than the block of a cache has room for.
LEMMA LargerKeeps ==
    ASSUME CacheInv, NEW c \in Cache, NEW d \in Seq(Int), Len(want[c]) + Len(d) <= MaxData, NEW stale,
           AppendLarger(c, d, stale)
    PROVE  CacheInv'
<1> DEFINE x == cache[c]
           w == want[c]
           e == w \o d
           k == Len(d) + x.len
           r == allocate(pool, k, stale)
<1>1. /\ ~Empty(c) /\ MemOK /\ PoolFit(pool) /\ pool.allocated <= PoolMax
      /\ x.block \in UsedBlocks(pool) /\ x.block \in Block
      /\ w \in Seq(Int) /\ Len(w) = x.len /\ data(x) = w
  <2>1. 0 \in Nat
    OBVIOUS
  <2> QED BY <2>1, BytesToAppend, BlockOfCache DEF AppendLarger, CacheInv, PoolOK, Holds
<1>2. e \in Seq(Int) /\ Len(e) = k /\ k \in Nat /\ k <= MaxData
  <2>1. e \in Seq(Int) /\ Len(e) = Len(w) + Len(d) /\ Len(w) \in Nat /\ Len(d) \in Nat
    BY <1>1, ConcatProperties, LenProperties
  <2> QED BY <1>1, <2>1
<1>3. IF r.block = NoBlock THEN pool' = r.pool /\ UNCHANGED <<cache, mem, want>>
      ELSE /\ pool' = recycle(r.pool, x.block, stale)
           /\ Filled(c, r.block, [mem EXCEPT ![x.block] = <<>>], e, d)
  BY <1>1 DEF AppendLarger
<1> HIDE DEF k
<1>4. Taken(pool, r, k)
  <2>1. \A s \in BlockSize : Cardinality(InUse(pool, s)) <= Cardinality(Cache)
    BY FewInUse DEF CacheInv
  <2> QED BY <1>1, <1>2, <2>1, AllocateFit
<1> HIDE DEF r, e, x
<1>5. /\ PoolFit(r.pool) /\ r.pool.allocated <= PoolMax
      /\ \/ r.block = NoBlock /\ UsedBlocks(r.pool) = UsedBlocks(pool)
         \/ /\ r.block \in Block /\ k < r.block.size /\ r.block \notin UsedBlocks(pool)
            /\ UsedBlocks(r.pool) = UsedBlocks(pool) \cup {r.block}
  BY <1>4, UsedTaken
<1>6. NoBlock \notin Block
  BY PoolAssumption DEF NoBlock, Block
<1>7. CASE r.block = NoBlock
  <2>1. PoolOK'
    BY <1>3, <1>5, <1>7 DEF PoolOK
  <2> QED BY <1>3, <1>5, <1>6, <1>7, <2>1, OnlyPool
<1>8. CASE r.block # NoBlock
  <2> DEFINE b == r.block
             m == [mem EXCEPT ![x.block] = <<>>]
  <2>1. PICK z \in Nat : z = 0
    OBVIOUS
  <2>2. /\ b \in Block /\ k < b.size /\ b \notin UsedBlocks(pool)
        /\ UsedBlocks(r.pool) = UsedBlocks(pool) \cup {b}
    BY <1>5, <1>8
  <2>3. /\ PoolFit(pool') /\ pool'.allocated <= PoolMax
        /\ UsedBlocks(pool') = UsedBlocks(r.pool) \ {x.block}
    <3>1. x.block \in UsedBlocks(r.pool)
      BY <1>1, <2>2
    <3> QED BY <1>3, <1>5, <1>8, <3>1, UsedRecycled
  <2>4. PoolOK'
    BY <2>3 DEF PoolOK
  <2>5. /\ mem' = [m EXCEPT ![b] = Copied(Unwritten(b.size), z, e)]
        /\ cache' = [cache EXCEPT ![c] = [block |-> b, head |-> z, len |-> Len(e)]]
        /\ want' = [want EXCEPT ![c] = e]
    BY <1>3, <1>8, <2>1 DEF Filled, e
  <2>6. BlockOf(c) = {x.block}
    BY <1>1 DEF BlockOf, x
  <2>7. UsedBlocks(pool') = (UsedBlocks(pool) \ BlockOf(c)) \cup {b}
    BY <1>1, <2>2, <2>3, <2>6
  <2>8. m \in [Block -> Seq(Int)]
    BY <1>1, EmptySeq DEF MemOK
  <2>9. \A g \in Cache \ {c} : ~Empty(g) => m[cache[g].block] = mem[cache[g].block]
    <3>1. \A g \in Cache \ {c} : ~Empty(g) => cache[g].block # x.block /\ cache[g].block \in Block
      BY <1>1, BlockOfCache DEF CacheInv, OwnBlock, x
    <3> QED BY <1>1, <3>1 DEF MemOK
  <2> HIDE DEF b, m
  <2>10. Len(e) < b.size
    BY <1>2, <2>2
  <2> QED BY <1>2, <2>1, <2>2, <2>4, <2>5, <2>7, <2>8, <2>9, <2>10, NewBlock
<1> QED BY <1>7, <1>8

\* What a cache that has a block is made of.
LEMMA CacheWithBlock ==
    ASSUME CacheInv, NEW c \in Cache, ~Empty(c)
    PROVE  LET x == cache[c]
               b == cache[c].block
           IN  /\ MemOK /\ b \in UsedBlocks(pool) /\ b \in Block /\ x.head \in Nat /\ x.len \in Nat
               /\ x \in CacheType /\ mem[b] \in Seq(Int) /\ Len(mem[b]) = b.size /\ b.size \in Nat
               /\ Within(x.head, x.len, Len(mem[b]))
               /\ want[c] \in Seq(Int) /\ Len(want[c]) = x.len /\ want[c] = Part(mem[b], x.head, x.len)
<1>1. /\ MemOK /\ cache[c] \in CacheType /\ cache[c].block \in Block /\ cache[c].block.size \in Nat
      /\ cache[c].head \in Nat /\ cache[c].len \in Nat
      /\ cache[c].block \in UsedBlocks(pool) /\ Len(mem[cache[c].block]) = cache[c].block.size
      /\ Within(cache[c].head, cache[c].len, Len(mem[cache[c].block]))
  BY BlockOfCache DEF CacheInv, Holds, Within
<1>2. mem[cache[c].block] \in Seq(Int)
  BY <1>1 DEF MemOK
<1>3. want[c] \in Seq(Int) /\ Len(want[c]) = cache[c].len /\ data(cache[c]) = want[c]
  <2>1. 0 \in Nat
    OBVIOUS
  <2> QED BY <2>1, BytesToAppend
<1>4. data(cache[c]) = Part(mem[cache[c].block], cache[c].head, cache[c].len)
  BY DEF data, Part
<1> QED BY <1>1, <1>2, <1>3, <1>4

\* A cache whose data moves or grows.
LEMMA CacheFields ==
    ASSUME NEW x \in CacheType, NEW h, NEW n
    PROVE  /\ [x EXCEPT !.len = n] = [block |-> x.block, head |-> x.head, len |-> n]
           /\ [x EXCEPT !.head = h, !.len = n] = [block |-> x.block, head |-> h, len |-> n]
<1>1. PICK b \in Block \cup {NoBlock}, k \in Nat, l \in Nat : x = [block |-> b, head |-> k, len |-> l]
  BY DEF CacheType
<1>2. x.block = b /\ x.head = k
  BY <1>1
<1>3. [x EXCEPT !.len = n] = [block |-> b, head |-> k, len |-> n]
  BY <1>1
<1>4. [x EXCEPT !.head = h, !.len = n] = [block |-> b, head |-> h, len |-> n]
  <2> DEFINE y == [x EXCEPT !.head = h]
  <2>1. y = [block |-> b, head |-> h, len |-> l]
    BY <1>1
  <2> HIDE DEF y
  <2>2. [y EXCEPT !.len = n] = [block |-> b, head |-> h, len |-> n]
    BY <2>1
  <2> QED BY <2>2 DEF y
<1> QED BY <1>2, <1>3, <1>4

\* Data that fits behind what the cache has.
LEMMA BehindKeeps ==
    ASSUME CacheInv, NEW c \in Cache, NEW d \in Seq(Int), AppendBehind(c, d)
    PROVE  CacheInv'
<1> DEFINE x == cache[c]
           b == x.block
           h == x.head
           l == x.len
           a == h + l
           n == l + Len(d)
           m == Copied(mem[b], a, d)
           w == want[c] \o d
<1>1. /\ ~Empty(c) /\ Len(d) + h + l <= b.size /\ pool' = pool
      /\ mem' = [mem EXCEPT ![b] = m] /\ want' = [want EXCEPT ![c] = w]
      /\ cache' = [cache EXCEPT ![c].len = n]
  BY DEF AppendBehind
<1>2. /\ MemOK /\ b \in UsedBlocks(pool) /\ b \in Block /\ h \in Nat /\ l \in Nat
      /\ x \in CacheType /\ mem[b] \in Seq(Int) /\ Len(mem[b]) = b.size /\ b.size \in Nat
      /\ want[c] \in Seq(Int) /\ want[c] = Part(mem[b], h, l)
  BY <1>1, CacheWithBlock
<1>3. Len(d) \in Nat /\ a \in Nat /\ n \in Nat /\ Adds(a, h, l) /\ Adds(n, l, Len(d))
      /\ Within(h, n, Len(mem[b]))
  <2>1. Len(d) \in Nat
    BY LenProperties
  <2> QED BY <1>1, <1>2, <2>1, SMTT(30) DEF Adds, Within
<1> HIDE DEF a, n
<1>4. m \in Seq(Int) /\ Len(m) = b.size
  BY <1>2, <1>3, CopiedBytes
<1>5. Part(m, h, n) = w /\ w \in Seq(Int)
  <2>1. w \in Seq(Int)
    BY <1>2, ConcatProperties
  <2>2. \A y \in Seq(Int) : Within(h, n, Len(y)) => Part(Copied(y, a, d), h, n) = Part(y, h, l) \o d
    <3> HIDE DEF h, l
    <3>1. h \in Nat /\ l \in Nat
      BY <1>2
    <3> QED BY <1>3, <3>1, BytesBehind
  <2> QED BY <1>2, <1>3, <2>1, <2>2
<1>6. cache' = [cache EXCEPT ![c] = [block |-> b, head |-> h, len |-> n]]
  <2>1. cache \in [Cache -> CacheType]
    BY <1>2 DEF MemOK
  <2>2. [x EXCEPT !.len = n] = [block |-> b, head |-> h, len |-> n]
    BY <1>2, <2>1, CacheFields
  <2>3. cache' = [cache EXCEPT ![c] = [x EXCEPT !.len = n]]
    BY <1>1, <2>1
  <2> QED BY <2>2, <2>3
<1>7. Within(h, n, Len(m))
  BY <1>2, <1>3, <1>4
<1> HIDE DEF m, w, h
<1> QED BY <1>1, <1>2, <1>3, <1>4, <1>5, <1>6, <1>7, SameBlock DEF h

\* Data that fits when what the cache has is moved.
LEMMA MovedKeeps ==
    ASSUME CacheInv, NEW c \in Cache, NEW d \in Seq(Int), AppendMoved(c, d)
    PROVE  CacheInv'
<1> DEFINE x == cache[c]
           b == x.block
           l == x.len
           n == l + Len(d)
           w == want[c] \o d
<1>1. PICK z \in Nat : z = 0
  OBVIOUS
<1> DEFINE m == Copied(Copied(mem[b], z, want[c]), l, d)
<1>2. ~Empty(c)
  BY DEF AppendMoved
<1>3. /\ MemOK /\ b \in UsedBlocks(pool) /\ b \in Block /\ l \in Nat
      /\ x \in CacheType /\ mem[b] \in Seq(Int) /\ Len(mem[b]) = b.size /\ b.size \in Nat
      /\ want[c] \in Seq(Int) /\ want[c] = Part(mem[b], x.head, l) /\ Len(want[c]) = l
  BY <1>2, CacheWithBlock
<1>4. data(x) = want[c]
  BY <1>3, DataPart
<1>5. /\ Len(d) + l <= b.size /\ pool' = pool
      /\ mem' = [mem EXCEPT ![b] = m] /\ want' = [want EXCEPT ![c] = w]
      /\ cache' = [cache EXCEPT ![c].head = z, ![c].len = n]
  BY <1>1, <1>4 DEF AppendMoved
<1>6. n \in Nat /\ Adds(l, z, l) /\ Adds(l, z, Len(want[c])) /\ Adds(n, l, Len(d))
      /\ Within(z, n, Len(mem[b]))
  <2>1. Len(d) \in Nat
    BY LenProperties
  <2> QED BY <1>1, <1>3, <1>5, <2>1 DEF Adds, Within
<1> HIDE DEF n
<1>7. m \in Seq(Int) /\ Len(m) = b.size
  <2>1. Copied(mem[b], z, want[c]) \in Seq(Int) /\ Len(Copied(mem[b], z, want[c])) = b.size
    BY <1>3, CopiedBytes
  <2> DEFINE y == Copied(mem[b], z, want[c])
  <2>2. y \in Seq(Int) /\ Len(y) = b.size
    BY <2>1
  <2> HIDE DEF y
  <2>3. Copied(y, l, d) \in Seq(Int) /\ Len(Copied(y, l, d)) = b.size
    BY <1>3, <2>2, CopiedBytes
  <2> QED BY <2>3 DEF y
<1>8. Part(m, z, n) = w /\ w \in Seq(Int)
  <2>1. w \in Seq(Int)
    BY <1>3, ConcatProperties
  <2>2. \A y \in Seq(Int) : Within(z, n, Len(y))
                              => Part(Copied(Copied(y, z, want[c]), l, d), z, n) = want[c] \o d
    <3> DEFINE k == want[c]
    <3>1. k \in Seq(Int) /\ Adds(l, z, Len(k)) /\ z \in Nat
      BY <1>1, <1>3, <1>6
    <3> HIDE DEF l, k
    <3>2. l \in Nat
      BY <1>3 DEF l
    <3>3. \A y \in Seq(Int) : Within(z, n, Len(y)) => Part(Copied(Copied(y, z, k), l, d), z, n) = k \o d
      <4>1. SUFFICES ASSUME NEW y \in Seq(Int), Within(z, n, Len(y))
                     PROVE  Part(Copied(Copied(y, z, k), l, d), z, n) = k \o d
        OBVIOUS
      <4>2. /\ n \in Nat /\ Adds(l, z, l) /\ Adds(n, l, Len(d)) /\ k \in Seq(Int)
            /\ Adds(l, z, Len(k)) /\ z \in Nat /\ l \in Nat
        BY <1>6, <3>1, <3>2
      <4> QED BY <4>1, <4>2, BytesMoved, SMTT(30)
    <3> QED BY <3>3 DEF k
  <2> QED BY <1>3, <1>6, <2>1, <2>2
<1>9. cache' = [cache EXCEPT ![c] = [block |-> b, head |-> z, len |-> n]]
  <2>1. cache \in [Cache -> CacheType]
    BY <1>3 DEF MemOK
  <2>2. [x EXCEPT !.head = z, !.len = n] = [block |-> b, head |-> z, len |-> n]
    BY <1>3, <2>1, CacheFields
  <2>3. cache' = [cache EXCEPT ![c] = [x EXCEPT !.head = z, !.len = n]]
    BY <1>5, <2>1
  <2> QED BY <2>2, <2>3
<1>10. Within(z, n, Len(m))
  BY <1>3, <1>6, <1>7
<1> HIDE DEF m, w
<1> QED BY <1>1, <1>2, <1>3, <1>5, <1>6, <1>7, <1>8, <1>9, <1>10, SameBlock

\* All data is skipped.
LEMMA SkipAllKeeps ==
    ASSUME CacheInv, NEW c \in Cache, NEW n, NEW stale, SkipAll(c, n, stale)
    PROVE  CacheInv'
<1> DEFINE b == cache[c].block
<1>1. /\ ~Empty(c) /\ pool' = recycle(pool, b, stale) /\ cache' = [cache EXCEPT ![c] = NoCache]
      /\ want' = [want EXCEPT ![c] = <<>>] /\ mem' = [mem EXCEPT ![b] = <<>>]
  BY DEF SkipAll
<1>2. MemOK /\ b \in UsedBlocks(pool) /\ b \in Block
  BY <1>1, CacheWithBlock
<1> HIDE DEF b
<1>3. PoolFit(pool') /\ pool'.allocated <= PoolMax /\ UsedBlocks(pool') = UsedBlocks(pool) \ {b}
  <2>1. PoolFit(pool) /\ pool.allocated <= PoolMax
    BY DEF CacheInv, PoolOK
  <2> QED BY <1>1, <1>2, <2>1, UsedRecycled
<1>4. PoolOK'
  BY <1>3 DEF PoolOK
<1>5. NoCache \in CacheType /\ NoCache.block = NoBlock
  BY DEF NoCache, CacheType
<1>6. MemOK'
  BY <1>1, <1>2, <1>5, EmptySeq DEF MemOK
<1>7. Empty(c)' /\ want'[c] = <<>>
  BY <1>1, <1>2, <1>5 DEF Empty, MemOK
<1>8. Holds(c)' /\ Promise(c)'
  BY <1>7 DEF Holds, Promise
<1>9. BlockOf(c) = {b} /\ BlockOf(c)' = {}
  BY <1>1, <1>7 DEF BlockOf, b
<1>10. ASSUME NEW e \in Cache \ {c}
       PROVE  /\ cache'[e] = cache[e] /\ want'[e] = want[e]
              /\ ~Empty(e) => mem'[cache[e].block] = mem[cache[e].block]
  <2>1. cache'[e] = cache[e] /\ want'[e] = want[e]
    BY <1>1, <1>2 DEF MemOK
  <2>2. ~Empty(e) => cache[e].block # b /\ cache[e].block \in Block
    BY <1>1, <1>2, BlockOfCache DEF CacheInv, OwnBlock, b
  <2> QED BY <1>1, <1>2, <2>1, <2>2 DEF MemOK
<1>11. UsedBlocks(pool') = (UsedBlocks(pool) \ BlockOf(c)) \cup BlockOf(c)'
       /\ BlockOf(c)' \cap UsedBlocks(pool) \subseteq BlockOf(c)
  BY <1>3, <1>9
<1> QED BY <1>4, <1>6, <1>8, <1>10, <1>11, OneCache

\* A part of the data is skipped.
LEMMA SkipSomeKeeps ==
    ASSUME CacheInv, NEW c \in Cache, NEW n \in Nat, SkipSome(c, n)
    PROVE  CacheInv'
<1> DEFINE x == cache[c]
           b == x.block
           h == x.head
           l == x.len
           a == h + n
           k == l - n
           d == Unwritten(n)
           m == Copied(mem[b], h, d)
           w == SubSeq(want[c], n + 1, Len(want[c]))
<1>1. /\ ~Empty(c) /\ n < l /\ pool' = pool
      /\ cache' = [cache EXCEPT ![c].head = a, ![c].len = k]
      /\ want' = [want EXCEPT ![c] = w] /\ mem' = [mem EXCEPT ![b] = m]
  BY DEF SkipSome
<1>2. /\ MemOK /\ b \in UsedBlocks(pool) /\ b \in Block /\ h \in Nat /\ l \in Nat
      /\ x \in CacheType /\ mem[b] \in Seq(Int) /\ Len(mem[b]) = b.size /\ b.size \in Nat
      /\ want[c] \in Seq(Int) /\ want[c] = Part(mem[b], h, l) /\ Len(want[c]) = l
      /\ Within(h, l, Len(mem[b]))
  BY <1>1, CacheWithBlock
<1>3. /\ a \in Nat /\ k \in Nat /\ Adds(a, h, n) /\ Adds(l, k, n) /\ Within(a, k, Len(mem[b]))
  <2> DEFINE z == Len(mem[b])
  <2>1. h \in Nat /\ l \in Nat /\ n < l /\ z \in Nat /\ h + l <= z
    BY <1>1, <1>2 DEF Within
  <2> HIDE DEF h, l, z
  <2>2. /\ h + n \in Nat /\ l - n \in Nat /\ l = (l - n) + n /\ (h + n) + (l - n) <= z
    BY <2>1
  <2> QED BY <2>2 DEF Adds, Within, z
<1> HIDE DEF a, k
<1>4. d \in Seq(Int) /\ Len(d) = n
  BY UnwrittenBytes
<1> HIDE DEF d
<1>5. m \in Seq(Int) /\ Len(m) = b.size
  BY <1>2, <1>4, CopiedBytes
<1>6. Part(m, a, k) = w
  <2> HIDE DEF b, h, l
  <2>1. mem[b] \in Seq(Int) /\ h \in Nat /\ l \in Nat /\ Within(h, l, Len(mem[b]))
        /\ a \in Nat /\ k \in Nat /\ Adds(a, h, n) /\ Adds(l, k, n)
    BY <1>2, <1>3
  <2>2. Part(m, a, k) = Without(Part(mem[b], h, l), n)
    <3> DEFINE y == mem[b]
    <3>1. y \in Seq(Int) /\ Within(h, l, Len(y))
      BY <2>1
    <3> HIDE DEF y
    <3>2. Part(Copied(y, h, d), a, k) = Without(Part(y, h, l), n)
      <4>1. h \in Nat /\ l \in Nat /\ a \in Nat /\ k \in Nat /\ Adds(a, h, n) /\ Adds(l, k, n)
        BY <2>1
      <4> QED BY <1>4, <3>1, <4>1, BytesSkipped
    <3> QED BY <3>2 DEF y
  <2>3. Part(mem[b], h, l) = want[c]
    BY <1>2 DEF b, h, l
  <2> QED BY <2>2, <2>3 DEF Without
<1>7. w \in Seq(Int)
  BY <1>1, <1>2, DropElements
<1>8. cache' = [cache EXCEPT ![c] = [block |-> b, head |-> a, len |-> k]]
  <2>1. cache \in [Cache -> CacheType]
    BY <1>2 DEF MemOK
  <2>2. [x EXCEPT !.head = a, !.len = k] = [block |-> b, head |-> a, len |-> k]
    BY <1>2, CacheFields
  <2>3. cache' = [cache EXCEPT ![c] = [x EXCEPT !.head = a, !.len = k]]
    BY <1>1, <2>1
  <2> QED BY <2>2, <2>3
<1>9. Within(a, k, Len(m))
  BY <1>2, <1>3, <1>5
<1> HIDE DEF m, w
<1> QED BY <1>1, <1>2, <1>3, <1>5, <1>6, <1>7, <1>8, <1>9, SameBlock

\* A step of the caches keeps what holds.
LEMMA CacheStep == CacheInv /\ CacheNext => CacheInv'
<1> SUFFICES ASSUME CacheInv, NEW c \in Cache, NEW n \in Lengths, NEW stale \in SUBSET HalfSizes,
                    \/ Len(want[c]) + n <= MaxData /\ append(c, NextBytes(c, n), stale)
                    \/ skip(c, n, stale)
             PROVE  CacheInv'
  BY DEF CacheNext
<1> DEFINE d == NextBytes(c, n)
<1>1. n \in Nat
  BY CacheAssumption
<1>2. d \in Seq(Int) /\ Len(d) = n /\ Len(want[c]) \in Nat /\ (Empty(c) => want[c] = <<>>)
  BY <1>1, BytesToAppend
<1> HIDE DEF d
<1>3. CASE Len(want[c]) + n <= MaxData /\ AppendFirst(c, d, stale)
  <2>1. Len(want[c]) = 0
    BY <1>2, <1>3, EmptySeq DEF AppendFirst
  <2>2. Len(d) <= MaxData
    BY <1>1, <1>2, <1>3, <2>1
  <2> QED BY <1>2, <1>3, <2>2, FirstKeeps
<1>4. CASE AppendBehind(c, d)
  BY <1>2, <1>4, BehindKeeps
<1>5. CASE Len(want[c]) + n <= MaxData /\ AppendLarger(c, d, stale)
  BY <1>2, <1>5, LargerKeeps
<1>6. CASE AppendMoved(c, d)
  BY <1>2, <1>6, MovedKeeps
<1>7. CASE SkipAll(c, n, stale)
  BY <1>7, SkipAllKeeps
<1>8. CASE SkipSome(c, n)
  BY <1>1, <1>8, SkipSomeKeeps
<1> QED BY <1>3, <1>4, <1>5, <1>6, <1>7, <1>8 DEF append, skip, d

\* At first no cache has a block, and the pool has none.
LEMMA CacheStart == CacheInit => CacheInv
<1> SUFFICES ASSUME CacheInit PROVE CacheInv
  OBVIOUS
<1>1. NoCache \in CacheType /\ NoCache.block = NoBlock
  BY DEF NoCache, CacheType
<1>2. MemOK
  BY <1>1, EmptySeq DEF CacheInit, MemOK, Block
<1>3. \A c \in Cache : Empty(c) /\ want[c] = <<>>
  BY <1>1 DEF CacheInit, Empty
<1>4. pool = EmptyPool /\ PoolMax \in Nat
  BY PoolAssumption DEF CacheInit
<1>5. /\ pool.free = [s \in BlockSize |-> {}] /\ pool.live = [s \in BlockSize |-> {}]
      /\ pool.allocated = 0 /\ pool \in PoolType
  BY <1>4 DEF EmptyPool, PoolType
<1>6. \A s \in BlockSize : InUse(pool, s) = {}
  BY <1>5 DEF InUse
<1>7. UsedBlocks(pool) = {}
  BY <1>6 DEF UsedBlocks, Block
<1>8. Bytes(pool.live) = {}
  BY <1>5 DEF Bytes
<1>9. PoolOK
  <2>1. pool.allocated = Cardinality(Bytes(pool.live))
    BY <1>5, <1>8, FS_EmptySet
  <2>2. \A s \in BlockSize : pool.free[s] \subseteq pool.live[s]
    BY <1>5
  <2>3. pool.allocated <= PoolMax
    BY <1>4, <1>5
  <2> QED BY <1>5, <2>1, <2>2, <2>3 DEF PoolOK, PoolFit
<1>10. OwnBlock
  BY <1>3, <1>7 DEF OwnBlock
<1>11. \A c \in Cache : Holds(c) /\ Promise(c)
  BY <1>3 DEF Holds, Promise
<1> QED BY <1>2, <1>9, <1>10, <1>11 DEF CacheInv

\* The caches move by their own actions.
LEMMA CacheUnit == [Next]_vars => CacheNext \/ UNCHANGED cacheVars
BY DEF Next, vars

\* A step that leaves the caches alone keeps what holds.
LEMMA CacheIdle == CacheInv /\ UNCHANGED cacheVars => CacheInv'
<1> SUFFICES ASSUME CacheInv, UNCHANGED cacheVars PROVE CacheInv'
  OBVIOUS
<1>1. pool' = pool /\ cache' = cache /\ mem' = mem /\ want' = want
  BY DEF cacheVars
<1>2. PoolOK' /\ UsedBlocks(pool') = UsedBlocks(pool)
  BY <1>1 DEF CacheInv, PoolOK
<1> QED BY <1>1, <1>2, OnlyPool

\* CRawCache::append and skip, CMemPool::allocate and recycle: a cache holds the bytes that
\* were appended to it and not skipped, in their order, whatever becomes of its blocks.
THEOREM CachesKeepData == Spec => []CacheKeepsData
<1>1. Init => CacheInv
  BY CacheStart DEF Init
<1>2. CacheInv /\ [Next]_vars => CacheInv'
  BY CacheStep, CacheUnit, CacheIdle
<1>3. CacheInv => CacheKeepsData
  BY DEF CacheInv, Promise, CacheKeepsData
<1> QED BY <1>1, <1>2, <1>3, PTL DEF Spec

\* CMemPool::extend, release_size and release: the account of the pool is the size of the
\* blocks it has, and never more than the maximum.
THEOREM PoolStaysBounded == Spec => []PoolBounded
<1>1. Init => CacheInv
  BY CacheStart DEF Init
<1>2. CacheInv /\ [Next]_vars => CacheInv'
  BY CacheStep, CacheUnit, CacheIdle
<1>3. CacheInv => PoolBounded
  BY DEF CacheInv, PoolOK, PoolFit, PoolBounded
<1> QED BY <1>1, <1>2, <1>3, PTL DEF Spec
=============================================================================
