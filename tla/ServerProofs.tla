---------------------------- MODULE ServerProofs ----------------------------
(***************************************************************************)
(* Proofs about Server for any number of clients, connections, worker      *)
(* groups and processes, rings of any length, and any number of restarts   *)
(* of the proxy.                                                           *)
(***************************************************************************)
EXTENDS Server, FiniteSetsExt, FiniteSetTheorems, SequenceTheorems,
        WellFoundedInduction, NaturalsInduction, TLAPS

-----------------------------------------------------------------------------
(* Numbers and queues                                                      *)

\* What is left of a queue without its first n elements.
LEMMA DropElements ==
    ASSUME NEW S, NEW q \in Seq(S), NEW n \in Nat
    PROVE  /\ SubSeq(q, n + 1, Len(q)) \in Seq(S)
           /\ Len(SubSeq(q, n + 1, Len(q))) = IF n <= Len(q) THEN Len(q) - n ELSE 0
           /\ \A i \in 1 .. Len(q) - n : SubSeq(q, n + 1, Len(q))[i] = q[i + n]
<1>1. \A i \in n + 1 .. Len(q) : q[i] \in S
  OBVIOUS
<1> QED BY <1>1, SubSeqProperties

\* The smallest of some natural numbers.
LEMMA LeastNat ==
    ASSUME NEW T, T \subseteq Nat, T # {}
    PROVE  Min(T) \in T /\ \A y \in T : Min(T) <= y
<1> DEFINE R == {ss \in Nat \X Nat : ss[1] < ss[2]}
<1>1. IsWellFoundedOn(R, Nat)
  BY NatLessThanWellFounded DEF OpToRel
<1>2. \A x, y \in Nat : y < x => <<y, x>> \in R
  OBVIOUS
<1> HIDE DEF R
<1>3. \E x \in T : \A y \in T : <<y, x>> \notin R
  BY <1>1, WFMin
<1>4. \A x, y \in T : <<y, x>> \notin R => x <= y
  BY <1>2
<1> QED BY <1>3, <1>4 DEF Min

\* what the proxy tells workers beside data; messages, connections, the one in progress
EventType == {"connected", "overload", "timeout", "disconnect"}

Message == [flow : Nat, type : EventType \cup {"data"},
            body : Request \cup {None, CloseRequest}, life : Nat]

ConnType == [cl : Client, cache : Seq(Request)]

CurType == [flow : Nat, total : Nat, processed : Nat]

\* queues of messages in which the data are requests
DataOK(q) == /\ q \in Seq(Message)
             /\ \A i \in 1 .. Len(q) : q[i].type = "data" => q[i].body \in Request

RingsOK == /\ req \in [Group -> Seq(Message)] /\ \A g \in Group : DataOK(req[g])
           /\ rsp \in [Group -> Seq(Message)]

ConnOK == /\ flow \in Nat /\ life \in Nat
          /\ conn \in [DOMAIN conn -> ConnType]
          /\ DOMAIN conn \subseteq 1 .. flow
          /\ \A f, k \in DOMAIN conn : conn[f].cl = conn[k].cl => f = k

CurOK == cur # None => /\ cur \in CurType
                       /\ cur.flow \in DOMAIN conn
                       /\ cur.processed <= cur.total
                       /\ cur.total = Len(conn[cur.flow].cache)

ClientOK == /\ outbox \in [Client -> Seq(Request)]
            /\ handled \in [Request -> Nat]
            /\ sent \subseteq Request /\ IsFiniteSet(sent)

WorkerOK == /\ pending \in [Proc -> SUBSET Message]
            /\ \A w \in Proc : \A m \in pending[w] : m.type = "data" /\ m.body \in Request
            /\ gone \in [Group -> SUBSET (Nat \X Nat)]

\* The types, and which connection an ator_recvdata in progress is about.
TypeInv == RingsOK /\ ConnOK /\ CurOK /\ ClientOK /\ WorkerOK

-----------------------------------------------------------------------------
(* Responses                                                               *)

\* The messages whose flow was given out to the client they are of: if the flow
\* still names a connection of this life, it is the one of that client.
Owned == {m \in Message :
            /\ m.life <= life
            /\ m.life = life => /\ m.flow \in 1 .. flow
                                /\ m.flow \in DOMAIN conn => conn[m.flow].cl = m.body.cl}

\* What is in the rings and with a worker goes back to the client it is of.
OwnRequests == \A g \in Group : \A i \in 1 .. Len(req[g]) :
                 req[g][i].type = "data" => req[g][i] \in Owned

OwnResponses == \A g \in Group : \A i \in 1 .. Len(rsp[g]) :
                  rsp[g][i].body # CloseRequest => rsp[g][i] \in Owned

OwnPending == \A w \in Proc : pending[w] \subseteq Owned

\* What waits for a connection was sent by its client.
OwnInput == /\ \A c \in Client : \A i \in 1 .. Len(outbox[c]) : outbox[c][i].cl = c
            /\ \A f \in DOMAIN conn : \A i \in 1 .. Len(conn[f].cache) :
                 conn[f].cache[i].cl = conn[f].cl

OwnInv == OwnRequests /\ OwnResponses /\ OwnPending /\ OwnInput /\ AnswersReturn

-----------------------------------------------------------------------------
(* Ends of connections                                                     *)

\* the connections (life, flow) that are over: of an earlier life, or with a flow
\* that was given out and names no connection any more
Over == {id \in Nat \X Nat :
           id[1] < life \/ (id[1] = life /\ id[2] \in 1 .. flow /\ id[2] \notin DOMAIN conn)}

\* the connection a message is about, and the messages that end it
Id(m) == <<m.life, m.flow>>

Ends(m) == m.type \in {"timeout", "disconnect"}

\* An end in a ring, or one the workers have seen, is of a connection that is over.
OverInRing == \A g \in Group : \A i \in 1 .. Len(req[g]) :
                Ends(req[g][i]) => Id(req[g][i]) \in Over

OverGone == \A g \in Group : gone[g] \subseteq Over

EndInv == OverInRing /\ OverGone /\ DisconnectLast

-----------------------------------------------------------------------------
(* Requests                                                                *)

\* the requests that wait in the caches, and those in the rings
rest == [f \in DOMAIN conn |-> SubSeq(conn[f].cache, Done(f) + 1, Len(conn[f].cache))]
data == [g \in Group |-> DataIn(req[g], Len(req[g]))]

inOutbox == {r \in Request : r \in Range(outbox[r.cl])}
inCache == UNION {Range(rest[f]) : f \in DOMAIN conn}
inReq == UNION {data[g] : g \in Group}

\* no request is twice in q
DataOnce(q) == \A i, j \in 1 .. Len(q) :
                 q[i].type = "data" /\ q[j].type = "data" /\ q[i].body = q[j].body => i = j

\* A request is not twice in one place.
OnceOutbox == \A c \in Client : IsInjective(outbox[c])
OnceCache == \A f \in DOMAIN conn : IsInjective(rest[f])
OnceRing == /\ \A g \in Group : DataOnce(req[g])
            /\ \A g, h \in Group : g # h => data[g] \cap data[h] = {}

One(p) == IF p THEN 1 ELSE 0

\* the requests that are in no other place: given up, or not kept by a full ring
dropped == lost \cup unkept

\* in how many kinds of places a request is
Kinds(r) == One(r \in inOutbox) + One(r \in inCache) + One(r \in inReq) + handled[r] + One(r \in dropped)

OnePlace == \A r \in Request : Kinds(r) = One(r \in sent)

\* Only a client that is connected has data under way.
Connected == \A c \in Client : outbox[c] # <<>> => \E f \in DOMAIN conn : conn[f].cl = c

\* The requests of a client are numbered from 1 on.
OfClient(c) == {q \in sent : q.cl = c}
Numbered == \A q \in sent : q.n <= Cardinality(OfClient(q.cl))

\* A ring holds no more than it has room for.
Bounded == \A g \in Group : Len(req[g]) <= RingLen

\* Every request that was sent is in one place; and what that rests on.
Placed == OnceOutbox /\ OnceCache /\ OnceRing /\ OnePlace

PlaceInv == Placed /\ Connected /\ Numbered /\ Bounded

-----------------------------------------------------------------------------
(* Queues                                                                  *)

\* What put leaves in a ring: the old messages, and at most the new one behind.
LEMMA PutElements ==
    ASSUME NEW S, NEW q \in Seq(S), NEW m \in S
    PROVE  /\ Put(q, m) \in Seq(S)
           /\ Len(Put(q, m)) \in {Len(q), Len(q) + 1}
           /\ \A i \in 1 .. Len(Put(q, m)) :
                Put(q, m)[i] = IF i <= Len(q) THEN q[i] ELSE m
BY DEF Put

\* The events of a connection go behind the messages of a ring.
LEMMA RoutedElements ==
    ASSUME NEW rings \in [Group -> Seq(Message)], NEW f \in Nat, NEW type \in EventType,
           NEW r \in EventRoute, life \in Nat, NEW g \in Group
    PROVE  LET s == Routed(rings, f, type, r)[g]
           IN  /\ s \in Seq(Message)
               /\ Len(s) \in {Len(rings[g]), Len(rings[g]) + 1}
               /\ \A i \in 1 .. Len(s) :
                    s[i] = IF i <= Len(rings[g]) THEN rings[g][i] ELSE Msg(f, type, None, life)
<1> DEFINE m == Msg(f, type, None, life)
           s == Routed(rings, f, type, r)[g]
<1>1. m \in Message
  BY DEF Msg, Message
<1>2. s \in {rings[g], Put(rings[g], m)}
  BY DEF Routed
<1>3. rings[g] \in Seq(Message)
  OBVIOUS
<1> HIDE DEF m, s
<1>4. CASE s = rings[g]
  BY <1>3, <1>4, LenProperties DEF m, s
<1>5. CASE s = Put(rings[g], m)
  BY <1>1, <1>3, <1>5, PutElements DEF m, s
<1> QED BY <1>2, <1>4, <1>5

-----------------------------------------------------------------------------
(* Types                                                                   *)

\* what Close, and the close that a local handler asks for, do to the tables
Gone(f) == /\ conn' = Restrict(conn, DOMAIN conn \ {f})
           /\ outbox' = [outbox EXCEPT ![conn[f].cl] = <<>>]

\* Closing a connection takes it out of the table and leaves the others alone.
LEMMA CloseStep ==
    ASSUME TypeInv, NEW f \in DOMAIN conn, Gone(f)
    PROVE  /\ DOMAIN conn' = DOMAIN conn \ {f}
           /\ conn' \in [DOMAIN conn' -> ConnType]
           /\ \A k \in DOMAIN conn' : conn'[k] = conn[k]
           /\ conn[f].cl \in Client
           /\ outbox' \in [Client -> Seq(Request)]
           /\ \A c \in Client : outbox'[c] = IF c = conn[f].cl THEN <<>> ELSE outbox[c]
<1>1. conn' = [k \in DOMAIN conn \ {f} |-> conn[k]]
  BY DEF Gone, Restrict
<1>2. conn[f].cl \in Client
  BY DEF TypeInv, ConnOK, ConnType
<1>3. /\ outbox' \in [Client -> Seq(Request)]
      /\ \A c \in Client : outbox'[c] = IF c = conn[f].cl THEN <<>> ELSE outbox[c]
  BY <1>2 DEF TypeInv, ClientOK, Gone
<1>4. DOMAIN conn' = DOMAIN conn \ {f} /\ \A k \in DOMAIN conn' : conn'[k] = conn[k]
  BY <1>1
<1>5. \A k \in DOMAIN conn : conn[k] \in ConnType
  BY DEF TypeInv, ConnOK
<1> QED BY <1>1, <1>2, <1>3, <1>4, <1>5

\* ator_recvdata returns: the cache loses what was processed.
LEMMA ReturnStep ==
    ASSUME TypeInv, cur # None, NEW n \in Nat, Return(n)
    PROVE  /\ DOMAIN conn' = DOMAIN conn
           /\ conn' \in [DOMAIN conn' -> ConnType]
           /\ \A k \in DOMAIN conn : /\ conn'[k].cl = conn[k].cl
                                     /\ k # cur.flow => conn'[k] = conn[k]
           /\ conn'[cur.flow].cache =
                SubSeq(conn[cur.flow].cache, n + 1, Len(conn[cur.flow].cache))
<1> DEFINE q == conn[cur.flow].cache
<1>1. cur.flow \in DOMAIN conn /\ conn[cur.flow] \in ConnType
  BY DEF TypeInv, ConnOK, CurOK
<1>2. q \in Seq(Request)
  BY <1>1 DEF ConnType
<1>3. SubSeq(q, n + 1, Len(q)) \in Seq(Request)
  BY <1>2, DropElements
<1>4. conn' = [conn EXCEPT ![cur.flow].cache = SubSeq(q, n + 1, Len(q))]
  BY DEF Return
<1> QED BY <1>1, <1>3, <1>4 DEF TypeInv, ConnOK, ConnType

\* The request ator_recvdata looks at.
LEMMA Head1Type ==
    ASSUME TypeInv, More
    PROVE  /\ cur \in CurType /\ cur.flow \in DOMAIN conn
           /\ cur.processed + 1 \in 1 .. Len(conn[cur.flow].cache)
           /\ Head1 \in Request
<1>1. cur \in CurType /\ cur.flow \in DOMAIN conn /\ cur.processed < cur.total
  BY DEF More, TypeInv, CurOK
<1>2. cur.total = Len(conn[cur.flow].cache)
  BY DEF More, TypeInv, CurOK
<1>3. conn[cur.flow].cache \in Seq(Request)
  BY <1>1 DEF TypeInv, ConnOK, ConnType
<1>4. cur.processed + 1 \in 1 .. Len(conn[cur.flow].cache)
  BY <1>1, <1>2, <1>3 DEF CurType
<1> QED BY <1>1, <1>3, <1>4, ElementOfSeq DEF Head1

\* FlowFor, if there is one, gives a flow that has not been given out.
LEMMA FlowForNew ==
    ASSUME TypeInv, FlowFor # {}
    PROVE  Min(FlowFor) \in Nat /\ Min(FlowFor) > flow
<1>1. FlowFor \subseteq Nat /\ \A k \in FlowFor : k > flow
  BY ProxyAssumption DEF FlowFor, TypeInv, ConnOK
<1> QED BY <1>1, LeastNat

\* An answer, and a request to close, are messages.
LEMMA AnswerType ==
    ASSUME NEW m \in Message, m.body \in Request
    PROVE  Answer(m) \in Message /\ Closing(m) \in Message
BY DEF Answer, Closing, Msg, Message

\* Requests that are forwarded are requests, and events are none.
LEMMA AppendData ==
    ASSUME NEW q, DataOK(q), NEW m \in Message, m.type = "data" => m.body \in Request
    PROVE  DataOK(Append(q, m)) /\ DataOK(Put(q, m))
<1>1. q \in Seq(Message) /\ Append(q, m) \in Seq(Message)
  BY AppendProperties DEF DataOK
<1>2. DataOK(Append(q, m))
  BY <1>1, AppendProperties DEF DataOK
<1> QED BY <1>2 DEF Put

\* Taking messages off a ring leaves requests in its data.
LEMMA DropData ==
    ASSUME NEW q, DataOK(q), NEW n \in Nat
    PROVE  DataOK(SubSeq(q, n + 1, Len(q)))
<1> DEFINE s == SubSeq(q, n + 1, Len(q))
<1>1. q \in Seq(Message) /\ Len(q) \in Nat
  BY DEF DataOK
<1>2. /\ s \in Seq(Message)
      /\ Len(s) = IF n <= Len(q) THEN Len(q) - n ELSE 0
      /\ \A i \in 1 .. Len(q) - n : s[i] = q[i + n]
  BY <1>1, DropElements
<1> HIDE DEF s
<1>3. \A i \in 1 .. Len(s) : i + n \in 1 .. Len(q) /\ s[i] = q[i + n]
  BY <1>1, <1>2
<1>4. DataOK(s)
  BY <1>2, <1>3 DEF DataOK
<1> QED BY <1>4 DEF s

\* A message about a connection leaves the data of the rings as they were.
LEMMA RoutedData ==
    ASSUME NEW rings \in [Group -> Seq(Message)], \A g \in Group : DataOK(rings[g]),
           NEW f \in Nat, NEW type \in EventType, NEW r \in EventRoute, life \in Nat
    PROVE  /\ Routed(rings, f, type, r) \in [Group -> Seq(Message)]
           /\ \A g \in Group : DataOK(Routed(rings, f, type, r)[g])
<1>1. Msg(f, type, None, life) \in Message /\ Msg(f, type, None, life).type # "data"
  BY DEF Msg, Message, EventType
<1>2. \A g \in Group : DataOK(Put(rings[g], Msg(f, type, None, life)))
  BY <1>1, AppendData
<1>3. \A g \in Group : DataOK(Routed(rings, f, type, r)[g])
  BY <1>2 DEF Routed
<1>4. \A g \in Group : Routed(rings, f, type, r)[g] \in Seq(Message)
  BY RoutedElements
<1> QED BY <1>3, <1>4 DEF Routed

\* What the acceptor takes of a ring.
LEMMA PollStep ==
    ASSUME TypeInv, NEW w \in Proc, Poll(w)
    PROVE  \E n \in 0 .. Len(req[w.group]) :
             LET q == req[w.group]
             IN  /\ w.group \in Group /\ DataOK(q)
                 /\ req' = [req EXCEPT ![w.group] = SubSeq(q, n + 2, Len(q))]
                 /\ lost' = lost \cup DataIn(q, n)
                 /\ \/ /\ n = Len(q)
                       /\ UNCHANGED <<rsp, handled, workerVars>>
                    \/ /\ n < Len(q) /\ q[n + 1] \in Message
                       /\ q[n + 1].type = "data" /\ q[n + 1].body \in Request
                       /\ Process(w, q[n + 1])
                       /\ UNCHANGED gone
                    \/ /\ n < Len(q) /\ q[n + 1] \in Message /\ q[n + 1].type # "data"
                       /\ Tell(w, q[n + 1])
                       /\ UNCHANGED <<rsp, handled, pending>>
                 /\ UNCHANGED <<local, life, flow, conn, cur, sent, outbox, there, unkept, got>>
<1>1. w.group \in Group
  BY WorkerAssumption
<1>2. DataOK(req[w.group]) /\ req[w.group] \in Seq(Message)
  BY <1>1 DEF TypeInv, RingsOK
<1>3. Skipped(req[w.group]) \subseteq 0 .. Len(req[w.group])
  BY <1>2 DEF Skipped
<1>4. \A n \in 0 .. Len(req[w.group]) : n < Len(req[w.group]) =>
        /\ req[w.group][n + 1] \in Message
        /\ req[w.group][n + 1].type = "data" => req[w.group][n + 1].body \in Request
  <2>1. ASSUME NEW n \in 0 .. Len(req[w.group]), n < Len(req[w.group])
        PROVE  n + 1 \in 1 .. Len(req[w.group])
    BY <2>1, <1>2
  <2> QED BY <1>2, <2>1, ElementOfSeq DEF DataOK
<1> QED BY <1>1, <1>2, <1>3, <1>4 DEF Poll

\* The requests in the rings stay requests.
LEMMA RingsStep == TypeInv /\ [Next]_vars => RingsOK'
<1> SUFFICES ASSUME TypeInv, [Next]_vars PROVE RingsOK'
  OBVIOUS
<1>0. /\ RingsOK /\ life \in Nat /\ flow \in Nat /\ flow + 1 \in Nat
      /\ req \in [Group -> Seq(Message)] /\ \A g \in Group : DataOK(req[g])
      /\ rsp \in [Group -> Seq(Message)]
  BY DEF TypeInv, ConnOK, RingsOK
<1>1. ASSUME UNCHANGED req, UNCHANGED rsp PROVE RingsOK'
  BY <1>0, <1>1 DEF RingsOK
<1>2. ASSUME NEW c \in Client, Accept(c) PROVE RingsOK'
  <2>1. rsp' = rsp
    BY <1>2 DEF Accept
  <2>2. CASE req' = req
    BY <1>1, <2>1, <2>2
  <2>3. ASSUME NEW r \in EventRoute, req' = Routed(req, flow + 1, "connected", r)
        PROVE  RingsOK'
    BY <1>0, <2>1, <2>3, RoutedData DEF RingsOK, EventType
  <2>4. ASSUME NEW r1 \in EventRoute, NEW r2 \in EventRoute,
               req' = Routed(Routed(req, flow + 1, "connected", r1), 0, "overload", r2)
        PROVE  RingsOK'
    <3> DEFINE R == Routed(req, flow + 1, "connected", r1)
    <3>1. R \in [Group -> Seq(Message)] /\ \A g \in Group : DataOK(R[g])
      BY <1>0, RoutedData DEF EventType
    <3> HIDE DEF R
    <3>2. req' = Routed(R, 0, "overload", r2)
      BY <2>4 DEF R
    <3> QED BY <1>0, <2>1, <3>1, <3>2, RoutedData DEF RingsOK, EventType
  <2> QED BY <1>2, <2>2, <2>3, <2>4 DEF Accept
<1>3. ASSUME NEW f \in DOMAIN conn, NEW type \in {"disconnect", "timeout"}, Leave(f, type)
      PROVE  RingsOK'
  <2>1. f \in Nat /\ type \in EventType
    BY DEF TypeInv, ConnOK, EventType
  <2>2. PICK r \in EventRoute : req' = Routed(req, f, type, r)
    BY <1>3 DEF Leave
  <2>3. rsp' = rsp
    BY <1>3 DEF Leave
  <2> QED BY <1>0, <2>1, <2>2, <2>3, RoutedData DEF RingsOK
<1>4. ASSUME NEW g \in Group, RecvForward(g) PROVE RingsOK'
  <2> DEFINE m == Msg(cur.flow, "data", Head1, life)
  <2>1. cur.flow \in Nat /\ Head1 \in Request
    BY <1>4, Head1Type DEF RecvForward, CurType
  <2>2. m \in Message /\ m.type = "data" /\ m.body \in Request
    BY <1>0, <2>1 DEF Msg, Message
  <2>3. req' = [req EXCEPT ![g] = Append(req[g], m)] /\ rsp' = rsp
    BY <1>4 DEF RecvForward
  <2> HIDE DEF m
  <2>4. DataOK(Append(req[g], m)) /\ Append(req[g], m) \in Seq(Message)
    BY <1>0, <2>2, AppendData DEF DataOK
  <2> QED BY <1>0, <2>3, <2>4 DEF RingsOK
<1>5. ASSUME NEW g \in Group, Respond(g) PROVE RingsOK'
  <2>1. rsp[g] \in Seq(Message) /\ rsp[g] # <<>>
    BY <1>0, <1>5 DEF Respond
  <2>2. Tail(rsp[g]) \in Seq(Message)
    BY <2>1, HeadTailProperties
  <2>3. rsp' = [rsp EXCEPT ![g] = Tail(rsp[g])] /\ req' = req
    BY <1>5 DEF Respond
  <2> QED BY <1>0, <2>2, <2>3 DEF RingsOK
<1>6. ASSUME NEW w \in Proc, NEW m \in Message
      PROVE  rsp[w.group] \in Seq(Message) /\ Put(rsp[w.group], m) \in Seq(Message)
  BY <1>0, WorkerAssumption, PutElements
<1>7. ASSUME NEW w \in Proc, Poll(w) PROVE RingsOK'
  <2> DEFINE q == req[w.group]
  <2>1. PICK n \in 0 .. Len(q) :
          /\ w.group \in Group /\ DataOK(q)
          /\ req' = [req EXCEPT ![w.group] = SubSeq(q, n + 2, Len(q))]
          /\ \/ UNCHANGED rsp
             \/ q[n + 1] \in Message /\ q[n + 1].body \in Request /\ Process(w, q[n + 1])
    BY <1>7, PollStep
  <2>2. DataOK(SubSeq(q, n + 2, Len(q))) /\ SubSeq(q, n + 2, Len(q)) \in Seq(Message)
    <3>1. n + 1 \in Nat /\ n + 1 + 1 = n + 2
      OBVIOUS
    <3>2. DataOK(SubSeq(q, n + 1 + 1, Len(q)))
      BY <2>1, <3>1, DropData
    <3> QED BY <3>1, <3>2 DEF DataOK
  <2> HIDE DEF q
  <2>3. req' \in [Group -> Seq(Message)] /\ \A g \in Group : DataOK(req'[g])
    BY <1>0, <2>1, <2>2
  <2>4. rsp' \in [Group -> Seq(Message)]
    <3>1. CASE UNCHANGED rsp
      BY <1>0, <3>1
    <3>2. ASSUME NEW m \in Message, m.body \in Request, Process(w, m)
          PROVE  rsp' \in [Group -> Seq(Message)]
      <4> DEFINE answered == Put(rsp[w.group], Answer(m))
      <4>1. Answer(m) \in Message /\ Closing(m) \in Message
        BY <3>2, AnswerType
      <4>2. answered \in Seq(Message) /\ Put(rsp[w.group], Closing(m)) \in Seq(Message)
        BY <1>6, <4>1
      <4>3. \/ rsp' = [rsp EXCEPT ![w.group] = answered]
            \/ rsp' = [rsp EXCEPT ![w.group] = Put(answered, Closing(m))]
            \/ rsp' = [rsp EXCEPT ![w.group] = Put(rsp[w.group], Closing(m))]
            \/ rsp' = rsp
        BY <3>2 DEF Process
      <4> HIDE DEF answered
      <4>4. Put(answered, Closing(m)) \in Seq(Message)
        BY <4>1, <4>2, PutElements
      <4> QED BY <1>0, <4>2, <4>3, <4>4
    <3> QED BY <2>1, <3>1, <3>2
  <2> QED BY <2>3, <2>4 DEF RingsOK
<1>8. ASSUME NEW w \in Proc, BackAnswer(w) PROVE RingsOK'
  <2>1. PICK m \in pending[w] : rsp' = [rsp EXCEPT ![w.group] = Put(rsp[w.group], Answer(m))]
    BY <1>8 DEF BackAnswer
  <2>2. Answer(m) \in Message
    BY AnswerType DEF TypeInv, WorkerOK
  <2>3. req' = req
    BY <1>8 DEF BackAnswer
  <2>4. Put(rsp[w.group], Answer(m)) \in Seq(Message)
    BY <1>6, <2>2
  <2> QED BY <1>0, <2>1, <2>3, <2>4 DEF RingsOK
<1> QED
  BY <1>1, <1>2, <1>3, <1>4, <1>5, <1>7, <1>8
  DEF Next, ProxyNext, WorkerNext, Sends, Recv, RecvEnd, RecvBad, RecvLong, RecvLocal,
      RecvNoRoute, RecvFull, Restart, WorkerRestart, vars

\* how a step may change the table of connections and the flows given out
FlowsKept ==
    \/ life' = life + 1 /\ flow' = 0 /\ DOMAIN conn' = {}
    \/ /\ life' = life /\ flow' \in Nat /\ flow <= flow'
       /\ \A f \in DOMAIN conn' : \/ f \in DOMAIN conn /\ conn'[f].cl = conn[f].cl
                                  \/ f \in flow + 1 .. flow'

\* The proxy of one life never gives a flow to a second connection, and a
\* connection keeps its client: addconn only counts flow_ up.
LEMMA FlowsStep == TypeInv /\ [Next]_vars => ConnOK' /\ FlowsKept
<1> SUFFICES ASSUME TypeInv, [Next]_vars PROVE ConnOK' /\ FlowsKept
  OBVIOUS
<1>0. /\ flow \in Nat /\ life \in Nat /\ conn \in [DOMAIN conn -> ConnType]
      /\ DOMAIN conn \subseteq 1 .. flow
      /\ \A f, k \in DOMAIN conn : conn[f].cl = conn[k].cl => f = k
  BY DEF TypeInv, ConnOK
<1>1. ASSUME UNCHANGED <<flow, life>>, conn' \in [DOMAIN conn' -> ConnType],
             DOMAIN conn' \subseteq DOMAIN conn,
             \A k \in DOMAIN conn' : conn'[k].cl = conn[k].cl
      PROVE  ConnOK' /\ FlowsKept
  BY <1>0, <1>1 DEF ConnOK, FlowsKept
<1>2. ASSUME UNCHANGED <<flow, life, conn>> PROVE ConnOK' /\ FlowsKept
  BY <1>0, <1>1, <1>2
<1>3. ASSUME UNCHANGED <<flow, life>>, NEW f \in DOMAIN conn, Gone(f)
      PROVE  ConnOK' /\ FlowsKept
  BY <1>1, <1>3, CloseStep
<1>4. ASSUME UNCHANGED <<flow, life>>, cur # None, NEW n \in Nat, Return(n)
      PROVE  ConnOK' /\ FlowsKept
  BY <1>1, <1>4, ReturnStep
<1>5. ASSUME NEW c \in Client, Accept(c) PROVE ConnOK' /\ FlowsKept
  <2>1. life' = life /\ \A f \in DOMAIN conn : conn[f].cl # c
    BY <1>5 DEF Accept
  <2>2. ASSUME flow' \in Nat, flow' > flow, conn' = conn PROVE ConnOK' /\ FlowsKept
    BY <1>0, <2>1, <2>2 DEF ConnOK, FlowsKept
  <2>3. CASE /\ FlowFor # {} /\ flow' = Min(FlowFor)
             /\ conn' = [f \in DOMAIN conn \cup {Min(FlowFor)} |->
                           IF f \in DOMAIN conn THEN conn[f] ELSE [cl |-> c, cache |-> <<>>]]
    <3> DEFINE k == Min(FlowFor)
               new == [cl |-> c, cache |-> <<>>]
    <3>1. k \in Nat /\ k > flow /\ new \in ConnType /\ new.cl = c
      BY <2>3, FlowForNew DEF ConnType
    <3>2. /\ flow' = k
          /\ conn' = [f \in DOMAIN conn \cup {k} |-> IF f \in DOMAIN conn THEN conn[f] ELSE new]
      BY <2>3
    <3> HIDE DEF k, new
    <3>3. k \notin DOMAIN conn
      BY <1>0, <3>1
    <3>5. /\ DOMAIN conn' = DOMAIN conn \cup {k} /\ conn'[k] = new
          /\ \A f \in DOMAIN conn : conn'[f] = conn[f]
          /\ conn' \in [DOMAIN conn' -> ConnType]
      BY <1>0, <3>1, <3>2, <3>3
    <3>6. DOMAIN conn' \subseteq 1 .. flow' /\ flow' \in Nat
      BY <1>0, <3>1, <3>2, <3>5
    <3>7. \A f, h \in DOMAIN conn' : conn'[f].cl = conn'[h].cl => f = h
      BY <1>0, <2>1, <3>1, <3>5
    <3>8. ConnOK'
      BY <1>0, <2>1, <3>5, <3>6, <3>7 DEF ConnOK
    <3> QED BY <1>0, <2>1, <3>1, <3>2, <3>5, <3>8 DEF FlowsKept
  <2>4. flow + 1 \in Nat /\ flow + 1 > flow /\ flow + 1 + MaxConn \in Nat /\ flow + 1 + MaxConn > flow
    BY <1>0, ProxyAssumption
  <2> QED BY <1>5, <2>2, <2>3, <2>4 DEF Accept
<1>6. ASSUME NEW f \in DOMAIN conn, Recv(f) PROVE ConnOK' /\ FlowsKept
  <2>1. PICK n \in 1 .. Len(outbox[conn[f].cl]) :
          conn' = [conn EXCEPT ![f].cache = conn[f].cache \o SubSeq(outbox[conn[f].cl], 1, n)]
    BY <1>6 DEF Recv
  <2> DEFINE q == outbox[conn[f].cl]
             s == conn[f].cache \o SubSeq(q, 1, n)
  <2>2. conn[f].cache \in Seq(Request) /\ q \in Seq(Request)
    BY <1>0 DEF ConnType, TypeInv, ClientOK
  <2>3. \A i \in 1 .. n : q[i] \in Request
    BY <2>2, ElementOfSeq
  <2>4. SubSeq(q, 1, n) \in Seq(Request)
    BY <2>2, <2>3, SubSeqProperties
  <2>5. s \in Seq(Request)
    BY <2>2, <2>4, ConcatProperties
  <2>6. conn' = [conn EXCEPT ![f].cache = s]
    BY <2>1
  <2> HIDE DEF q, s
  <2>7. /\ DOMAIN conn' = DOMAIN conn /\ conn' \in [DOMAIN conn' -> ConnType]
        /\ \A k \in DOMAIN conn' : conn'[k].cl = conn[k].cl
    BY <1>0, <2>5, <2>6 DEF ConnType
  <2>8. UNCHANGED <<flow, life>>
    BY <1>6 DEF Recv
  <2> QED BY <1>1, <2>7, <2>8
<1>7. ASSUME NEW f \in DOMAIN conn, NEW type \in {"disconnect", "timeout"}, Leave(f, type)
      PROVE  ConnOK' /\ FlowsKept
  BY <1>3, <1>7 DEF Leave, Close, Gone
<1>8. ASSUME RecvEnd PROVE ConnOK' /\ FlowsKept
  <2>1. cur \in CurType
    BY <1>8 DEF RecvEnd, TypeInv, CurOK
  <2> QED BY <1>4, <1>8, <2>1 DEF RecvEnd, CurType
<1>9. ASSUME More,
             \/ RecvBad \/ RecvLong \/ RecvLocal \/ RecvNoRoute
             \/ \E g \in Group : RecvFull(g)
      PROVE  ConnOK' /\ FlowsKept
  <2>1. cur \in CurType /\ cur.flow \in DOMAIN conn /\ cur # None
    BY <1>9, Head1Type DEF More
  <2>2. UNCHANGED <<flow, life>>
    BY <1>9 DEF RecvBad, RecvLong, RecvLocal, RecvNoRoute, RecvFull
  <2>3. cur.total \in Nat /\ Counted(FALSE) \in Nat
    BY <2>1 DEF Counted, CurType
  <2>4. \/ Return(cur.total) \/ Return(Counted(FALSE)) \/ Gone(cur.flow) \/ UNCHANGED conn
    BY <1>9 DEF RecvBad, RecvLong, RecvLocal, RecvNoRoute, RecvFull, Close, Gone
  <2> QED BY <1>2, <1>3, <1>4, <2>1, <2>2, <2>3, <2>4
<1>10. ASSUME NEW g \in Group, Respond(g) PROVE ConnOK' /\ FlowsKept
  <2>1. UNCHANGED <<flow, life>>
    BY <1>10 DEF Respond
  <2>2. \/ UNCHANGED conn \/ \E f \in DOMAIN conn : Gone(f)
    BY <1>10 DEF Respond, Addressee, Close, Gone
  <2> QED BY <1>2, <1>3, <2>1, <2>2
<1>11. ASSUME Restart PROVE ConnOK' /\ FlowsKept
  <2>1. life' = life + 1 /\ flow' = 0 /\ conn' = <<>>
    BY <1>11 DEF Restart
  <2>2. conn' \in Seq(ConnType) /\ Len(conn') = 0
    BY <2>1
  <2>3. DOMAIN conn' = {} /\ conn' \in [DOMAIN conn' -> ConnType]
    BY <2>2, LenProperties
  <2> QED BY <1>0, <2>1, <2>3 DEF ConnOK, FlowsKept
<1>12. ASSUME NEW g \in Group, RecvForward(g) PROVE ConnOK' /\ FlowsKept
  BY <1>2, <1>12 DEF RecvForward
<1>13. ASSUME NEW c \in Client, Sends(c) PROVE ConnOK' /\ FlowsKept
  BY <1>2, <1>13 DEF Sends
<1>14. ASSUME WorkerNext PROVE ConnOK' /\ FlowsKept
  BY <1>2, <1>14 DEF WorkerNext, Poll, BackAnswer, WorkerRestart, proxyVars
<1>15. CASE UNCHANGED vars
  BY <1>2, <1>15 DEF vars, proxyVars
<1> QED
  BY <1>5, <1>6, <1>7, <1>8, <1>9, <1>10, <1>11, <1>12, <1>13, <1>14, <1>15
  DEF Next, ProxyNext, RecvBad, RecvLong, RecvLocal, RecvNoRoute, RecvFull

\* An ator_recvdata in progress is about a connection that is there, and its
\* cache is the one the call began with: nothing else runs in the proxy meanwhile.
LEMMA CurStep == TypeInv /\ [Next]_vars => CurOK'
<1> SUFFICES ASSUME TypeInv, [Next]_vars PROVE CurOK'
  OBVIOUS
<1>1. ASSUME UNCHANGED <<conn, cur>> PROVE CurOK'
  BY <1>1 DEF TypeInv, CurOK, CurType
<1>2. ASSUME cur' = None PROVE CurOK'
  BY <1>2 DEF CurOK
<1>3. ASSUME NEW f \in DOMAIN conn, Recv(f) PROVE CurOK'
  <2>1. PICK n \in 1 .. Len(outbox[conn[f].cl]) :
          LET cache == conn[f].cache \o SubSeq(outbox[conn[f].cl], 1, n)
          IN  /\ conn' = [conn EXCEPT ![f].cache = cache]
              /\ cur' = [flow |-> f, total |-> Len(cache), processed |-> 0]
    BY <1>3 DEF Recv
  <2> DEFINE q == outbox[conn[f].cl]
             s == conn[f].cache \o SubSeq(q, 1, n)
  <2>2. conn[f].cache \in Seq(Request) /\ q \in Seq(Request) /\ f \in Nat
    BY DEF ConnType, TypeInv, ClientOK, ConnOK
  <2>3. \A i \in 1 .. n : q[i] \in Request
    BY <2>2, ElementOfSeq
  <2>4. SubSeq(q, 1, n) \in Seq(Request)
    BY <2>2, <2>3, SubSeqProperties
  <2>5. s \in Seq(Request)
    BY <2>2, <2>4, ConcatProperties
  <2>6. /\ conn' = [conn EXCEPT ![f].cache = s]
        /\ cur' = [flow |-> f, total |-> Len(s), processed |-> 0]
    BY <2>1
  <2> HIDE DEF q, s
  <2>7. conn'[f].cache = s /\ DOMAIN conn' = DOMAIN conn
    BY <2>6 DEF TypeInv, ConnOK, ConnType
  <2>8. Len(s) \in Nat
    BY <2>5, LenProperties
  <2> QED BY <2>2, <2>6, <2>7, <2>8 DEF CurOK, CurType
<1>4. ASSUME More, conn' = conn, cur' = [cur EXCEPT !.processed = cur.processed + 1]
      PROVE  CurOK'
  <2>1. cur \in CurType /\ cur.flow \in DOMAIN conn /\ cur.processed < cur.total
    BY <1>4, Head1Type DEF More
  <2>2. cur.total = Len(conn[cur.flow].cache)
    BY <1>4 DEF TypeInv, CurOK, More
  <2> QED BY <1>4, <2>1, <2>2 DEF CurOK, CurType
<1>5. ASSUME NEW g \in Group, RecvForward(g) PROVE CurOK'
  BY <1>4, <1>5 DEF RecvForward, Counted
<1>6. ASSUME NEW g \in Group, RecvFull(g) PROVE CurOK'
  BY <1>2, <1>4, <1>6 DEF RecvFull, Return, Counted
<1>7. ASSUME RecvLocal PROVE CurOK'
  BY <1>2, <1>4, <1>7 DEF RecvLocal, Counted
<1> QED
  BY <1>1, <1>2, <1>3, <1>5, <1>6, <1>7
  DEF Next, ProxyNext, WorkerNext, Accept, Sends, RecvEnd, RecvBad, RecvLong, RecvNoRoute,
      Return, Leave, Respond, Restart, Poll, BackAnswer, WorkerRestart, vars, proxyVars

\* What clients send, and what is counted for the requests.
LEMMA ClientStep == TypeInv /\ [Next]_vars => ClientOK'
<1> SUFFICES ASSUME TypeInv, [Next]_vars PROVE ClientOK'
  OBVIOUS
<1>0. /\ outbox \in [Client -> Seq(Request)] /\ handled \in [Request -> Nat]
      /\ sent \subseteq Request /\ IsFiniteSet(sent)
  BY DEF TypeInv, ClientOK
<1>1. ASSUME UNCHANGED <<sent, handled>>, outbox' \in [Client -> Seq(Request)]
      PROVE  ClientOK'
  BY <1>0, <1>1 DEF ClientOK
<1>2. ASSUME UNCHANGED <<sent, handled, outbox>> PROVE ClientOK'
  BY <1>0, <1>2 DEF ClientOK
<1>3. ASSUME UNCHANGED <<sent, handled>>, NEW f \in DOMAIN conn, Gone(f) PROVE ClientOK'
  BY <1>1, <1>3, CloseStep
<1>4. ASSUME UNCHANGED sent, outbox' \in [Client -> Seq(Request)], NEW r \in Request,
             handled' = [handled EXCEPT ![r] = @ + 1]
      PROVE  ClientOK'
  BY <1>0, <1>4 DEF ClientOK
<1>5. ASSUME NEW c \in Client, Sends(c) PROVE ClientOK'
  <2> DEFINE r == [cl |-> c, n |-> 1 + Cardinality({q \in sent : q.cl = c})]
  <2>1. IsFiniteSet({q \in sent : q.cl = c})
    BY <1>0, FS_Subset
  <2>2. r \in Request
    BY <1>5, <2>1, FS_CardinalityType, ProxyAssumption DEF Sends, Request
  <2>3. sent' = sent \cup {r} /\ outbox' = [outbox EXCEPT ![c] = Append(outbox[c], r)] /\ handled' = handled
    BY <1>5 DEF Sends
  <2> HIDE DEF r
  <2>4. IsFiniteSet(sent')
    BY <1>0, <2>3, FS_AddElement
  <2>5. outbox[c] \in Seq(Request)
    BY <1>0
  <2>6. Append(outbox[c], r) \in Seq(Request)
    BY <2>2, <2>5, AppendProperties
  <2> QED BY <1>0, <2>2, <2>3, <2>4, <2>6 DEF ClientOK
<1>6. ASSUME NEW f \in DOMAIN conn, Recv(f) PROVE ClientOK'
  <2>1. conn[f].cl \in Client
    BY DEF TypeInv, ConnOK, ConnType
  <2>2. PICK n \in 1 .. Len(outbox[conn[f].cl]) :
          outbox' = [outbox EXCEPT ![conn[f].cl] =
                       SubSeq(outbox[conn[f].cl], n + 1, Len(outbox[conn[f].cl]))]
    BY <1>6 DEF Recv
  <2> DEFINE q == outbox[conn[f].cl]
  <2>3. q \in Seq(Request)
    BY <1>0, <2>1
  <2>4. SubSeq(q, n + 1, Len(q)) \in Seq(Request)
    BY <2>3, DropElements
  <2>5. UNCHANGED <<sent, handled>>
    BY <1>6 DEF Recv
  <2> QED BY <1>0, <1>1, <2>1, <2>2, <2>4, <2>5
<1>7. ASSUME NEW f \in DOMAIN conn, NEW type \in {"disconnect", "timeout"}, Leave(f, type)
      PROVE  ClientOK'
  BY <1>3, <1>7 DEF Leave, Close, Gone
<1>8. ASSUME RecvBad PROVE ClientOK'
  BY <1>3, <1>8, Head1Type DEF RecvBad, Close, Gone
<1>9. ASSUME RecvLocal PROVE ClientOK'
  <2>1. Head1 \in Request /\ cur.flow \in DOMAIN conn
    BY <1>9, Head1Type DEF RecvLocal
  <2>2. UNCHANGED outbox \/ Gone(cur.flow)
    BY <1>9 DEF RecvLocal, Gone
  <2>3. outbox' \in [Client -> Seq(Request)]
    BY <1>0, <2>1, <2>2, CloseStep
  <2>4. UNCHANGED sent /\ handled' = [handled EXCEPT ![Head1] = @ + 1]
    BY <1>9 DEF RecvLocal
  <2> QED BY <1>4, <2>1, <2>3, <2>4
<1>10. ASSUME NEW g \in Group, RecvFull(g) PROVE ClientOK'
  <2>1. cur.flow \in DOMAIN conn
    BY <1>10, Head1Type DEF RecvFull
  <2>2. UNCHANGED outbox \/ Gone(cur.flow)
    BY <1>10 DEF RecvFull, Close, Gone
  <2>3. UNCHANGED <<sent, handled>>
    BY <1>10 DEF RecvFull
  <2> QED BY <1>2, <1>3, <2>1, <2>2, <2>3
<1>11. ASSUME NEW g \in Group, Respond(g) PROVE ClientOK'
  <2>1. UNCHANGED outbox \/ \E f \in DOMAIN conn : Gone(f)
    BY <1>11 DEF Respond, Addressee, Close, Gone
  <2>2. UNCHANGED <<sent, handled>>
    BY <1>11 DEF Respond
  <2> QED BY <1>2, <1>3, <2>1, <2>2
<1>12. ASSUME Restart PROVE ClientOK'
  <2>1. outbox' = [c \in Client |-> <<>>] /\ UNCHANGED <<sent, handled>>
    BY <1>12 DEF Restart
  <2>2. <<>> \in Seq(Request)
    OBVIOUS
  <2> QED BY <1>1, <2>1, <2>2
<1>13. ASSUME NEW w \in Proc, Poll(w) PROVE ClientOK'
  <2>1. \/ UNCHANGED handled
        \/ \E m \in Message : m.body \in Request /\ Process(w, m)
    BY <1>13, PollStep
  <2>2. UNCHANGED handled \/ \E r \in Request : handled' = [handled EXCEPT ![r] = @ + 1]
    BY <2>1 DEF Process
  <2>3. UNCHANGED <<sent, outbox>>
    BY <1>13 DEF Poll
  <2> QED BY <1>0, <1>2, <1>4, <2>2, <2>3
<1> QED
  BY <1>2, <1>5, <1>6, <1>7, <1>8, <1>9, <1>10, <1>11, <1>12, <1>13
  DEF Next, ProxyNext, WorkerNext, Accept, RecvEnd, RecvLong, RecvNoRoute, RecvForward,
      BackAnswer, WorkerRestart, vars, proxyVars

\* What the workers keep: requests to answer later, and connections that ended.
LEMMA WorkerStep == TypeInv /\ [Next]_vars => WorkerOK'
<1> SUFFICES ASSUME TypeInv, [Next]_vars PROVE WorkerOK'
  OBVIOUS
<1>0. /\ pending \in [Proc -> SUBSET Message] /\ gone \in [Group -> SUBSET (Nat \X Nat)]
      /\ \A w \in Proc : \A m \in pending[w] : m.type = "data" /\ m.body \in Request
  BY DEF TypeInv, WorkerOK
<1>1. ASSUME UNCHANGED workerVars PROVE WorkerOK'
  BY <1>0, <1>1 DEF WorkerOK, workerVars
<1>2. ASSUME NEW w \in Proc, Poll(w) PROVE WorkerOK'
  <2>1. ASSUME NEW m \in Message, m.type = "data", m.body \in Request, Process(w, m), UNCHANGED gone
        PROVE  WorkerOK'
    <3>1. pending' = pending \/ pending' = [pending EXCEPT ![w] = pending[w] \cup {m}]
      BY <2>1 DEF Process
    <3> QED BY <1>0, <2>1, <3>1 DEF WorkerOK
  <2>2. ASSUME NEW m \in Message, Tell(w, m), w.group \in Group, UNCHANGED pending
        PROVE  WorkerOK'
    <3>1. \/ gone' = gone
          \/ gone' = [gone EXCEPT ![w.group] = gone[w.group] \cup {<<m.life, m.flow>>}]
      BY <2>2 DEF Tell
    <3>2. <<m.life, m.flow>> \in Nat \X Nat
      BY DEF Message
    <3> QED BY <1>0, <2>2, <3>1, <3>2 DEF WorkerOK
  <2> QED BY <1>1, <1>2, <2>1, <2>2, PollStep
<1>3. ASSUME NEW w \in Proc, BackAnswer(w) \/ WorkerRestart(w) PROVE WorkerOK'
  <2>1. gone' = gone /\ \E S \in SUBSET pending[w] : pending' = [pending EXCEPT ![w] = S]
    BY <1>3 DEF BackAnswer, WorkerRestart
  <2> QED BY <1>0, <2>1 DEF WorkerOK
<1> QED
  BY <1>1, <1>2, <1>3 DEF Next, WorkerNext, vars
  
\* Every variable of the server keeps its type, and an ator_recvdata in progress
\* is always about a connection that is there.
THEOREM TypeCorrect == Spec => []TypeInv
<1>1. Init => TypeInv
  <2> SUFFICES ASSUME Init PROVE TypeInv
    OBVIOUS
  <2>1. <<>> \in Seq(Message) /\ <<>> \in Seq(Request) /\ Len(<<>>) = 0
    OBVIOUS
  <2>2. req = [g \in Group |-> <<>>] /\ rsp = [g \in Group |-> <<>>]
    BY DEF Init, PipeInit
  <2>3. RingsOK
    BY <2>1, <2>2 DEF RingsOK, DataOK
  <2>4. conn = <<>> /\ conn \in Seq(ConnType) /\ Len(conn) = 0 /\ flow = 0 /\ life = 1 /\ cur = None
    BY DEF Init, ProxyInit
  <2>5. DOMAIN conn = {} /\ conn \in [DOMAIN conn -> ConnType]
    BY <2>4, LenProperties
  <2>6. ConnOK /\ CurOK
    BY <2>4, <2>5 DEF ConnOK, CurOK
  <2>7. ClientOK
    BY <2>1, FS_EmptySet DEF Init, ProxyInit, ClientOK
  <2>8. WorkerOK
    BY DEF Init, WorkerInit, WorkerOK
  <2> QED BY <2>3, <2>6, <2>7, <2>8 DEF TypeInv
<1>2. TypeInv /\ [Next]_vars => TypeInv'
  BY RingsStep, FlowsStep, CurStep, ClientStep, WorkerStep DEF TypeInv
<1> QED BY <1>1, <1>2, PTL DEF Spec

-----------------------------------------------------------------------------
(* What a step does to a ring of requests                                  *)

\* an event that may be put in a ring: a connection or an overload, or the end
\* of a connection that goes in this step
Announced(m) == \/ m.type \in {"connected", "overload"}
                \/ /\ Ends(m)
                   /\ m.life = life /\ life' = life
                   /\ m.flow \in DOMAIN conn \ DOMAIN conn'

Extended(g) == /\ Len(req[g]) <= Len(req'[g])
               /\ \A i \in 1 .. Len(req'[g]) :
                    IF i <= Len(req[g]) THEN req'[g][i] = req[g][i] ELSE Announced(req'[g][i])
               /\ gone'[g] = gone[g]

Forwarded(g) == /\ More
                /\ req'[g] = Append(req[g], Msg(cur.flow, "data", Head1, life))
                /\ gone'[g] = gone[g]
                /\ UNCHANGED <<conn, life, flow>>

Taken(g) == \E n \in 0 .. Len(req[g]) :
              /\ req'[g] = SubSeq(req[g], n + 2, Len(req[g]))
              /\ \/ gone'[g] = gone[g]
                 \/ /\ n < Len(req[g]) /\ Ends(req[g][n + 1])
                    /\ gone'[g] = gone[g] \cup {Id(req[g][n + 1])}
              /\ UNCHANGED <<conn, life, flow>>

\* The events of connections are put behind what is in the rings.
LEMMA EventStep ==
    ASSUME TypeInv, UNCHANGED gone, NEW g \in Group,
           \/ \E c \in Client : Accept(c)
           \/ \E f \in DOMAIN conn : Leave(f, "disconnect") \/ Leave(f, "timeout")
    PROVE  Extended(g)
<1>0. /\ flow \in Nat /\ life \in Nat /\ flow + 1 \in Nat
      /\ req \in [Group -> Seq(Message)] /\ req[g] \in Seq(Message) /\ Len(req[g]) \in Nat
  BY DEF TypeInv, ConnOK, RingsOK
<1>1. ASSUME UNCHANGED <<req, gone>> PROVE Extended(g)
  BY <1>0, <1>1 DEF Extended
<1>2. ASSUME NEW f \in Nat, NEW type \in EventType, NEW r \in EventRoute,
             req' = Routed(req, f, type, r), gone' = gone,
             Announced(Msg(f, type, None, life))
      PROVE  Extended(g)
  <2> DEFINE m == Msg(f, type, None, life)
  <2>1. /\ Len(req'[g]) \in {Len(req[g]), Len(req[g]) + 1}
        /\ \A i \in 1 .. Len(req'[g]) : req'[g][i] = IF i <= Len(req[g]) THEN req[g][i] ELSE m
    <3>1. /\ Len(Routed(req, f, type, r)[g]) \in {Len(req[g]), Len(req[g]) + 1}
          /\ \A i \in 1 .. Len(Routed(req, f, type, r)[g]) :
               Routed(req, f, type, r)[g][i] = IF i <= Len(req[g]) THEN req[g][i] ELSE m
      BY <1>0, RoutedElements
    <3> QED BY <1>2, <3>1
  <2>2. Announced(m)
    BY <1>2
  <2> HIDE DEF m
  <2> QED BY <1>0, <1>2, <2>1, <2>2 DEF Extended
<1>3. ASSUME NEW c \in Client, Accept(c) PROVE Extended(g)
  <2>1. ASSUME NEW f \in Nat, NEW type \in {"connected", "overload"}
        PROVE  Announced(Msg(f, type, None, life)) /\ type \in EventType
    BY DEF Announced, Msg, EventType
  <2>2. ASSUME NEW r \in EventRoute, req' = Routed(req, flow + 1, "connected", r)
        PROVE  Extended(g)
    BY <1>0, <1>2, <1>3, <2>1, <2>2
  <2>3. ASSUME NEW r1 \in EventRoute, NEW r2 \in EventRoute,
               req' = Routed(Routed(req, flow + 1, "connected", r1), 0, "overload", r2)
        PROVE  Extended(g)
    <3> DEFINE c1 == "connected"
               c2 == "overload"
               k == flow + 1
               z == 0
               R == Routed(req, k, c1, r1)
               a == Msg(k, c1, None, life)
               b == Msg(z, c2, None, life)
    <3>1. req' = Routed(R, z, c2, r2) /\ k \in Nat /\ z \in Nat
      BY <1>0, <2>3
    <3>2. Announced(a) /\ Announced(b) /\ c1 \in EventType /\ c2 \in EventType
      BY <1>0, <2>1
    <3> HIDE DEF c1, c2, k, z
    <3>3. R \in [Group -> Seq(Message)]
      BY <1>0, <3>1, <3>2, RoutedElements DEF Routed
    <3>4. /\ Len(R[g]) \in {Len(req[g]), Len(req[g]) + 1}
          /\ \A i \in 1 .. Len(R[g]) : R[g][i] = IF i <= Len(req[g]) THEN req[g][i] ELSE a
      BY <1>0, <3>1, <3>2, RoutedElements
    <3> HIDE DEF R
    <3>5. /\ Len(Routed(R, z, c2, r2)[g]) \in {Len(R[g]), Len(R[g]) + 1}
          /\ \A i \in 1 .. Len(Routed(R, z, c2, r2)[g]) :
               Routed(R, z, c2, r2)[g][i] = IF i <= Len(R[g]) THEN R[g][i] ELSE b
      BY <1>0, <3>1, <3>2, <3>3, RoutedElements, SMTT(30)
    <3>6. /\ Len(req'[g]) \in {Len(R[g]), Len(R[g]) + 1}
          /\ \A i \in 1 .. Len(req'[g]) : req'[g][i] = IF i <= Len(R[g]) THEN R[g][i] ELSE b
      BY <3>1, <3>5
    <3> HIDE DEF a, b
    <3> QED BY <1>0, <1>3, <3>2, <3>4, <3>6 DEF Extended
  <2> QED BY <1>1, <1>3, <2>2, <2>3 DEF Accept
<1>4. ASSUME NEW f \in DOMAIN conn, NEW type \in {"disconnect", "timeout"}, Leave(f, type)
      PROVE  Extended(g)
  <2>1. f \in Nat /\ type \in EventType /\ f \notin DOMAIN conn'
    <3>1. Gone(f)
      BY <1>4 DEF Leave, Close, Gone
    <3>2. f \notin DOMAIN conn'
      BY <3>1, CloseStep
    <3> QED BY <3>2 DEF TypeInv, ConnOK, EventType
  <2>2. PICK r \in EventRoute : req' = Routed(req, f, type, r)
    BY <1>4 DEF Leave
  <2>3. Announced(Msg(f, type, None, life))
    BY <1>4, <2>1 DEF Announced, Ends, Msg, Leave
  <2> QED BY <1>2, <1>4, <2>1, <2>2, <2>3
<1> QED BY <1>3, <1>4

\* A ring is only extended, by events or by the request ator_recvdata looks at,
\* or emptied from its head; what a group has been told comes from that head.
LEMMA ReqStep ==
    ASSUME TypeInv, [Next]_vars, NEW g \in Group
    PROVE  Extended(g) \/ Forwarded(g) \/ Taken(g)
<1>0. /\ req \in [Group -> Seq(Message)] /\ req[g] \in Seq(Message) /\ Len(req[g]) \in Nat
      /\ gone \in [Group -> SUBSET (Nat \X Nat)]
  BY DEF TypeInv, RingsOK, WorkerOK
<1>1. ASSUME UNCHANGED <<req, gone>> PROVE Extended(g)
  BY <1>0, <1>1 DEF Extended
<1>2. ASSUME NEW c \in Client, Accept(c), UNCHANGED gone PROVE Extended(g)
  BY <1>2, EventStep
<1>3. ASSUME NEW f \in DOMAIN conn, Leave(f, "disconnect") \/ Leave(f, "timeout"), UNCHANGED gone
      PROVE  Extended(g)
  BY <1>3, EventStep
<1>5. ASSUME NEW h \in Group, RecvForward(h), UNCHANGED gone
      PROVE  Extended(g) \/ Forwarded(g)
  <2>1. UNCHANGED <<conn, life, flow>> /\ More
    BY <1>5 DEF RecvForward
  <2>2. req' = [req EXCEPT ![h] = Append(req[h], Msg(cur.flow, "data", Head1, life))]
    BY <1>5 DEF RecvForward
  <2>3. CASE g = h
    BY <1>0, <1>5, <2>1, <2>2, <2>3 DEF Forwarded
  <2>4. CASE g # h
    BY <1>0, <1>5, <2>2, <2>4 DEF Extended
  <2> QED BY <2>3, <2>4
<1>6. ASSUME NEW w \in Proc, Poll(w) PROVE Extended(g) \/ Taken(g)
  <2> DEFINE q == req[w.group]
  <2>1. PICK n \in 0 .. Len(q) :
          /\ w.group \in Group
          /\ req' = [req EXCEPT ![w.group] = SubSeq(q, n + 2, Len(q))]
          /\ UNCHANGED <<conn, life, flow>>
          /\ gone' = gone \/ (n < Len(q) /\ Tell(w, q[n + 1]))
    BY <1>6, PollStep DEF workerVars
  <2>2. \/ gone' = gone
        \/ /\ n < Len(q) /\ Ends(q[n + 1])
           /\ gone' = [gone EXCEPT ![w.group] = gone[w.group] \cup {Id(q[n + 1])}]
    BY <2>1 DEF Tell, Ends, Id
  <2>3. CASE g = w.group
    <3>1. req'[g] = SubSeq(req[g], n + 2, Len(req[g]))
      BY <1>0, <2>1, <2>3
    <3>2. \/ gone'[g] = gone[g]
          \/ /\ n < Len(req[g]) /\ Ends(req[g][n + 1])
             /\ gone'[g] = gone[g] \cup {Id(req[g][n + 1])}
      BY <1>0, <2>2, <2>3
    <3> QED BY <2>1, <2>3, <3>1, <3>2 DEF Taken
  <2>4. CASE g # w.group
    <3>1. req'[g] = req[g] /\ gone'[g] = gone[g]
      BY <1>0, <2>1, <2>2, <2>4
    <3> QED BY <1>0, <3>1 DEF Extended
  <2> QED BY <2>3, <2>4
<1> QED
  BY <1>1, <1>2, <1>3, <1>5, <1>6
  DEF Next, ProxyNext, WorkerNext, Sends, Recv, RecvEnd, RecvBad, RecvLong, RecvLocal,
      RecvNoRoute, RecvFull, Respond, Restart, BackAnswer, WorkerRestart, vars, workerVars

-----------------------------------------------------------------------------
(* A group learns of the end of a connection last                          *)

\* What is over stays over.
LEMMA OverKept == TypeInv /\ FlowsKept => Over \subseteq Over'
<1> SUFFICES ASSUME TypeInv, FlowsKept PROVE Over \subseteq Over'
  OBVIOUS
<1>1. life \in Nat /\ flow \in Nat
  BY DEF TypeInv, ConnOK
<1> QED BY <1>1 DEF FlowsKept, Over

\* What Taken leaves in a ring.
LEMMA TakenElements ==
    ASSUME NEW q \in Seq(Message), NEW n \in 0 .. Len(q), NEW s, s = SubSeq(q, n + 2, Len(q))
    PROVE  \A i \in 1 .. Len(s) : i + n + 1 \in 1 .. Len(q) /\ s[i] = q[i + n + 1]
<1> DEFINE k == n + 1
<1>1. k \in Nat /\ n + 2 = k + 1 /\ Len(q) \in Nat
  OBVIOUS
<1>2. s = SubSeq(q, k + 1, Len(q))
  BY <1>1
<1>3. \A i \in Nat : i + k = i + n + 1
  OBVIOUS
<1> HIDE DEF k
<1>4. q \in Seq(Message) /\ k \in Nat
  BY <1>1
<1>5. /\ Len(SubSeq(q, k + 1, Len(q))) = IF k <= Len(q) THEN Len(q) - k ELSE 0
      /\ \A i \in 1 .. Len(q) - k : SubSeq(q, k + 1, Len(q))[i] = q[i + k]
  BY <1>4, DropElements
<1>6. /\ Len(s) = IF k <= Len(q) THEN Len(q) - k ELSE 0
      /\ \A i \in 1 .. Len(q) - k : s[i] = q[i + k]
  BY <1>2, <1>5
<1>7. \A i \in 1 .. Len(s) : i + k \in 1 .. Len(q) /\ s[i] = q[i + k]
  BY <1>1, <1>6
<1> QED BY <1>3, <1>7

\* Each end of a connection in a ring, and each that a group was told of, is that
\* of a connection that is over.
LEMMA OverStep == TypeInv /\ OverInRing /\ OverGone /\ [Next]_vars => OverInRing' /\ OverGone'
<1> SUFFICES ASSUME TypeInv, OverInRing, OverGone, [Next]_vars, NEW g \in Group
             PROVE  /\ \A i \in 1 .. Len(req'[g]) : Ends(req'[g][i]) => Id(req'[g][i]) \in Over'
                    /\ gone'[g] \subseteq Over'
  BY DEF OverInRing, OverGone, Ends, Id
<1>0. /\ FlowsKept /\ life \in Nat /\ flow \in Nat /\ DOMAIN conn \subseteq 1 .. flow
      /\ req[g] \in Seq(Message) /\ Len(req[g]) \in Nat
  BY FlowsStep DEF TypeInv, ConnOK, RingsOK
<1>1. Over \subseteq Over'
  BY <1>0, OverKept
<1>2. /\ \A i \in 1 .. Len(req[g]) : Ends(req[g][i]) => Id(req[g][i]) \in Over'
      /\ gone[g] \subseteq Over'
  BY <1>1 DEF OverInRing, OverGone
<1>3. CASE Extended(g)
  <2>1. ASSUME NEW m, Announced(m), Ends(m) PROVE Id(m) \in Over'
    BY <1>0, <2>1 DEF Announced, Ends, Id, Over, FlowsKept
  <2> QED BY <1>0, <1>2, <1>3, <2>1 DEF Extended
<1>4. CASE Forwarded(g)
  <2> DEFINE m == Msg(cur.flow, "data", Head1, life)
  <2>1. m \in Message /\ ~Ends(m)
    BY <1>0, <1>4, Head1Type DEF Forwarded, Msg, Message, CurType, Ends
  <2>2. req'[g] = Append(req[g], m)
    BY <1>4 DEF Forwarded
  <2> HIDE DEF m
  <2>3. \A i \in 1 .. Len(req'[g]) : (i \in 1 .. Len(req[g]) /\ req'[g][i] = req[g][i]) \/ req'[g][i] = m
    BY <1>0, <2>1, <2>2, AppendProperties
  <2> QED BY <1>2, <1>4, <2>1, <2>3 DEF Forwarded
<1>5. CASE Taken(g)
  <2>1. PICK n \in 0 .. Len(req[g]) :
          /\ req'[g] = SubSeq(req[g], n + 2, Len(req[g]))
          /\ \/ gone'[g] = gone[g]
             \/ /\ n < Len(req[g]) /\ Ends(req[g][n + 1])
                /\ gone'[g] = gone[g] \cup {Id(req[g][n + 1])}
    BY <1>5 DEF Taken
  <2>2. \A i \in 1 .. Len(req'[g]) : i + n + 1 \in 1 .. Len(req[g]) /\ req'[g][i] = req[g][i + n + 1]
    BY <1>0, <2>1, TakenElements
  <2>3. n < Len(req[g]) => n + 1 \in 1 .. Len(req[g])
    BY <1>0
  <2> QED BY <1>2, <2>1, <2>2, <2>3
<1> QED BY <1>3, <1>4, <1>5, ReqStep

\* DisconnectLast, of one ring.
LastIn(q, ended) ==
    \A i \in 1 .. Len(q) : q[i].type = "data" =>
      /\ Id(q[i]) \notin ended
      /\ \A j \in 1 .. i - 1 : Ends(q[j]) => Id(q[j]) # Id(q[i])

\* DisconnectLast, ring by ring
LEMMA DisconnectLastIn == DisconnectLast <=> \A g \in Group : LastIn(req[g], gone[g])
BY DEF DisconnectLast, LastIn, Ends, Id

\* A request is put behind the ends of connections that are over, and its own is
\* not; an end of a connection is put behind everything.
LEMMA LastStep == TypeInv /\ EndInv /\ [Next]_vars => DisconnectLast'
<1> SUFFICES ASSUME TypeInv, EndInv, [Next]_vars, NEW g \in Group
             PROVE  LastIn(req'[g], gone'[g])
  BY DEF DisconnectLast, LastIn, Ends, Id
<1>0. /\ req[g] \in Seq(Message) /\ Len(req[g]) \in Nat
      /\ LastIn(req[g], gone[g])
  BY DisconnectLastIn DEF TypeInv, RingsOK, EndInv
<1>3. CASE Extended(g)
  <2>1. ASSUME NEW m, Announced(m) PROVE m.type # "data"
    BY <2>1 DEF Announced, Ends
  <2>2. \A i \in 1 .. Len(req'[g]) : req'[g][i].type = "data" =>
          /\ i \in 1 .. Len(req[g])
          /\ \A j \in 1 .. i : req'[g][j] = req[g][j]
    BY <1>0, <1>3, <2>1 DEF Extended
  <2> QED BY <1>0, <1>3, <2>2 DEF LastIn, Extended
<1>4. CASE Forwarded(g)
  <2> DEFINE m == Msg(cur.flow, "data", Head1, life)
  <2>1. m \in Message /\ m.type = "data"
    BY <1>4, Head1Type DEF Forwarded, Msg, Message, CurType, TypeInv, ConnOK
  <2>2. Id(m) \notin Over
    <3>1. cur.flow \in DOMAIN conn /\ life \in Nat
      BY <1>4, Head1Type DEF Forwarded, TypeInv, ConnOK
    <3> QED BY <3>1 DEF Id, Msg, Over
  <2>3. req'[g] = Append(req[g], m) /\ gone'[g] = gone[g]
    BY <1>4 DEF Forwarded
  <2> HIDE DEF m
  <2>4. /\ Len(req'[g]) = Len(req[g]) + 1 /\ req'[g][Len(req[g]) + 1] = m
        /\ \A i \in 1 .. Len(req[g]) : req'[g][i] = req[g][i]
    BY <1>0, <2>1, <2>3, AppendProperties
  <2>5. Id(m) \notin gone[g] /\ \A j \in 1 .. Len(req[g]) : Ends(req[g][j]) => Id(req[g][j]) # Id(m)
    BY <2>2 DEF EndInv, OverInRing, OverGone
  <2>6. ASSUME NEW i \in 1 .. Len(req[g]), req'[g][i].type = "data"
        PROVE  /\ Id(req'[g][i]) \notin gone'[g]
               /\ \A j \in 1 .. i - 1 : Ends(req'[g][j]) => Id(req'[g][j]) # Id(req'[g][i])
    BY <1>0, <2>3, <2>4, <2>6 DEF LastIn
  <2>7. \A i \in 1 .. Len(req'[g]) : i \in 1 .. Len(req[g]) \/ i = Len(req[g]) + 1
    BY <1>0, <2>4
  <2>8. /\ Id(req'[g][Len(req[g]) + 1]) \notin gone'[g]
        /\ \A j \in 1 .. Len(req[g]) : Ends(req'[g][j]) => Id(req'[g][j]) # Id(req'[g][Len(req[g]) + 1])
    BY <2>3, <2>4, <2>5
  <2> QED BY <1>0, <2>6, <2>7, <2>8 DEF LastIn
<1>5. CASE Taken(g)
  <2>1. PICK n \in 0 .. Len(req[g]) :
          /\ req'[g] = SubSeq(req[g], n + 2, Len(req[g]))
          /\ \/ gone'[g] = gone[g]
             \/ /\ n < Len(req[g]) /\ Ends(req[g][n + 1])
                /\ gone'[g] = gone[g] \cup {Id(req[g][n + 1])}
    BY <1>5 DEF Taken
  <2>2. \A i \in 1 .. Len(req'[g]) : i + n + 1 \in 1 .. Len(req[g]) /\ req'[g][i] = req[g][i + n + 1]
    BY <1>0, <2>1, TakenElements
  <2>3. ASSUME NEW i \in 1 .. Len(req'[g]), req'[g][i].type = "data"
        PROVE  /\ Id(req'[g][i]) \notin gone'[g]
               /\ \A j \in 1 .. i - 1 : Ends(req'[g][j]) => Id(req'[g][j]) # Id(req'[g][i])
    <3> DEFINE k == i + n + 1
    <3>1. k \in 1 .. Len(req[g]) /\ req[g][k].type = "data" /\ req'[g][i] = req[g][k]
      BY <2>2, <2>3
    <3>2. /\ Id(req[g][k]) \notin gone[g]
          /\ \A j \in 1 .. k - 1 : Ends(req[g][j]) => Id(req[g][j]) # Id(req[g][k])
      BY <1>0, <3>1 DEF LastIn
    <3>3. n + 1 \in 1 .. k - 1 /\ \A j \in 1 .. i - 1 : j + n + 1 \in 1 .. k - 1 /\ j \in 1 .. Len(req'[g])
      OBVIOUS
    <3> HIDE DEF k
    <3>4. Id(req[g][k]) \notin gone'[g]
      BY <2>1, <3>2, <3>3
    <3>5. \A j \in 1 .. i - 1 : req'[g][j] = req[g][j + n + 1]
      BY <2>2, <3>3
    <3> QED BY <3>1, <3>2, <3>3, <3>4, <3>5
  <2> QED BY <2>3 DEF LastIn
<1> QED BY <1>3, <1>4, <1>5, ReqStep

\* A group that was told that a connection has gone is given no request of it any
\* more: ator_timeout and ator_disconn put their events behind all its requests,
\* and the flow is not used again.
THEOREM DisconnectIsLast == Spec => []DisconnectLast
<1>1. Init => EndInv
  BY DEF Init, PipeInit, WorkerInit, EndInv, OverInRing, OverGone, DisconnectLast
<1>2. TypeInv /\ EndInv /\ [Next]_vars => EndInv'
  BY OverStep, LastStep DEF EndInv
<1>3. EndInv => DisconnectLast
  BY DEF EndInv
<1> QED BY <1>1, <1>2, <1>3, TypeCorrect, PTL DEF Spec

-----------------------------------------------------------------------------
(* Responses return to the client that asked                               *)

\* A message that names the flow of its client does so for ever: a flow is given
\* out once in the life of a proxy.
LEMMA OwnedKept == TypeInv /\ FlowsKept => Owned \subseteq Owned'
<1> SUFFICES ASSUME TypeInv, FlowsKept, NEW m \in Owned PROVE m \in Owned'
  OBVIOUS
<1>1. life \in Nat /\ flow \in Nat /\ m \in Message /\ m.life \in Nat /\ m.flow \in Nat
  BY DEF TypeInv, ConnOK, Owned, Message
<1>2. CASE life' = life + 1
  BY <1>1, <1>2 DEF Owned
<1>3. CASE life' = life /\ flow <= flow' /\ flow' \in Nat
  BY <1>1, <1>3 DEF Owned, FlowsKept
<1> QED BY <1>2, <1>3 DEF FlowsKept

\* What a client sends goes to the connections of that client.
LEMMA InputStep == TypeInv /\ OwnInput /\ [Next]_vars => OwnInput'
<1> SUFFICES ASSUME TypeInv, OwnInput, [Next]_vars PROVE OwnInput'
  OBVIOUS
<1>0. /\ outbox \in [Client -> Seq(Request)] /\ conn \in [DOMAIN conn -> ConnType]
      /\ \A c \in Client : \A i \in 1 .. Len(outbox[c]) : outbox[c][i].cl = c
      /\ \A f \in DOMAIN conn : \A i \in 1 .. Len(conn[f].cache) : conn[f].cache[i].cl = conn[f].cl
      /\ \A f \in DOMAIN conn : conn[f].cache \in Seq(Request) /\ conn[f].cl \in Client
  BY DEF TypeInv, ClientOK, ConnOK, OwnInput, ConnType
<1>1. ASSUME UNCHANGED <<outbox, conn>> PROVE OwnInput'
  BY <1>0, <1>1 DEF OwnInput
<1>2. ASSUME NEW f \in DOMAIN conn, Gone(f) PROVE OwnInput'
  <2>1. /\ DOMAIN conn' = DOMAIN conn \ {f} /\ \A k \in DOMAIN conn' : conn'[k] = conn[k]
        /\ \A c \in Client : outbox'[c] = <<>> \/ outbox'[c] = outbox[c]
    BY <1>2, CloseStep
  <2>2. Len(<<>>) = 0
    OBVIOUS
  <2> QED BY <1>0, <2>1, <2>2 DEF OwnInput
<1>3. ASSUME UNCHANGED outbox, cur # None, NEW n \in Nat, Return(n) PROVE OwnInput'
  <2> DEFINE q == conn[cur.flow].cache
             s == SubSeq(q, n + 1, Len(q))
  <2>1. cur.flow \in DOMAIN conn /\ q \in Seq(Request) /\ Len(q) \in Nat
    BY <1>0, <1>3 DEF TypeInv, CurOK
  <2>2. /\ Len(s) = IF n <= Len(q) THEN Len(q) - n ELSE 0
        /\ \A i \in 1 .. Len(q) - n : s[i] = q[i + n]
    BY <1>3, <2>1, DropElements
  <2>3. \A i \in 1 .. Len(q) : q[i].cl = conn[cur.flow].cl
    BY <1>0, <2>1
  <2>4. /\ DOMAIN conn' = DOMAIN conn
        /\ \A k \in DOMAIN conn : /\ conn'[k].cl = conn[k].cl
                                  /\ k # cur.flow => conn'[k] = conn[k]
        /\ conn'[cur.flow].cache = s
    BY <1>3, ReturnStep
  <2> HIDE DEF q, s
  <2>5. \A i \in 1 .. Len(s) : i + n \in 1 .. Len(q) /\ s[i] = q[i + n]
    BY <1>3, <2>1, <2>2
  <2>6. \A i \in 1 .. Len(s) : s[i].cl = conn[cur.flow].cl
    BY <2>3, <2>5
  <2>7. \A f \in DOMAIN conn' : \A i \in 1 .. Len(conn'[f].cache) : conn'[f].cache[i].cl = conn'[f].cl
    BY <1>0, <2>1, <2>4, <2>6
  <2> QED BY <1>0, <1>3, <2>7 DEF OwnInput
<1>4. ASSUME NEW c \in Client, Accept(c) PROVE OwnInput'
  <2>1. CASE UNCHANGED conn
    BY <1>1, <1>4, <2>1 DEF Accept
  <2>2. CASE conn' = [f \in DOMAIN conn \cup {Min(FlowFor)} |->
                        IF f \in DOMAIN conn THEN conn[f] ELSE [cl |-> c, cache |-> <<>>]]
    <3> DEFINE k == Min(FlowFor)
    <3>1. \A f \in DOMAIN conn' : conn'[f] = IF f \in DOMAIN conn THEN conn[f] ELSE [cl |-> c, cache |-> <<>>]
      BY <2>2
    <3>2. \A f \in DOMAIN conn' : (f \in DOMAIN conn /\ conn'[f] = conn[f]) \/ Len(conn'[f].cache) = 0
      BY <3>1
    <3>3. \A f \in DOMAIN conn' : \A i \in 1 .. Len(conn'[f].cache) : conn'[f].cache[i].cl = conn'[f].cl
      BY <1>0, <3>2
    <3>4. outbox' = outbox
      BY <1>4 DEF Accept
    <3> QED BY <1>0, <3>3, <3>4 DEF OwnInput
  <2> QED BY <1>4, <2>1, <2>2 DEF Accept
<1>5. ASSUME NEW c \in Client, Sends(c) PROVE OwnInput'
  <2> DEFINE r == [cl |-> c, n |-> 1 + Cardinality({q \in sent : q.cl = c})]
  <2>1. outbox' = [outbox EXCEPT ![c] = Append(outbox[c], r)] /\ conn' = conn
    BY <1>5 DEF Sends
  <2>2. r.cl = c
    OBVIOUS
  <2> HIDE DEF r
  <2>3. outbox[c] \in Seq(Request)
    BY <1>0
  <2>4. \A i \in 1 .. Len(Append(outbox[c], r)) :
          Append(outbox[c], r)[i] = r \/ (i \in 1 .. Len(outbox[c]) /\ Append(outbox[c], r)[i] = outbox[c][i])
    BY <2>3
  <2>5. \A d \in Client : \A i \in 1 .. Len(outbox'[d]) : outbox'[d][i].cl = d
    BY <1>0, <2>1, <2>2, <2>4
  <2> QED BY <1>0, <2>1, <2>5 DEF OwnInput
<1>6. ASSUME NEW f \in DOMAIN conn, Recv(f) PROVE OwnInput'
  <2>1. PICK n \in 1 .. Len(outbox[conn[f].cl]) :
          /\ conn' = [conn EXCEPT ![f].cache = conn[f].cache \o SubSeq(outbox[conn[f].cl], 1, n)]
          /\ outbox' = [outbox EXCEPT ![conn[f].cl] =
                          SubSeq(outbox[conn[f].cl], n + 1, Len(outbox[conn[f].cl]))]
    BY <1>6 DEF Recv
  <2> DEFINE c == conn[f].cl
             q == outbox[c]
             s == SubSeq(q, 1, n)
             t == SubSeq(q, n + 1, Len(q))
             d == conn[f].cache
  <2>2. c \in Client /\ q \in Seq(Request) /\ d \in Seq(Request) /\ n \in Nat /\ Len(q) \in Nat
    BY <1>0
  <2>3. \A i \in 1 .. Len(q) : q[i] \in Request /\ q[i].cl = c
    BY <1>0, <2>2, ElementOfSeq
  <2>4. s \in Seq(Request) /\ Len(s) = n /\ \A i \in 1 .. n : s[i] = q[i]
    BY <2>2, <2>3, SubSeqProperties
  <2>5. /\ Len(t) = IF n <= Len(q) THEN Len(q) - n ELSE 0
        /\ \A i \in 1 .. Len(q) - n : t[i] = q[i + n]
    <3> HIDE DEF q, d, s
    <3>1. q \in Seq(Request) /\ n \in Nat
      BY <2>2
    <3> QED BY <3>1, DropElements
  <2>6. \A i \in 1 .. Len(d) : d[i].cl = c
    BY <1>0
  <2>7. outbox' = [outbox EXCEPT ![c] = t] /\ conn' = [conn EXCEPT ![f].cache = d \o s]
    BY <2>1
  <2>8. n \in 1 .. Len(q)
    BY <2>1
  <2> HIDE DEF q, s, t, d
  <2>9. \A i \in 1 .. Len(t) : t[i].cl = c
    BY <2>2, <2>3, <2>5, <2>8, SMTT(30)
  <2>10. \A i \in 1 .. Len(d \o s) : (d \o s)[i].cl = c
    <3>1. Len(d) \in Nat
      BY <2>2
    <3>2. /\ Len(d \o s) = Len(d) + Len(s)
          /\ \A i \in 1 .. Len(d) + Len(s) : (d \o s)[i] = IF i <= Len(d) THEN d[i] ELSE s[i - Len(d)]
      BY <2>2, <2>4, ConcatProperties
    <3>3. \A i \in 1 .. Len(d) + Len(s) : i \in 1 .. Len(d) \/ (~(i <= Len(d)) /\ i - Len(d) \in 1 .. n)
      BY <2>2, <2>4, <3>1
    <3>4. \A i \in 1 .. n : s[i].cl = c
      BY <2>2, <2>3, <2>4, <2>8
    <3> QED BY <2>6, <3>2, <3>3, <3>4
  <2> HIDE DEF c
  <2>11. \A e \in Client : \A i \in 1 .. Len(outbox'[e]) : outbox'[e][i].cl = e
    BY <1>0, <2>2, <2>7, <2>9
  <2>12. DOMAIN conn' = DOMAIN conn /\ conn'[f].cl = c /\ conn'[f].cache = d \o s
         /\ \A k \in DOMAIN conn : k # f => conn'[k] = conn[k]
    BY <1>0, <2>7 DEF ConnType, c
  <2>13. \A k \in DOMAIN conn' : \A i \in 1 .. Len(conn'[k].cache) : conn'[k].cache[i].cl = conn'[k].cl
    BY <1>0, <2>10, <2>12, SMTT(30)
  <2> QED BY <2>11, <2>13 DEF OwnInput
<1>7. ASSUME NEW f \in DOMAIN conn, NEW type \in {"disconnect", "timeout"}, Leave(f, type)
      PROVE  OwnInput'
  BY <1>2, <1>7 DEF Leave, Close, Gone
<1>8. ASSUME RecvEnd PROVE OwnInput'
  <2>1. cur \in CurType
    BY <1>8 DEF RecvEnd, TypeInv, CurOK
  <2> QED BY <1>3, <1>8, <2>1 DEF RecvEnd, CurType
<1>9. ASSUME More,
             \/ RecvBad \/ RecvLong \/ RecvLocal \/ RecvNoRoute
             \/ \E g \in Group : RecvFull(g)
      PROVE  OwnInput'
  <2>1. cur \in CurType /\ cur.flow \in DOMAIN conn /\ cur # None
    BY <1>9, Head1Type DEF More
  <2>2. cur.total \in Nat /\ Counted(FALSE) \in Nat
    BY <2>1 DEF Counted, CurType
  <2>3. \/ UNCHANGED outbox /\ (Return(cur.total) \/ Return(Counted(FALSE)))
        \/ Gone(cur.flow) \/ UNCHANGED <<outbox, conn>>
    BY <1>9 DEF RecvBad, RecvLong, RecvLocal, RecvNoRoute, RecvFull, Close, Gone
  <2> QED BY <1>1, <1>2, <1>3, <2>1, <2>2, <2>3
<1>10. ASSUME NEW g \in Group, Respond(g) PROVE OwnInput'
  <2>1. \/ UNCHANGED <<outbox, conn>> \/ \E f \in DOMAIN conn : Gone(f)
    BY <1>10 DEF Respond, Addressee, Close, Gone
  <2> QED BY <1>1, <1>2, <2>1
<1>11. ASSUME Restart PROVE OwnInput'
  <2>1. outbox' = [c \in Client |-> <<>>] /\ conn' = <<>>
    BY <1>11 DEF Restart
  <2>2. DOMAIN conn' = {} /\ \A c \in Client : Len(outbox'[c]) = 0
    BY <2>1
  <2> QED BY <2>2 DEF OwnInput
<1>12. ASSUME NEW g \in Group, RecvForward(g) PROVE OwnInput'
  BY <1>1, <1>12 DEF RecvForward
<1>13. ASSUME WorkerNext PROVE OwnInput'
  BY <1>1, <1>13 DEF WorkerNext, Poll, BackAnswer, WorkerRestart, proxyVars
<1> QED
  BY <1>1, <1>4, <1>5, <1>6, <1>7, <1>8, <1>9, <1>10, <1>11, <1>12, <1>13
  DEF Next, ProxyNext, RecvBad, RecvLong, RecvLocal, RecvNoRoute, RecvFull, vars, proxyVars

\* The request that is forwarded is owned by the client of its connection.
LEMMA Head1Owned ==
    ASSUME TypeInv, OwnInput, More
    PROVE  /\ Head1.cl = conn[cur.flow].cl
           /\ Msg(cur.flow, "data", Head1, life) \in Owned
<1> DEFINE m == Msg(cur.flow, "data", Head1, life)
<1>1. Head1.cl = conn[cur.flow].cl
  BY Head1Type DEF OwnInput, Head1
<1>2. life \in Nat /\ cur.flow \in 1 .. flow /\ cur.flow \in Nat
  BY Head1Type DEF TypeInv, ConnOK
<1>3. m \in Message
  BY <1>2, Head1Type DEF Msg, Message
<1>4. m.life = life /\ m.flow = cur.flow /\ m.body = Head1
  BY DEF Msg
<1> HIDE DEF m
<1>5. m \in Owned
  BY <1>1, <1>2, <1>3, <1>4 DEF Owned
<1> QED BY <1>1, <1>5 DEF m

\* The rings of requests.
LEMMA OwnRequestsStep == TypeInv /\ OwnInv /\ [Next]_vars => OwnRequests'
<1> SUFFICES ASSUME TypeInv, OwnInv, [Next]_vars, NEW g \in Group
             PROVE  \A i \in 1 .. Len(req'[g]) : req'[g][i].type = "data" => req'[g][i] \in Owned'
  BY DEF OwnRequests
<1>0. FlowsKept /\ req[g] \in Seq(Message) /\ Len(req[g]) \in Nat
  BY FlowsStep DEF TypeInv, RingsOK
<1>1. Owned \subseteq Owned'
  BY <1>0, OwnedKept
<1>2. \A i \in 1 .. Len(req[g]) : req[g][i].type = "data" => req[g][i] \in Owned'
  BY <1>1 DEF OwnInv, OwnRequests
<1>3. CASE Extended(g)
  <2>1. ASSUME NEW m, Announced(m) PROVE m.type # "data"
    BY <2>1 DEF Announced, Ends
  <2> QED BY <1>0, <1>2, <1>3, <2>1 DEF Extended
<1>4. CASE Forwarded(g)
  <2> DEFINE m == Msg(cur.flow, "data", Head1, life)
  <2>1. m \in Owned'
    BY <1>1, <1>4, Head1Owned DEF Forwarded, OwnInv
  <2>2. req'[g] = Append(req[g], m)
    BY <1>4 DEF Forwarded
  <2> HIDE DEF m
  <2>3. \A i \in 1 .. Len(req'[g]) : (i \in 1 .. Len(req[g]) /\ req'[g][i] = req[g][i]) \/ req'[g][i] = m
    BY <1>0, <2>2
  <2> QED BY <1>2, <2>1, <2>3
<1>5. CASE Taken(g)
  <2>1. PICK n \in 0 .. Len(req[g]) : req'[g] = SubSeq(req[g], n + 2, Len(req[g]))
    BY <1>5 DEF Taken
  <2>2. \A i \in 1 .. Len(req'[g]) : i + n + 1 \in 1 .. Len(req[g]) /\ req'[g][i] = req[g][i + n + 1]
    BY <1>0, <2>1, TakenElements
  <2> QED BY <1>2, <2>2
<1> QED BY <1>3, <1>4, <1>5, ReqStep

\* The rings of responses, and what the workers will answer later: an answer
\* carries the flow of its request.
LEMMA OwnAnswersStep == TypeInv /\ OwnInv /\ [Next]_vars => OwnResponses' /\ OwnPending'
<1> DEFINE Good(q) == \A i \in 1 .. Len(q) : q[i].body # CloseRequest => q[i] \in Owned'
<1> SUFFICES ASSUME TypeInv, OwnInv, [Next]_vars
             PROVE  /\ \A g \in Group : Good(rsp'[g])
                    /\ \A w \in Proc : pending'[w] \subseteq Owned'
  BY DEF OwnResponses, OwnPending
<1>0. /\ FlowsKept /\ rsp \in [Group -> Seq(Message)]
      /\ pending \in [Proc -> SUBSET Message]
      /\ \A w \in Proc : w.group \in Group
  BY FlowsStep, WorkerAssumption DEF TypeInv, RingsOK, WorkerOK
<1>1. Owned \subseteq Owned'
  BY <1>0, OwnedKept
<1>2. /\ \A g \in Group : rsp[g] \in Seq(Message) /\ Good(rsp[g])
      /\ \A w \in Proc : pending[w] \subseteq Owned'
  BY <1>0, <1>1 DEF OwnInv, OwnResponses, OwnPending
<1>3. ASSUME NEW q \in Seq(Message), Good(q), NEW m \in Message, m.body # CloseRequest => m \in Owned'
      PROVE  Good(Put(q, m)) /\ Put(q, m) \in Seq(Message)
  <2>1. q \in Seq(Message) /\ m \in Message /\ Len(q) \in Nat
    OBVIOUS
  <2>2. /\ Put(q, m) \in Seq(Message)
        /\ Len(Put(q, m)) \in {Len(q), Len(q) + 1}
        /\ \A i \in 1 .. Len(Put(q, m)) : Put(q, m)[i] = IF i <= Len(q) THEN q[i] ELSE m
    BY <2>1, PutElements
  <2> QED BY <1>3, <2>1, <2>2
<1>4. ASSUME NEW m \in Message, m.body \in Request
      PROVE  /\ Answer(m) \in Message /\ Closing(m) \in Message
             /\ m \in Owned' => Answer(m) \in Owned'
             /\ Closing(m).body = CloseRequest
  <2>1. Answer(m) \in Message /\ Closing(m) \in Message
    BY <1>4, AnswerType
  <2>2. Answer(m).life = m.life /\ Answer(m).flow = m.flow /\ Answer(m).body = m.body
    BY DEF Answer, Msg
  <2>3. Closing(m).body = CloseRequest
    BY DEF Closing, Msg
  <2> QED BY <2>1, <2>2, <2>3 DEF Owned
<1> HIDE DEF Good
<1>5. ASSUME UNCHANGED <<rsp, pending>>
      PROVE  (\A g \in Group : Good(rsp'[g])) /\ \A w \in Proc : pending'[w] \subseteq Owned'
  BY <1>2, <1>5
<1>6. ASSUME NEW g \in Group, Respond(g), UNCHANGED pending
      PROVE  (\A h \in Group : Good(rsp'[h])) /\ \A w \in Proc : pending'[w] \subseteq Owned'
  <2>1. rsp' = [rsp EXCEPT ![g] = Tail(rsp[g])] /\ rsp[g] # <<>> /\ rsp[g] \in Seq(Message)
    BY <1>2, <1>6 DEF Respond
  <2>2. /\ Len(Tail(rsp[g])) = Len(rsp[g]) - 1 /\ Len(rsp[g]) \in Nat
        /\ \A i \in 1 .. Len(Tail(rsp[g])) : Tail(rsp[g])[i] = rsp[g][i + 1]
    BY <2>1, HeadTailProperties
  <2>3. Good(Tail(rsp[g]))
    BY <1>2, <2>2 DEF Good
  <2> QED BY <1>0, <1>2, <1>6, <2>1, <2>3
<1>7. ASSUME NEW w \in Proc, Poll(w)
      PROVE  (\A h \in Group : Good(rsp'[h])) /\ \A v \in Proc : pending'[v] \subseteq Owned'
  <2> DEFINE q == req[w.group]
  <2>1. PICK n \in 0 .. Len(q) :
          \/ UNCHANGED <<rsp, pending>>
          \/ /\ n < Len(q) /\ q[n + 1] \in Message
             /\ q[n + 1].type = "data" /\ q[n + 1].body \in Request
             /\ Process(w, q[n + 1])
    BY <1>7, PollStep DEF workerVars
  <2>2. w.group \in Group /\ q \in Seq(Message)
    BY <1>0 DEF TypeInv, RingsOK
  <2>3. CASE /\ n < Len(q) /\ q[n + 1] \in Message
             /\ q[n + 1].type = "data" /\ q[n + 1].body \in Request
             /\ Process(w, q[n + 1])
    <3> DEFINE m == q[n + 1]
               old == rsp[w.group]
               answered == Put(old, Answer(m))
    <3>1. n + 1 \in 1 .. Len(q)
      BY <2>2, <2>3
    <3>2. m \in Owned'
      BY <1>1, <2>2, <2>3, <3>1 DEF OwnInv, OwnRequests
    <3>3. m \in Message /\ m.body \in Request
      BY <2>3
    <3>4. \/ rsp' = [rsp EXCEPT ![w.group] = answered] /\ pending' = pending
          \/ rsp' = [rsp EXCEPT ![w.group] = Put(answered, Closing(m))] /\ pending' = pending
          \/ rsp' = [rsp EXCEPT ![w.group] = Put(old, Closing(m))] /\ pending' = pending
          \/ rsp' = rsp /\ pending' = [pending EXCEPT ![w] = pending[w] \cup {m}]
      BY <2>3 DEF Process
    <3> HIDE DEF m
    <3>5. old \in Seq(Message) /\ Good(old)
      BY <1>2, <2>2
    <3> HIDE DEF old, answered
    <3>6. answered \in Seq(Message) /\ Good(answered) /\ Good(Put(old, Closing(m)))
      BY <1>3, <1>4, <3>2, <3>3, <3>5 DEF answered
    <3>7. Good(Put(answered, Closing(m)))
      BY <1>3, <1>4, <3>3, <3>6
    <3> QED BY <1>0, <1>2, <2>2, <3>2, <3>4, <3>6, <3>7
  <2> QED BY <1>5, <2>1, <2>3
<1>8. ASSUME NEW w \in Proc, BackAnswer(w)
      PROVE  (\A h \in Group : Good(rsp'[h])) /\ \A v \in Proc : pending'[v] \subseteq Owned'
  <2>1. PICK m \in pending[w] :
          /\ pending' = [pending EXCEPT ![w] = pending[w] \ {m}]
          /\ rsp' = [rsp EXCEPT ![w.group] = Put(rsp[w.group], Answer(m))]
    BY <1>8 DEF BackAnswer
  <2>2. m \in Message /\ m.body \in Request /\ m \in Owned'
    BY <1>0, <1>2 DEF TypeInv, WorkerOK
  <2>3. w.group \in Group
    BY <1>0
  <2>4. Good(Put(rsp[w.group], Answer(m)))
    BY <1>2, <1>3, <1>4, <2>2, <2>3
  <2> QED BY <1>0, <1>2, <2>1, <2>3, <2>4
<1>9. ASSUME NEW w \in Proc, WorkerRestart(w)
      PROVE  (\A h \in Group : Good(rsp'[h])) /\ \A v \in Proc : pending'[v] \subseteq Owned'
  BY <1>0, <1>2, <1>9 DEF WorkerRestart
<1> QED
  BY <1>5, <1>6, <1>7, <1>8, <1>9
  DEF Next, ProxyNext, WorkerNext, Accept, Sends, Recv, RecvEnd, RecvBad, RecvLong, RecvLocal,
      RecvNoRoute, RecvForward, RecvFull, Leave, Restart, vars, workerVars

\* The response that is sent: its flow finds the connection of its client.
LEMMA AnswersStep == TypeInv /\ OwnInv /\ [Next]_vars => AnswersReturn'
<1> SUFFICES ASSUME TypeInv, OwnInv, [Next]_vars, NEW a \in got'
             PROVE  a.of = a.cl \/ a.stale
  BY DEF AnswersReturn
<1>1. CASE a \in got
  BY <1>1 DEF OwnInv, AnswersReturn
<1>2. ASSUME RecvLocal, a \notin got PROVE a.of = a.cl
  <2>1. Head1.cl = conn[cur.flow].cl
    BY <1>2, Head1Owned DEF RecvLocal, OwnInv
  <2>2. a = [cl |-> conn[cur.flow].cl, of |-> Head1.cl, stale |-> FALSE]
    BY <1>2 DEF RecvLocal
  <2> QED BY <2>1, <2>2
<1>3. ASSUME NEW g \in Group, Respond(g), a \notin got PROVE a.of = a.cl \/ a.stale
  <2> DEFINE m == Head(rsp[g])
  <2>1. rsp[g] # <<>> /\ rsp[g] \in Seq(Message)
    BY <1>3 DEF Respond, TypeInv, RingsOK
  <2>2. m = rsp[g][1] /\ 1 \in 1 .. Len(rsp[g])
    BY <2>1, HeadTailProperties, EmptySeq
  <2>3. m.flow \in DOMAIN conn /\ m.body # CloseRequest
        /\ a = [cl |-> conn[m.flow].cl, of |-> m.body.cl, stale |-> m.life # life]
    BY <1>3 DEF Respond, Addressee
  <2>4. m \in Owned
    BY <2>2, <2>3 DEF OwnInv, OwnResponses
  <2> QED BY <2>3, <2>4 DEF Owned
<1> QED
  BY <1>1, <1>2, <1>3
  DEF Next, ProxyNext, WorkerNext, Accept, Sends, Recv, RecvEnd, RecvBad, RecvLong,
      RecvNoRoute, RecvForward, RecvFull, Leave, Restart, Poll, BackAnswer, WorkerRestart,
      vars, proxyVars

\* A client is sent responses to its own requests only, for as long as the proxy
\* lives: sendto finds the connection by a flow that is never given out again.
THEOREM AnswersAlwaysReturn == Spec => []AnswersReturn
<1>1. Init => OwnInv
  <2> SUFFICES ASSUME Init PROVE OwnInv
    OBVIOUS
  <2>1. Len(<<>>) = 0 /\ DOMAIN <<>> = {}
    OBVIOUS
  <2> QED
    BY <2>1 DEF Init, PipeInit, ProxyInit, WorkerInit, OwnInv, OwnRequests, OwnResponses,
                OwnPending, OwnInput, AnswersReturn
<1>2. TypeInv /\ OwnInv /\ [Next]_vars => OwnInv'
  BY OwnRequestsStep, OwnAnswersStep, InputStep, AnswersStep DEF OwnInv
<1>3. OwnInv => AnswersReturn
  BY DEF OwnInv
<1> QED BY <1>1, <1>2, <1>3, TypeCorrect, PTL DEF Spec

-----------------------------------------------------------------------------
(* Every request is in one place                                           *)

\* The elements of a queue.
LEMMA QueueRange ==
    ASSUME NEW S, NEW q \in Seq(S)
    PROVE  /\ Range(q) \subseteq S
           /\ \A r : r \in Range(q) <=> \E i \in 1 .. Len(q) : r = q[i]
<1>1. DOMAIN q = 1 .. Len(q) /\ \A i \in 1 .. Len(q) : q[i] \in S
  BY LenProperties, ElementOfSeq
<1> QED BY <1>1 DEF Range

\* Cutting a queue without repetition in two.
LEMMA CutQueue ==
    ASSUME NEW S, NEW q \in Seq(S), IsInjective(q), NEW n \in 0 .. Len(q)
    PROVE  LET a == SubSeq(q, 1, n)
               b == SubSeq(q, n + 1, Len(q))
           IN  /\ a \in Seq(S) /\ b \in Seq(S)
               /\ IsInjective(a) /\ IsInjective(b)
               /\ Range(a) \cup Range(b) = Range(q)
               /\ Range(a) \cap Range(b) = {}
<1> DEFINE a == SubSeq(q, 1, n)
           b == SubSeq(q, n + 1, Len(q))
<1>1. Len(q) \in Nat /\ \A i \in 1 .. Len(q) : q[i] \in S
  BY ElementOfSeq
<1>2. a \in Seq(S) /\ Len(a) = n /\ \A i \in 1 .. n : a[i] = q[i]
  BY <1>1, SubSeqProperties
<1>3. b \in Seq(S) /\ Len(b) = Len(q) - n /\ \A i \in 1 .. Len(q) - n : b[i] = q[i + n]
  <2>1. n \in Nat /\ n <= Len(q)
    BY <1>1
  <2> QED BY <2>1, DropElements
<1>4. DOMAIN q = 1 .. Len(q)
  BY LenProperties
<1> HIDE DEF a, b
<1>5. DOMAIN a = 1 .. n /\ DOMAIN b = 1 .. Len(q) - n
  BY <1>2, <1>3, LenProperties
<1>6. IsInjective(a) /\ IsInjective(b)
  <2>1. \A i, j \in 1 .. Len(q) : q[i] = q[j] => i = j
    BY <1>4 DEF IsInjective
  <2>2. \A i \in 1 .. n : i \in 1 .. Len(q) /\ a[i] = q[i]
    BY <1>1, <1>2
  <2>3. \A i \in 1 .. Len(q) - n : i + n \in 1 .. Len(q) /\ b[i] = q[i + n] /\ i \in Int /\ n \in Int
    BY <1>1, <1>3
  <2>4. IsInjective(a)
    BY <1>5, <2>1, <2>2 DEF IsInjective
  <2>5. ASSUME NEW i \in 1 .. Len(q) - n, NEW j \in 1 .. Len(q) - n, b[i] = b[j] PROVE i = j
    <3>1. i + n = j + n
      BY <2>1, <2>3, <2>5
    <3> QED BY <2>3, <3>1
  <2> QED BY <1>5, <2>4, <2>5 DEF IsInjective
<1>7. /\ \A r : r \in Range(q) <=> \E i \in 1 .. Len(q) : r = q[i]
      /\ \A r : r \in Range(a) <=> \E i \in 1 .. n : r = a[i]
      /\ \A r : r \in Range(b) <=> \E i \in 1 .. Len(q) - n : r = b[i]
  BY <1>4, <1>5 DEF Range
<1>8. Range(a) \subseteq Range(q) /\ Range(b) \subseteq Range(q)
  <2>1. \A i \in 1 .. n : i \in 1 .. Len(q) /\ a[i] = q[i]
    BY <1>1, <1>2
  <2>2. \A i \in 1 .. Len(q) - n : i + n \in 1 .. Len(q) /\ b[i] = q[i + n]
    BY <1>1, <1>3
  <2> QED BY <1>7, <2>1, <2>2
<1>9. \A i \in 1 .. Len(q) : i \in 1 .. n \/ (i - n \in 1 .. Len(q) - n /\ i - n + n = i)
  BY <1>1
<1>10. Range(q) \subseteq Range(a) \cup Range(b)
  <2>1. \A i \in 1 .. Len(q) :
          \/ i \in 1 .. n /\ a[i] = q[i]
          \/ i - n \in 1 .. Len(q) - n /\ b[i - n] = q[i]
    BY <1>2, <1>3, <1>9
  <2> QED BY <1>7, <2>1
<1>11. Range(a) \cap Range(b) = {}
  <2> SUFFICES ASSUME NEW i \in 1 .. n, NEW j \in 1 .. Len(q) - n, q[i] = q[j + n] PROVE FALSE
    BY <1>2, <1>3, <1>7
  <2> QED BY <1>1, <1>4 DEF IsInjective
<1> QED BY <1>2, <1>3, <1>6, <1>8, <1>10, <1>11 DEF a, b

\* Putting one queue behind another with other elements.
LEMMA JoinQueues ==
    ASSUME NEW S, NEW a \in Seq(S), NEW b \in Seq(S), IsInjective(a), IsInjective(b),
           Range(a) \cap Range(b) = {}
    PROVE  /\ a \o b \in Seq(S) /\ IsInjective(a \o b)
           /\ Range(a \o b) = Range(a) \cup Range(b)
<1> DEFINE q == a \o b
<1>1. /\ q \in Seq(S) /\ Len(q) = Len(a) + Len(b)
      /\ \A i \in 1 .. Len(a) + Len(b) : q[i] = IF i <= Len(a) THEN a[i] ELSE b[i - Len(a)]
  BY ConcatProperties
<1> HIDE DEF q
<1>2. /\ Len(a) \in Nat /\ Len(b) \in Nat
      /\ DOMAIN a = 1 .. Len(a) /\ DOMAIN b = 1 .. Len(b) /\ DOMAIN q = 1 .. Len(a) + Len(b)
  BY <1>1, LenProperties
<1>3. \A i \in 1 .. Len(a) + Len(b) :
        \/ i \in 1 .. Len(a) /\ q[i] = a[i]
        \/ i - Len(a) \in 1 .. Len(b) /\ q[i] = b[i - Len(a)]
  BY <1>1, <1>2
<1>4. \A i \in 1 .. Len(a) : i \in 1 .. Len(a) + Len(b) /\ q[i] = a[i]
  BY <1>1, <1>2
<1>5. \A i \in 1 .. Len(b) : i + Len(a) \in 1 .. Len(a) + Len(b) /\ q[i + Len(a)] = b[i]
  BY <1>1, <1>2
<1>6. /\ \A r : r \in Range(q) <=> \E i \in 1 .. Len(a) + Len(b) : r = q[i]
      /\ \A r : r \in Range(a) <=> \E i \in 1 .. Len(a) : r = a[i]
      /\ \A r : r \in Range(b) <=> \E i \in 1 .. Len(b) : r = b[i]
  BY <1>2 DEF Range
<1>7. Range(q) = Range(a) \cup Range(b)
  <2>1. \A r \in Range(q) : r \in Range(a) \/ r \in Range(b)
    BY <1>3, <1>6
  <2>2. \A r \in Range(a) : r \in Range(q)
    BY <1>4, <1>6
  <2>3. \A r \in Range(b) : r \in Range(q)
    BY <1>5, <1>6
  <2> QED BY <2>1, <2>2, <2>3
<1>8. \A i \in 1 .. Len(a), j \in 1 .. Len(b) : a[i] # b[j]
  BY <1>6
<1>9. ASSUME NEW i \in 1 .. Len(a) + Len(b), NEW j \in 1 .. Len(a) + Len(b), q[i] = q[j]
      PROVE  i = j
  <2>1. CASE i \in 1 .. Len(a) /\ q[i] = a[i]
    <3>1. j \in 1 .. Len(a) /\ q[j] = a[j]
      BY <1>3, <1>8, <1>9, <2>1
    <3> QED BY <1>2, <1>9, <2>1, <3>1 DEF IsInjective
  <2>2. CASE i - Len(a) \in 1 .. Len(b) /\ q[i] = b[i - Len(a)]
    <3>1. j - Len(a) \in 1 .. Len(b) /\ q[j] = b[j - Len(a)]
      BY <1>3, <1>8, <1>9, <2>2
    <3>2. i - Len(a) = j - Len(a)
      BY <1>2, <1>9, <2>2, <3>1 DEF IsInjective
    <3> QED BY <1>2, <3>2
  <2> QED BY <1>3, <2>1, <2>2
<1>10. IsInjective(q)
  BY <1>2, <1>9 DEF IsInjective
<1> QED BY <1>1, <1>7, <1>10 DEF q

\* The requests of ring q are those of its first n messages, perhaps that of the
\* next one, and those of the ring s that is left.
CutAt(q, n, s) ==
    LET all == DataIn(q, Len(q))
        old == DataIn(q, n)
        new == DataIn(s, Len(s))
    IN  /\ DataOnce(s)
        /\ old \cup new \subseteq all /\ old \cap new = {}
        /\ \A r \in all : r \in old \/ r \in new \/ (n < Len(q) /\ r = q[n + 1].body)
        /\ n < Len(q) /\ q[n + 1].type = "data" =>
             q[n + 1].body \in all /\ q[n + 1].body \notin old \cup new
        /\ n < Len(q) /\ q[n + 1].type # "data" => all = old \cup new

\* Taking messages from the head of a ring.
LEMMA CutRing ==
    ASSUME NEW q \in Seq(Message), DataOnce(q), NEW n \in 0 .. Len(q)
    PROVE  CutAt(q, n, SubSeq(q, n + 2, Len(q)))
<1>0. PICK s : s = SubSeq(q, n + 2, Len(q))
  OBVIOUS
<1>1. Len(q) \in Nat /\ n \in Nat
  OBVIOUS
<1>2. \A i \in 1 .. Len(s) : i + n + 1 \in 1 .. Len(q) /\ s[i] = q[i + n + 1]
  BY <1>0, TakenElements
<1>3. /\ Len(s) \in Nat
      /\ \A i \in 1 .. Len(q) :
           \/ i \in 1 .. n
           \/ n < Len(q) /\ i = n + 1
           \/ i - n - 1 \in 1 .. Len(s) /\ s[i - n - 1] = q[i]
  <2> DEFINE k == n + 1
  <2>1. k \in Nat /\ n + 2 = k + 1
    OBVIOUS
  <2>2. /\ Len(SubSeq(q, k + 1, Len(q))) = IF k <= Len(q) THEN Len(q) - k ELSE 0
        /\ \A i \in 1 .. Len(q) - k : SubSeq(q, k + 1, Len(q))[i] = q[i + k]
    BY <2>1, DropElements
  <2>3. /\ Len(s) = IF k <= Len(q) THEN Len(q) - k ELSE 0
        /\ \A i \in 1 .. Len(q) - k : s[i] = q[i + k]
    BY <1>0, <2>1, <2>2
  <2>4. \A i \in 1 .. Len(q) : i > k => i - k \in 1 .. Len(q) - k /\ i - k + k = i /\ i - k = i - n - 1
    BY <1>1
  <2>5. \A i \in 1 .. Len(q) : i > k => i - n - 1 \in 1 .. Len(s) /\ s[i - n - 1] = q[i]
    BY <1>1, <2>1, <2>3, <2>4
  <2>6. Len(s) \in Nat
    BY <1>1, <2>1, <2>3
  <2> QED BY <1>1, <2>5, <2>6
<1>4. DataOnce(s)
  <2> SUFFICES ASSUME NEW i \in 1 .. Len(s), NEW j \in 1 .. Len(s), s[i].type = "data",
                      s[j].type = "data", s[i].body = s[j].body
               PROVE  i = j
    BY DEF DataOnce
  <2>1. /\ i + n + 1 \in 1 .. Len(q) /\ s[i] = q[i + n + 1]
        /\ j + n + 1 \in 1 .. Len(q) /\ s[j] = q[j + n + 1]
    BY <1>2
  <2>2. i + n + 1 = j + n + 1
    BY <2>1 DEF DataOnce
  <2> QED BY <1>1, <2>2
<1>5. n \in 0 .. Len(q) /\ (n < Len(q) => n + 1 \in 1 .. Len(q))
  BY <1>1
<1> DEFINE all == DataIn(q, Len(q))
           old == DataIn(q, n)
           new == DataIn(s, Len(s))
<1>6. /\ \A r : r \in all <=> \E i \in 1 .. Len(q) : q[i].type = "data" /\ q[i].body = r
      /\ \A r : r \in old <=> \E i \in 1 .. n : q[i].type = "data" /\ q[i].body = r
      /\ \A r : r \in new <=> \E i \in 1 .. Len(s) : s[i].type = "data" /\ s[i].body = r
  BY DEF DataIn
<1> HIDE DEF all, old, new
<1>7. old \cup new \subseteq all
  BY <1>1, <1>2, <1>6
<1>8. old \cap new = {}
  <2> SUFFICES ASSUME NEW i \in 1 .. n, NEW j \in 1 .. Len(s), q[i].type = "data",
                      s[j].type = "data", q[i].body = s[j].body
               PROVE  FALSE
    <3>1. SUFFICES ASSUME NEW r, r \in old, r \in new PROVE FALSE
      OBVIOUS
    <3>2. PICK i \in 1 .. n : q[i].type = "data" /\ q[i].body = r
      BY <1>6, <3>1
    <3>3. PICK j \in 1 .. Len(s) : s[j].type = "data" /\ s[j].body = r
      BY <1>6, <3>1
    <3> QED BY <3>2, <3>3
  <2>1. i \in 1 .. Len(q) /\ j + n + 1 \in 1 .. Len(q) /\ s[j] = q[j + n + 1] /\ i # j + n + 1
    BY <1>1, <1>2
  <2> QED BY <2>1 DEF DataOnce
<1>9. \A r \in all : r \in old \/ r \in new \/ (n < Len(q) /\ q[n + 1].type = "data" /\ r = q[n + 1].body)
  <2> SUFFICES ASSUME NEW r \in all, r \notin old, r \notin new
               PROVE  n < Len(q) /\ q[n + 1].type = "data" /\ r = q[n + 1].body
    OBVIOUS
  <2>1. PICK i \in 1 .. Len(q) : q[i].type = "data" /\ q[i].body = r
    BY <1>6
  <2>2. i \notin 1 .. n
    BY <1>6, <2>1
  <2>3. ~(i - n - 1 \in 1 .. Len(s) /\ s[i - n - 1] = q[i])
    <3> DEFINE j == i - n - 1
    <3>1. \A k \in 1 .. Len(s) : s[k].type = "data" => s[k].body # r
      BY <1>6
    <3> HIDE DEF j
    <3>2. ~(j \in 1 .. Len(s) /\ s[j] = q[i])
      BY <2>1, <3>1
    <3> QED BY <3>2 DEF j
  <2> QED BY <1>3, <2>1, <2>2, <2>3
<1>10. ASSUME n < Len(q), q[n + 1].type = "data"
       PROVE  q[n + 1].body \in all /\ q[n + 1].body \notin old /\ q[n + 1].body \notin new
  <2>1. q[n + 1].body \in all
    BY <1>5, <1>6, <1>10
  <2>2. ASSUME NEW i \in 1 .. n, q[i].type = "data", q[i].body = q[n + 1].body PROVE FALSE
    <3>1. i \in 1 .. Len(q) /\ i # n + 1
      BY <1>1
    <3> QED BY <1>5, <1>10, <2>2, <3>1 DEF DataOnce
  <2>3. ASSUME NEW j \in 1 .. Len(s), s[j].type = "data", s[j].body = q[n + 1].body PROVE FALSE
    <3>1. j + n + 1 \in 1 .. Len(q) /\ s[j] = q[j + n + 1] /\ j + n + 1 # n + 1
      BY <1>1, <1>2
    <3> QED BY <1>5, <1>10, <2>3, <3>1 DEF DataOnce
  <2> QED BY <1>6, <2>1, <2>2, <2>3
<1> QED BY <1>0, <1>4, <1>7, <1>8, <1>9, <1>10 DEF CutAt, all, old, new

\* What is left of what is left of a queue.
LEMMA DropTwice ==
    ASSUME NEW S, NEW q \in Seq(S), NEW p \in Nat, NEW n \in Nat, p <= n, n <= Len(q),
           NEW s, s = SubSeq(q, p + 1, Len(q))
    PROVE  SubSeq(s, n - p + 1, Len(s)) = SubSeq(q, n + 1, Len(q))
<1> DEFINE d == n - p
           a == SubSeq(s, d + 1, Len(s))
           b == SubSeq(q, n + 1, Len(q))
<1>1. Len(q) \in Nat /\ d \in Nat /\ d + p = n
  OBVIOUS
<1>2. /\ s \in Seq(S) /\ Len(s) = Len(q) - p
      /\ \A i \in 1 .. Len(q) - p : s[i] = q[i + p]
  <2>1. p <= Len(q)
    BY <1>1
  <2>2. /\ SubSeq(q, p + 1, Len(q)) \in Seq(S) /\ Len(SubSeq(q, p + 1, Len(q))) = Len(q) - p
        /\ \A i \in 1 .. Len(q) - p : SubSeq(q, p + 1, Len(q))[i] = q[i + p]
    BY <2>1, DropElements
  <2> QED BY <2>2
<1>3. b \in Seq(S) /\ Len(b) = Len(q) - n /\ \A i \in 1 .. Len(q) - n : b[i] = q[i + n]
  BY <1>1, DropElements
<1>4. d <= Len(s) /\ Len(s) - d = Len(q) - n
  BY <1>1, <1>2
<1> HIDE DEF d
<1>5. a \in Seq(S) /\ Len(a) = Len(s) - d /\ \A i \in 1 .. Len(s) - d : a[i] = s[i + d]
  BY <1>1, <1>2, <1>4, DropElements
<1> HIDE DEF a, b
<1>6. \A i \in 1 .. Len(q) - n : i + d \in 1 .. Len(q) - p /\ i + d + p = i + n
  BY <1>1, <1>2, <1>4
<1>7. \A i \in 1 .. Len(q) - n : a[i] = b[i]
  BY <1>2, <1>3, <1>4, <1>5, <1>6
<1>8. a = b
  BY <1>3, <1>4, <1>5, <1>7, SeqEqual
<1> QED BY <1>8 DEF a, b, d

\* The same, one element at a time.
LEMMA DropNext ==
    ASSUME NEW S, NEW q \in Seq(S), NEW p \in Nat, p + 1 <= Len(q),
           NEW s, s = SubSeq(q, p + 1, Len(q))
    PROVE  SubSeq(s, 2, Len(s)) = SubSeq(q, p + 1 + 1, Len(q))
<1> DEFINE n == p + 1
<1>1. n \in Nat /\ p <= n /\ n <= Len(q)
  OBVIOUS
<1>2. n - p + 1 = 2
  OBVIOUS
<1> HIDE DEF n
<1>3. SubSeq(s, n - p + 1, Len(s)) = SubSeq(q, n + 1, Len(q))
  BY <1>1, DropTwice
<1> QED BY <1>2, <1>3 DEF n

\* What waits in the caches.
LEMMA RestType ==
    ASSUME TypeInv
    PROVE  /\ rest \in [DOMAIN conn -> Seq(Request)]
           /\ \A f \in DOMAIN conn :
                /\ conn[f].cache \in Seq(Request)
                /\ Done(f) \in 0 .. Len(conn[f].cache)
                /\ Len(rest[f]) = Len(conn[f].cache) - Done(f)
           /\ More => Len(rest[cur.flow]) = cur.total - cur.processed /\ Head1 = rest[cur.flow][1]
<1>1. \A f \in DOMAIN conn : conn[f].cache \in Seq(Request)
  BY DEF TypeInv, ConnOK, ConnType
<1>2. \A f \in DOMAIN conn : Done(f) \in 0 .. Len(conn[f].cache)
  BY <1>1 DEF TypeInv, CurOK, CurType, Done
<1>3. ASSUME NEW f \in DOMAIN conn
      PROVE  /\ rest[f] \in Seq(Request) /\ Len(rest[f]) = Len(conn[f].cache) - Done(f)
             /\ \A i \in 1 .. Len(conn[f].cache) - Done(f) : rest[f][i] = conn[f].cache[i + Done(f)]
  <2> DEFINE q == conn[f].cache
             d == Done(f)
  <2>1. q \in Seq(Request) /\ d \in Nat /\ d <= Len(q)
    BY <1>1, <1>2
  <2>2. rest[f] = SubSeq(q, d + 1, Len(q))
    BY DEF rest
  <2> HIDE DEF q, d
  <2>3. rest[f] \in Seq(Request) /\ Len(rest[f]) = Len(q) - d /\ \A i \in 1 .. Len(q) - d : rest[f][i] = q[i + d]
    BY <2>1, <2>2, DropElements
  <2> QED BY <2>3 DEF q, d
<1>4. rest \in [DOMAIN conn -> Seq(Request)]
  BY <1>3 DEF rest
<1>5. ASSUME More
      PROVE  Len(rest[cur.flow]) = cur.total - cur.processed /\ Head1 = rest[cur.flow][1]
  <2>1. /\ cur \in CurType /\ cur.flow \in DOMAIN conn /\ cur.processed < cur.total
        /\ cur.total = Len(conn[cur.flow].cache) /\ Done(cur.flow) = cur.processed
    BY <1>5, Head1Type DEF More, TypeInv, CurOK, Done
  <2>2. 1 \in 1 .. cur.total - cur.processed /\ 1 + cur.processed = cur.processed + 1
    BY <2>1 DEF CurType
  <2> QED BY <1>3, <2>1, <2>2 DEF Head1
<1> QED BY <1>1, <1>2, <1>3, <1>4, <1>5

\* Nothing happens to a cache.
LEMMA RestSame == UNCHANGED <<conn, cur>> => rest' = rest
BY DEF rest, Done

\* A connection goes with what waits for it.
LEMMA RestGone ==
    ASSUME TypeInv, NEW f \in DOMAIN conn, Gone(f), cur' = None, cur = None \/ cur.flow = f
    PROVE  rest' = [k \in DOMAIN conn \ {f} |-> rest[k]]
<1>1. DOMAIN conn' = DOMAIN conn \ {f} /\ \A k \in DOMAIN conn' : conn'[k] = conn[k]
  BY CloseStep
<1>2. \A k \in DOMAIN conn' : k # f
  BY <1>1
<1> QED BY <1>1, <1>2 DEF rest, Done

\* ator_recvdata has dealt with more requests, and returns.
LEMMA RestReturn ==
    ASSUME TypeInv, cur # None, NEW n \in Nat, cur.processed <= n, n <= cur.total, Return(n)
    PROVE  rest' = [rest EXCEPT ![cur.flow] =
                      SubSeq(rest[cur.flow], n - cur.processed + 1, Len(rest[cur.flow]))]
<1> DEFINE f == cur.flow
           q == conn[f].cache
           s == rest[f]
<1>1. cur \in CurType /\ f \in DOMAIN conn /\ cur.total = Len(q) /\ Done(f) = cur.processed
  BY DEF TypeInv, CurOK, Done
<1>2. /\ DOMAIN conn' = DOMAIN conn /\ cur' = None
      /\ \A k \in DOMAIN conn : k # f => conn'[k] = conn[k]
      /\ conn'[f].cache = SubSeq(q, n + 1, Len(q))
  BY ReturnStep DEF Return
<1>3. q \in Seq(Request) /\ s = SubSeq(q, cur.processed + 1, Len(q))
  BY <1>1, RestType DEF rest
<1>4. cur.processed \in Nat
  BY <1>1 DEF CurType
<1> DEFINE t == SubSeq(q, n + 1, Len(q))
<1>5. SubSeq(s, n - cur.processed + 1, Len(s)) = t
  <2> DEFINE p == cur.processed
  <2>1. q \in Seq(Request) /\ p \in Nat /\ p <= n /\ n <= Len(q) /\ s = SubSeq(q, p + 1, Len(q))
    BY <1>1, <1>3, <1>4
  <2> HIDE DEF p, q, s
  <2>2. SubSeq(s, n - p + 1, Len(s)) = SubSeq(q, n + 1, Len(q))
    BY <2>1, DropTwice
  <2> QED BY <2>2 DEF p
<1>6. t \in Seq(Request)
  BY <1>3, DropElements
<1> HIDE DEF t
<1>7. SubSeq(t, 1, Len(t)) = t
  BY <1>6, SubSeqFull
<1>8. rest' = [k \in DOMAIN conn |-> IF k = f THEN t ELSE rest[k]]
  <2>1. rest' = [k \in DOMAIN conn' |-> SubSeq(conn'[k].cache, 1, Len(conn'[k].cache))]
    BY <1>2 DEF rest, Done
  <2>2. \A k \in DOMAIN conn : k # f => rest[k] = SubSeq(conn[k].cache, 1, Len(conn[k].cache))
    BY DEF rest, Done
  <2> HIDE DEF q, s, f
  <2> QED BY <1>1, <1>2, <1>7, <2>1, <2>2 DEF t
<1> QED BY <1>1, <1>5, <1>8, RestType

\* ator_recvdata has dealt with a request, and goes on.
LEMMA RestNext ==
    ASSUME TypeInv, More, conn' = conn, cur' = [cur EXCEPT !.processed = cur.processed + 1]
    PROVE  rest' = [rest EXCEPT ![cur.flow] = SubSeq(rest[cur.flow], 2, Len(rest[cur.flow]))]
<1>0. PICK f \in DOMAIN conn : f = cur.flow
  BY Head1Type
<1>1. PICK p \in Nat : p = cur.processed
  BY Head1Type DEF CurType
<1> DEFINE q == conn[f].cache
<1>2. cur \in CurType /\ p < cur.total /\ cur.total = Len(q) /\ Done(f) = p
  BY <1>0, <1>1, Head1Type DEF More, TypeInv, CurOK, Done
<1>3. q \in Seq(Request) /\ rest[f] = SubSeq(q, p + 1, Len(q)) /\ p + 1 <= Len(q)
  <2>1. q \in Seq(Request)
    BY RestType
  <2>2. rest[f] = SubSeq(q, p + 1, Len(q))
    BY <1>2 DEF rest
  <2>3. cur.total \in Nat
    BY <1>2 DEF CurType
  <2> QED BY <1>2, <2>1, <2>2, <2>3
<1>4. cur' # None /\ cur'.flow = f /\ cur'.processed = p + 1
  <2>1. cur' \in CurType
    BY <1>2 DEF CurType
  <2> QED BY <1>0, <1>1, <1>2, <2>1, ProxyAssumption DEF CurType
<1> DEFINE s == rest[f]
           t == SubSeq(q, p + 1 + 1, Len(q))
<1> HIDE DEF q, s
<1>5. SubSeq(s, 2, Len(s)) = t
  BY <1>3, DropNext DEF s
<1> USE DEF q, s
<1>6. \A k \in DOMAIN conn : k # f => Done(k) = 0 /\ Done(k)' = 0
  BY <1>0, <1>4 DEF Done
<1>7. Done(f)' = p + 1
  BY <1>4 DEF Done
<1>8. rest' = [k \in DOMAIN conn |-> SubSeq(conn[k].cache, Done(k)' + 1, Len(conn[k].cache))]
  BY DEF rest
<1>9. \A k \in DOMAIN conn : k # f => rest[k] = SubSeq(conn[k].cache, 0 + 1, Len(conn[k].cache))
  BY <1>6 DEF rest
<1>10. rest' = [k \in DOMAIN conn |-> IF k = f THEN t ELSE rest[k]]
  BY <1>6, <1>7, <1>8, <1>9
<1> HIDE DEF s, t
<1> QED BY <1>0, <1>5, <1>10, RestType DEF s

\* recv puts what it takes behind what is cached.
LEMMA RestRecv ==
    ASSUME TypeInv, NEW f \in DOMAIN conn, Recv(f)
    PROVE  \E n \in 0 .. Len(outbox[conn[f].cl]) :
             LET q == outbox[conn[f].cl]
             IN  /\ rest' = [rest EXCEPT ![f] = rest[f] \o SubSeq(q, 1, n)]
                 /\ outbox' = [outbox EXCEPT ![conn[f].cl] = SubSeq(q, n + 1, Len(q))]
<1> DEFINE q == outbox[conn[f].cl]
           d == conn[f].cache
<1>1. d \in Seq(Request) /\ q \in Seq(Request)
  BY DEF ConnType, TypeInv, ClientOK, ConnOK
<1>2. PICK n \in 1 .. Len(q) :
        /\ conn' = [conn EXCEPT ![f].cache = d \o SubSeq(q, 1, n)]
        /\ outbox' = [outbox EXCEPT ![conn[f].cl] = SubSeq(q, n + 1, Len(q))]
        /\ cur' = [flow |-> f, total |-> Len(d \o SubSeq(q, 1, n)), processed |-> 0]
  BY DEF Recv
<1> DEFINE t == d \o SubSeq(q, 1, n)
<1>3. \A i \in 1 .. n : q[i] \in Request
  BY <1>1, ElementOfSeq
<1>4. SubSeq(q, 1, n) \in Seq(Request)
  BY <1>1, <1>3, SubSeqProperties
<1>5. t \in Seq(Request)
  BY <1>1, <1>4, ConcatProperties
<1>6. conn' = [conn EXCEPT ![f].cache = t] /\ cur'.flow = f /\ cur'.processed = 0 /\ cur = None
  BY <1>2 DEF Recv
<1>7. SubSeq(d, 1, Len(d)) = d /\ SubSeq(t, 1, Len(t)) = t
  BY <1>1, <1>5, SubSeqFull
<1> HIDE DEF t, q
<1>8. \A k \in DOMAIN conn : Done(k) = 0 /\ Done(k)' = 0
  BY <1>6 DEF Done
<1>9. rest' = [k \in DOMAIN conn' |-> SubSeq(conn'[k].cache, 1, Len(conn'[k].cache))]
  <2>1. DOMAIN conn' = DOMAIN conn
    BY <1>6
  <2> QED BY <1>8, <2>1 DEF rest
<1>10. /\ DOMAIN conn' = DOMAIN conn /\ conn'[f].cache = t
       /\ \A k \in DOMAIN conn : k # f => conn'[k] = conn[k]
  BY <1>6 DEF TypeInv, ConnOK, ConnType
<1>11. \A k \in DOMAIN conn : rest[k] = SubSeq(conn[k].cache, 1, Len(conn[k].cache))
  BY <1>8 DEF rest
<1>12. rest[f] = d
  BY <1>7, <1>11
<1>13. rest' = [rest EXCEPT ![f] = t]
  BY <1>7, <1>9, <1>10, <1>11, RestType
<1>14. n \in 0 .. Len(q)
  BY <1>1
<1> QED BY <1>2, <1>12, <1>13, <1>14 DEF t, q

\* A new connection has nothing cached.
LEMMA RestAccept ==
    ASSUME TypeInv, NEW c \in Client, Accept(c)
    PROVE  /\ DOMAIN conn \subseteq DOMAIN conn'
           /\ \A k \in DOMAIN conn : conn'[k] = conn[k]
           /\ \A k \in DOMAIN conn' : rest'[k] = IF k \in DOMAIN conn THEN rest[k] ELSE <<>>
<1>1. CASE conn' = conn
  BY <1>1, RestSame DEF Accept
<1>2. CASE /\ FlowFor # {}
           /\ conn' = [f \in DOMAIN conn \cup {Min(FlowFor)} |->
                         IF f \in DOMAIN conn THEN conn[f] ELSE [cl |-> c, cache |-> <<>>]]
  <2> DEFINE new == [cl |-> c, cache |-> <<>>]
  <2>1. /\ DOMAIN conn \subseteq DOMAIN conn'
        /\ \A k \in DOMAIN conn : conn'[k] = conn[k]
        /\ \A k \in DOMAIN conn' : k \notin DOMAIN conn => conn'[k].cache = <<>>
    BY <1>2
  <2>2. \A k : Done(k)' = 0 /\ Done(k) = 0
    BY DEF Accept, Done
  <2>3. SubSeq(<<>>, 1, Len(<<>>)) = <<>>
    BY SubSeqFull, EmptySeq
  <2>4. \A k \in DOMAIN conn' : rest'[k] = SubSeq(conn'[k].cache, 1, Len(conn'[k].cache))
    BY <2>2 DEF rest
  <2>5. \A k \in DOMAIN conn : rest[k] = SubSeq(conn[k].cache, 1, Len(conn[k].cache))
    BY <2>2 DEF rest
  <2> QED BY <2>1, <2>3, <2>4, <2>5
<1> QED BY <1>1, <1>2 DEF Accept

\* What waits for one connection does not wait for another.
LEMMA Apart ==
    ASSUME TypeInv, OwnInput
    PROVE  /\ \A c \in Client : \A r \in Range(outbox[c]) : r \in Request /\ r.cl = c
           /\ \A f \in DOMAIN conn : \A r \in Range(rest[f]) : r \in Request /\ r.cl = conn[f].cl
           /\ \A f, k \in DOMAIN conn : f # k => Range(rest[f]) \cap Range(rest[k]) = {}
<1>1. ASSUME NEW c \in Client, NEW r \in Range(outbox[c]) PROVE r \in Request /\ r.cl = c
  <2>1. outbox[c] \in Seq(Request)
    BY DEF TypeInv, ClientOK
  <2> QED BY <1>1, <2>1, QueueRange DEF OwnInput
<1>2. ASSUME NEW f \in DOMAIN conn, NEW r \in Range(rest[f])
      PROVE  r \in Request /\ r.cl = conn[f].cl
  <2> DEFINE q == conn[f].cache
             d == Done(f)
  <2>1. q \in Seq(Request) /\ d \in Nat /\ d <= Len(q) /\ rest[f] \in Seq(Request)
    BY RestType
  <2>2. rest[f] = SubSeq(q, d + 1, Len(q))
    BY DEF rest
  <2>3. \A i \in 1 .. Len(q) : q[i].cl = conn[f].cl
    BY DEF OwnInput
  <2> HIDE DEF q, d
  <2>4. Len(rest[f]) = Len(q) - d /\ \A i \in 1 .. Len(q) - d : rest[f][i] = q[i + d]
    BY <2>1, <2>2, DropElements
  <2>5. PICK i \in 1 .. Len(rest[f]) : r = rest[f][i]
    BY <1>2, <2>1, QueueRange
  <2>6. i + d \in 1 .. Len(q)
    BY <2>1, <2>4
  <2> QED BY <1>2, <2>1, <2>3, <2>4, <2>5, <2>6, QueueRange
<1>3. \A f, k \in DOMAIN conn : f # k => conn[f].cl # conn[k].cl
  BY DEF TypeInv, ConnOK
<1> QED BY <1>1, <1>2, <1>3

\* A client's queue is emptied, or shortened.
LEMMA OutboxStep ==
    ASSUME TypeInv, OwnInput, NEW c \in Client, NEW q, outbox' = [outbox EXCEPT ![c] = q],
           \A r \in Range(q) : r \in Request /\ r.cl = c
    PROVE  inOutbox' = (inOutbox \ Range(outbox[c])) \cup Range(q)
<1>1. outbox \in [Client -> Seq(Request)]
  BY DEF TypeInv, ClientOK
<1>2. \A d \in Client : outbox'[d] = IF d = c THEN q ELSE outbox[d]
  BY <1>1
<1>3. \A r \in Request : r.cl \in Client
  BY DEF Request
<1>4. \A r \in Range(outbox[c]) : r.cl = c
  BY Apart
<1>5. inOutbox' = {r \in Request : r \in Range(outbox'[r.cl])}
  BY DEF inOutbox
<1>6. inOutbox = {r \in Request : r \in Range(outbox[r.cl])}
  BY DEF inOutbox
<1>7. \A r \in Request : r.cl # c => (r \in inOutbox' <=> r \in inOutbox)
  BY <1>2, <1>3, <1>5, <1>6
<1>8. \A r \in Request : r.cl = c => (r \in inOutbox' <=> r \in Range(q))
  BY <1>2, <1>5
<1>9. \A r \in Request : r.cl = c => (r \in inOutbox <=> r \in Range(outbox[c]))
  BY <1>6
<1> QED BY <1>4, <1>5, <1>6, <1>7, <1>8, <1>9

\* ator_recvdata is done with the first m of the requests that wait.
LEMMA CacheStep ==
    ASSUME TypeInv, OwnInput, OnceCache, NEW f \in DOMAIN conn, DOMAIN conn' = DOMAIN conn,
           NEW m \in 0 .. Len(rest[f]),
           rest' = [rest EXCEPT ![f] = SubSeq(rest[f], m + 1, Len(rest[f]))]
    PROVE  /\ OnceCache'
           /\ Range(SubSeq(rest[f], 1, m)) \subseteq inCache
           /\ inCache' = inCache \ Range(SubSeq(rest[f], 1, m))
<1> DEFINE q == rest[f]
           a == SubSeq(q, 1, m)
           b == SubSeq(q, m + 1, Len(q))
<1>1. q \in Seq(Request) /\ IsInjective(q)
  BY RestType DEF OnceCache
<1>2. /\ IsInjective(b) /\ Range(a) \cup Range(b) = Range(q) /\ Range(a) \cap Range(b) = {}
  BY <1>1, CutQueue
<1>3. \A k \in DOMAIN conn : rest'[k] = IF k = f THEN b ELSE rest[k]
  BY RestType
<1> HIDE DEF a, b, q
<1>4. OnceCache'
  BY <1>2, <1>3 DEF OnceCache
<1>5. \A r : r \in inCache' <=> \E k \in DOMAIN conn : r \in Range(rest'[k])
  BY DEF inCache
<1>6. \A r : r \in inCache <=> \E k \in DOMAIN conn : r \in Range(rest[k])
  BY DEF inCache
<1>7. \A k \in DOMAIN conn : k # f => Range(rest[k]) \cap Range(q) = {}
  BY Apart DEF q
<1>8. rest[f] = q
  BY DEF q
<1>9. Range(a) \subseteq inCache
  BY <1>2, <1>6, <1>8
<1>10. \A r \in inCache' : r \in inCache /\ r \notin Range(a)
  BY <1>2, <1>3, <1>5, <1>6, <1>7, <1>8
<1>11. \A r \in inCache : r \notin Range(a) => r \in inCache'
  BY <1>2, <1>3, <1>5, <1>6, <1>8
<1> QED BY <1>4, <1>9, <1>10, <1>11 DEF a, q

\* A connection goes: what waits for it goes, and nothing else.
LEMMA GoneStep ==
    ASSUME TypeInv, OwnInput, OnceCache, OnceOutbox, NEW f \in DOMAIN conn, Gone(f),
           cur' = None, cur = None \/ cur.flow = f
    PROVE  /\ OnceCache' /\ OnceOutbox'
           /\ Range(rest[f]) \subseteq inCache /\ Range(outbox[conn[f].cl]) \subseteq inOutbox
           /\ inCache' = inCache \ Range(rest[f])
           /\ inOutbox' = inOutbox \ Range(outbox[conn[f].cl])
<1>1. rest' = [k \in DOMAIN conn \ {f} |-> rest[k]]
  BY RestGone
<1>2. DOMAIN conn' = DOMAIN conn \ {f} /\ conn[f].cl \in Client
      /\ \A c \in Client : outbox'[c] = IF c = conn[f].cl THEN <<>> ELSE outbox[c]
  BY CloseStep
<1>3. \A r : r \in inCache' <=> \E k \in DOMAIN conn \ {f} : r \in Range(rest[k])
  <2>1. inCache' = UNION {Range(rest'[k]) : k \in DOMAIN conn'}
    BY DEF inCache
  <2> QED BY <1>1, <1>2, <2>1
<1>4. \A r : r \in inCache <=> \E k \in DOMAIN conn : r \in Range(rest[k])
  BY DEF inCache
<1>5. \A k \in DOMAIN conn : k # f => Range(rest[k]) \cap Range(rest[f]) = {}
  BY Apart
<1>6. Range(rest[f]) \subseteq inCache /\ inCache' = inCache \ Range(rest[f])
  BY <1>3, <1>4, <1>5
<1>7. OnceCache'
  BY <1>1, <1>2 DEF OnceCache
<1>8. Range(<<>>) = {} /\ IsInjective(<<>>)
  BY DEF Range, IsInjective
<1>9. OnceOutbox'
  BY <1>2, <1>8 DEF OnceOutbox
<1>10. Range(outbox[conn[f].cl]) \subseteq inOutbox
  BY <1>2, Apart DEF inOutbox
<1>11. inOutbox' = (inOutbox \ Range(outbox[conn[f].cl])) \cup Range(<<>>)
  <2> DEFINE c == conn[f].cl
  <2>1. outbox' = [outbox EXCEPT ![c] = <<>>] /\ c \in Client
    BY <1>2 DEF Gone
  <2> HIDE DEF c
  <2>2. inOutbox' = (inOutbox \ Range(outbox[c])) \cup Range(<<>>)
    BY <1>8, <2>1, OutboxStep
  <2> QED BY <2>2 DEF c
<1> QED BY <1>6, <1>7, <1>8, <1>9, <1>10, <1>11

\* What the rings hold, in terms of their messages.
LEMMA RingData ==
    ASSUME NEW q
    PROVE  \A r : r \in DataIn(q, Len(q)) <=> \E i \in 1 .. Len(q) : q[i].type = "data" /\ q[i].body = r
BY DEF DataIn

\* Events are no requests.
LEMMA EventsNoData ==
    ASSUME TypeInv, RingsOK', OnceRing, req' = req \/ \A g \in Group : Extended(g)
    PROVE  OnceRing' /\ inReq' = inReq
<1>1. CASE req' = req
  BY <1>1 DEF OnceRing, inReq, data, DataOnce
<1>2. CASE \A g \in Group : Extended(g)
  <2>1. ASSUME NEW g \in Group
        PROVE  DataOnce(req'[g]) /\ DataIn(req'[g], Len(req'[g])) = DataIn(req[g], Len(req[g]))
    <3> DEFINE q == req[g]
               s == req'[g]
    <3>1. Len(q) \in Nat /\ DataOnce(q)
      BY DEF TypeInv, RingsOK, OnceRing
    <3>2. ASSUME NEW m, Announced(m) PROVE m.type # "data"
      BY <3>2 DEF Announced, Ends
    <3>3. /\ Len(q) <= Len(s)
          /\ \A i \in 1 .. Len(s) : IF i <= Len(q) THEN s[i] = q[i] ELSE s[i].type # "data"
      BY <1>2, <3>2 DEF Extended
    <3> HIDE DEF q, s
    <3>4. \A i \in 1 .. Len(s) : s[i].type = "data" => i \in 1 .. Len(q) /\ s[i] = q[i]
      BY <3>1, <3>3
    <3>5. Len(s) \in Nat
      BY DEF RingsOK, s
    <3>6. \A i \in 1 .. Len(q) : i \in 1 .. Len(s) /\ s[i] = q[i]
      BY <3>1, <3>3, <3>5
    <3>7. DataOnce(s)
      BY <3>1, <3>4 DEF DataOnce
    <3>8. \A r : r \in DataIn(s, Len(s)) <=> r \in DataIn(q, Len(q))
      BY <3>4, <3>6, RingData
    <3> QED BY <3>7, <3>8 DEF q, s
  <2>2. data' = data
    BY <2>1 DEF data
  <2> QED BY <2>1, <2>2 DEF OnceRing, inReq
<1> QED BY <1>1, <1>2

\* The request that is forwarded joins the others of its ring.
LEMMA ForwardStep ==
    ASSUME TypeInv, OnceRing, NEW g \in Group, RecvForward(g), Head1 \notin inReq
    PROVE  OnceRing' /\ inReq' = inReq \cup {Head1}
<1> DEFINE m == Msg(cur.flow, "data", Head1, life)
           q == req[g]
           s == Append(q, m)
<1>1. q \in Seq(Message) /\ Len(q) \in Nat /\ DataOnce(q) /\ req \in [Group -> Seq(Message)]
  BY DEF TypeInv, RingsOK, OnceRing
<1>2. req' = [req EXCEPT ![g] = s]
  BY DEF RecvForward
<1>3. m.type = "data" /\ m.body = Head1
  BY DEF Msg
<1>4. Head1 \notin DataIn(q, Len(q))
  BY DEF inReq, data
<1> HIDE DEF m, q
<1>5. /\ Len(s) = Len(q) + 1 /\ s[Len(q) + 1] = m
      /\ \A i \in 1 .. Len(q) : s[i] = q[i]
  BY <1>1
<1> HIDE DEF s
<1>6. \A i \in 1 .. Len(s) : \/ i \in 1 .. Len(q) /\ s[i] = q[i]
                             \/ i = Len(q) + 1 /\ s[i] = m
  BY <1>1, <1>5
<1>7. \A i \in 1 .. Len(q) : i \in 1 .. Len(s) /\ q[i] = s[i]
  BY <1>1, <1>5
<1>8. \A i \in 1 .. Len(q) : q[i].type = "data" => q[i].body # m.body
  BY <1>3, <1>4, RingData
<1>9. DataOnce(s)
  BY <1>1, <1>6, <1>8 DEF DataOnce
<1>10. DataIn(s, Len(s)) = DataIn(q, Len(q)) \cup {Head1}
  <2>1. \A r \in DataIn(s, Len(s)) : r \in DataIn(q, Len(q)) \/ r = Head1
    BY <1>3, <1>6, RingData
  <2>2. \A r \in DataIn(q, Len(q)) : r \in DataIn(s, Len(s))
    BY <1>7, RingData
  <2>3. Len(q) + 1 \in 1 .. Len(s)
    BY <1>1, <1>5
  <2>4. Head1 \in DataIn(s, Len(s))
    BY <1>3, <1>5, <2>3, RingData
  <2> QED BY <2>1, <2>2, <2>4
<1>11. \A h \in Group : req'[h] = IF h = g THEN s ELSE req[h]
  BY <1>1, <1>2
<1>12. data' = [h \in Group |-> DataIn(req'[h], Len(req'[h]))]
  BY DEF data
<1>13. \A h \in Group : data'[h] = IF h = g THEN data[g] \cup {Head1} ELSE data[h]
  BY <1>10, <1>11, <1>12 DEF data, q
<1>14. inReq' = UNION {data'[h] : h \in Group} /\ inReq = UNION {data[h] : h \in Group}
  BY DEF inReq
<1>15. inReq' = inReq \cup {Head1}
  BY <1>13, <1>14
<1>16. \A h, k \in Group : h # k => data'[h] \cap data'[k] = {}
  <2>1. \A h \in Group : Head1 \notin data[h]
    BY <1>14
  <2> QED BY <1>13, <2>1 DEF OnceRing
<1>17. \A h \in Group : DataOnce(req'[h])
  BY <1>9, <1>11 DEF OnceRing
<1> QED BY <1>15, <1>16, <1>17 DEF OnceRing

\* A poll of a worker takes the oldest messages: those that are too old are given
\* up, and one is handed to the module.
LEMMA PollRings ==
    ASSUME TypeInv, OnceRing, NEW w \in Proc, Poll(w)
    PROVE  /\ OnceRing'
           /\ \E old \in SUBSET inReq :
                /\ dropped' = dropped \cup old
                /\ \/ handled' = handled /\ inReq' = inReq \ old
                   \/ \E r \in inReq \ old :
                        /\ r \in Request /\ handled' = [handled EXCEPT ![r] = handled[r] + 1]
                        /\ inReq' = inReq \ (old \cup {r})
<1> DEFINE g == w.group
           q == req[g]
<1>1. PICK n \in 0 .. Len(q) :
        /\ g \in Group /\ DataOK(q)
        /\ req' = [req EXCEPT ![g] = SubSeq(q, n + 2, Len(q))]
        /\ lost' = lost \cup DataIn(q, n) /\ unkept' = unkept
        /\ \/ n = Len(q) /\ handled' = handled
           \/ /\ n < Len(q) /\ q[n + 1].type = "data" /\ q[n + 1].body \in Request
              /\ Process(w, q[n + 1])
           \/ n < Len(q) /\ q[n + 1].type # "data" /\ handled' = handled
  BY PollStep
<1>2. q \in Seq(Message) /\ DataOnce(q) /\ req \in [Group -> Seq(Message)]
  BY <1>1 DEF TypeInv, RingsOK, OnceRing
<1> DEFINE s == SubSeq(q, n + 2, Len(q))
           all == DataIn(q, Len(q))
           old == DataIn(q, n)
           new == DataIn(s, Len(s))
<1>3. /\ DataOnce(s)
      /\ old \cup new \subseteq all /\ old \cap new = {}
      /\ \A r \in all : r \in old \/ r \in new \/ (n < Len(q) /\ r = q[n + 1].body)
      /\ n < Len(q) /\ q[n + 1].type = "data" =>
           q[n + 1].body \in all /\ q[n + 1].body \notin old \cup new
      /\ n < Len(q) /\ q[n + 1].type # "data" => all = old \cup new
  <2>1. CutAt(q, n, s)
    BY <1>2, CutRing
  <2> QED BY <2>1 DEF CutAt
<1>4. req' = [req EXCEPT ![g] = s]
  BY <1>1
<1> HIDE DEF s
<1>5. \A h \in Group : req'[h] = IF h = g THEN s ELSE req[h]
  BY <1>2, <1>4
<1>6. data' = [h \in Group |-> DataIn(req'[h], Len(req'[h]))]
  BY DEF data
<1>7. g \in Group /\ data[g] = all /\ \A h \in Group : data'[h] = IF h = g THEN new ELSE data[h]
  <2>1. g \in Group /\ data[g] = all
    BY <1>1 DEF data
  <2>2. \A h \in Group : data'[h] = DataIn(req'[h], Len(req'[h])) /\ data[h] = DataIn(req[h], Len(req[h]))
    BY <1>6 DEF data
  <2> HIDE DEF q, g
  <2> QED BY <1>5, <2>1, <2>2
<1>8. inReq' = UNION {data'[h] : h \in Group} /\ inReq = UNION {data[h] : h \in Group}
  BY DEF inReq
<1>9. \A h, k \in Group : h # k => data[h] \cap data[k] = {}
  BY DEF OnceRing
<1> DEFINE b == q[n + 1].body
<1>10. OnceRing'
  BY <1>3, <1>5, <1>7, <1>9 DEF OnceRing
<1>11. handled' = handled \/ handled' = [handled EXCEPT ![b] = handled[b] + 1]
  BY <1>1 DEF Process
<1> HIDE DEF all, old, new, q, g
<1>12. \A r : r \in inReq' <=> (r \in inReq /\ r \notin all) \/ r \in new
  BY <1>3, <1>7, <1>8, <1>9
<1>13. old \subseteq inReq /\ all \subseteq inReq /\ dropped' = dropped \cup old
  BY <1>1, <1>3, <1>7, <1>8 DEF old, dropped
<1>14. CASE handled' = handled /\ all = old \cup new
  BY <1>3, <1>10, <1>12, <1>13, <1>14
<1>15. CASE n < Len(q) /\ q[n + 1].type = "data" /\ b \in Request /\ Process(w, q[n + 1])
  <2>1. b \in all /\ b \notin old \cup new /\ handled' = [handled EXCEPT ![b] = handled[b] + 1]
    BY <1>3, <1>15 DEF Process
  <2>2. \A r \in all : r \in old \/ r \in new \/ r = b
    BY <1>3
  <2> HIDE DEF b
  <2>3. inReq' = inReq \ (old \cup {b})
    BY <1>3, <1>12, <1>13, <2>1, <2>2
  <2>4. b \in inReq \ old /\ b \in Request
    BY <1>13, <1>15, <2>1 DEF b
  <2> QED BY <1>10, <1>13, <2>1, <2>3, <2>4
<1>16. CASE n = Len(q) /\ handled' = handled
  <2>1. all = old \cup new
    BY <1>3, <1>16 DEF all, old
  <2> QED BY <1>14, <1>16, <2>1
<1> QED BY <1>1, <1>3, <1>14, <1>15, <1>16 DEF q, g

\* The request ator_recvdata looks at, and those behind it.
LEMMA HeadRest ==
    ASSUME TypeInv, OnceCache, More
    PROVE  LET q == rest[cur.flow]
               tail == SubSeq(q, 2, Len(q))
           IN  /\ 1 \in 0 .. Len(q) /\ Range(SubSeq(q, 1, 1)) = {Head1}
               /\ Range(q) = {Head1} \cup Range(tail) /\ Head1 \notin Range(tail)
               /\ Head1 \in Request /\ Head1 \in inCache
               /\ tail = SubSeq(conn[cur.flow].cache, cur.processed + 2, Len(conn[cur.flow].cache))
               /\ \A r \in Range(q) : r \in Request
<1> DEFINE f == cur.flow
           q == rest[f]
           c == conn[f].cache
           p == cur.processed
           a == SubSeq(q, 1, 1)
           tail == SubSeq(q, 2, Len(q))
<1>1. /\ f \in DOMAIN conn /\ cur \in CurType /\ p < cur.total /\ Len(q) = cur.total - p
      /\ Head1 = q[1] /\ Head1 \in Request /\ cur.total = Len(c) /\ Done(f) = p
  BY Head1Type, RestType DEF More, TypeInv, CurOK, Done
<1>2. q \in Seq(Request) /\ IsInjective(q) /\ c \in Seq(Request) /\ p \in Nat /\ cur.total \in Nat
  BY <1>1, RestType DEF OnceCache, CurType
<1>3. 1 \in 0 .. Len(q) /\ 1 \in 1 .. Len(q) /\ p + 1 <= Len(c)
  BY <1>1, <1>2
<1>4. q = SubSeq(c, p + 1, Len(c))
  BY <1>1 DEF rest
<1>5. tail = SubSeq(c, p + 2, Len(c))
  <2>1. p + 1 + 1 = p + 2
    BY <1>2
  <2> HIDE DEF p, c, q
  <2>2. SubSeq(q, 2, Len(q)) = SubSeq(c, p + 1 + 1, Len(c))
    BY <1>2, <1>3, <1>4, DropNext
  <2> QED BY <2>1, <2>2
<1> HIDE DEF q, c, p, f
<1>6. /\ Range(a) \cup Range(tail) = Range(q) /\ Range(a) \cap Range(tail) = {}
  <2>1. LET u == SubSeq(q, 1, 1)
            v == SubSeq(q, 1 + 1, Len(q))
        IN  Range(u) \cup Range(v) = Range(q) /\ Range(u) \cap Range(v) = {}
    BY <1>2, <1>3, CutQueue
  <2> QED BY <2>1
<1>7. Range(a) = {Head1}
  <2>1. \A i \in 1 .. 1 : q[i] \in Request
    BY <1>1
  <2>2. a \in Seq(Request) /\ Len(a) = 1 /\ a[1] = q[1]
    BY <2>1, SubSeqProperties
  <2> HIDE DEF a, tail
  <2>3. \A r : r \in Range(a) <=> \E i \in 1 .. Len(a) : r = a[i]
    BY <2>2, QueueRange
  <2>4. \A r : r \in Range(a) <=> r = Head1
    BY <1>1, <2>2, <2>3
  <2> QED BY <2>4
<1>8. Head1 \in inCache
  <2>1. Head1 \in Range(rest[f])
    BY <1>6, <1>7 DEF q
  <2> QED BY <1>1, <2>1 DEF inCache
<1>9. \A r \in Range(q) : r \in Request
  BY <1>2, QueueRange
<1> QED BY <1>1, <1>3, <1>5, <1>6, <1>7, <1>8, <1>9 DEF q, c, p, f

\* Requests that are given up: what leaves its place is lost.
LEMMA GivenUp ==
    ASSUME TypeInv, OnePlace, NEW X \in SUBSET inOutbox, NEW Y \in SUBSET inCache,
           inOutbox' = inOutbox \ X, inCache' = inCache \ Y, inReq' = inReq,
           dropped' = dropped \cup X \cup Y, UNCHANGED <<handled, sent>>
    PROVE  OnePlace'
<1> SUFFICES ASSUME NEW r \in Request PROVE Kinds(r)' = One(r \in sent)'
  BY DEF OnePlace
<1>1. Kinds(r) = One(r \in sent) /\ handled[r] \in Nat
  BY DEF OnePlace, TypeInv, ClientOK
<1> QED BY <1>1 DEF Kinds, One

\* A connection goes: what it had to do is given up.
LEMMA ClosePlaces ==
    ASSUME TypeInv, RingsOK', OwnInput, Placed, NEW f \in DOMAIN conn, Close(f),
           cur' = None, cur = None \/ cur.flow = f,
           req' = req \/ \A g \in Group : Extended(g), UNCHANGED <<handled, sent, unkept>>
    PROVE  Placed'
<1>1. Gone(f)
  BY DEF Close, Gone
<1>2. /\ OnceCache' /\ OnceOutbox'
      /\ Range(rest[f]) \subseteq inCache /\ Range(outbox[conn[f].cl]) \subseteq inOutbox
      /\ inCache' = inCache \ Range(rest[f])
      /\ inOutbox' = inOutbox \ Range(outbox[conn[f].cl])
  BY <1>1, GoneStep DEF Placed
<1>3. OnceRing' /\ inReq' = inReq
  BY EventsNoData DEF Placed
<1>4. dropped' = dropped \cup Range(outbox[conn[f].cl]) \cup Range(rest[f])
  BY DEF Close, Unserved, rest, dropped
<1>5. OnePlace'
  BY <1>2, <1>3, <1>4, GivenUp DEF Placed
<1> QED BY <1>2, <1>3, <1>5 DEF Placed

\* ator_recvdata leaves the first m of the requests that wait behind, given up.
LEMMA SkipPlaces ==
    ASSUME TypeInv, RingsOK', OwnInput, Placed, cur # None, DOMAIN conn' = DOMAIN conn,
           NEW m \in 0 .. Len(rest[cur.flow]),
           rest' = [rest EXCEPT ![cur.flow] =
                      SubSeq(rest[cur.flow], m + 1, Len(rest[cur.flow]))],
           dropped' = dropped \cup Range(SubSeq(rest[cur.flow], 1, m)),
           UNCHANGED <<req, outbox, handled, sent>>
    PROVE  Placed'
<1>1. PICK f \in DOMAIN conn : f = cur.flow
  BY DEF TypeInv, CurOK
<1>2. /\ OnceCache'
      /\ Range(SubSeq(rest[f], 1, m)) \subseteq inCache
      /\ inCache' = inCache \ Range(SubSeq(rest[f], 1, m))
  BY <1>1, CacheStep DEF Placed
<1>3. OnceRing' /\ inReq' = inReq
  BY EventsNoData DEF Placed
<1>4. OnceOutbox' /\ inOutbox' = inOutbox \ {}
  BY DEF Placed, OnceOutbox, inOutbox
<1>5. dropped' = dropped \cup {} \cup Range(SubSeq(rest[f], 1, m))
  BY <1>1
<1>6. OnePlace'
  BY <1>2, <1>3, <1>4, <1>5, GivenUp DEF Placed
<1> QED BY <1>2, <1>3, <1>4, <1>6 DEF Placed

\* Nothing that waits is touched.
LEMMA SamePlaces ==
    ASSUME TypeInv, RingsOK', Placed, UNCHANGED <<outbox, dropped, handled, sent>>,
           inCache' = inCache, OnceCache',
           req' = req \/ \A g \in Group : Extended(g)
    PROVE  Placed'
<1>1. OnceRing' /\ inReq' = inReq
  BY EventsNoData DEF Placed
<1>2. OnceOutbox' /\ inOutbox' = inOutbox
  BY DEF Placed, OnceOutbox, inOutbox
<1> QED BY <1>1, <1>2 DEF Placed, OnePlace, Kinds

\* Accepting a connection moves no request.
LEMMA AcceptPlaces ==
    ASSUME TypeInv, RingsOK', Placed, NEW c \in Client, Accept(c), UNCHANGED gone
    PROVE  Placed'
<1>1. /\ DOMAIN conn \subseteq DOMAIN conn'
      /\ \A k \in DOMAIN conn' : rest'[k] = IF k \in DOMAIN conn THEN rest[k] ELSE <<>>
  BY RestAccept
<1>2. Range(<<>>) = {} /\ IsInjective(<<>>)
  BY DEF Range, IsInjective
<1>3. OnceCache'
  BY <1>1, <1>2 DEF Placed, OnceCache
<1>4. inCache' = inCache
  <2>1. \A r : r \in inCache' <=> \E k \in DOMAIN conn' : r \in Range(rest'[k])
    BY DEF inCache
  <2>2. \A r : r \in inCache <=> \E k \in DOMAIN conn : r \in Range(rest[k])
    BY DEF inCache
  <2>3. \A r \in inCache' : r \in inCache
    BY <1>1, <1>2, <2>1, <2>2
  <2>4. \A r \in inCache : r \in inCache'
    BY <1>1, <2>1, <2>2
  <2> QED BY <2>3, <2>4
<1>5. \A g \in Group : Extended(g)
  BY EventStep
<1>6. UNCHANGED <<outbox, dropped, handled, sent>>
  BY DEF Accept, dropped
<1> QED BY <1>3, <1>4, <1>5, <1>6, SamePlaces

\* A client sends a request it has not sent before.
LEMMA SendPlaces ==
    ASSUME TypeInv, RingsOK', OwnInput, Placed, Numbered, NEW c \in Client, Sends(c)
    PROVE  Placed' /\ Numbered'
<1> DEFINE r0 == [cl |-> c, n |-> 1 + Cardinality(OfClient(c))]
<1>1. PICK r : r = r0
  OBVIOUS
<1>2. /\ sent' = sent \cup {r} /\ outbox' = [outbox EXCEPT ![c] = Append(outbox[c], r)]
      /\ r.n <= MaxReq
  BY <1>1 DEF Sends, OfClient
<1>3. IsFiniteSet(OfClient(c)) /\ Cardinality(OfClient(c)) \in Nat
  BY FS_Subset, FS_CardinalityType DEF TypeInv, ClientOK, OfClient
<1>4. r.cl = c /\ r.n = 1 + Cardinality(OfClient(c)) /\ r \in Request
  BY <1>1, <1>2, <1>3, ProxyAssumption DEF Request
<1> HIDE DEF r0
<1>5. r \notin sent
  <2> SUFFICES ASSUME r \in sent PROVE FALSE
    OBVIOUS
  <2>1. r.n <= Cardinality(OfClient(c))
    BY <1>4 DEF Numbered
  <2> QED BY <1>3, <1>4, <2>1
<1>6. Numbered'
  <2>1. r \notin OfClient(c)
    BY <1>5 DEF OfClient
  <2>2. Cardinality(OfClient(c) \cup {r}) = Cardinality(OfClient(c)) + 1
    BY <1>3, <2>1, FS_AddElement
  <2>3. OfClient(c)' = OfClient(c) \cup {r}
    BY <1>2, <1>4 DEF OfClient
  <2>4. \A d : d # c => OfClient(d)' = OfClient(d)
    BY <1>2, <1>4 DEF OfClient
  <2>5. \A q \in sent : q.n <= Cardinality(OfClient(q.cl)) /\ q.n \in Nat
    BY ProxyAssumption DEF Numbered, TypeInv, ClientOK, Request
  <2>6. \A q \in sent' : q.n <= Cardinality({x \in sent' : x.cl = q.cl})
    <3>1. {x \in sent' : x.cl = c} = OfClient(c) \cup {r}
      BY <2>3 DEF OfClient
    <3>2. \A d : d # c => {x \in sent' : x.cl = d} = OfClient(d)
      BY <2>4 DEF OfClient
    <3>3. ASSUME NEW q \in sent, q.cl = c PROVE q.n <= Cardinality({x \in sent' : x.cl = q.cl})
      <4>1. q.n <= Cardinality(OfClient(c)) /\ q.n \in Nat
        BY <2>5, <3>3
      <4> QED BY <1>3, <2>2, <3>1, <3>3, <4>1
    <3>4. ASSUME NEW q \in sent, q.cl # c PROVE q.n <= Cardinality({x \in sent' : x.cl = q.cl})
      BY <2>5, <3>2, <3>4
    <3>5. r.n <= Cardinality({x \in sent' : x.cl = r.cl})
      <4>1. {x \in sent' : x.cl = r.cl} = OfClient(c) \cup {r}
        BY <1>4, <3>1
      <4>2. r.n = Cardinality(OfClient(c) \cup {r}) /\ r.n \in Nat
        BY <1>3, <1>4, <2>2
      <4> QED BY <4>1, <4>2, SMTT(30)
    <3> QED BY <1>2, <3>3, <3>4, <3>5
  <2> QED BY <2>6 DEF Numbered, OfClient
<1>7. Kinds(r) = 0 /\ handled[r] \in Nat
  BY <1>4, <1>5 DEF Placed, OnePlace, One, TypeInv, ClientOK
<1>8. r \notin inOutbox /\ r \notin inCache /\ r \notin inReq /\ handled[r] = 0 /\ r \notin dropped
  BY <1>7 DEF Kinds, One
<1> DEFINE q == outbox[c]
           s == Append(q, r)
<1>9. q \in Seq(Request) /\ IsInjective(q)
  BY DEF TypeInv, ClientOK, Placed, OnceOutbox
<1>10. r \notin Range(q)
  BY <1>4, <1>8 DEF inOutbox
<1>11. IsInjective(s) /\ Range(s) = Range(q) \cup {r} /\ s \in Seq(Request)
  <2>1. /\ s \in Seq(Request) /\ Len(s) = Len(q) + 1 /\ Len(q) \in Nat
        /\ \A i \in 1 .. Len(q) : s[i] = q[i]
        /\ s[Len(q) + 1] = r
    BY <1>4, <1>9, AppendProperties
  <2>2. DOMAIN q = 1 .. Len(q) /\ DOMAIN s = 1 .. Len(q) + 1
    BY <1>9, <2>1, LenProperties
  <2> HIDE DEF q, s
  <2>3. \A x : x \in Range(q) <=> \E i \in 1 .. Len(q) : x = q[i]
    BY <2>2 DEF Range
  <2>4. \A x : x \in Range(s) <=> \E i \in 1 .. Len(q) + 1 : x = s[i]
    BY <2>2 DEF Range
  <2>5. \A i \in 1 .. Len(q) + 1 : (i \in 1 .. Len(q) /\ s[i] = q[i]) \/ (i = Len(q) + 1 /\ s[i] = r)
    BY <2>1
  <2>6. \A i \in 1 .. Len(q) : i \in 1 .. Len(q) + 1
    BY <2>1
  <2>7. Len(q) + 1 \in 1 .. Len(q) + 1
    BY <2>1
  <2>8. Range(s) = Range(q) \cup {r}
    BY <2>1, <2>3, <2>4, <2>5, <2>6, <2>7
  <2>9. IsInjective(s)
    <3>1. \A i, j \in 1 .. Len(q) : q[i] = q[j] => i = j
      BY <1>9, <2>2 DEF IsInjective
    <3>2. \A i \in 1 .. Len(q) : q[i] # r
      BY <1>10, <2>3
    <3>3. \A i, j \in 1 .. Len(q) + 1 : s[i] = s[j] => i = j
      BY <2>5, <3>1, <3>2
    <3> QED BY <2>2, <3>3 DEF IsInjective
  <2> QED BY <2>1, <2>8, <2>9
<1>12. OnceOutbox'
  BY <1>2, <1>11 DEF Placed, OnceOutbox, TypeInv, ClientOK
<1>13. \A x \in Range(s) : x \in Request /\ x.cl = c
  BY <1>4, <1>11, Apart
<1>14. outbox' = [outbox EXCEPT ![c] = s]
  BY <1>2
<1> HIDE DEF s
<1>15. inOutbox' = (inOutbox \ Range(outbox[c])) \cup Range(s)
  BY <1>13, <1>14, OutboxStep
<1>16. Range(outbox[c]) \subseteq inOutbox
  BY Apart DEF inOutbox
<1>17. inOutbox' = inOutbox \cup {r}
  BY <1>11, <1>15, <1>16
<1>18. rest' = rest /\ DOMAIN conn' = DOMAIN conn
  BY RestSame DEF Sends
<1>19. inCache' = inCache /\ OnceCache'
  BY <1>18 DEF inCache, OnceCache, Placed
<1>20. OnceRing' /\ inReq' = inReq
  BY EventsNoData DEF Placed, Sends
<1>21. OnePlace'
  <2> SUFFICES ASSUME NEW x \in Request PROVE Kinds(x)' = One(x \in sent)'
    BY DEF OnePlace
  <2>1. Kinds(x) = One(x \in sent) /\ handled[x] \in Nat
    BY DEF Placed, OnePlace, TypeInv, ClientOK
  <2>2. dropped' = dropped /\ handled' = handled
    BY DEF Sends, dropped
  <2>3. CASE x = r
    BY <1>2, <1>8, <1>17, <1>19, <1>20, <2>2, <2>3 DEF Kinds, One
  <2>4. CASE x # r
    BY <1>2, <1>17, <1>19, <1>20, <2>1, <2>2, <2>4 DEF Kinds, One
  <2> QED BY <2>3, <2>4
<1> QED BY <1>6, <1>12, <1>19, <1>20, <1>21 DEF Placed

\* recv moves requests from their client to the cache.
LEMMA RecvPlaces ==
    ASSUME TypeInv, RingsOK', OwnInput, Placed, NEW f \in DOMAIN conn, Recv(f)
    PROVE  Placed'
<1>1. PICK c \in Client : c = conn[f].cl
  BY DEF TypeInv, ConnOK, ConnType
<1> DEFINE q == outbox[c]
           p == rest[f]
<1>2. PICK n \in 0 .. Len(q) :
        /\ rest' = [rest EXCEPT ![f] = p \o SubSeq(q, 1, n)]
        /\ outbox' = [outbox EXCEPT ![c] = SubSeq(q, n + 1, Len(q))]
  BY <1>1, RestRecv
<1> DEFINE a == SubSeq(q, 1, n)
           b == SubSeq(q, n + 1, Len(q))
<1>3. /\ q \in Seq(Request) /\ IsInjective(q)
      /\ p \in Seq(Request) /\ IsInjective(p)
  BY RestType DEF TypeInv, ClientOK, Placed, OnceOutbox, OnceCache
<1>4. /\ \A r \in Range(q) : r \in Request /\ r.cl = c
      /\ Range(q) \subseteq inOutbox /\ Range(p) \subseteq inCache
  BY Apart DEF inOutbox, inCache
<1> HIDE DEF q, p
<1>5. /\ a \in Seq(Request) /\ IsInjective(a) /\ IsInjective(b)
      /\ Range(a) \cup Range(b) = Range(q) /\ Range(a) \cap Range(b) = {}
  BY <1>3, CutQueue
<1> HIDE DEF a, b
<1>6. inOutbox \cap inCache = {}
  <2> SUFFICES ASSUME NEW r \in inOutbox, r \in inCache PROVE FALSE
    OBVIOUS
  <2>1. r \in Request
    BY DEF inOutbox
  <2>2. Kinds(r) = One(r \in sent) /\ handled[r] \in Nat
    BY <2>1 DEF Placed, OnePlace, TypeInv, ClientOK
  <2> QED BY <2>2 DEF Kinds, One
<1>7. IsInjective(p \o a) /\ Range(p \o a) = Range(p) \cup Range(a)
  <2>1. Range(p) \cap Range(a) = {}
    BY <1>4, <1>5, <1>6
  <2> QED BY <1>3, <1>5, <2>1, JoinQueues
<1>8. /\ outbox' = [outbox EXCEPT ![c] = b]
      /\ rest' = [rest EXCEPT ![f] = p \o a]
  BY <1>2 DEF a, b
<1>9. inOutbox' = inOutbox \ Range(a)
  <2>1. inOutbox' = (inOutbox \ Range(outbox[c])) \cup Range(b)
    BY <1>4, <1>5, <1>8, OutboxStep
  <2> QED BY <1>4, <1>5, <2>1 DEF q
<1>10. DOMAIN conn' = DOMAIN conn
  BY DEF Recv
<1>11. \A k \in DOMAIN conn : rest'[k] = IF k = f THEN p \o a ELSE rest[k]
  BY <1>8, RestType
<1>12. inCache' = inCache \cup Range(a)
  <2>1. \A r : r \in inCache' <=> \E k \in DOMAIN conn : r \in Range(rest'[k])
    BY <1>10 DEF inCache
  <2>2. \A r : r \in inCache <=> \E k \in DOMAIN conn : r \in Range(rest[k])
    BY DEF inCache
  <2>3. rest[f] = p
    BY DEF p
  <2>4. \A r \in inCache' : r \in inCache \/ r \in Range(a)
    BY <1>7, <1>11, <2>1, <2>2, <2>3
  <2>5. \A r : r \in inCache \/ r \in Range(a) => r \in inCache'
    BY <1>7, <1>11, <2>1, <2>2, <2>3
  <2> QED BY <2>4, <2>5
<1>13. OnceCache'
  BY <1>7, <1>10, <1>11 DEF OnceCache, Placed
<1>14. OnceOutbox'
  BY <1>5, <1>8 DEF OnceOutbox, Placed, TypeInv, ClientOK
<1>15. OnceRing' /\ inReq' = inReq
  BY EventsNoData DEF Placed, Recv
<1>16. OnePlace'
  <2> SUFFICES ASSUME NEW r \in Request PROVE Kinds(r)' = One(r \in sent)'
    BY DEF OnePlace
  <2>1. Kinds(r) = One(r \in sent) /\ handled[r] \in Nat
    BY DEF Placed, OnePlace, TypeInv, ClientOK
  <2>2. UNCHANGED <<dropped, handled, sent>>
    BY DEF Recv, dropped
  <2>3. Range(a) \subseteq inOutbox
    BY <1>4, <1>5
  <2>4. CASE r \in Range(a)
    BY <1>6, <1>9, <1>12, <1>15, <2>1, <2>2, <2>3, <2>4 DEF Kinds, One
  <2>5. CASE r \notin Range(a)
    BY <1>9, <1>12, <1>15, <2>1, <2>2, <2>5 DEF Kinds, One
  <2> QED BY <2>4, <2>5
<1> QED BY <1>13, <1>14, <1>15, <1>16 DEF Placed

\* A request is handed to a local handler, or put in a ring.
LEMMA MovedOn ==
    ASSUME TypeInv, RingsOK', OwnInput, Placed, More,
           conn' = conn, cur' = [cur EXCEPT !.processed = cur.processed + 1]
    PROVE  OnceCache' /\ inCache' = inCache \ {Head1} /\ Head1 \in inCache
<1>1. PICK f \in DOMAIN conn : f = cur.flow
  BY Head1Type
<1> DEFINE q == rest[f]
<1>2. 1 \in 0 .. Len(q) /\ Range(SubSeq(q, 1, 1)) = {Head1} /\ Head1 \in inCache
  BY <1>1, HeadRest DEF Placed
<1>3. rest' = [rest EXCEPT ![f] = SubSeq(q, 2, Len(q))]
  BY <1>1, RestNext
<1>4. rest' = [rest EXCEPT ![f] = SubSeq(rest[f], 1 + 1, Len(rest[f]))]
  BY <1>3
<1>5. OnceCache' /\ inCache' = inCache \ Range(SubSeq(rest[f], 1, 1))
  BY <1>2, <1>4, CacheStep DEF Placed
<1> QED BY <1>2, <1>5

\* ator_recvdata puts the request in a ring.
LEMMA ForwardPlaces ==
    ASSUME TypeInv, RingsOK', OwnInput, Placed, NEW g \in Group, RecvForward(g)
    PROVE  Placed'
<1>1. /\ More /\ conn' = conn /\ UNCHANGED <<outbox, dropped, handled, sent>>
      /\ cur' = [cur EXCEPT !.processed = cur.processed + 1]
  BY DEF RecvForward, Counted, dropped
<1>2. OnceCache' /\ inCache' = inCache \ {Head1} /\ Head1 \in inCache
  BY <1>1, MovedOn
<1>3. PICK r \in Request : r = Head1
  BY <1>1, Head1Type
<1>4. Kinds(r) = One(r \in sent) /\ handled[r] \in Nat
  BY DEF Placed, OnePlace, TypeInv, ClientOK
<1>5. r \notin inReq /\ r \notin inOutbox /\ r \notin dropped /\ handled[r] = 0 /\ r \in sent
  BY <1>2, <1>3, <1>4 DEF Kinds, One
<1>6. OnceRing' /\ inReq' = inReq \cup {Head1}
  BY <1>3, <1>5, ForwardStep DEF Placed
<1>7. OnceOutbox' /\ inOutbox' = inOutbox
  BY <1>1 DEF Placed, OnceOutbox, inOutbox
<1>8. OnePlace'
  <2> SUFFICES ASSUME NEW x \in Request PROVE Kinds(x)' = One(x \in sent)'
    BY DEF OnePlace
  <2>1. Kinds(x) = One(x \in sent) /\ handled[x] \in Nat
    BY DEF Placed, OnePlace, TypeInv, ClientOK
  <2>2. CASE x = r
    BY <1>1, <1>2, <1>3, <1>5, <1>6, <1>7, <2>2 DEF Kinds, One
  <2>3. CASE x # r
    BY <1>1, <1>2, <1>3, <1>6, <1>7, <2>1, <2>3 DEF Kinds, One
  <2> QED BY <2>2, <2>3
<1> QED BY <1>2, <1>6, <1>7, <1>8 DEF Placed

\* The local handler takes the request, and may have the connection closed.
LEMMA LocalPlaces ==
    ASSUME TypeInv, RingsOK', OwnInput, Placed, RecvLocal
    PROVE  Placed'
<1>1. More /\ UNCHANGED <<req, sent, unkept>>
  BY DEF RecvLocal
<1>2. OnceRing' /\ inReq' = inReq
  BY <1>1, EventsNoData DEF Placed
<1>3. PICK r \in Request : r = Head1
  BY <1>1, Head1Type
<1>4. Kinds(r) = One(r \in sent) /\ handled[r] \in Nat /\ r \in inCache
  BY <1>1, <1>3, HeadRest DEF Placed, OnePlace, TypeInv, ClientOK
<1>5. r \notin inReq /\ r \notin inOutbox /\ r \notin dropped /\ handled[r] = 0 /\ r \in sent
  BY <1>4 DEF Kinds, One
<1>6. \A x \in Request : handled'[x] = IF x = r THEN handled[x] + 1 ELSE handled[x]
  BY <1>3 DEF RecvLocal, TypeInv, ClientOK
<1>7. CASE /\ cur' = [cur EXCEPT !.processed = Counted(TRUE)]
           /\ UNCHANGED <<conn, lost, outbox, there>>
  <2>1. OnceCache' /\ inCache' = inCache \ {r}
    BY <1>1, <1>3, <1>7, MovedOn DEF Counted
  <2>2. OnceOutbox' /\ inOutbox' = inOutbox /\ dropped' = dropped
    BY <1>1, <1>7 DEF Placed, OnceOutbox, inOutbox, dropped
  <2>3. OnePlace'
    <3> SUFFICES ASSUME NEW x \in Request PROVE Kinds(x)' = One(x \in sent)'
      BY DEF OnePlace
    <3>1. Kinds(x) = One(x \in sent) /\ handled[x] \in Nat
      BY DEF Placed, OnePlace, TypeInv, ClientOK
    <3>2. CASE x = r
      BY <1>1, <1>2, <1>5, <1>6, <2>1, <2>2, <3>2 DEF Kinds, One
    <3>3. CASE x # r
      BY <1>1, <1>2, <1>6, <2>1, <2>2, <3>1, <3>3 DEF Kinds, One
    <3> QED BY <3>2, <3>3
  <2> QED BY <1>2, <2>1, <2>2, <2>3 DEF Placed
<1>8. CASE /\ Gone(cur.flow) /\ cur' = None
           /\ lost' = lost \cup Unserved(cur.flow, cur.processed + 1)
  <2>1. PICK f \in DOMAIN conn : f = cur.flow
    BY <1>1, Head1Type
  <2> DEFINE q == rest[f]
             tail == SubSeq(q, 2, Len(q))
             out == Range(outbox[conn[f].cl])
  <2>2. /\ Range(q) = {r} \cup Range(tail) /\ r \notin Range(tail)
        /\ tail = SubSeq(conn[f].cache, cur.processed + 2, Len(conn[f].cache))
    BY <1>1, <1>3, <2>1, HeadRest DEF Placed
  <2>3. cur.processed + 1 + 1 = cur.processed + 2
    BY <1>1, Head1Type DEF CurType
  <2>4. dropped' = dropped \cup Range(tail) \cup out
    BY <1>1, <1>8, <2>1, <2>2, <2>3 DEF Unserved, dropped
  <2>5. /\ OnceCache' /\ OnceOutbox'
        /\ Range(q) \subseteq inCache /\ out \subseteq inOutbox
        /\ inCache' = inCache \ Range(q) /\ inOutbox' = inOutbox \ out
    BY <1>8, <2>1, GoneStep DEF Placed
  <2> HIDE DEF q, tail, out
  <2>6. OnePlace'
    <3> SUFFICES ASSUME NEW x \in Request PROVE Kinds(x)' = One(x \in sent)'
      BY DEF OnePlace
    <3>1. Kinds(x) = One(x \in sent) /\ handled[x] \in Nat
      BY DEF Placed, OnePlace, TypeInv, ClientOK
    <3>2. CASE x = r
      BY <1>1, <1>2, <1>5, <1>6, <2>2, <2>4, <2>5, <3>2 DEF Kinds, One
    <3>3. ASSUME x # r PROVE x \in Range(q) <=> x \in Range(tail)
      BY <2>2, <3>3
    <3>4. x # r => handled'[x] = handled[x] /\ (x \in inReq' <=> x \in inReq)
      BY <1>2, <1>6
    <3>5. CASE x # r /\ x \in inCache
      BY <1>1, <2>4, <2>5, <3>1, <3>3, <3>4, <3>5 DEF Kinds, One
    <3>6. CASE x # r /\ x \notin inCache
      BY <1>1, <2>4, <2>5, <3>1, <3>3, <3>4, <3>6 DEF Kinds, One
    <3> QED BY <3>2, <3>5, <3>6
  <2> QED BY <1>2, <2>5, <2>6 DEF Placed
<1> QED BY <1>7, <1>8 DEF RecvLocal, Gone

\* The proxy dies: what the clients had under way and what was cached is lost.
LEMMA RestartPlaces ==
    ASSUME TypeInv, RingsOK', OwnInput, Placed, Connected, Restart
    PROVE  Placed'
<1>1. OnceRing' /\ inReq' = inReq
  BY EventsNoData DEF Placed, Restart
<1>2. DOMAIN conn' = {} /\ \A c \in Client : outbox'[c] = <<>>
  BY DEF Restart
<1>3. Range(<<>>) = {} /\ IsInjective(<<>>)
  BY DEF Range, IsInjective
<1>4. inCache' = {} /\ OnceCache'
  BY <1>2 DEF inCache, OnceCache
<1>5. inOutbox' = {} /\ OnceOutbox'
  BY <1>2, <1>3 DEF inOutbox, OnceOutbox, Request
<1>6. \A f \in DOMAIN conn : Unserved(f, Done(f)) = Range(rest[f]) \cup Range(outbox[conn[f].cl])
  BY DEF Unserved, rest
<1>7. \A f \in DOMAIN conn : /\ Range(rest[f]) \subseteq inCache
                             /\ Range(outbox[conn[f].cl]) \subseteq inOutbox
  <2>1. \A f \in DOMAIN conn : conn[f].cl \in Client
    BY DEF TypeInv, ConnOK, ConnType
  <2> QED BY <2>1, Apart DEF inCache, inOutbox
<1>8. ASSUME NEW r \in inOutbox PROVE \E f \in DOMAIN conn : r \in Range(outbox[conn[f].cl])
  <2>1. r.cl \in Client /\ r \in Range(outbox[r.cl])
    BY <1>8 DEF inOutbox, Request
  <2>2. outbox[r.cl] # <<>>
    BY <1>3, <2>1
  <2> QED BY <2>1, <2>2 DEF Connected
<1>9. \A r \in inCache : \E f \in DOMAIN conn : r \in Range(rest[f])
  BY DEF inCache
<1>10. \A r : r \in dropped' <=> r \in dropped \/ \E f \in DOMAIN conn : r \in Unserved(f, Done(f))
  BY DEF Restart, dropped
<1>11. \A r : r \in dropped' <=> r \in dropped \/ r \in inCache \/ r \in inOutbox
  BY <1>6, <1>7, <1>8, <1>9, <1>10
<1>12. dropped' = dropped \cup inOutbox \cup inCache
  BY <1>11
<1>13. OnePlace'
  BY <1>1, <1>4, <1>5, <1>12, GivenUp DEF Placed, Restart
<1> QED BY <1>1, <1>4, <1>5, <1>13 DEF Placed

\* A worker takes messages from its ring.
LEMMA PollPlaces ==
    ASSUME TypeInv, OwnInput, Placed, NEW w \in Proc, Poll(w)
    PROVE  Placed'
<1>1. UNCHANGED <<conn, cur, outbox, sent>>
  BY DEF Poll
<1>2. rest' = rest
  BY <1>1, RestSame
<1>3. /\ OnceCache' /\ inCache' = inCache
      /\ OnceOutbox' /\ inOutbox' = inOutbox
  BY <1>1, <1>2 DEF Placed, OnceCache, inCache, OnceOutbox, inOutbox
<1>4. /\ OnceRing'
      /\ \E old \in SUBSET inReq :
           /\ dropped' = dropped \cup old
           /\ \/ handled' = handled /\ inReq' = inReq \ old
              \/ \E r \in inReq \ old :
                   /\ r \in Request /\ handled' = [handled EXCEPT ![r] = handled[r] + 1]
                   /\ inReq' = inReq \ (old \cup {r})
  BY PollRings DEF Placed
<1>5. OnePlace'
  <2> SUFFICES ASSUME NEW x \in Request PROVE Kinds(x)' = One(x \in sent)'
    BY DEF OnePlace
  <2>1. Kinds(x) = One(x \in sent) /\ handled[x] \in Nat /\ handled \in [Request -> Nat]
    BY DEF Placed, OnePlace, TypeInv, ClientOK
  <2>2. PICK old \in SUBSET inReq :
          /\ dropped' = dropped \cup old
          /\ \/ handled' = handled /\ inReq' = inReq \ old
             \/ \E r \in inReq \ old :
                  /\ r \in Request /\ handled' = [handled EXCEPT ![r] = handled[r] + 1]
                  /\ inReq' = inReq \ (old \cup {r})
    BY <1>4
  <2>3. CASE handled' = handled /\ inReq' = inReq \ old
    BY <1>1, <1>3, <2>1, <2>2, <2>3 DEF Kinds, One
  <2>4. CASE \E r \in inReq \ old :
               /\ r \in Request /\ handled' = [handled EXCEPT ![r] = handled[r] + 1]
               /\ inReq' = inReq \ (old \cup {r})
    <3>1. PICK r \in inReq \ old :
            /\ r \in Request /\ handled' = [handled EXCEPT ![r] = handled[r] + 1]
            /\ inReq' = inReq \ (old \cup {r})
      BY <2>4
    <3>2. handled'[x] = IF x = r THEN handled[x] + 1 ELSE handled[x]
      BY <2>1, <3>1
    <3> QED BY <1>1, <1>3, <2>1, <2>2, <3>1, <3>2 DEF Kinds, One
  <2> QED BY <2>2, <2>3, <2>4
<1> QED BY <1>3, <1>4, <1>5 DEF Placed

\* ator_recvdata returns: what it has dealt with in this turn is given up.
LEMMA ReturnPlaces ==
    ASSUME TypeInv, RingsOK', OwnInput, Placed, cur # None,
           NEW n \in Nat, cur.processed <= n, n <= cur.total, Return(n),
           dropped' = dropped \cup Range(SubSeq(rest[cur.flow], 1, n - cur.processed)),
           UNCHANGED <<req, outbox, handled, sent>>
    PROVE  Placed'
<1>1. /\ cur.processed \in Nat /\ cur.total \in Nat /\ cur.flow \in DOMAIN conn
      /\ cur.total = Len(conn[cur.flow].cache) /\ Done(cur.flow) = cur.processed
  BY DEF TypeInv, CurOK, CurType, Done
<1>2. Len(rest[cur.flow]) = cur.total - cur.processed
  BY <1>1, RestType
<1>3. PICK m \in 0 .. Len(rest[cur.flow]) : m = n - cur.processed
  BY <1>1, <1>2
<1>4. rest' = [rest EXCEPT ![cur.flow] =
                 SubSeq(rest[cur.flow], m + 1, Len(rest[cur.flow]))]
  BY <1>3, RestReturn
<1>5. DOMAIN conn' = DOMAIN conn
  BY ReturnStep
<1> QED BY <1>3, <1>4, <1>5, SkipPlaces

\* The turns of ator_recvdata that end in a return.
LEMMA RecvPlacesEnd ==
    ASSUME TypeInv, RingsOK', OwnInput, Placed,
           \/ RecvEnd \/ RecvLong
           \/ /\ More /\ Return(cur.processed + 1) /\ dropped' = dropped \cup {Head1}
              /\ UNCHANGED <<req, outbox, handled, sent>>
    PROVE  Placed'
<1>1. /\ cur # None /\ cur.processed \in Nat /\ cur.total \in Nat /\ cur.flow \in DOMAIN conn
      /\ cur.processed <= cur.total
      /\ cur.total = Len(conn[cur.flow].cache) /\ Done(cur.flow) = cur.processed
  BY DEF TypeInv, CurOK, CurType, Done, RecvEnd, RecvLong, More
<1> DEFINE q == rest[cur.flow]
<1>2. q \in Seq(Request) /\ Len(q) = cur.total - cur.processed
  BY <1>1, RestType
<1>3. CASE RecvEnd
  <2>1. SubSeq(q, 1, 0) = <<>>
    BY <1>2, SubSeqEmpty
  <2>2. Range(<<>>) = {} /\ cur.processed - cur.processed = 0
    BY <1>1 DEF Range
  <2>3. Range(SubSeq(q, 1, cur.processed - cur.processed)) = {}
    BY <2>1, <2>2
  <2>4. dropped' = dropped \cup Range(SubSeq(q, 1, cur.processed - cur.processed))
    BY <1>3, <2>3 DEF RecvEnd, dropped
  <2>5. Return(cur.processed) /\ UNCHANGED <<req, outbox, handled, sent>>
    BY <1>3 DEF RecvEnd
  <2> QED BY <1>1, <2>4, <2>5, ReturnPlaces
<1>4. CASE RecvLong
  <2>1. q = SubSeq(conn[cur.flow].cache, cur.processed + 1, cur.total)
    BY <1>1 DEF rest
  <2>2. SubSeq(q, 1, Len(q)) = q
    BY <1>2, SubSeqFull
  <2>3. dropped' = dropped \cup Range(SubSeq(q, 1, cur.total - cur.processed))
    BY <1>2, <1>4, <2>1, <2>2 DEF RecvLong, dropped
  <2>4. Return(cur.total) /\ UNCHANGED <<req, outbox, handled, sent>>
    BY <1>4 DEF RecvLong
  <2> QED BY <1>1, <2>3, <2>4, ReturnPlaces
<1>5. CASE /\ More /\ Return(cur.processed + 1) /\ dropped' = dropped \cup {Head1}
           /\ UNCHANGED <<req, outbox, handled, sent>>
  <2>1. PICK n \in Nat : n = cur.processed + 1
    BY <1>1
  <2>2. cur.processed <= n /\ n <= cur.total /\ n - cur.processed = 1
    BY <1>1, <1>5, <2>1 DEF More
  <2>3. Range(SubSeq(q, 1, 1)) = {Head1}
    BY <1>5, HeadRest DEF Placed
  <2>4. dropped' = dropped \cup Range(SubSeq(q, 1, n - cur.processed))
    BY <1>5, <2>2, <2>3
  <2>5. Return(n)
    BY <1>5, <2>1
  <2> QED BY <1>1, <1>5, <2>2, <2>4, <2>5, ReturnPlaces
<1> QED BY <1>3, <1>4, <1>5

\* The request could not be put in a ring, and ator_recvdata goes on.
LEMMA RecvPlacesOn ==
    ASSUME TypeInv, RingsOK', OwnInput, Placed, More,
           conn' = conn, cur' = [cur EXCEPT !.processed = cur.processed + 1],
           dropped' = dropped \cup {Head1}, UNCHANGED <<req, outbox, handled, sent>>
    PROVE  Placed'
<1> DEFINE q == rest[cur.flow]
<1>1. 1 \in 0 .. Len(q) /\ Range(SubSeq(q, 1, 1)) = {Head1}
  BY HeadRest DEF Placed
<1>2. rest' = [rest EXCEPT ![cur.flow] = SubSeq(q, 1 + 1, Len(q))]
  BY RestNext
<1>3. cur # None /\ dropped' = dropped \cup Range(SubSeq(q, 1, 1))
  BY <1>1 DEF More
<1> QED BY <1>1, <1>2, <1>3, SkipPlaces

\* No step of a worker that is not a poll touches a request.
LEMMA UntouchedPlaces ==
    ASSUME TypeInv, RingsOK', Placed,
           UNCHANGED <<req, conn, cur, outbox, dropped, handled, sent>>
    PROVE  Placed'
<1>1. rest' = rest
  BY RestSame
<1>2. OnceCache' /\ inCache' = inCache
  BY <1>1 DEF Placed, OnceCache, inCache
<1> QED BY <1>2, SamePlaces

\* Every step leaves every request in one place.
LEMMA PlacedStep == TypeInv /\ OwnInput /\ PlaceInv /\ [Next]_vars => Placed'
<1> SUFFICES ASSUME TypeInv, OwnInput, PlaceInv, [Next]_vars PROVE Placed'
  OBVIOUS
<1> USE DEF PlaceInv
<1>0. RingsOK'
  BY RingsStep
<1>1. CASE ProxyNext /\ UNCHANGED workerVars
  <2>0. UNCHANGED gone
    BY <1>1 DEF workerVars
  <2>1. ASSUME NEW c \in Client, Accept(c) PROVE Placed'
    BY <1>0, <2>0, <2>1, AcceptPlaces
  <2>2. ASSUME NEW c \in Client, Sends(c) PROVE Placed'
    BY <1>0, <2>2, SendPlaces
  <2>3. ASSUME NEW f \in DOMAIN conn, Recv(f) PROVE Placed'
    BY <1>0, <2>3, RecvPlaces
  <2>4. ASSUME NEW f \in DOMAIN conn, Leave(f, "disconnect") \/ Leave(f, "timeout") PROVE Placed'
    <3>1. Close(f) /\ cur = None /\ cur' = None /\ UNCHANGED <<handled, sent, unkept>>
      BY <2>4 DEF Leave
    <3>2. \A g \in Group : Extended(g)
      BY <2>0, <2>4, EventStep
    <3> QED BY <1>0, <3>1, <3>2, ClosePlaces
  <2>5. CASE RecvEnd \/ RecvLong
    BY <1>0, <2>5, RecvPlacesEnd
  <2>6. CASE RecvBad
    <3>1. PICK f \in DOMAIN conn : f = cur.flow
      BY <2>6, Head1Type DEF RecvBad
    <3> QED BY <1>0, <2>6, <3>1, ClosePlaces DEF RecvBad
  <2>7. CASE RecvLocal
    BY <1>0, <2>7, LocalPlaces
  <2>8. CASE RecvNoRoute
    BY <1>0, <2>8, RecvPlacesEnd DEF RecvNoRoute, Counted, dropped
  <2>9. ASSUME NEW g \in Group, RecvForward(g) PROVE Placed'
    BY <1>0, <2>9, ForwardPlaces
  <2>10. ASSUME NEW g \in Group, RecvFull(g) PROVE Placed'
    <3>1. More /\ UNCHANGED <<req, handled, sent>>
      BY <2>10 DEF RecvFull
    <3>2. CASE Return(Counted(FALSE)) /\ unkept' = unkept \cup {Head1} /\ UNCHANGED <<lost, outbox, there>>
      <4>1. dropped' = dropped \cup {Head1}
        BY <3>2 DEF dropped
      <4> QED BY <1>0, <3>1, <3>2, <4>1, RecvPlacesEnd DEF Counted
    <3>3. CASE Close(cur.flow) /\ cur' = None /\ UNCHANGED unkept
      <4>1. PICK f \in DOMAIN conn : f = cur.flow
        BY <3>1, Head1Type
      <4> QED BY <1>0, <3>1, <3>3, <4>1, ClosePlaces
    <3>4. CASE /\ cur' = [cur EXCEPT !.processed = Counted(FALSE)]
               /\ lost' = lost \cup {Head1}
               /\ UNCHANGED <<conn, outbox, there, unkept>>
      <4>1. dropped' = dropped \cup {Head1}
        BY <3>4 DEF dropped
      <4> QED BY <1>0, <3>1, <3>4, <4>1, RecvPlacesOn DEF Counted
    <3> QED BY <2>10, <3>2, <3>3, <3>4 DEF RecvFull
  <2>11. ASSUME NEW g \in Group, Respond(g) PROVE Placed'
    <3>1. cur = None /\ UNCHANGED <<req, cur, sent, unkept, handled>>
      BY <2>11 DEF Respond
    <3>2. CASE UNCHANGED <<conn, lost, outbox>>
      <4>1. dropped' = dropped
        BY <3>1, <3>2 DEF dropped
      <4> QED BY <1>0, <3>1, <3>2, <4>1, UntouchedPlaces
    <3>3. ASSUME NEW f \in DOMAIN conn, Close(f) PROVE Placed'
      BY <1>0, <3>1, <3>3, ClosePlaces
    <3> QED BY <2>11, <3>2, <3>3 DEF Respond, Addressee
  <2>12. CASE Restart
    BY <1>0, <2>12, RestartPlaces
  <2> QED BY <1>1, <2>1, <2>2, <2>3, <2>4, <2>5, <2>6, <2>7, <2>8, <2>9, <2>10, <2>11, <2>12
          DEF ProxyNext
<1>2. ASSUME NEW w \in Proc, Poll(w) PROVE Placed'
  BY <1>2, PollPlaces
<1>3. ASSUME NEW w \in Proc, BackAnswer(w) \/ WorkerRestart(w) PROVE Placed'
  BY <1>0, <1>3, UntouchedPlaces DEF BackAnswer, WorkerRestart, proxyVars, dropped
<1>4. CASE UNCHANGED vars
  BY <1>0, <1>4, UntouchedPlaces DEF vars, proxyVars, dropped
<1> QED BY <1>1, <1>2, <1>3, <1>4 DEF Next, WorkerNext

\* The table loses a connection only with what its client has under way.
LEMMA ConnectedStep == TypeInv /\ OwnInput /\ Connected /\ [Next]_vars => Connected'
<1> SUFFICES ASSUME TypeInv, OwnInput, Connected, [Next]_vars PROVE Connected'
  OBVIOUS
<1>1. ASSUME UNCHANGED <<conn, outbox>> PROVE Connected'
  BY <1>1 DEF Connected
<1>2. ASSUME UNCHANGED outbox, DOMAIN conn \subseteq DOMAIN conn',
             \A k \in DOMAIN conn : conn'[k].cl = conn[k].cl
      PROVE  Connected'
  BY <1>2 DEF Connected
<1>3. ASSUME NEW f \in DOMAIN conn, Gone(f) PROVE Connected'
  <2>1. /\ DOMAIN conn' = DOMAIN conn \ {f}
        /\ \A k \in DOMAIN conn' : conn'[k] = conn[k]
        /\ \A c \in Client : outbox'[c] = IF c = conn[f].cl THEN <<>> ELSE outbox[c]
    BY <1>3, CloseStep
  <2> QED BY <2>1 DEF Connected
<1>4. ASSUME NEW n \in Nat, cur # None, Return(n), UNCHANGED outbox PROVE Connected'
  <2>1. DOMAIN conn' = DOMAIN conn /\ \A k \in DOMAIN conn : conn'[k].cl = conn[k].cl
    BY <1>4, ReturnStep
  <2> QED BY <1>2, <1>4, <2>1
<1>5. CASE ProxyNext /\ UNCHANGED workerVars
  <2>1. ASSUME NEW c \in Client, Accept(c) PROVE Connected'
    <3>1. DOMAIN conn \subseteq DOMAIN conn' /\ \A k \in DOMAIN conn : conn'[k] = conn[k]
      BY <2>1, RestAccept
    <3> QED BY <1>2, <2>1, <3>1 DEF Accept
  <2>2. ASSUME NEW c \in Client, Sends(c) PROVE Connected'
    <3>1. \A d \in Client : d # c => outbox'[d] = outbox[d]
      BY <2>2 DEF Sends, TypeInv, ClientOK
    <3>2. conn' = conn /\ \E f \in DOMAIN conn : conn[f].cl = c
      BY <2>2 DEF Sends
    <3> QED BY <3>1, <3>2 DEF Connected
  <2>3. ASSUME NEW f \in DOMAIN conn, Recv(f) PROVE Connected'
    <3>1. PICK c \in Client : c = conn[f].cl
      BY DEF TypeInv, ConnOK, ConnType
    <3>2. /\ DOMAIN conn' = DOMAIN conn /\ \A k \in DOMAIN conn : conn'[k].cl = conn[k].cl
          /\ \A d \in Client : d # c => outbox'[d] = outbox[d]
      BY <2>3, <3>1 DEF Recv, TypeInv, ConnOK, ConnType, ClientOK
    <3> QED BY <3>1, <3>2 DEF Connected
  <2>4. ASSUME NEW f \in DOMAIN conn, Close(f) PROVE Connected'
    BY <1>3, <2>4 DEF Close, Gone
  <2>5. CASE RecvEnd
    <3>1. cur.processed \in Nat /\ cur # None
      BY <2>5 DEF RecvEnd, TypeInv, CurOK, CurType
    <3> QED BY <1>4, <2>5, <3>1 DEF RecvEnd
  <2>6. ASSUME More PROVE /\ cur.flow \in DOMAIN conn /\ cur # None
                          /\ cur.processed + 1 \in Nat /\ cur.total \in Nat
    BY <2>6, Head1Type DEF CurType, More
  <2>7. CASE RecvBad
    BY <2>4, <2>6, <2>7 DEF RecvBad
  <2>8. CASE RecvLong
    BY <1>4, <2>6, <2>8 DEF RecvLong
  <2>9. CASE RecvLocal
    BY <1>1, <1>3, <2>6, <2>9 DEF RecvLocal, Gone
  <2>10. CASE RecvNoRoute
    BY <1>4, <2>6, <2>10 DEF RecvNoRoute, Counted
  <2>11. ASSUME NEW g \in Group, RecvForward(g) PROVE Connected'
    BY <1>1, <2>11 DEF RecvForward
  <2>12. ASSUME NEW g \in Group, RecvFull(g) PROVE Connected'
    BY <1>1, <1>4, <2>4, <2>6, <2>12 DEF RecvFull, Counted
  <2>13. ASSUME NEW g \in Group, Respond(g) PROVE Connected'
    BY <1>1, <2>4, <2>13 DEF Respond, Addressee
  <2>14. ASSUME NEW f \in DOMAIN conn, Leave(f, "disconnect") \/ Leave(f, "timeout")
         PROVE  Connected'
    BY <2>4, <2>14 DEF Leave
  <2>15. CASE Restart
    BY <2>15 DEF Restart, Connected
  <2> QED BY <1>5, <2>1, <2>2, <2>3, <2>5, <2>7, <2>8, <2>9, <2>10, <2>11, <2>12, <2>13,
             <2>14, <2>15 DEF ProxyNext
<1>6. ASSUME NEW w \in Proc, Poll(w) \/ BackAnswer(w) \/ WorkerRestart(w) PROVE Connected'
  BY <1>1, <1>6 DEF Poll, BackAnswer, WorkerRestart, proxyVars
<1>7. CASE UNCHANGED vars
  BY <1>1, <1>7 DEF vars, proxyVars
<1> QED BY <1>5, <1>6, <1>7 DEF Next, WorkerNext

\* Only Sends gives out numbers.
LEMMA NumberedStep == TypeInv /\ OwnInput /\ PlaceInv /\ [Next]_vars => Numbered'
<1> SUFFICES ASSUME TypeInv, OwnInput, PlaceInv, [Next]_vars PROVE Numbered'
  OBVIOUS
<1>1. CASE UNCHANGED sent
  BY <1>1 DEF PlaceInv, Numbered, OfClient
<1>2. ASSUME NEW c \in Client, Sends(c) PROVE Numbered'
  BY <1>2, RingsStep, SendPlaces DEF PlaceInv
<1>3. \/ UNCHANGED sent
      \/ \E c \in Client : Sends(c)
  BY DEF Next, ProxyNext, WorkerNext, Accept, Recv, Leave, RecvEnd, RecvBad, RecvLong, RecvLocal,
         RecvNoRoute, RecvForward, RecvFull, Respond, Restart, Poll, BackAnswer, WorkerRestart,
         vars, proxyVars
<1> QED BY <1>1, <1>2, <1>3

\* Neither an event nor a request is put in a ring that is full.
LEMMA BoundedStep == TypeInv /\ Bounded /\ [Next]_vars => Bounded'
<1> SUFFICES ASSUME TypeInv, Bounded, [Next]_vars PROVE Bounded'
  OBVIOUS
<1>1. RingLen \in Nat /\ req \in [Group -> Seq(Message)] /\ life \in Nat /\ flow \in Nat
  BY PipeAssumption DEF TypeInv, RingsOK, ConnOK
<1>2. CASE req' = req
  BY <1>2 DEF Bounded
<1>3. ASSUME NEW q \in Seq(Message), NEW m, Len(q) <= RingLen PROVE Len(Put(q, m)) <= RingLen
  BY <1>1, <1>3 DEF Put, Full
<1>4. ASSUME NEW rings \in [Group -> Seq(Message)], NEW f, NEW type, NEW r,
             \A g \in Group : Len(rings[g]) <= RingLen
      PROVE  \A g \in Group : Len(Routed(rings, f, type, r)[g]) <= RingLen
  BY <1>3, <1>4 DEF Routed
<1>5. ASSUME NEW f \in DOMAIN conn, Leave(f, "disconnect") \/ Leave(f, "timeout") PROVE Bounded'
  <2>1. PICK type, r : req' = Routed(req, f, type, r)
    BY <1>5 DEF Leave
  <2> QED BY <1>1, <1>4, <2>1 DEF Bounded
<1>6. ASSUME NEW c \in Client, Accept(c) PROVE Bounded'
  <2>1. ASSUME NEW r \in EventRoute, req' = Routed(req, flow + 1, "connected", r) PROVE Bounded'
    BY <1>1, <1>4, <2>1 DEF Bounded
  <2>2. ASSUME NEW r1 \in EventRoute, NEW r2 \in EventRoute,
               req' = Routed(Routed(req, flow + 1, "connected", r1), 0, "overload", r2)
        PROVE  Bounded'
    <3> DEFINE type == "connected"
               mid == Routed(req, flow + 1, type, r1)
    <3>1. type \in EventType /\ flow + 1 \in Nat
      BY <1>1 DEF EventType
    <3> HIDE DEF type
    <3>2. \A g \in Group : mid[g] \in Seq(Message)
      BY <1>1, <3>1, RoutedElements
    <3>3. mid \in [Group -> Seq(Message)]
      BY <3>2 DEF Routed
    <3>4. \A g \in Group : Len(mid[g]) <= RingLen
      BY <1>1, <1>4 DEF Bounded
    <3>5. req' = Routed(mid, 0, "overload", r2)
      BY <2>2 DEF type
    <3> HIDE DEF mid
    <3> QED BY <1>4, <3>3, <3>4, <3>5 DEF Bounded
  <2> QED BY <1>2, <1>6, <2>1, <2>2 DEF Accept
<1>7. ASSUME NEW g \in Group, RecvForward(g) PROVE Bounded'
  <2>1. PICK m : req' = [req EXCEPT ![g] = Append(req[g], m)]
    BY <1>7 DEF RecvForward
  <2>2. Len(req[g]) < RingLen /\ Len(req[g]) \in Nat
    BY <1>1, <1>7 DEF RecvForward, Full
  <2>3. Len(Append(req[g], m)) <= RingLen
    BY <1>1, <2>2
  <2> QED BY <1>1, <2>1, <2>3 DEF Bounded
<1>8. ASSUME NEW w \in Proc, Poll(w) PROVE Bounded'
  <2> DEFINE g == w.group
             q == req[g]
  <2>1. PICK n \in 0 .. Len(q) : g \in Group /\ req' = [req EXCEPT ![g] = SubSeq(q, n + 2, Len(q))]
    BY <1>8, PollStep
  <2>2. q \in Seq(Message) /\ Len(q) <= RingLen
    BY <1>1, <2>1 DEF Bounded
  <2>3. PICK k \in Nat : k = n + 1
    OBVIOUS
  <2>4. k + 1 = n + 2 /\ Len(SubSeq(q, k + 1, Len(q))) <= Len(q)
    <3> HIDE DEF q
    <3>1. Len(SubSeq(q, k + 1, Len(q))) = IF k <= Len(q) THEN Len(q) - k ELSE 0
      BY <2>2, DropElements
    <3> QED BY <2>2, <2>3, <3>1
  <2>5. Len(SubSeq(q, n + 2, Len(q))) <= RingLen
    BY <1>1, <2>2, <2>3, <2>4
  <2> QED BY <1>1, <2>1, <2>5 DEF Bounded
<1>9. \/ req' = req
      \/ \E c \in Client : Accept(c)
      \/ \E f \in DOMAIN conn : Leave(f, "disconnect") \/ Leave(f, "timeout")
      \/ \E g \in Group : RecvForward(g)
      \/ \E w \in Proc : Poll(w)
  BY DEF Next, ProxyNext, WorkerNext, Sends, Recv, RecvEnd, RecvBad, RecvLong, RecvLocal,
         RecvNoRoute, RecvFull, Respond, Restart, BackAnswer, WorkerRestart, vars
<1> QED BY <1>2, <1>5, <1>6, <1>7, <1>8, <1>9

\* A place is a connection, or a position in a ring; of either there is one at most.
LEMMA SinglePlaces ==
    ASSUME TypeInv, OwnInput, PlaceInv, NEW r \in Request
    PROVE  /\ Cardinality(Waiting(r)) = One(r \in inCache)
           /\ Cardinality(InRing(r)) = One(r \in inReq)
<1>1. Waiting(r) = {f \in DOMAIN conn : r \in Range(rest[f])}
  BY DEF Waiting, rest
<1>2. \A f, k \in Waiting(r) : f = k
  BY <1>1, Apart
<1>3. r \in inCache <=> Waiting(r) # {}
  BY <1>1 DEF inCache
<1>4. Cardinality(Waiting(r)) = One(r \in inCache)
  <2>1. CASE r \in inCache
    <3>1. PICK f : Waiting(r) = {f}
      BY <1>2, <1>3, <2>1
    <3> QED BY <2>1, <3>1, FS_Singleton DEF One
  <2>2. CASE r \notin inCache
    BY <1>3, <2>2, FS_EmptySet DEF One
  <2> QED BY <2>1, <2>2
<1>5. \A p \in InRing(r) : /\ p[1] \in Group /\ p[2] \in 1 .. Len(req[p[1]]) /\ p = <<p[1], p[2]>>
                           /\ req[p[1]][p[2]].type = "data" /\ req[p[1]][p[2]].body = r
                           /\ r \in data[p[1]]
  BY DEF InRing, data, DataIn, TypeInv, RingsOK
<1>6. ASSUME NEW p \in InRing(r), NEW s \in InRing(r) PROVE p = s
  <2>1. p[1] = s[1]
    BY <1>5 DEF PlaceInv, Placed, OnceRing
  <2>2. p[2] = s[2]
    BY <1>5, <2>1 DEF PlaceInv, Placed, OnceRing, DataOnce
  <2> QED BY <1>5, <2>1, <2>2
<1>7. ASSUME r \in inReq PROVE InRing(r) # {}
  <2>1. PICK g \in Group : r \in data[g]
    BY <1>7 DEF inReq
  <2>2. PICK i \in 1 .. Len(req[g]) : req[g][i].type = "data" /\ req[g][i].body = r
    BY <2>1 DEF data, DataIn
  <2>3. i \in 1 .. RingLen
    BY PipeAssumption DEF PlaceInv, Bounded, TypeInv, RingsOK
  <2>4. <<g, i>> \in InRing(r)
    BY <2>2, <2>3 DEF InRing
  <2> QED BY <2>4
<1>8. InRing(r) # {} => r \in inReq
  BY <1>5 DEF inReq
<1>9. Cardinality(InRing(r)) = One(r \in inReq)
  <2>1. CASE r \in inReq
    <3>1. PICK p : InRing(r) = {p}
      BY <1>6, <1>7, <2>1
    <3> QED BY <2>1, <3>1, FS_Singleton DEF One
  <2>2. CASE r \notin inReq
    BY <1>8, <2>2, FS_EmptySet DEF One
  <2> QED BY <2>1, <2>2
<1> QED BY <1>4, <1>9

\* At the start no request has been sent, and the rings are empty.
LEMMA PlaceInit == Init => PlaceInv
<1> SUFFICES ASSUME Init PROVE PlaceInv
  OBVIOUS
<1> USE DEF Init, PipeInit, ProxyInit
<1>1. Range(<<>>) = {} /\ IsInjective(<<>>) /\ DOMAIN conn = {}
  BY DEF Range, IsInjective
<1>2. inOutbox = {} /\ OnceOutbox
  BY <1>1 DEF inOutbox, OnceOutbox, Request
<1>3. inCache = {} /\ OnceCache
  BY <1>1 DEF inCache, OnceCache
<1>4. \A g \in Group : Len(req[g]) = 0
  OBVIOUS
<1>5. \A g \in Group : data[g] = {} /\ DataOnce(req[g])
  BY <1>4 DEF data, DataIn, DataOnce
<1>6. inReq = {} /\ OnceRing
  BY <1>5 DEF inReq, OnceRing
<1>7. OnePlace
  BY <1>2, <1>3, <1>6 DEF OnePlace, Kinds, One, dropped
<1>8. Connected /\ Numbered /\ Bounded
  BY <1>4, PipeAssumption DEF Connected, Numbered, Bounded
<1> QED BY <1>2, <1>3, <1>6, <1>7, <1>8 DEF PlaceInv, Placed

\* No request is lost from sight or doubled by the early ends of ator_recvdata, by
\* full rings, by the message timeout, or when the proxy dies: at any time it is
\* with its client, in one cache, in one ring, handled once, or given up; only one
\* that a full ring should have left in memory is in none of these places.
THEOREM RequestsAreInOnePlace == Spec => []EveryRequestOnce
<1>1. Init => OwnInput /\ PlaceInv
  BY PlaceInit DEF Init, ProxyInit, OwnInput
<1>2. TypeInv /\ OwnInput /\ PlaceInv /\ [Next]_vars => (OwnInput /\ PlaceInv)'
  BY InputStep, PlacedStep, ConnectedStep, NumberedStep, BoundedStep DEF PlaceInv
<1>3. TypeInv /\ OwnInput /\ PlaceInv => EveryRequestOnce
  <2> SUFFICES ASSUME TypeInv, OwnInput, PlaceInv, NEW r \in sent
                PROVE  Places(r) <= 1 /\ (Places(r) = 0 => r \in unkept)
    BY DEF EveryRequestOnce
  <2>1. r \in Request /\ handled[r] \in Nat
    BY DEF TypeInv, ClientOK
  <2>2. Kinds(r) = 1
    BY <2>1 DEF PlaceInv, Placed, OnePlace, One
  <2>3. (IF r \in Range(outbox[r.cl]) THEN 1 ELSE 0) = One(r \in inOutbox)
    BY <2>1 DEF inOutbox, One
  <2> DEFINE n == One(r \in inOutbox) + One(r \in inCache) + One(r \in inReq) + handled[r]
  <2>4. Places(r) = n + (IF r \in lost THEN 1 ELSE 0)
    BY <2>1, <2>3, SinglePlaces DEF Places
  <2>5. n + One(r \in dropped) = 1 /\ n \in Nat
    BY <2>1, <2>2 DEF Kinds, One
  <2> HIDE DEF n
  <2>6. CASE r \in lost
    BY <2>4, <2>5, <2>6 DEF One, dropped
  <2>7. CASE r \notin lost
    BY <2>4, <2>5, <2>7 DEF One, dropped
  <2> QED BY <2>6, <2>7
<1>4. Spec => []TypeInv
  BY TypeCorrect
<1> QED BY <1>1, <1>2, <1>3, <1>4, PTL DEF Spec
=============================================================================
