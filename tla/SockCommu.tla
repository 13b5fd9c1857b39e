------------------------------ MODULE SockCommu ------------------------------
(***************************************************************************)
(* The socket communication component (CTSockCommu, sockcommu.cpp) of the  *)
(* proxy (it accepts clients) and of the worker (it connects to backends). *)
(* One thread polls: it takes a batch of epoll events and works it off,    *)
(* one event after the other, then closes the connections that expired.    *)
(* Connections are edge triggered, the listening sockets level triggered.  *)
(* An event carries the descriptor and the flow it was registered with,    *)
(* and may be stale by the time it is looked at: user code, inside a       *)
(* callback or between two polls, calls sendto for any flow it has heard   *)
(* of, whether or not that connection still exists.                        *)
(***************************************************************************)
EXTENDS ConnSet

CONSTANTS
    None,         \* no event in work
    LateFailure,  \* may a connection fail after addconn has taken it?
    MaxReq,       \* bound: units a peer sends
    MaxRsp,       \* bound: units sent, over all peers
    MaxFlow       \* bound: past it no datagram is reported to the loop

ASSUME LoopAssumption == /\ LateFailure \in BOOLEAN
                         /\ MaxReq \in Nat /\ MaxRsp \in Nat
                         /\ MaxFlow \in Nat
                         /\ None \notin [kind : {"listen", "bound", "conn"}, fd : Nat, flow : Nat,
                                        ev : SUBSET {"in", "out"}, len : Nat]

VARIABLES
    flow,       \* flow_
    pc,         \* where the thread is
    batch,      \* the epoll events not looked at yet
    cur,        \* the event in work
    asked,      \* the flow under which user code was given data of each peer
    bye,        \* how often CB_DISCONNECT or CB_TIMEOUT was called, by flow
    given       \* units passed to sendto for each peer while it was there

loopVars == <<pc, batch, cur>>
userVars == <<asked, bye, given>>
vars     == <<connVars, kernVars, flow, loopVars, userVars>>

ListenEvent  == [kind |-> "listen", fd |-> 0, flow |-> 0, ev |-> {"in"}, len |-> 0]
BoundEvent   == [kind |-> "bound",  fd |-> 0, flow |-> 0, ev |-> {"in"}, len |-> 0]
ConnEvent(d, f, ev) == [kind |-> "conn", fd |-> d, flow |-> f, ev |-> ev, len |-> 0]

Init == /\ ConnInit
        /\ flow = 0
        /\ pc = "wait" /\ batch = {} /\ cur = None
        /\ asked = [s \in Peer |-> 0]
        /\ bye = [f \in Flow |-> 0]
        /\ given = [s \in Peer |-> 0]

-----------------------------------------------------------------------------
(* poll: the batch                                                         *)

Waiting(S) == {s \in S : sock[s].st = "queued"}

\* epoll_wait.  A socket that was reset has an error event, with or without
\* EPOLLIN (those in `bare' without).
Wait ==
    /\ pc = "wait"
    /\ \E bare \in SUBSET {s \in ready : sock[s].peer = "rst"} :
         LET events(s) == EventsOf(sock[s], ep[s].out) \ (IF s \in bare THEN {"in", "out"} ELSE {})
             some == {s \in ready : events(s) # {} \/ s \in bare}
         IN  batch' = {ConnEvent(ep[s].fd, ep[s].flow, events(s)) : s \in some}
                        \cup (IF Waiting(Tcp) # {} THEN {ListenEvent} ELSE {})
                        \cup (IF Waiting(Udp) # {} /\ flow <= MaxFlow THEN {BoundEvent} ELSE {})
    /\ ready' = {}
    /\ pc' = "batch"
    /\ UNCHANGED <<connVars, fdtab, sock, ep, flow, cur, userVars>>

\* the event in work, or any of the batch
Events == IF cur # None THEN {cur} ELSE batch

Taken(e) == batch' = batch \ {e}

\* the thread is done with e
Finish(e) == Taken(e) /\ cur' = None /\ pc' = "batch"

\* ++flow_, never 0
NextFlow == IF (flow + 1) % FlowMod = 0 THEN 1 ELSE flow + 1

Queued(k, st) == [sock EXCEPT ![k].st = st]

\* handle_accept.  CB_CONNECTED is called with flow_ before addconn, which
\* may change it; a failed epoll add closes the descriptor and no more.
Accept(e) ==
    /\ pc = "batch" /\ e.kind = "listen"
    /\ Finish(e)
    /\ \E s \in Waiting(Tcp) :
         \/ /\ FreeFd = {}                                  \* accept fails
            /\ UNCHANGED <<connVars, kernVars, flow, userVars>>
         \/ /\ FreeFd # {}                                  \* CB_CONNECTED denies
            /\ flow' = NextFlow
            /\ CloseFds({}, {s}, sock)
            /\ UNCHANGED <<connVars, asked, bye, given>>
         \/ LET d == Min(FreeFd)
                a == AddConn(NextFlow)
            IN  /\ FreeFd # {}
                /\ flow' = a.flow
                /\ \/ /\ ~a.ok                              \* CB_OVERLOAD
                      /\ CloseFds({}, {s}, sock)
                      /\ UNCHANGED connVars
                   \/ /\ a.ok
                      /\ slots' = AddedSlot(a.flow, d, s)
                      /\ curconn' = curconn + 1
                      /\ sock' = Queued(s, "open")
                      /\ fdtab' = [fdtab EXCEPT ![d] = s]
                      /\ Watch(s, d, a.flow, FALSE, sock)
                   \/ /\ a.ok /\ LateFailure                \* epoll add fails
                      /\ slots' = AddedSlot(a.flow, d, s)
                      /\ curconn' = curconn + 1
                      /\ CloseFds({}, {s}, sock)
                /\ UNCHANGED <<asked, bye, given>>

\* handle_accept_udp: one datagram takes a slot until it is answered
AcceptUdp(e) ==
    LET a == AddConn(NextFlow)
    IN  /\ pc = "batch" /\ e.kind = "bound"
        /\ Taken(e) /\ cur' = None
        /\ flow' = a.flow
        /\ \/ /\ ~a.ok                                      \* CB_OVERLOAD
              /\ pc' = "batch"
              /\ UNCHANGED <<connVars, kernVars, userVars>>
           \/ /\ a.ok                                       \* nothing to receive
              /\ pc' = "batch"
              /\ UNCHANGED <<connVars, kernVars, userVars>>
           \/ \E s \in Waiting(Udp) :
                /\ a.ok
                /\ \/ /\ pc' = "batch"                      \* CB_CONNECTED denies
                      /\ CloseFds({}, {s}, sock)
                      /\ UNCHANGED <<connVars, asked>>
                   \/ /\ pc' = "recvudp"                    \* CB_RECVDATA
                      /\ slots' = [AddedSlot(a.flow, 0, s) EXCEPT
                                     ![SlotOf(a.flow)].r = Append(@, s)]
                      /\ curconn' = curconn + 1
                      /\ sock' = [Queued(s, "open") EXCEPT ![s].rx = 0]
                      /\ asked' = [asked EXCEPT ![s] = a.flow]
                      /\ UNCHANGED <<fdtab, ep, ready>>
                /\ UNCHANGED <<bye, given>>

\* CB_DISCONNECT or CB_TIMEOUT, called for every flow of F
Told(F) == bye' = [f \in Flow |-> IF f \in F /\ bye[f] < 2 THEN bye[f] + 1 ELSE bye[f]]

\* mutant of Abnormal: reported, not closed
Abnormal_NoClose(e) ==
    /\ pc = "batch" /\ e.kind = "conn" /\ e.ev = {}
    /\ Told({e.flow})
    /\ Finish(e)
    /\ UNCHANGED <<connVars, kernVars, flow, asked, given>>

\* an event with neither EPOLLIN nor EPOLLOUT
Abnormal(e) ==
    /\ pc = "batch" /\ e.kind = "conn" /\ e.ev = {}
    /\ CloseConn({e.flow}, slots, sock)
    /\ Told({e.flow})
    /\ Finish(e)
    /\ UNCHANGED <<flow, asked, given>>

\* EPOLLOUT: the rest of the event, if any, comes next
Writable(e) ==
    /\ pc = "batch" /\ e.kind = "conn" /\ "out" \in e.ev
    /\ Taken(e) /\ pc' = "batch"
    /\ cur' = IF "in" \in e.ev THEN [e EXCEPT !.ev = {"in"}] ELSE None
    /\ \/ /\ ~Found(e.flow)
          /\ UNCHANGED <<connVars, kernVars>>
       \/ /\ Found(e.flow)
          /\ LET c == slots[SlotOf(e.flow)]
             IN  \E o \in SendFromCache(c) :
                   LET kept == [Touched(e.flow) EXCEPT ![SlotOf(e.flow)].w = o.w]
                       sent == Pushed(c, o.out, o.w = <<>>)
                   IN  \/ /\ o.broken                       \* CB_SENDERROR
                          /\ CloseConn({e.flow}, slots, sock)
                       \/ /\ ~o.broken
                          /\ slots' = kept
                          /\ sock' = sent
                          /\ IF o.w = <<>>
                             THEN Watch(SockAt(e.fd), e.fd, e.flow, FALSE, sent)
                             ELSE UNCHANGED <<ep, ready>>
                          /\ UNCHANGED <<curconn, fdtab>>
    /\ UNCHANGED <<flow, userVars>>

\* EPOLLIN: one round of the loop around recv, up to the call of CB_RECVDATA
Recv(e) ==
    /\ pc = "batch" /\ e.kind = "conn" /\ e.ev = {"in"}
    /\ UNCHANGED <<flow, given>>
    /\ \/ /\ ~Found(e.flow)
          /\ Finish(e)
          /\ UNCHANGED <<connVars, kernVars, asked, bye>>
       \/ /\ Found(e.flow)
          /\ LET i == SlotOf(e.flow)
                 s == SockAt(slots[i].fd)
             IN  \/ /\ recv(s).close
                    /\ CloseConn({e.flow}, slots, sock)     \* CB_DISCONNECT
                    /\ Told({e.flow})
                    /\ Finish(e)
                    /\ UNCHANGED asked
                 \/ /\ recv(s).again
                    /\ slots' = Touched(e.flow)
                    /\ Finish(e)
                    /\ UNCHANGED <<curconn, kernVars, asked, bye>>
                 \/ /\ recv(s).len # {}
                    /\ \/ /\ CloseConn({e.flow}, slots, sock)   \* out of memory
                          /\ Told({e.flow})
                          /\ Finish(e)
                          /\ UNCHANGED asked
                       \/ \E n \in recv(s).len :
                            LET r == slots[i].r \o [j \in 1 .. n |-> s]
                            IN  /\ slots' = [Touched(e.flow) EXCEPT ![i].r = r]
                                /\ sock' = [sock EXCEPT ![s].rx = @ - n]
                                /\ asked' = [asked EXCEPT ![s] = e.flow]
                                /\ Taken(e)
                                /\ cur' = [e EXCEPT !.len = Len(r)]
                                /\ pc' = "recvdata"
                                /\ UNCHANGED <<curconn, fdtab, ep, ready, bye>>

\* mutant of RecvReturns: after one complete packet the loop is left
RecvReturns_Once ==
    /\ pc = "recvdata"
    /\ \E n \in 0 .. cur.len :
         slots' = [slots EXCEPT ![SlotOf(cur.flow)].r = Drop(@, n)]
    /\ Finish(cur)
    /\ UNCHANGED <<curconn, kernVars, flow, userVars>>

\* CB_RECVDATA returns: the length it has understood, 0 for none, or that
\* the data is wrong.  The slot is the one looked up before the call.
RecvReturns ==
    /\ pc = "recvdata"
    /\ \/ /\ CloseConn({cur.flow}, slots, sock)
          /\ Finish(cur)
       \/ \E n \in 0 .. cur.len :
            /\ slots' = [slots EXCEPT ![SlotOf(cur.flow)].r = Drop(@, n)]
            /\ cur' = [cur EXCEPT !.len = 0]
            /\ pc' = "batch"
            /\ UNCHANGED <<curconn, kernVars, batch>>
    /\ UNCHANGED <<flow, userVars>>

UdpReturns ==
    /\ pc = "recvudp"
    /\ pc' = "batch"
    /\ UNCHANGED <<connVars, kernVars, flow, batch, cur, userVars>>

\* check_expire at the end of poll, when its interval is over and when not
CheckExpire ==
    /\ pc = "batch" /\ batch = {} /\ cur = None
    /\ pc' = "wait"
    /\ \/ UNCHANGED <<connVars, kernVars, bye>>
       \/ CloseConn(Expired, slots, sock) /\ Told(Expired)
    /\ UNCHANGED <<flow, batch, cur, asked, given>>

-----------------------------------------------------------------------------
(* User code                                                               *)

Calling == pc \in {"wait", "recvdata", "recvudp"}

\* sendto with a blob of length 0
SendClose(s) ==
    /\ Calling /\ asked[s] # 0
    /\ CloseConn({asked[s]}, slots, sock)
    /\ UNCHANGED <<flow, loopVars, userVars>>

\* sendto with n units
SendTo(s, n) ==
    LET f == asked[s]
        i == SlotOf(f)
        c == slots[i]
        data == [k \in 1 .. n |-> <<s, given[s] + k>>]
    IN  /\ Calling /\ f # 0 /\ SumFunction(given) + n <= MaxRsp
        /\ \/ /\ ~Found(f)
              /\ UNCHANGED <<connVars, kernVars, given>>
           \/ /\ Found(f)
              /\ given' = [given EXCEPT ![s] = @ + n]
              /\ \E o \in Send(c, data) :
                   LET kept == [Touched(f) EXCEPT ![i].w = o.w]
                       sent == Pushed(c, o.out, o.w = <<>>)
                   IN  \/ /\ o.broken \/ c.udp
                          /\ CloseConn({f}, kept, sent)
                       \/ /\ ~o.broken /\ ~c.udp
                          /\ slots' = kept
                          /\ sock' = sent
                          /\ Watch(SockAt(c.fd), c.fd, f, o.ret < n, sent)
                          /\ UNCHANGED <<curconn, fdtab>>
        /\ UNCHANGED <<flow, loopVars, asked, bye>>

\* connect to a backend.  The socket is not writable until it is connected.
Connect(s) ==
    LET d == Min(FreeFd)
        a == AddConn(NextFlow)
        opened == [sock EXCEPT ![s].st = "open", ![s].full = TRUE]
    IN  /\ Calling /\ sock[s].st = "new" /\ FreeFd # {}
        /\ flow' = a.flow
        /\ \/ /\ ~a.ok                                      \* CB_OVERLOAD
              /\ CloseFds({}, {s}, sock)
              /\ UNCHANGED <<connVars, asked>>
           \/ /\ a.ok                                       \* CB_CONNECT, CB_CONNECTED
              /\ slots' = AddedSlot(a.flow, d, s)
              /\ curconn' = curconn + 1
              /\ sock' = opened
              /\ fdtab' = [fdtab EXCEPT ![d] = s]
              /\ Watch(s, d, a.flow, FALSE, opened)
              /\ asked' = [asked EXCEPT ![s] = a.flow]
           \/ /\ a.ok /\ LateFailure                        \* epoll add fails
              /\ slots' = AddedSlot(a.flow, d, s)
              /\ curconn' = curconn + 1
              /\ CloseFds({}, {s}, sock)
              /\ UNCHANGED asked
        /\ UNCHANGED <<loopVars, bye, given>>

-----------------------------------------------------------------------------
(* The other end of the sockets, and time                                  *)

Changed(s, k, wake) ==
    /\ sock' = [sock EXCEPT ![s] = k]
    /\ ready' = IF wake /\ ep[s].on THEN ready \cup {s} ELSE ready
    /\ UNCHANGED <<connVars, fdtab, ep, flow, loopVars, userVars>>

Alive(s) == sock[s].st \in {"queued", "open"} /\ sock[s].peer # "rst"

PeerConnects(s) == /\ sock[s].st = "new"
                   /\ Changed(s, [sock[s] EXCEPT !.st = "queued",
                                                 !.rx = IF s \in Udp THEN 1 ELSE 0], FALSE)

PeerSends(s) == /\ Alive(s) /\ sock[s].peer = "up" /\ sock[s].sent < MaxReq
                /\ Changed(s, [sock[s] EXCEPT !.rx = @ + 1, !.sent = @ + 1], TRUE)

PeerCloses(s) == /\ Alive(s) /\ sock[s].peer = "up"
                 /\ Changed(s, [sock[s] EXCEPT !.peer = "fin"], TRUE)

PeerResets(s) == /\ Alive(s)
                 /\ Changed(s, [sock[s] EXCEPT !.peer = "rst", !.rx = 0, !.full = FALSE], TRUE)

\* there is room in the socket again (or it is connected)
PeerReads(s) == /\ Alive(s) /\ sock[s].full
                /\ Changed(s, [sock[s] EXCEPT !.full = FALSE], ep[s].out)

\* the last access to a connection becomes older than expiretime_
Ages(i) == /\ pc = "wait" /\ slots[i].flow # 0 /\ ~slots[i].idle
           /\ slots' = [slots EXCEPT ![i].idle = TRUE]
           /\ UNCHANGED <<curconn, kernVars, flow, loopVars, userVars>>

-----------------------------------------------------------------------------
Program == \/ Wait
           \/ \E e \in Events : Accept(e)
           \/ \E e \in Events : AcceptUdp(e)
           \/ \E e \in Events : Abnormal(e)
           \/ \E e \in Events : Writable(e)
           \/ \E e \in Events : Recv(e)
           \/ RecvReturns \/ UdpReturns
           \/ CheckExpire

User == \/ \E s \in Peer : SendClose(s) \/ \E n \in 1 .. MaxRsp : SendTo(s, n)
        \/ \E s \in Back : Connect(s)

World == \/ \E s \in Tcp \cup Udp : PeerConnects(s)
         \/ \E s \in Tcp \cup Back : \/ PeerSends(s) \/ PeerCloses(s)
                                     \/ PeerResets(s) \/ PeerReads(s)
         \/ \E i \in Slot : Ages(i)

Next == Program \/ User \/ World

Spec == Init /\ [][Next]_vars

-----------------------------------------------------------------------------
(* Properties                                                              *)

\* Answers go to the peer that asked, in the order they were given to sendto
\* (send, sendfromcache, closeconn): what the kernel has taken for a peer is
\* a prefix of what was given for it, whatever was cached, expired, closed
\* and reused in between.
AnswersOwn == \A s \in Peer : \A k \in DOMAIN sock[s].got : sock[s].got[k] = <<s, k>>

\* The read cache of a connection (recv, closeconn) holds bytes of its own peer.
InputOwn == \A i \in Slot : slots[i].flow # 0 =>
              \A k \in DOMAIN slots[i].r : slots[i].r[k] = Target(slots[i])

\* Between two polls a registered connection with something to read is on the
\* ready list: the loop in poll has read an edge triggered socket empty.
NoInputStranded == pc = "wait" => \A s \in Peer :
                     ep[s].on /\ Readable(sock[s]) => s \in ready

\* Whenever bytes wait in the write cache of a connection (send, sendto), it
\* is registered for EPOLLOUT and the event comes: the socket is full, or
\* on the ready list, or its event is in the batch.
NoOutputStranded ==
    \A i \in Slot : slots[i].flow # 0 /\ slots[i].w # <<>> =>
      LET s == Target(slots[i])
      IN  /\ s # NoSock /\ ep[s].out
          /\ \/ sock[s].full \/ s \in ready
             \/ \E e \in batch \cup ({cur} \ {None}) :
                  e.kind = "conn" /\ e.flow = slots[i].flow /\ e.ev # {"in"}

\* Slots and descriptors belong to each other (addconn, closeconn): every open
\* connection has an open descriptor of its own, registered under its flow,
\* no descriptor is open without a connection, and curconn_ counts them.
DescriptorsOwned ==
    /\ \A i \in Slot : slots[i].flow # 0 /\ ~slots[i].udp =>
         LET s == SockAt(slots[i].fd)
         IN  s # NoSock /\ ep[s].on /\ ep[s].flow = slots[i].flow /\ ep[s].fd = slots[i].fd
    /\ \A d \in Fd : fdtab[d] # NoSock =>
         \E i \in Slot : slots[i].flow # 0 /\ ~slots[i].udp /\ slots[i].fd = d
    /\ curconn = Cardinality({i \in Slot : slots[i].flow # 0})

\* A connection is reported gone (CB_DISCONNECT, CB_TIMEOUT) at most once, and
\* once poll has returned the reported flow names no connection again.
GoneOnce == \A f \in Flow : /\ bye[f] < 2
                            /\ pc = "wait" /\ Found(f) => bye[f] = 0
=============================================================================
