------------------------------- MODULE ConnSet -------------------------------
(***************************************************************************)
(* The connection pool of a server process (CConnSet, connset.cpp) over    *)
(* the sockets of the kernel: an array of maxconn_ slots, where the        *)
(* connection named by `flow' lives in slot flow % maxconn_, each with the *)
(* bytes received and not yet understood (_r) and the bytes the kernel has *)
(* not yet taken (_w).  SockCommu drives it.                               *)
(*                                                                         *)
(* Data is counted in units; a unit of output is <<client, n>>, the n-th   *)
(* unit meant for that client.  The memory pool behind the two caches      *)
(* appears as an append that may throw.                                    *)
(***************************************************************************)
EXTENDS Integers, Sequences, FiniteSets, FiniteSetsExt, Functions

CONSTANTS
    Tcp,        \* clients that connect to a listening socket
    Udp,        \* clients that send one datagram to a bound UDP socket
    Back,       \* backends the process itself connects to
    NoSock,     \* no socket
    MaxConn,    \* maxconn_
    MaxFd,      \* the descriptors 1..MaxFd can be open at the same time
    FlowMod     \* flow_ is an unsigned int: 2^32

Peer == Tcp \cup Udp \cup Back

ASSUME SizeAssumption == /\ MaxConn \in Nat \ {0}
                         /\ MaxFd \in Nat \ {0}
                         /\ FlowMod \in Nat /\ FlowMod > MaxConn
ASSUME PeerAssumption == NoSock \notin Peer /\ Udp \cap (Tcp \cup Back) = {}

Slot == 0 .. MaxConn - 1
Fd   == 1 .. MaxFd
Flow == 0 .. FlowMod - 1

VARIABLES
    slots,      \* ccs_
    curconn,    \* curconn_
    fdtab,      \* the socket behind each descriptor of the process
    sock,       \* what the kernel keeps for each peer
    ep,         \* the epoll registration of each socket
    ready       \* the sockets on the epoll instance's ready list

connVars == <<slots, curconn>>
kernVars == <<fdtab, sock, ep, ready>>

\* ConnCache::ConnCache, and what closeconn leaves (the fd of a free slot
\* is not read any more)
FreeSlot == [flow |-> 0, fd |-> 0, udp |-> FALSE, addr |-> NoSock,
             idle |-> FALSE, r |-> <<>>, w |-> <<>>]

NotWatched == [on |-> FALSE, fd |-> 0, flow |-> 0, out |-> FALSE]

NewSock == [st |-> "new", rx |-> 0, sent |-> 0, peer |-> "up", full |-> FALSE,
            got |-> <<>>]

GoneSock(k) == [k EXCEPT !.st = "gone", !.rx = 0, !.sent = 0, !.peer = "fin",
                         !.full = FALSE]

ConnInit == /\ slots = [i \in Slot |-> FreeSlot]
            /\ curconn = 0
            /\ fdtab = [d \in Fd |-> NoSock]
            /\ sock = [s \in Peer |-> NewSock]
            /\ ep = [s \in Peer |-> NotWatched]
            /\ ready = {}

-----------------------------------------------------------------------------
(* Finding a connection                                                    *)

SlotOf(f) == f % MaxConn

\* mutant of Found: any connection of the slot will do
Found_AnyFlow(f) == f # 0 /\ slots[SlotOf(f)].flow # 0

\* the test at the head of fd, recv, send, sendfromcache and closeconn
Found(f) == f # 0 /\ slots[SlotOf(f)].flow = f

SockAt(d) == IF d \in Fd THEN fdtab[d] ELSE NoSock

\* where the bytes of a slot go: its descriptor, or for UDP its _addr
Target(c) == IF c.udp THEN c.addr ELSE SockAt(c.fd)

\* mutant of AddConn: the slot of the flow is taken as it is
AddConn_NoProbe(f) == [ok |-> TRUE, flow |-> f]

\* addconn tries flow, flow + 1, ..., flow + maxconn_ - 1 and leaves the flow
\* it stopped at in its reference argument, also when it fails
AddConn(f) ==
    LET free == {k \in 0 .. MaxConn - 1 :
                    slots[SlotOf((f + k) % FlowMod)].flow = 0}
    IN  [ok   |-> free # {},
         flow |-> (f + (IF free = {} THEN MaxConn ELSE Min(free))) % FlowMod]

\* what addconn writes: it relies on closeconn for empty caches
AddedSlot(f, d, s) ==
    [slots EXCEPT ![SlotOf(f)].flow = f, ![SlotOf(f)].fd = d,
                  ![SlotOf(f)].udp = s \in Udp,
                  ![SlotOf(f)].addr = IF s \in Udp THEN s ELSE NoSock,
                  ![SlotOf(f)].idle = FALSE]

Touched(f) == [slots EXCEPT ![SlotOf(f)].idle = FALSE]

-----------------------------------------------------------------------------
(* The kernel                                                              *)

FreeFd == {d \in Fd : fdtab[d] = NoSock}

\* Closing a descriptor also takes the socket out of epoll.  `over' are
\* conversations without a descriptor of their own that end with it.
CloseFds(ds, over, sk) ==
    LET closed == ({fdtab[d] : d \in ds} \ {NoSock}) \cup over
    IN  /\ fdtab' = [d \in Fd |-> IF d \in ds THEN NoSock ELSE fdtab[d]]
        /\ sock' = [s \in Peer |-> IF s \in closed THEN GoneSock(sk[s]) ELSE sk[s]]
        /\ ep' = [s \in Peer |-> IF s \in closed THEN NotWatched ELSE ep[s]]
        /\ ready' = ready \ closed

Readable(k) == k.rx > 0 \/ k.peer # "up"

\* CConnSet::recv of a connection over socket s: the lengths it may return,
\* or whether it may return -E_NEED_CLOSE, or returns -EAGAIN
recv(s) ==
    IF s = NoSock THEN [len |-> {}, close |-> TRUE, again |-> FALSE]
    ELSE LET k == sock[s]
         IN  [len   |-> IF k.peer = "rst" THEN {} ELSE 1 .. k.rx,
              close |-> k.peer = "rst" \/ (k.peer # "up" /\ k.rx = 0),
              again |-> ~Readable(k)]

\* the events a socket has, of those it is registered for
EventsOf(k, out) == (IF Readable(k) THEN {"in"} ELSE {})
                      \cup (IF out /\ ~k.full THEN {"out"} ELSE {})

\* mutant of Watch: never registered for EPOLLOUT
Watch_InOnly(s, d, f, out, sk) ==
    IF s \in Peer
    THEN /\ ep' = [ep EXCEPT ![s] = [on |-> TRUE, fd |-> d, flow |-> f, out |-> FALSE]]
         /\ ready' = IF Readable(sk[s]) THEN ready \cup {s} ELSE ready
    ELSE UNCHANGED <<ep, ready>>

\* epoll_ctl puts the socket on the ready list if it has an event by then
Watch(s, d, f, out, sk) ==
    IF s \in Peer
    THEN /\ ep' = [ep EXCEPT ![s] = [on |-> TRUE, fd |-> d, flow |-> f, out |-> out]]
         /\ ready' = IF EventsOf(sk[s], out) # {} THEN ready \cup {s} ELSE ready
    ELSE UNCHANGED <<ep, ready>>

\* How many of n units ::send takes, or that it fails.  A nonblocking socket
\* that takes less than it was given is full.  A datagram goes or does not.
KSend(c, n) ==
    LET s == Target(c)
        took(k) == [n |-> k, err |-> FALSE]
        failed  == [n |-> 0, err |-> TRUE]
    IN  IF c.udp THEN {took(0), took(n), failed}
        ELSE IF s = NoSock THEN {failed}
        ELSE IF sock[s].peer = "rst" THEN {failed}
        ELSE IF sock[s].full THEN {took(0)}
        ELSE {took(k) : k \in 0 .. n}

\* the kernel has taken `out' for the peer of slot c; `all' of what it was given
Pushed(c, out, all) ==
    IF Target(c) = NoSock THEN sock
    ELSE [sock EXCEPT ![Target(c)].got = @ \o out,
                      ![Target(c)].full = ~c.udp /\ ~all]

-----------------------------------------------------------------------------
(* The operations                                                          *)

\* the slots of `base' with a flow of F, and what their closing releases
Closing(F, base) == {i \in Slot : base[i].flow \in F \ {0}}

Release(gone, base, sk) ==
    CloseFds({base[i].fd : i \in {j \in gone : ~base[j].udp}},
             {base[i].addr : i \in {j \in gone : base[j].udp}}, sk)

\* mutant of CloseConn: the count is not decremented
CloseConn_Uncounted(F, base, sk) ==
    LET gone == Closing(F, base)
    IN  /\ slots' = [i \in Slot |-> IF i \in gone THEN FreeSlot ELSE base[i]]
        /\ Release(gone, base, sk)
        /\ UNCHANGED curconn

\* mutant of CloseConn: the caches are not emptied
CloseConn_KeepsCaches(F, base, sk) ==
    LET gone == Closing(F, base)
    IN  /\ slots' = [i \in Slot |-> IF i \in gone
                                    THEN [FreeSlot EXCEPT !.r = base[i].r, !.w = base[i].w]
                                    ELSE base[i]]
        /\ curconn' = curconn - Cardinality(gone)
        /\ Release(gone, base, sk)

\* closeconn for every flow of F; the slots and sockets are those of `base'
\* and `sk', which the caller may have changed before
CloseConn(F, base, sk) ==
    LET gone == Closing(F, base)
    IN  /\ slots' = [i \in Slot |-> IF i \in gone THEN FreeSlot ELSE base[i]]
        /\ curconn' = curconn - Cardinality(gone)
        /\ Release(gone, base, sk)

Outcome(out, rest, ret, broken) ==
    [out |-> out, w |-> rest, ret |-> ret, broken |-> broken]

\* what is not sent is appended to _w, which may throw
Kept(out, rest, ret) ==
    {Outcome(out, rest, ret, FALSE)}
      \cup (IF rest # <<>> THEN {Outcome(out, rest, ret, TRUE)} ELSE {})

Drop(q, n) == SubSeq(q, n + 1, Len(q))
Take(q, n) == SubSeq(q, 1, n)

\* mutant of Send: the new bytes do not wait for the cached ones
Send_NewFirst(c, data) ==
    UNION {IF b.err THEN {Outcome(<<>>, c.w, 0, TRUE)}
           ELSE Kept(Take(data, b.n), c.w \o Drop(data, b.n), b.n)
             : b \in KSend(c, Len(data))}

\* send: the cached bytes first, the new ones only when those are gone
Send(c, data) ==
    LET cached == IF c.w = <<>> THEN {[n |-> 0, err |-> FALSE]} ELSE KSend(c, Len(c.w))
        after(a) ==
            IF a.err THEN {Outcome(<<>>, c.w, 0, TRUE)}
            ELSE IF a.n < Len(c.w)
            THEN Kept(Take(c.w, a.n), Drop(c.w, a.n) \o data, 0)
            ELSE UNION {IF b.err THEN {Outcome(c.w, <<>>, 0, TRUE)}
                        ELSE Kept(c.w \o Take(data, b.n), Drop(data, b.n), b.n)
                          : b \in KSend(c, Len(data))}
    IN  UNION {after(a) : a \in cached}

\* sendfromcache: complete when `w' is empty, else to be continued
SendFromCache(c) ==
    IF c.w = <<>> THEN {Outcome(<<>>, <<>>, 0, FALSE)}
    ELSE {Outcome(Take(c.w, a.n), Drop(c.w, a.n), a.n, a.err) : a \in KSend(c, Len(c.w))}

\* the flows check_expire finds
Expired == {slots[i].flow : i \in {j \in Slot : slots[j].idle}} \ {0}
=============================================================================
